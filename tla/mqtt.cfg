SPECIFICATION Spec
CONSTANTS
  Hosts = {h1, h2}
  Unusable = Unusable
  MaxBatch = 2
  RetryMin = 2
  RetryMax = 7
INVARIANTS ConnectsToConfiguredHost StateTracksConnection PublishesInOrder
PROPERTIES SentMeansAcknowledged BatchEnds
