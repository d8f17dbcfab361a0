SPECIFICATION Spec
CONSTANTS
  MaxPayload = 3
  SendBuffer = 2
INVARIANTS OneOutstanding ReportsOneOutcome
PROPERTIES SendEnds NeverHangs OnlineAgain
