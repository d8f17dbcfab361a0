------------------------ MODULE FirmwareUpdateProofs ------------------------
(***************************************************************************)
(* What an update promises, proved of FirmwareUpdate for every set of      *)
(* files, every geometry of pages and sectors, every number of browsers    *)
(* and of upsets: the types, recovery, the refinement of FirmwareInstall,  *)
(* and what the writer and the word "uploaded" may be relied on for.       *)
(***************************************************************************)
EXTENDS FirmwareUpdate, TLAPS

(***************************************************************************)
(* Type correctness.  metadata is written from header, so the types are    *)
(* inductive only together with what the header is known to be while the   *)
(* upload is being finished; and the boot loader reads staging, so they    *)
(* also need the place it reads to lie inside the region.                  *)
(***************************************************************************)
UploadKnown ==
  /\ upload.header_valid => header \in Files \X Nat
  /\ handler \in {"last_page", "erase_metadata", "program_metadata"} =>
       upload.header_valid
  /\ \A b \in Browsers : browsers[b].open => browsers[b].file \in Files

\* The copy loop works on whole pages of whole sectors of the region.
BootPlace ==
  /\ pc \in {"erase", "program"} =>
       /\ ImageSize[target] <= RegionSize
       /\ \E s \in Nat : offset = s * SectorSize
       /\ offset < CopySize(target)
  /\ pc = "program" => /\ \E p \in Nat : page = p * PageSize
                       /\ page < SectorSize

TInv == TypeOK /\ UploadKnown /\ BootPlace

\* The flash operations make regions of regions.
LEMMA EraseType ==
  ASSUME NEW r \in Regions, NEW base \in Int
  PROVE  EraseSector(r, base) \in Regions
  BY DEF EraseSector, Regions, Units

\* An operation cut short leaves a region.
LEMMA TearType ==
  ASSUME NEW r \in Regions, NEW base \in Int, NEW size \in Int
  PROVE  TearRange(r, base, size) \in Regions
  BY DEF TearRange, Regions, Units

\* Programming a page leaves a region.
LEMMA ProgramType ==
  ASSUME NEW r \in Regions, NEW base \in Int, NEW p \in Seq(Units)
  PROVE  ProgramPage(r, base, p) \in Regions
<1>1. Erased \in Units /\ Torn \in Units
  BY DEF Units
<1>2. \A i \in Region : i - base < Len(p) /\ i \in base .. base + PageSize - 1
                           => p[i - base + 1] \in Units
  <2> SUFFICES ASSUME NEW i \in Region, i - base < Len(p),
                      i \in base .. base + PageSize - 1
               PROVE  p[i - base + 1] \in Units
    OBVIOUS
  <2>1. Len(p) \in Nat /\ i \in Int /\ PageSize \in Nat
    BY FlashAssumption DEF Region
  <2>2. i - base + 1 \in 1 .. Len(p)
    BY <2>1
  <2> QED
    BY <2>2
<1>3. \A old, new \in Units : Programmed(old, new) \in Units
  BY <1>1 DEF Programmed
<1> QED
  BY <1>1, <1>2, <1>3 DEF ProgramPage, Regions

\* Below a multiple of S there is room for a whole S (sectors in a region).
LEMMA NextMultiple ==
  ASSUME NEW S \in Nat \ {0}, NEW s \in Nat, NEW n \in Nat, s * S < n * S
  PROVE  s + 1 <= n /\ s * S + S <= n * S /\ (s + 1) * S = s * S + S
<1>1. s < n
  <2>1. ASSUME n <= s PROVE FALSE
    <3>1. PICK d \in Nat : s = n + d
      BY <2>1, s - n \in Nat
    <3>2. s * S = n * S + d * S /\ d * S \in Nat /\ n * S \in Nat
      BY <3>1
    <3> QED
      BY <3>2
  <2> QED
    BY <2>1
<1>2. PICK e \in Nat : n = s + 1 + e
  BY <1>1, n - s - 1 \in Nat
<1>3. n * S = s * S + S + e * S /\ e * S \in Nat /\ s * S \in Nat
  BY <1>2
<1> QED
  BY <1>1, <1>3

\* bootloader_round_up rounds to a multiple of the sector size, and never
\* past a multiple that was large enough already.
LEMMA CopySizeBound ==
  ASSUME NEW f \in Files, ImageSize[f] <= RegionSize
  PROVE  /\ CopySize(f) \in Nat
         /\ 0 < CopySize(f) /\ CopySize(f) <= RegionSize
         /\ \E n \in Nat : CopySize(f) = n * SectorSize
<1> DEFINE q == (ImageSize[f] + SectorSize - 1) \div SectorSize
<1>1. /\ SectorSize \in Nat \ {0} /\ ImageSize[f] \in Nat \ {0}
      /\ RegionSize \in Nat
  BY FlashAssumption
<1>2. PICK n \in 1 .. RegionSize : RegionSize = n * SectorSize
  BY FlashAssumption
<1>3. q \in Nat /\ q * SectorSize <= ImageSize[f] + SectorSize - 1
  BY <1>1
<1>8. 0 < q * SectorSize
  BY <1>1
<1>4. q <= n
  <2>1. ASSUME n + 1 <= q PROVE FALSE
    <3>1. PICK d \in Nat : q = n + 1 + d
      BY <1>3, <2>1, q - n - 1 \in Nat
    <3>2. q * SectorSize = n * SectorSize + SectorSize + d * SectorSize /\ d * SectorSize \in Nat
      BY <3>1, <1>1
    <3> QED
      BY <3>2, <1>1, <1>2, <1>3
  <2> QED
    BY <2>1, <1>3
<1>5. PICK d \in Nat : n = q + d
  BY <1>3, <1>4, n - q \in Nat
<1>6. n * SectorSize = q * SectorSize + d * SectorSize /\ d * SectorSize \in Nat
  BY <1>5, <1>3, <1>1
<1>7. q * SectorSize \in Nat /\ q * SectorSize <= RegionSize
  BY <1>6, <1>1, <1>2, <1>3
<1> QED
  BY <1>7, <1>3, <1>8 DEF CopySize

\* The typing invariant holds at first.
LEMMA TInvInit == Init => TInv
<1> SUFFICES ASSUME Init PROVE TInv
  OBVIOUS
<1>1. HeaderSize \in Nat /\ Factory \in Files
  BY FlashAssumption DEF HeaderSize
<1>2. FlashTypeOK
  BY <1>1 DEF Init, FlashTypeOK, Regions, Units, ManifestStates, Region
<1>3. BootTypeOK /\ BootPlace
  BY <1>1 DEF Init, BootInit, BootTypeOK, BootPcs, BootPlace
<1>4. UploadTypeOK /\ UploadKnown
  BY DEF Init, UploadInit, UploadTypeOK, NoRequest, NoUpload, NoBrowser, Units,
     Handlers, UploadKnown
<1> QED
  BY <1>2, <1>3, <1>4, UpdateAssumption DEF Init, TInv, TypeOK

\* The sector and the page the copy loop is about to write are in the region.
LEMMA CopyInRegion ==
  ASSUME BootTypeOK, BootPlace, pc \in {"erase", "program"}
  PROVE  /\ offset + SectorSize <= RegionSize
         /\ offset + SectorSize <= CopySize(target)
         /\ pc = "program" => page + PageSize <= SectorSize
         /\ \E s \in Nat : offset + SectorSize = s * SectorSize
         /\ pc = "program" => \E p \in Nat : page + PageSize = p * PageSize
<1>1. SectorSize \in Nat \ {0} /\ PageSize \in Nat \ {0} /\ RegionSize \in Nat
  BY FlashAssumption
<1>2. PICK s \in Nat : offset = s * SectorSize
  BY DEF BootPlace
<1>3. /\ target \in Files /\ ImageSize[target] <= RegionSize
      /\ offset < CopySize(target) /\ offset \in Nat /\ page \in Nat
  BY DEF BootPlace, BootTypeOK
<1>4. CopySize(target) \in Nat /\ CopySize(target) <= RegionSize
  BY <1>3, CopySizeBound
<1>5. PICK n \in Nat : CopySize(target) = n * SectorSize
  BY <1>3, CopySizeBound
<1>6. offset + SectorSize <= CopySize(target) /\ offset + SectorSize = (s + 1) * SectorSize
  BY <1>1, <1>2, <1>3, <1>5, NextMultiple
<1>7. ASSUME pc = "program"
      PROVE  page + PageSize <= SectorSize /\ \E p \in Nat : page + PageSize = p * PageSize
  <2>1. PICK p \in Nat : page = p * PageSize
    BY <1>7 DEF BootPlace
  <2>2. PICK m \in 1 .. SectorSize : SectorSize = m * PageSize
    BY FlashAssumption
  <2>3. m \in Nat /\ page < SectorSize
    BY <1>1, <1>7, <2>2 DEF BootPlace
  <2>4. page + PageSize <= SectorSize /\ page + PageSize = (p + 1) * PageSize
    BY <1>1, <2>1, <2>2, <2>3, NextMultiple
  <2> QED
    BY <2>4
<1>8. \E t \in Nat : offset + SectorSize = t * SectorSize
  BY <1>6, s + 1 \in Nat
<1>9. offset + SectorSize <= RegionSize
  BY <1>1, <1>3, <1>4, <1>6
<1> QED
  BY <1>6, <1>7, <1>8, <1>9

\* The boot loader keeps the types and its place in the copy loop.
LEMMA BootTypes ==
  ASSUME FlashTypeOK, BootTypeOK, BootPlace, BootStep \/ CopyProgramFault
  PROVE  FlashTypeOK' /\ BootTypeOK' /\ BootPlace'
<1>0. /\ SectorSize \in Nat \ {0} /\ PageSize \in Nat \ {0} /\ RegionSize \in Nat
      /\ Factory \in Files /\ ManifestStates = Files \cup {Erased, Torn}
  BY FlashAssumption DEF ManifestStates
<1>1. CASE TryApplyUpdate
  <2>1. FlashTypeOK' /\ BootTypeOK'
    BY <1>1 DEF TryApplyUpdate, ManifestIsValid, flash, FlashTypeOK, BootTypeOK, BootPcs
  <2>2. ASSUME pc' \in {"erase", "program"} PROVE BootPlace'
    <3>1. target' \in Files /\ ImageSize[target'] <= RegionSize /\ offset' = 0 /\ pc' = "erase"
      BY <1>1, <2>2 DEF TryApplyUpdate, ManifestIsValid
    <3>2. 0 < CopySize(target')
      BY <3>1, CopySizeBound
    <3>3. 0 = 0 * SectorSize
      BY <1>0
    <3>4. CopySize(target)' = CopySize(target')
      BY DEF CopySize
    <3> QED
      BY <3>1, <3>2, <3>3, <3>4 DEF BootPlace
  <2> QED
    BY <2>1, <2>2 DEF BootPlace
<1>2. CASE CopyEraseSector
  <2>1. EraseSector(active, offset) \in Regions
    BY EraseType DEF FlashTypeOK, BootTypeOK
  <2>2. FlashTypeOK' /\ BootTypeOK'
    BY <1>2, <2>1 DEF CopyEraseSector, FlashTypeOK, BootTypeOK, BootPcs
  <2>3. 0 = 0 * PageSize
    BY <1>0
  <2>4. CopySize(target)' = CopySize(target)
    BY <1>2 DEF CopyEraseSector, CopySize
  <2> QED
    BY <1>2, <1>0, <2>2, <2>3, <2>4 DEF CopyEraseSector, BootPlace
<1>3. ASSUME pc = "program", CopyAdvance, UNCHANGED target
      PROVE  BootTypeOK' /\ BootPlace'
  <2>1. CopySize(target)' = CopySize(target)
    BY <1>3 DEF CopySize
  <2>2. CASE page + PageSize < SectorSize
    BY <1>0, <1>3, <2>1, <2>2, CopyInRegion DEF CopyAdvance, BootTypeOK, BootPlace
  <2>3. CASE ~ (page + PageSize < SectorSize)
    <3>1. BootTypeOK'
      BY <1>0, <1>3, <2>3 DEF CopyAdvance, BootTypeOK, BootPcs
    <3>2. pc' = "erase" => offset' < CopySize(target)
      BY <1>3, <2>3 DEF CopyAdvance
    <3>3. \E s \in Nat : offset' = s * SectorSize
      BY <1>3, <2>3, CopyInRegion DEF CopyAdvance
    <3>4. pc' # "program" /\ ImageSize[target'] <= RegionSize
      BY <1>3, <2>3 DEF CopyAdvance, BootPlace
    <3> QED
      BY <2>1, <3>1, <3>2, <3>3, <3>4 DEF BootPlace
  <2> QED
    BY <2>2, <2>3
<1>4. CASE CopyProgramPage
  <2>1. SectorPage \in Seq(Units)
    <3>1. ASSUME NEW k \in 1 .. PageSize PROVE staging[offset + page + k - 1] \in Units
      <4>1. offset + page + k - 1 \in Region
        BY <1>0, <1>4, CopyInRegion DEF CopyProgramPage, BootTypeOK, Region
      <4> QED
        BY <4>1 DEF FlashTypeOK, Regions
    <3> QED
      BY <1>0, <3>1 DEF SectorPage
  <2>2. ProgramPage(active, offset + page, SectorPage) \in Regions
    BY <2>1, ProgramType DEF FlashTypeOK, BootTypeOK
  <2> QED
    BY <1>3, <1>4, <2>2 DEF CopyProgramPage, FlashTypeOK
<1>5. CASE CopyProgramFault
  <2>1. TearRange(active, offset + page, PageSize) \in Regions
    BY <1>0, TearType DEF FlashTypeOK, BootTypeOK
  <2> QED
    BY <1>3, <1>5, <2>1 DEF CopyProgramFault, FlashTypeOK
<1>6. CASE VerifyCopy \/ ClearUpdateMetadata \/ JumpToApp
  BY <1>0, <1>6 DEF VerifyCopy, ClearUpdateMetadata, JumpToApp, JumpOutcomes, Reset,
     flash, FlashTypeOK, BootTypeOK, BootPcs, BootPlace
<1> QED
  BY <1>1, <1>2, <1>4, <1>5, <1>6 DEF BootStep

(***************************************************************************)
(* The handlers.  RequestFail and UploadEnds only change flags.            *)
(***************************************************************************)
Requests == [valid : BOOLEAN, offset : Nat, size : Nat, received : Nat]

Uploads ==
  [active : BOOLEAN, header_valid : BOOLEAN, ok : BOOLEAN, content_len : Nat,
   received : Nat, image_received : Nat, image_size : Nat, erased_up_to : Nat]

Statuses == {"none", "in_progress", "uploaded", "failed"}

Loops == [file : Files \cup {NoFile}, offset : Nat, sent : Nat, open : BOOLEAN]

\* Counters advance inside their records.
LEMMA RequestCounter ==
  ASSUME NEW req \in Requests, NEW n \in Nat
  PROVE  [req EXCEPT !.received = n] \in Requests
  BY DEF Requests

\* Those of the upload as well.
LEMMA UploadCounters ==
  ASSUME NEW upl \in Uploads, NEW n \in Nat
  PROVE  /\ [upl EXCEPT !.received = n] \in Uploads
         /\ [upl EXCEPT !.received = n].header_valid = upl.header_valid
         /\ [upl EXCEPT !.received = n].image_received = upl.image_received
         /\ [upl EXCEPT !.image_received = n] \in Uploads
         /\ [upl EXCEPT !.image_received = n].header_valid = upl.header_valid
         /\ [upl EXCEPT !.erased_up_to = n] \in Uploads
         /\ [upl EXCEPT !.erased_up_to = n].header_valid = upl.header_valid
  BY DEF Uploads

\* A browser's loop counts what it has sent.
LEMMA LoopSent ==
  ASSUME NEW lp \in Loops, NEW n \in Nat
  PROVE  /\ [lp EXCEPT !.sent = n] \in Loops
         /\ [lp EXCEPT !.sent = n].file = lp.file
  BY DEF Loops

\* A browser's loop goes on to its next request.
LEMMA LoopNext ==
  ASSUME NEW lp \in Loops, NEW n \in Nat
  PROVE  /\ [lp EXCEPT !.offset = n, !.sent = 0, !.open = FALSE] \in Loops
         /\ [lp EXCEPT !.offset = n, !.sent = 0, !.open = FALSE].open = FALSE
  BY DEF Loops

\* Counters stay natural numbers.
LEMMA CounterValues ==
  ASSUME NEW req \in Requests, NEW upl \in Uploads, NEW lp \in Loops
  PROVE  /\ req.received + 1 \in Nat /\ upl.received + 1 \in Nat
         /\ upl.image_received + 1 \in Nat
         /\ upl.image_received \in Nat /\ upl.erased_up_to \in Nat
         /\ lp.sent + 1 \in Nat /\ lp.offset + lp.sent \in Nat
         /\ \A k \in Nat : upl.erased_up_to + k \in Nat
<1>1. /\ req.received \in Nat /\ upl.received \in Nat /\ upl.image_received \in Nat
      /\ upl.erased_up_to \in Nat /\ lp.sent \in Nat /\ lp.offset \in Nat
  BY DEF Requests, Uploads, Loops
<1> QED
  BY <1>1

\* A failed request keeps the types (app_web_update_request_fail).
LEMMA RequestFailTypes ==
  ASSUME NEW req \in Requests, NEW upl \in Uploads, RequestFail(req, upl)
  PROVE  /\ request' \in Requests /\ upload' \in Uploads /\ status' \in Statuses
         /\ upload'.header_valid = upl.header_valid
         /\ upload'.active = FALSE
  BY DEF RequestFail, Requests, Uploads, Statuses

\* The end of an upload keeps the types (app_firmware_update_finish).
LEMMA UploadEndsTypes ==
  ASSUME NEW ok \in BOOLEAN, UploadTypeOK, UploadEnds(ok)
  PROVE  /\ request' \in Requests /\ upload' \in Uploads /\ status' \in Statuses
         /\ upload'.header_valid = upload.header_valid
         /\ handler' = "idle"
  BY DEF UploadEnds, Requests, Uploads, Loops, Statuses, UploadTypeOK

\* Lengths of requests are natural numbers.
LEMMA ChunkTypes ==
  ASSUME NEW f \in Files, NEW off \in Nat, off < Total(f)
  PROVE  Total(f) \in Nat /\ ChunkLen(f, off) \in Nat
  BY FlashAssumption DEF Total, ChunkLen, ChunkSize, HeaderSize

\* The POST handlers and the browsers keep the types.
LEMMA PostTypes ==
  ASSUME UploadTypeOK, UploadKnown, BrowserStep
  PROVE  UploadTypeOK' /\ UploadKnown'
<1>0. /\ HeaderSize \in Nat /\ ImageSize \in [Files -> Nat] /\ OtaFiles \subseteq Files
      /\ NoRequest \in Requests /\ NoUpload \in Uploads
  BY FlashAssumption DEF HeaderSize, OtaFiles, NoRequest, NoUpload, Requests, Uploads
<1>1. /\ request \in Requests /\ upload \in Uploads /\ status \in Statuses
      /\ header \in Units /\ buffer \in Seq(Units) /\ handler \in Handlers
      /\ current \in Browsers /\ metaPage \in Nat
      /\ browsers \in [Browsers -> Loops]
  BY DEF UploadTypeOK, Requests, Uploads, Loops, Statuses, Loops
<1>2. ASSUME NEW b \in Browsers, NEW f \in OtaFiles, NEW off \in {0, browsers[b].offset},
             PostBegin(b, f, off)
      PROVE  UploadTypeOK' /\ UploadKnown'
  <2>1. off \in Nat /\ f \in Files /\ off < Total(f)
    BY <1>0, <1>1, <1>2 DEF PostBegin, Loops
  <2>2. Total(f) \in Nat /\ ChunkLen(f, off) \in Nat
    BY <2>1, ChunkTypes
  <2>3. /\ browsers' \in [Browsers -> Loops]
        /\ \A c \in Browsers : browsers'[c].open => browsers'[c].file \in Files
    <3> DEFINE lp == [file |-> f, offset |-> off, sent |-> 0, open |-> TRUE]
    <3>1. lp \in Loops /\ lp.file \in Files
      BY <2>1 DEF Loops
    <3>2. browsers' = [browsers EXCEPT ![b] = lp]
      BY <1>2 DEF PostBegin
    <3> QED
      BY <1>1, <3>1, <3>2 DEF UploadKnown
  <2>6. UNCHANGED <<current, metaPage>>
    BY <1>2 DEF PostBegin
  <2>4. CASE off = 0
    <3>1. BeginUpload(f) /\ header' = Erased /\ buffer' = << >> /\ handler' = "idle"
      BY <1>2, <2>4 DEF PostBegin
    <3>2. /\ request' \in Requests /\ upload' \in Uploads /\ status' \in Statuses
          /\ upload'.header_valid = FALSE
      BY <1>0, <2>2, <2>4, <3>1 DEF BeginUpload, Requests, Uploads, Loops, Statuses, NoUpload, NoRequest
    <3> QED
      BY <1>1, <2>3, <2>6, <3>1, <3>2, << >> \in Seq(Units) DEF UploadTypeOK, Requests,
         Uploads, Loops, Statuses, Units, UploadKnown, Handlers
  <2>5. CASE off # 0
    <3>1. ContinueUpload(f, off) /\ UNCHANGED <<header, buffer, handler>>
      BY <1>2, <2>5 DEF PostBegin
    <3>2. /\ request' \in Requests /\ upload' \in Uploads /\ status' \in Statuses
          /\ upload'.header_valid = upload.header_valid
      <4>1. CASE RequestFail(NoRequest, upload)
        BY <1>0, <1>1, <4>1, RequestFailTypes
      <4>2. CASE /\ request' = [NoRequest EXCEPT !.valid = TRUE, !.offset = off,
                                                 !.size = ChunkLen(f, off)]
                 /\ UNCHANGED <<upload, status>>
        BY <1>0, <1>1, <2>1, <2>2, <4>2 DEF Requests, NoRequest
      <4> QED
        BY <3>1, <4>1, <4>2 DEF ContinueUpload
    <3> QED
      BY <1>1, <2>3, <2>6, <3>1, <3>2 DEF UploadTypeOK, Requests, Uploads, Loops,
         Statuses, UploadKnown
  <2> QED
    BY <2>4, <2>5
<1>3. ASSUME NEW b \in Browsers, NEW f \in OtaFiles, PostMalformed(b, f)
      PROVE  UploadTypeOK' /\ UploadKnown'
  <2>1. /\ browsers' \in [Browsers -> Loops]
        /\ \A c \in Browsers : browsers'[c].open => browsers'[c].file \in Files
    <3> DEFINE lp == [file |-> f, offset |-> 0, sent |-> 0, open |-> TRUE]
    <3>1. lp \in Loops /\ lp.file \in Files
      BY <1>0 DEF Loops
    <3>2. browsers' = [browsers EXCEPT ![b] = lp]
      BY <1>3 DEF PostMalformed
    <3> QED
      BY <1>1, <3>1, <3>2 DEF UploadKnown
  <2>2. /\ request' \in Requests /\ upload' \in Uploads /\ status' \in Statuses
        /\ upload'.header_valid = upload.header_valid
    BY <1>0, <1>1, <1>3, RequestFailTypes DEF PostMalformed
  <2>3. UNCHANGED <<header, buffer, handler, current, metaPage>>
    BY <1>3 DEF PostMalformed
  <2> QED
    BY <1>1, <2>1, <2>2, <2>3 DEF UploadTypeOK, Requests, Uploads, Loops, Statuses, UploadKnown
<1>4. CASE PostOtherUri
  BY <1>0, <1>1, <1>4 DEF PostOtherUri, UploadTypeOK, Requests, Uploads, Loops, Statuses, UploadKnown
<1>5. ASSUME NEW b \in Browsers, ConnectionLost(b)
      PROVE  UploadTypeOK' /\ UploadKnown'
  BY <1>1, <1>5 DEF ConnectionLost, UploadTypeOK, Requests, Uploads, Loops, Statuses, UploadKnown, Handlers
<1>6. ASSUME NEW b \in Browsers, ReceiveUnit(b)
      PROVE  UploadTypeOK' /\ UploadKnown'
  <2> DEFINE unit == <<browsers[b].file, browsers[b].offset + browsers[b].sent>>
             req == [request EXCEPT !.received = @ + 1]
             upl == [upload EXCEPT !.received = @ + 1]
             upi == [upl EXCEPT !.image_received = @ + 1]
  <2>0. browsers[b] \in Loops /\ browsers[b].open /\ browsers[b].file \in Files
    BY <1>1, <1>6 DEF ReceiveUnit, UploadKnown
  <2>1. unit \in Files \X Nat /\ unit \in Units
    <3>1. browsers[b].offset + browsers[b].sent \in Nat
      BY <1>1, <2>0, CounterValues
    <3> QED
      BY <2>0, <3>1 DEF Units
  <2>2. /\ req \in Requests /\ upl \in Uploads /\ upi \in Uploads
        /\ upl.header_valid = upload.header_valid /\ upi.header_valid = upload.header_valid
    <3>1. /\ request.received + 1 \in Nat /\ upload.received + 1 \in Nat
          /\ upload.image_received + 1 \in Nat
      BY <1>1, <2>0, CounterValues
    <3>2. req \in Requests
      BY <1>1, <3>1, RequestCounter
    <3>3. /\ upl \in Uploads /\ upl.header_valid = upload.header_valid
          /\ upl.image_received = upload.image_received
      BY <1>1, <3>1, UploadCounters
    <3>4. upi \in Uploads /\ upi.header_valid = upl.header_valid
      <4> HIDE DEF upl
      <4> QED
        BY <3>1, <3>3, UploadCounters
    <3> QED
      BY <3>2, <3>3, <3>4
  <2>3. /\ browsers' \in [Browsers -> Loops]
        /\ \A c \in Browsers : browsers'[c].open => browsers'[c].file \in Files
        /\ current' = b /\ UNCHANGED metaPage
    <3> DEFINE lp == [browsers[b] EXCEPT !.sent = @ + 1]
    <3>1. browsers[b].sent + 1 \in Nat
      BY <1>1, <2>0, CounterValues
    <3>2. lp \in Loops /\ lp.file \in Files
      BY <2>0, <3>1, LoopSent
    <3>3. browsers' = [browsers EXCEPT ![b] = lp]
      BY <1>6 DEF ReceiveUnit
    <3>4. current' = b /\ UNCHANGED metaPage
      BY <1>6 DEF ReceiveUnit
    <3> HIDE DEF lp
    <3> QED
      BY <1>1, <3>2, <3>3, <3>4 DEF UploadKnown
  <2>4. AfterUnit(b) \in {"finished", "idle"}
    BY DEF AfterUnit
  <2>5. CASE ~ Accepting
    <3>1. UNCHANGED <<request, upload, header, buffer, status>> /\ handler' = AfterUnit(b)
      BY <1>6, <2>5 DEF ReceiveUnit
    <3> QED
      BY <1>1, <2>3, <2>4, <3>1 DEF UploadTypeOK, Requests, Uploads, Loops, Statuses, UploadKnown, Handlers
  <2>6. CASE Accepting /\ upload.received < HeaderSize
    <3>1. WriteHeader(unit, upl, req) /\ handler' = AfterUnit(b)
      BY <1>6, <2>6 DEF ReceiveUnit
    <3>2. /\ header' \in Units /\ (upload.header_valid => header' \in Files \X Nat)
          /\ buffer' \in Seq(Units)
      BY <1>1, <2>1, <3>1, << >> \in Seq(Units) DEF WriteHeader, UploadKnown
    <3>3. /\ request' \in Requests /\ upload' \in Uploads /\ status' \in Statuses
          /\ upload'.header_valid => header' \in Files \X Nat
      <4>1. CASE upload' = upl /\ request' = req /\ UNCHANGED status
        BY <1>1, <2>2, <3>2, <4>1
      <4>2. CASE RequestFail(req, upl)
        BY <2>2, <3>2, <4>2, RequestFailTypes
      <4>3. CASE /\ HeaderIsValid(header', upl.content_len)
                 /\ upload' = [upl EXCEPT !.header_valid = TRUE, !.image_size = ImageSize[header'[1]]]
                 /\ request' = req /\ UNCHANGED status
        <5>1. header' \in Files \X Nat /\ ImageSize[header'[1]] \in Nat
          BY <1>0, <4>3 DEF HeaderIsValid
        <5> QED
          BY <1>1, <2>2, <4>3, <5>1 DEF Uploads
      <4> QED
        BY <3>1, <4>1, <4>2, <4>3 DEF WriteHeader
    <3> QED
      BY <1>1, <2>3, <2>4, <3>1, <3>2, <3>3 DEF UploadTypeOK, Requests, Uploads, Loops, Statuses,
         UploadKnown, Handlers
  <2>7. CASE Accepting /\ ~ (upload.received < HeaderSize)
    <3>1. /\ WriteImage(unit, upi, req)
          /\ handler' \in {"page", "finished", "idle"}
      BY <1>6, <2>4, <2>7 DEF ReceiveUnit
    <3>2. buffer' \in Seq(Units) /\ UNCHANGED header
      BY <1>1, <2>1, <3>1 DEF WriteImage
    <3>3. /\ request' \in Requests /\ upload' \in Uploads /\ status' \in Statuses
          /\ upload'.header_valid = upload.header_valid
      <4>1. CASE RequestFail(req, upi)
        BY <2>2, <4>1, RequestFailTypes
      <4>2. CASE upload' = upi /\ request' = req /\ UNCHANGED status
        BY <1>1, <2>2, <4>2
      <4> QED
        BY <3>1, <4>1, <4>2 DEF WriteImage
    <3> QED
      BY <1>1, <2>3, <3>1, <3>2, <3>3 DEF UploadTypeOK, Requests, Uploads, Loops, Statuses,
         UploadKnown, Handlers
  <2> QED
    BY <2>5, <2>6, <2>7
<1> QED
  BY <1>2, <1>3, <1>4, <1>5, <1>6 DEF BrowserStep

\* The writer keeps the types, also when the flash fails.
LEMMA HandlerTypes ==
  ASSUME FlashTypeOK, UploadTypeOK, UploadKnown, HandlerStep \/ FlashError
  PROVE  FlashTypeOK' /\ UploadTypeOK' /\ UploadKnown'
<1>0. /\ SectorSize \in Nat /\ PageSize \in Nat /\ HeaderSize \in Nat
      /\ ManifestStates = Files \cup {Erased, Torn}
  BY FlashAssumption DEF HeaderSize, ManifestStates
<1>1. /\ request \in Requests /\ upload \in Uploads /\ status \in Statuses
      /\ header \in Units /\ buffer \in Seq(Units) /\ handler \in Handlers
      /\ current \in Browsers /\ metaPage \in Nat
      /\ browsers \in [Browsers -> Loops]
  BY DEF UploadTypeOK, Requests, Uploads, Loops, Statuses, Loops
<1>2. PageOffset \in Int /\ upload.erased_up_to \in Int
  BY <1>1 DEF PageOffset, Uploads
<1>3. CASE EraseForPage
  <2>1. staging' \in Regions
    BY <1>2, <1>3, EraseType DEF EraseForPage, FlashTypeOK
  <2>2. upload' \in Uploads /\ upload'.header_valid = upload.header_valid
    BY <1>0, <1>1, <1>3 DEF EraseForPage, Uploads
  <2> QED
    BY <1>1, <1>3, <2>1, <2>2 DEF EraseForPage, FlashTypeOK, UploadTypeOK, Requests,
       Uploads, Loops, Statuses, UploadKnown
<1>4. CASE ProgramForPage
  <2>1. staging' \in Regions
    BY <1>1, <1>2, <1>4, ProgramType DEF ProgramForPage, FlashTypeOK
  <2>2. /\ handler' \in Handlers
        /\ handler' \in {"last_page", "erase_metadata", "program_metadata"} => upload.header_valid
    BY <1>4 DEF ProgramForPage, AfterPage, UploadKnown, Handlers
  <2>3. buffer' \in Seq(Units) /\ UNCHANGED <<metadata, active>>
        /\ UNCHANGED <<request, upload, header, status, current, metaPage, browsers>>
    BY <1>4 DEF ProgramForPage
  <2> QED
    BY <1>1, <2>1, <2>2, <2>3 DEF FlashTypeOK, UploadTypeOK, Requests, Uploads, Loops, Statuses,
       UploadKnown
<1>5. CASE PostFinished
  <2> DEFINE lp == BrowserAfterPost(browsers[current])
  <2>1. lp \in Loops /\ lp.open = FALSE
    <3>1. browsers[current] \in Loops /\ browsers[current].offset + browsers[current].sent \in Nat
      BY <1>1, CounterValues
    <3>2. NoBrowser \in Loops /\ NoBrowser.open = FALSE
      BY DEF NoBrowser, Loops
    <3> QED
      BY <3>1, <3>2, LoopNext DEF BrowserAfterPost
  <2>2. /\ browsers' \in [Browsers -> Loops]
        /\ \A c \in Browsers : browsers'[c].open => browsers'[c].file \in Files
    <3>1. browsers' = [browsers EXCEPT ![current] = lp]
      BY <1>5 DEF PostFinished
    <3> HIDE DEF lp
    <3> QED
      BY <1>1, <2>1, <3>1 DEF UploadKnown
  <2>3. /\ request' \in Requests /\ upload' \in Uploads /\ status' \in Statuses
        /\ upload'.header_valid = upload.header_valid
        /\ \/ handler' = "idle"
           \/ handler' \in {"erase_metadata", "last_page"} /\ upload.header_valid
    <3>1. FinishRequest
      BY <1>5 DEF PostFinished
    <3>2. CASE UNCHANGED <<request, upload, status>>
      BY <1>1, <3>1, <3>2 DEF FinishRequest, ImageIsComplete, UploadEnds
    <3>3. CASE handler' = "idle" /\ RequestFail(request, upload)
      BY <1>1, <3>3, RequestFailTypes
    <3>4. CASE UploadEnds(FALSE)
      BY <1>1, <3>4, UploadEndsTypes
    <3>5. CASE /\ handler' = "idle" /\ status' = "in_progress" /\ UNCHANGED upload
               /\ request' = [request EXCEPT !.valid = FALSE]
      BY <1>1, <3>5 DEF Requests, Statuses
    <3> QED
      BY <3>1, <3>2, <3>3, <3>4, <3>5 DEF FinishRequest
  <2> QED
    BY <1>1, <1>5, <2>2, <2>3 DEF PostFinished, flash, FlashTypeOK, UploadTypeOK, Requests,
       Uploads, Loops, Statuses, UploadKnown, Handlers
<1>6. CASE EraseMetadata
  BY <1>0, <1>1, <1>6 DEF EraseMetadata, FlashTypeOK, UploadTypeOK, Requests, Uploads, Loops,
     Statuses, UploadKnown, Handlers
<1>7. CASE ProgramMetadata
  <2>1. header[1] \in Files
    BY <1>7 DEF ProgramMetadata, UploadKnown
  <2>2. metadata' \in ManifestStates /\ metaPage' \in Nat
    BY <1>0, <1>1, <1>7, <2>1 DEF ProgramMetadata, Programmed, FlashTypeOK
  <2>3. /\ request' \in Requests /\ upload' \in Uploads /\ status' \in Statuses
        /\ upload'.header_valid = upload.header_valid
        /\ handler' \in {"idle", "program_metadata"}
    <3>1. CASE UNCHANGED <<request, upload, status, handler>>
      BY <1>1, <1>7, <3>1 DEF ProgramMetadata
    <3>2. CASE UploadEnds(TRUE)
      BY <1>1, <3>2, UploadEndsTypes
    <3> QED
      BY <1>7, <3>1, <3>2 DEF ProgramMetadata
  <2> QED
    BY <1>1, <1>7, <2>2, <2>3 DEF ProgramMetadata, FlashTypeOK, UploadTypeOK, Requests,
       Uploads, Loops, Statuses, UploadKnown, Handlers
<1>8. CASE FlashError
  <2>1. /\ request' \in Requests /\ upload' \in Uploads /\ status' \in Statuses
        /\ upload'.header_valid = upload.header_valid
        /\ handler' \in {"idle", "finished"}
    <3>1. CASE handler = "page" /\ RequestFail(request, upload) /\ handler' = AfterPage
      BY <1>1, <3>1, RequestFailTypes DEF AfterPage
    <3>2. CASE UploadEnds(FALSE)
      BY <1>1, <3>2, UploadEndsTypes
    <3> QED
      BY <1>8, <3>1, <3>2 DEF FlashError
  <2> QED
    BY <1>1, <1>8, <2>1 DEF FlashError, flash, FlashTypeOK, UploadTypeOK, Requests, Uploads, Loops,
       Statuses, UploadKnown, Handlers
<1> QED
  BY <1>3, <1>4, <1>5, <1>6, <1>7, <1>8 DEF HandlerStep

\* A reset puts the memory in its initial state.
LEMMA ResetTypes ==
  ASSUME UploadTypeOK, Reset, UploadReset
  PROVE  BootTypeOK' /\ BootPlace' /\ UploadTypeOK' /\ UploadKnown'
<1>1. BootTypeOK' /\ BootPlace'
  BY FlashAssumption DEF Reset, BootTypeOK, BootPcs, BootPlace
<1>2. UploadTypeOK' /\ UploadKnown'
  BY DEF UploadReset, UploadTypeOK, NoRequest, NoUpload, NoBrowser, Units, Handlers, UploadKnown
<1> QED
  BY <1>1, <1>2

\* A power loss inside a flash operation keeps the types.
LEMMA TearTypes ==
  ASSUME FlashTypeOK, BootTypeOK, UploadTypeOK, BootTear \/ UploadTear
  PROVE  FlashTypeOK'
<1>1. /\ SectorSize \in Int /\ PageSize \in Int /\ offset \in Int /\ offset + page \in Int
      /\ PageOffset \in Int /\ upload.erased_up_to \in Int
  <2>1. upload.image_received \in Nat /\ upload.erased_up_to \in Nat /\ Len(buffer) \in Nat
    BY DEF UploadTypeOK
  <2> QED
    BY <2>1, FlashAssumption DEF BootTypeOK, PageOffset
<1>2. CASE BootTear
  <2>1. /\ TearRange(active, offset, SectorSize) \in Regions
        /\ TearRange(active, offset + page, PageSize) \in Regions
    BY <1>1, TearType DEF FlashTypeOK
  <2> QED
    BY <1>2, <2>1 DEF BootTear, FlashTypeOK, ManifestStates
<1>3. CASE UploadTear
  <2>1. /\ TearRange(staging, PageOffset, PageSize) \in Regions
        /\ TearRange(staging, upload.erased_up_to, SectorSize) \in Regions
    BY <1>1, TearType DEF FlashTypeOK
  <2> QED
    BY <1>3, <2>1 DEF UploadTear, FlashTypeOK, ManifestStates
<1> QED
  BY <1>2, <1>3

\* Every step keeps the typing invariant.
LEMMA TInvNext == TInv /\ [Next]_vars => TInv'
<1> SUFFICES ASSUME TInv, [Next]_vars PROVE TInv'
  OBVIOUS
<1> USE DEF TInv, TypeOK
<1>1. ASSUME Upset PROVE upsets' \in 0 .. MaxUpsets
  BY <1>1, UpdateAssumption DEF Upset
<1>2. CASE BootRuns
  <2>1. FlashTypeOK' /\ BootTypeOK' /\ BootPlace'
    BY <1>2, BootTypes DEF BootRuns
  <2> QED
    BY <1>2, <2>1 DEF BootRuns, uploadVars, UploadTypeOK, UploadKnown
<1>3. CASE CopyFault
  <2>1. FlashTypeOK' /\ BootTypeOK' /\ BootPlace'
    BY <1>3, BootTypes DEF CopyFault
  <2> QED
    BY <1>1, <1>3, <2>1 DEF CopyFault, uploadVars, UploadTypeOK, UploadKnown
<1>4. CASE AppRuns \/ AppFlashError
  <2>1. FlashTypeOK' /\ UploadTypeOK' /\ UploadKnown'
    <3>1. CASE HandlerStep \/ FlashError
      BY <3>1, HandlerTypes
    <3>2. CASE BrowserStep
      <4>1. UNCHANGED flash
        BY <3>2 DEF BrowserStep, PostBegin, PostMalformed, PostOtherUri, ReceiveUnit, ConnectionLost
      <4> QED
        BY <3>2, <4>1, PostTypes DEF flash, FlashTypeOK
    <3> QED
      BY <1>4, <3>1, <3>2 DEF AppRuns, AppFlashError
  <2>2. UNCHANGED bootVars /\ upsets' \in 0 .. MaxUpsets
    BY <1>1, <1>4 DEF AppRuns, AppFlashError
  <2>3. BootTypeOK' /\ BootPlace'
    BY <2>2 DEF bootVars, BootTypeOK, BootPlace, CopySize
  <2> QED
    BY <2>1, <2>2, <2>3
<1>5. CASE Reboot
  BY <1>5, ResetTypes DEF Reboot, flash, FlashTypeOK
<1>6. CASE PowerLoss
  <2>1. FlashTypeOK'
    BY <1>6, TearTypes DEF PowerLoss, flash, FlashTypeOK
  <2> QED
    BY <1>1, <1>6, <2>1, ResetTypes DEF PowerLoss
<1>7. CASE UNCHANGED vars
  BY <1>7 DEF vars, flash, bootVars, uploadVars, FlashTypeOK, BootTypeOK, BootPlace,
     CopySize, UploadTypeOK, UploadKnown
<1> QED
  BY <1>2, <1>3, <1>4, <1>5, <1>6, <1>7 DEF Next

\* The state keeps its types through every upload, reset and power loss.
THEOREM TypeCorrect == Spec => []TypeOK
<1>1. TInv => TypeOK
  BY DEF TInv
<1> QED
  BY <1>1, TInvInit, TInvNext, PTL DEF Spec

-----------------------------------------------------------------------------
(***************************************************************************)
(* Recovery.  Recoverable alone is not inductive: the boot loader clears   *)
(* the manifest on the strength of a check it made earlier, and copies     *)
(* whatever it validated earlier.  BootInv ties each of its places to what *)
(* it has established by then.                                             *)
(***************************************************************************)
Copying == pc \in {"erase", "program", "verify", "clear"}

BootInv ==
  /\ pc \in BootPcs \ {"usb"}
  /\ Recoverable
  /\ pc \in {"jump", "app"} => ActiveIntact
  /\ Copying => UpdatePending /\ target = metadata
  /\ pc = "clear" => Holds(active, target)
  /\ pc = "jump" => ~ UpdatePending

\* The checks of bootloader_try_apply_update accept exactly a pending update.
LEMMA PendingIsFound ==
  UpdatePending <=> ManifestIsValid(metadata) /\ StagedImageIsValid(metadata)
<1>1. ASSUME UpdatePending
      PROVE  ManifestIsValid(metadata) /\ StagedImageIsValid(metadata)
  <2>1. metadata \in Files /\ ImageSize[metadata] \in Nat \ {0}
    BY <1>1, FlashAssumption DEF UpdatePending
  <2>2. 0 \in 0 .. ImageSize[metadata] - 1
    BY <2>1
  <2>3. HeaderSize \in Nat
    BY FlashAssumption DEF HeaderSize
  <2>4. staging[0] = <<metadata, HeaderSize>>
    BY <1>1, <2>2, <2>3 DEF UpdatePending, Holds
  <2> QED
    BY <1>1, <2>1, <2>4 DEF UpdatePending, ManifestIsValid, StagedImageIsValid,
       VectorsAreValid, CrcMatches, Holds
<1>2. ASSUME ManifestIsValid(metadata), StagedImageIsValid(metadata)
      PROVE  UpdatePending
  <2>1. metadata \in SoundFiles /\ Holds(staging, metadata)
    BY <1>2 DEF StagedImageIsValid, CrcMatches
  <2>2. PICK g \in BootableFiles : staging[0] = <<g, HeaderSize>>
    BY <1>2 DEF StagedImageIsValid, VectorsAreValid
  <2>3. 0 \in 0 .. ImageSize[metadata] - 1
    BY <2>1, FlashAssumption
  <2>4. HeaderSize \in Nat
    BY FlashAssumption DEF HeaderSize
  <2>5. staging[0] = <<metadata, HeaderSize>>
    BY <2>1, <2>3, <2>4 DEF Holds
  <2>6. g = metadata
    BY <2>2, <2>5
  <2> QED
    BY <2>1, <2>2, <2>6 DEF UpdatePending
<1> QED
  BY <1>1, <1>2

\* A device leaves the factory with a whole image.
LEMMA FactoryHeld == Init => Holds(active, Factory)
<1> SUFFICES ASSUME Init PROVE Holds(active, Factory)
  OBVIOUS
<1>1. /\ ImageSize[Factory] \in Nat /\ RegionSize \in Nat
      /\ ImageSize[Factory] <= RegionSize
  BY FlashAssumption
<1>2. \A i \in 0 .. ImageSize[Factory] - 1 : i \in Region /\ i < ImageSize[Factory]
  BY <1>1 DEF Region
<1> QED
  BY <1>1, <1>2 DEF Init, Holds

\* The invariant of the boot loader holds at first.
LEMMA BootInvInit == Init => BootInv
<1> SUFFICES ASSUME Init PROVE BootInv
  OBVIOUS
<1>1. ActiveIntact
  BY FactoryHeld, FlashAssumption DEF ActiveIntact
<1> QED
  BY <1>1 DEF Init, BootInit, BootInv, BootPcs, Recoverable, Copying

\* A whole bootable image passes bootloader_vectors_are_valid.
LEMMA IntactCanStart == ActiveIntact => VectorsAreValid(active[0])
<1> SUFFICES ASSUME ActiveIntact PROVE VectorsAreValid(active[0])
  OBVIOUS
<1>1. PICK f \in BootableFiles : Holds(active, f)
  BY DEF ActiveIntact
<1>2. 0 \in 0 .. ImageSize[f] - 1
  BY FlashAssumption
<1>3. HeaderSize \in Nat
  BY FlashAssumption DEF HeaderSize
<1>4. active[0] = <<f, HeaderSize>>
  BY <1>1, <1>2, <1>3 DEF Holds
<1> QED
  BY <1>4 DEF VectorsAreValid

\* An application step writes only the staging area and the manifest.
LEMMA AppKeepsActive ==
  HandlerStep \/ BrowserStep \/ FlashError \/ UploadTear => UNCHANGED active
  BY DEF HandlerStep, BrowserStep, FlashError, UploadTear, EraseForPage,
     ProgramForPage, PostFinished, EraseMetadata, ProgramMetadata, PostBegin,
     PostMalformed, PostOtherUri, ReceiveUnit, ConnectionLost, flash

\* Every step keeps the invariant of the boot loader.
LEMMA BootInvNext == BootInv /\ [Next]_vars => BootInv'
<1> SUFFICES ASSUME BootInv, [Next]_vars PROVE BootInv'
  OBVIOUS
<1> USE DEF BootPcs, Copying
<1>1. CASE TryApplyUpdate
  BY <1>1, PendingIsFound DEF TryApplyUpdate, BootInv, Recoverable, flash, UpdatePending, ActiveIntact
<1>2. CASE CopyEraseSector
  BY <1>2 DEF CopyEraseSector, BootInv, Recoverable, UpdatePending
<1>3. CASE CopyProgramPage \/ CopyProgramFault
  BY <1>3 DEF CopyProgramPage, CopyProgramFault, CopyAdvance, BootInv, Recoverable, UpdatePending
<1>4. CASE VerifyCopy
  BY <1>4 DEF VerifyCopy, Reset, BootInv, Recoverable, flash, UpdatePending, ActiveIntact, CrcMatches
<1>5. CASE ClearUpdateMetadata
  <2>1. ActiveIntact /\ UNCHANGED active
    BY <1>5 DEF ClearUpdateMetadata, BootInv, ActiveIntact, UpdatePending
  <2> QED
    BY <1>5, <2>1 DEF ClearUpdateMetadata, Reset, BootInv, Recoverable, ActiveIntact
<1>6. CASE JumpToApp
  BY <1>6, IntactCanStart DEF JumpToApp, JumpOutcomes, BootInv, Recoverable, flash, UpdatePending, ActiveIntact
<1>7. CASE pc = "app" /\ (HandlerStep \/ BrowserStep \/ FlashError) /\ UNCHANGED bootVars
  <2>1. ActiveIntact /\ UNCHANGED active
    BY <1>7, AppKeepsActive DEF BootInv
  <2> QED
    BY <1>7, <2>1 DEF BootInv, Recoverable, ActiveIntact, bootVars
<1>8. CASE Reset /\ UNCHANGED flash
  BY <1>8 DEF Reset, flash, BootInv, Recoverable, UpdatePending, ActiveIntact
<1>9. CASE pc = "app" /\ UploadTear /\ Reset
  <2>1. ActiveIntact /\ UNCHANGED active
    BY <1>9, AppKeepsActive DEF BootInv
  <2> QED
    BY <1>9, <2>1 DEF Reset, BootInv, Recoverable, ActiveIntact
<1>10. CASE BootTear /\ Reset
  <2>1. CASE pc \in {"erase", "program"}
    BY <1>10, <2>1 DEF BootTear, Reset, BootInv, Recoverable, UpdatePending
  <2>2. CASE pc = "clear"
    <3>1. ActiveIntact /\ UNCHANGED active
      BY <1>10, <2>2 DEF BootTear, BootInv, ActiveIntact, UpdatePending
    <3> QED
      BY <1>10, <2>2, <3>1 DEF Reset, BootInv, Recoverable, ActiveIntact
  <2> QED
    BY <1>10, <2>1, <2>2 DEF BootTear
<1>11. CASE UNCHANGED vars
  BY <1>11 DEF vars, flash, bootVars, BootInv, Recoverable, UpdatePending, ActiveIntact
<1> QED
  BY <1>1, <1>2, <1>3, <1>4, <1>5, <1>6, <1>7, <1>8, <1>9, <1>10, <1>11
     DEF Next, BootRuns, BootStep, AppRuns, Reboot, AppFlashError, CopyFault, PowerLoss

\* The boot loader never finds both a broken application and no way to
\* restore it (bootloader_try_apply_update).
THEOREM AlwaysRecoverable == Spec => []Recoverable
<1>1. BootInv => Recoverable
  BY DEF BootInv
<1> QED
  BY <1>1, BootInvInit, BootInvNext, PTL DEF Spec

\* Every start of the application is a start of a whole image, and no
\* sequence of resets ends in reset_usb_boot (bootloader_jump_to_app).
THEOREM AlwaysStartsIntactImage == Spec => []StartsIntactImage
<1>1. BootInv => StartsIntactImage
  BY DEF BootInv, StartsIntactImage
<1> QED
  BY <1>1, BootInvInit, BootInvNext, PTL DEF Spec

-----------------------------------------------------------------------------
(***************************************************************************)
(* Refinement of FirmwareInstall.  Once the copy has begun, the first unit *)
(* of the application area is not that of any image but the one being      *)
(* copied, so the area cannot meanwhile become some other whole image.     *)
(***************************************************************************)
HeadInv ==
  (pc \in {"program", "verify", "clear"} \/ (pc = "erase" /\ offset > 0)) =>
    active[0] \in {Erased, Torn, <<target, HeaderSize>>}

RInv == TInv /\ BootInv /\ HeadInv

\* The first unit of a region tells which image it may hold.
LEMMA HeldHead ==
  ASSUME NEW r, NEW f \in Files, Holds(r, f)
  PROVE  r[0] = <<f, HeaderSize>>
<1>1. 0 \in 0 .. ImageSize[f] - 1 /\ HeaderSize \in Nat
  BY FlashAssumption DEF HeaderSize
<1> QED
  BY <1>1 DEF Holds

\* A region holds at most one image.
LEMMA HeldOnce ==
  ASSUME NEW r, NEW f \in Files, NEW g \in Files, Holds(r, f), Holds(r, g)
  PROVE  f = g
  BY HeldHead

\* The image in the application area is the one installed.
LEMMA InstalledIs ==
  ASSUME NEW f \in BootableFiles, Holds(active, f)
  PROVE  Installed = f
<1>1. ActiveIntact
  BY DEF ActiveIntact
<1>2. \A g \in BootableFiles : Holds(active, g) => g = f
  BY HeldOnce, FlashAssumption
<1> QED
  BY <1>1, <1>2 DEF Installed

\* From the first erasure on, the head of the application area is that of the copy.
LEMMA HeadInvNext == TInv /\ BootInv /\ HeadInv /\ [Next]_vars => HeadInv'
<1> SUFFICES ASSUME TInv, BootInv, HeadInv, [Next]_vars PROVE HeadInv'
  OBVIOUS
<1>0. /\ SectorSize \in Nat \ {0} /\ PageSize \in Nat \ {0} /\ RegionSize \in Nat \ {0}
      /\ offset \in Nat /\ page \in Nat /\ 0 \in Region
  BY FlashAssumption DEF TInv, TypeOK, BootTypeOK, Region
<1>1. CASE CopyEraseSector
  <2>1. pc = "erase" /\ target' = target /\ active' = EraseSector(active, offset)
    BY <1>1 DEF CopyEraseSector
  <2>2. active'[0] = IF 0 \in offset .. offset + SectorSize - 1 THEN Erased ELSE active[0]
    BY <1>0, <2>1 DEF EraseSector
  <2>3. CASE offset = 0
    BY <1>0, <2>2, <2>3 DEF HeadInv
  <2>4. CASE offset > 0
    BY <1>0, <2>1, <2>2, <2>4 DEF HeadInv
  <2> QED
    BY <1>0, <2>3, <2>4
<1>2. CASE CopyProgramPage
  <2>1. /\ pc = "program" /\ target' = target
        /\ active' = ProgramPage(active, offset + page, SectorPage)
        /\ active[0] \in {Erased, Torn, <<target, HeaderSize>>}
    BY <1>2 DEF CopyProgramPage, HeadInv
  <2>2. staging[0] = <<target, HeaderSize>>
    <3>1. UpdatePending /\ target = metadata /\ target \in Files
      BY <2>1, FlashAssumption DEF BootInv, Copying, UpdatePending
    <3> QED
      BY <3>1, HeldHead DEF UpdatePending
  <2>3. CASE offset + page = 0
    <3>1. SectorPage[1] = staging[0] /\ Len(SectorPage) = PageSize
      BY <1>0, <2>3 DEF SectorPage
    <3>2. active'[0] = Programmed(active[0], staging[0])
      BY <1>0, <2>1, <2>3, <3>1 DEF ProgramPage
    <3>3. active'[0] \in {Erased, Torn, <<target, HeaderSize>>}
      BY <2>1, <2>2, <3>2 DEF Programmed
    <3> QED
      BY <2>1, <3>3 DEF HeadInv
  <2>4. CASE offset + page > 0
    <3>1. active'[0] = active[0]
      BY <1>0, <2>1, <2>4 DEF ProgramPage
    <3> QED
      BY <2>1, <3>1 DEF HeadInv
  <2> QED
    BY <1>0, <2>3, <2>4
<1>3. CASE CopyProgramFault
  <2>1. active'[0] \in {Torn, active[0]}
    BY <1>0, <1>3 DEF CopyProgramFault, TearRange
  <2> QED
    BY <1>3, <2>1 DEF CopyProgramFault, HeadInv
<1>4. CASE TryApplyUpdate
  BY <1>0, <1>4 DEF TryApplyUpdate, HeadInv
<1>5. CASE VerifyCopy
  BY <1>5 DEF VerifyCopy, Reset, flash, HeadInv
<1>6. CASE pc' \in {"check", "app", "usb", "jump"}
  BY <1>6 DEF HeadInv
<1>7. CASE UNCHANGED vars
  BY <1>7 DEF vars, flash, bootVars, HeadInv
<1> QED
  BY <1>1, <1>2, <1>3, <1>4, <1>5, <1>6, <1>7 DEF Next, BootRuns, BootStep, AppRuns, Reboot,
     AppFlashError, CopyFault, PowerLoss, Reset, ClearUpdateMetadata, JumpToApp, JumpOutcomes,
     bootVars

\* A copy step, whole, faulty or interrupted, installs the staged image or,
\* when that was begun before, changes nothing.
LEMMA CopyInstalls ==
  ASSUME RInv, pc \in {"erase", "program"}, pc' # "app",
         UNCHANGED <<metadata, staging>>,
         \/ CopyEraseSector \/ CopyProgramPage \/ CopyProgramFault \/ BootTear,
         HeadInv', pc' # "check" => target' = target
  PROVE  Installed' \in {Installed, metadata} /\ UpdatePending /\ metadata # NoImage
<1>0. /\ SectorSize \in Nat \ {0} /\ PageSize \in Nat \ {0} /\ 0 \in Region
      /\ offset \in Nat /\ page \in Nat
  BY FlashAssumption DEF RInv, TInv, TypeOK, BootTypeOK, Region
<1>1. UpdatePending /\ target = metadata /\ target \in Files
  BY FlashAssumption DEF RInv, BootInv, Copying, UpdatePending
<1>2. metadata # NoImage
  BY <1>1, UpdateAssumption
<1>3. active'[0] \in {Erased, Torn, <<metadata, HeaderSize>>}
  <2>1. CASE BootTear
    <3>1. active'[0] \in {Torn, active[0]} /\ (pc = "erase" /\ offset = 0 => active'[0] = Torn)
      BY <1>0, <2>1 DEF BootTear, TearRange
    <3> QED
      BY <1>0, <1>1, <3>1 DEF RInv, HeadInv
  <2>2. CASE CopyEraseSector
    BY <1>1, <2>2 DEF CopyEraseSector, HeadInv
  <2>3. CASE CopyProgramPage \/ CopyProgramFault
    <3>1. CASE pc' = "erase" /\ ~ (offset' > 0)
      BY <1>0, <2>3, <3>1 DEF CopyProgramPage, CopyProgramFault, CopyAdvance
    <3>2. CASE pc' \in {"program", "verify"} \/ (pc' = "erase" /\ offset' > 0)
      BY <1>1, <2>3, <3>2 DEF CopyProgramPage, CopyProgramFault, HeadInv
    <3> QED
      BY <2>3, <3>1, <3>2 DEF CopyProgramPage, CopyProgramFault, CopyAdvance
  <2> QED
    BY <2>1, <2>2, <2>3
<1>4. Installed' = metadata
  <2>1. CASE ActiveIntact'
    <3>1. PICK f \in BootableFiles : Holds(active', f)
      BY <2>1 DEF ActiveIntact
    <3>2. active'[0] = <<f, HeaderSize>> /\ HeaderSize \in Nat /\ f \in Files
      BY <3>1, HeldHead, FlashAssumption DEF HeaderSize
    <3>3. f = metadata
      BY <1>1, <1>3, <3>2, FlashAssumption
    <3>4. \A g \in BootableFiles : Holds(active', g) => g = f
      BY <3>1, HeldOnce, FlashAssumption
    <3> QED
      BY <2>1, <3>1, <3>3, <3>4 DEF Installed
  <2>2. CASE ~ ActiveIntact'
    BY <2>2 DEF Installed
  <2> QED
    BY <2>1, <2>2
<1> QED
  BY <1>1, <1>2, <1>4

\* A torn staging area holds only what it held before.
LEMMA TornHolds ==
  ASSUME NEW r, NEW base \in Int, NEW size \in Int, NEW f \in Files,
         Holds(TearRange(r, base, size), f)
  PROVE  Holds(r, f)
<1>1. ImageSize[f] \in Nat /\ RegionSize \in Nat /\ HeaderSize \in Nat /\ ImageSize[f] <= RegionSize
  BY FlashAssumption DEF Holds, HeaderSize
<1>2. ASSUME NEW i \in 0 .. ImageSize[f] - 1 PROVE r[i] = <<f, HeaderSize + i>>
  <2>1. i \in Region /\ HeaderSize + i \in Nat
    BY <1>1 DEF Region
  <2>2. TearRange(r, base, size)[i] = <<f, HeaderSize + i>>
    BY DEF Holds
  <2>3. <<f, HeaderSize + i>> # Torn
    BY <2>1, FlashAssumption
  <2> QED
    BY <2>1, <2>2, <2>3 DEF TearRange
<1> QED
  BY <1>1, <1>2 DEF Holds

\* Every step is a step of the abstract installation, or none of it.
LEMMA InstallStep == RInv /\ HeadInv' /\ [Next]_vars => [Install!Next]_(Install!absVars)
<1> SUFFICES ASSUME RInv, HeadInv', [Next]_vars
             PROVE  [Install!Next]_(Install!absVars)
  OBVIOUS
<1> USE DEF Install!Next, Install!absVars
<1>1. CASE UNCHANGED flash /\ pc # "app" /\ pc' # "app"
  BY <1>1 DEF flash, Installed, ActiveIntact, UpdatePending
<1>2. ASSUME pc \in {"erase", "program"}, pc' # "app", UNCHANGED <<metadata, staging>>,
             CopyEraseSector \/ CopyProgramPage \/ CopyProgramFault \/ BootTear,
             pc' # "check" => target' = target
      PROVE  [Install!Next]_(Install!absVars)
  <2>1. Installed' \in {Installed, metadata} /\ UpdatePending /\ metadata # NoImage
    BY <1>2, CopyInstalls
  <2>2. UpdatePending' /\ metadata' = metadata
    BY <1>2, <2>1 DEF UpdatePending
  <2> QED
    BY <1>2, <2>1, <2>2 DEF Install!Install
<1>3. ASSUME pc = "clear", pc' = "check", UNCHANGED <<staging, active>>, metadata' \in {Erased, Torn}
      PROVE  [Install!Next]_(Install!absVars)
  <2>1. UpdatePending /\ target = metadata /\ Holds(active, target) /\ target \in BootableFiles
    BY <1>3 DEF RInv, BootInv, Copying, UpdatePending
  <2>2. ~ UpdatePending'
    BY <1>3, FlashAssumption DEF UpdatePending
  <2>3. Installed = metadata
    BY <2>1, InstalledIs
  <2>4. ActiveIntact /\ ActiveIntact'
    BY <1>3, <2>1 DEF ActiveIntact
  <2>5. Installed' = Installed
    BY <1>3, <2>4 DEF Installed
  <2> QED
    BY <1>3, <2>1, <2>2, <2>3, <2>5 DEF Install!Forget
<1>4. CASE JumpToApp
  <2>1. UNCHANGED flash /\ pc = "jump" /\ pc' \in {"app", "usb"}
    BY <1>4 DEF JumpToApp, JumpOutcomes
  <2>2. ~ UpdatePending /\ ~ UpdatePending' /\ Installed' = Installed
    BY <2>1 DEF RInv, BootInv, flash, UpdatePending, Installed, ActiveIntact
  <2> QED
    BY <2>1, <2>2 DEF Install!Start
<1>5. ASSUME pc = "app", UNCHANGED active
      PROVE  Installed' = Installed
  <2>1. ActiveIntact /\ ActiveIntact'
    BY <1>5 DEF RInv, BootInv, ActiveIntact
  <2> QED
    BY <1>5, <2>1 DEF Installed
<1>6. CASE pc = "app" /\ UNCHANGED bootVars /\ (HandlerStep \/ BrowserStep \/ FlashError)
  <2>1. Installed' = Installed /\ pc' = "app"
    BY <1>5, <1>6, AppKeepsActive DEF bootVars
  <2>2. (IF UpdatePending' THEN metadata' ELSE NoImage)
           \in (SoundFiles \cap BootableFiles) \cup {NoImage}
    BY DEF UpdatePending
  <2> QED
    BY <1>6, <2>1, <2>2 DEF Install!Stage
<1>7. CASE pc = "app" /\ pc' = "check" /\ UNCHANGED flash
  <2>1. Installed' = Installed
    BY <1>5, <1>7 DEF flash
  <2>2. UpdatePending' = UpdatePending /\ metadata' = metadata
    BY <1>7 DEF flash, UpdatePending
  <2> QED
    BY <1>7, <2>1, <2>2 DEF Install!Stop
<1>8. CASE pc = "app" /\ pc' = "check" /\ UploadTear
  <2>1. Installed' = Installed
    BY <1>5, <1>8, AppKeepsActive
  <2>2. UpdatePending' => UpdatePending /\ metadata' = metadata
    <3> SUFFICES ASSUME UpdatePending' PROVE UpdatePending /\ metadata' = metadata
      OBVIOUS
    <3>1. metadata' \in Files /\ metadata' # Torn
      BY FlashAssumption DEF UpdatePending
    <3>2. metadata' = metadata
      BY <1>8, <3>1 DEF UploadTear
    <3>3. /\ SectorSize \in Int /\ PageSize \in Int
          /\ PageOffset \in Int /\ upload.erased_up_to \in Int
      <4>1. upload.image_received \in Nat /\ upload.erased_up_to \in Nat /\ Len(buffer) \in Nat
        BY DEF RInv, TInv, TypeOK, UploadTypeOK
      <4> QED
        BY <4>1, FlashAssumption DEF PageOffset
    <3>4. \/ staging' = TearRange(staging, PageOffset, PageSize)
          \/ staging' = TearRange(staging, upload.erased_up_to, SectorSize)
          \/ staging' = staging
      BY <1>8 DEF UploadTear
    <3>5. Holds(staging', metadata')
      BY DEF UpdatePending
    <3>6. Holds(staging, metadata)
      BY <3>1, <3>2, <3>3, <3>4, <3>5, TornHolds
    <3> QED
      BY <3>2, <3>6 DEF UpdatePending
  <2> QED
    BY <1>8, <2>1, <2>2 DEF Install!Stop
<1>9. CASE UNCHANGED vars
  BY <1>9 DEF vars, flash, bootVars, Installed, ActiveIntact, UpdatePending
<1>10. CASE BootRuns \/ CopyFault
  <2>1. CASE TryApplyUpdate \/ VerifyCopy
    BY <1>1, <2>1 DEF TryApplyUpdate, VerifyCopy, Reset
  <2>2. CASE CopyEraseSector \/ CopyProgramPage \/ CopyProgramFault
    BY <1>2, <2>2 DEF CopyEraseSector, CopyProgramPage, CopyProgramFault, CopyAdvance
  <2>3. CASE ClearUpdateMetadata
    BY <1>3, <2>3 DEF ClearUpdateMetadata, Reset
  <2> QED
    BY <1>4, <1>10, <2>1, <2>2, <2>3 DEF BootRuns, BootStep, CopyFault
<1>11. CASE Reboot
  BY <1>7, <1>11 DEF Reboot, Reset
<1>12. CASE PowerLoss
  <2>1. pc' = "check"
    BY <1>12 DEF PowerLoss, Reset
  <2>2. CASE UNCHANGED flash
    BY <1>1, <1>7, <2>1, <2>2
  <2>3. CASE pc = "app" /\ UploadTear
    BY <1>8, <2>1, <2>3
  <2>4. CASE BootTear
    BY <1>2, <1>3, <2>1, <2>4 DEF BootTear
  <2> QED
    BY <1>12, <2>2, <2>3, <2>4 DEF PowerLoss
<1> QED
  BY <1>6, <1>9, <1>10, <1>11, <1>12 DEF Next, AppRuns, AppFlashError

\* The factory image is the one installed at first.
LEMMA InstallInit == Init => Install!Init
<1> SUFFICES ASSUME Init PROVE Install!Init
  OBVIOUS
<1>1. Installed = Factory
  BY FactoryHeld, InstalledIs, FlashAssumption
<1>2. ~ UpdatePending /\ pc # "app"
  BY FlashAssumption DEF Init, BootInit, UpdatePending
<1> QED
  BY <1>1, <1>2 DEF Install!Init

\* The whole mechanism, power losses included, implements FirmwareInstall:
\* firmware is replaced in one step, only by an image staged whole, only
\* while none runs, and a start finds nothing left to install.
THEOREM InstallsAtomically == Spec => InstallSpec
<1>1. Init => RInv
  BY TInvInit, BootInvInit DEF RInv, HeadInv, Init, BootInit
<1>2. RInv /\ [Next]_vars => RInv' /\ HeadInv'
  BY TInvNext, BootInvNext, HeadInvNext DEF RInv
<1> QED
  BY <1>1, <1>2, InstallInit, InstallStep, PTL DEF Spec, InstallSpec, Install!Spec
-----------------------------------------------------------------------------
(***************************************************************************)
(* The writer programs only what it has erased.  While the image arrives,  *)
(* what is left of the erased sectors begins at the page being filled and  *)
(* is still blank; page and sector boundaries meet, so a page that begins  *)
(* in it lies in it.                                                       *)
(***************************************************************************)
\* n units of the image have come, the last k of them are in the buffer,
\* and the sectors of region g are erased up to e.
Pages(n, k, e, g) ==
  /\ k <= PageSize /\ k <= n
  /\ \E p \in Nat : n - k = p * PageSize
  /\ \E s \in Nat : e = s * SectorSize
  /\ n - k <= e
  /\ \A i \in Region : n - k <= i /\ i < e => g[i] = Erased

Writing == upload.active /\ handler \notin {"erase_metadata", "program_metadata"}

PagesInv ==
  /\ handler \in {"page", "last_page"} => upload.active
  /\ Writing =>
       /\ Pages(upload.image_received, Len(buffer), upload.erased_up_to, staging)
       /\ handler \in {"idle", "finished"} => Len(buffer) < PageSize
       /\ handler = "page" => Len(buffer) = PageSize
       /\ upload.received < HeaderSize => upload.image_received = 0 /\ buffer = << >>

\* A page that begins below the end of the erased sectors ends there too.
LEMMA PageFits ==
  ASSUME NEW p \in Nat, NEW s \in Nat, p * PageSize < s * SectorSize
  PROVE  p * PageSize + PageSize <= s * SectorSize
<1>1. PageSize \in Nat \ {0}
  BY FlashAssumption
<1>2. PICK m \in 1 .. SectorSize : SectorSize = m * PageSize
  BY FlashAssumption
<1>3. m \in Nat /\ s * m \in Nat
  BY <1>2, FlashAssumption
<1>4. s * SectorSize = (s * m) * PageSize
  BY <1>1, <1>2, <1>3
<1>5. p * PageSize < (s * m) * PageSize
  BY <1>4
<1>6. p * PageSize + PageSize <= (s * m) * PageSize
  BY <1>1, <1>3, <1>5, NextMultiple
<1> QED
  BY <1>4, <1>6

\* An upload begins with nothing received and nothing erased.
LEMMA PagesBegin ==
  ASSUME NEW g PROVE Pages(0, 0, 0, g)
<1>1. PageSize \in Nat \ {0} /\ SectorSize \in Nat \ {0}
  BY FlashAssumption
<1>2. 0 - 0 = 0 * PageSize /\ 0 = 0 * SectorSize
  BY <1>1
<1> QED
  BY <1>1, <1>2 DEF Pages, Region

\* A unit that goes into the buffer leaves the page where it is.
LEMMA PagesGrow ==
  ASSUME NEW n \in Nat, NEW k \in Nat, NEW e \in Nat, NEW g, Pages(n, k, e, g), k < PageSize
  PROVE  Pages(n + 1, k + 1, e, g)
<1>1. PageSize \in Nat /\ (n + 1) - (k + 1) = n - k
  BY FlashAssumption
<1>2. k + 1 <= PageSize /\ k + 1 <= n + 1
  BY <1>1 DEF Pages
<1> QED
  BY <1>1, <1>2 DEF Pages

\* The next sector is erased when the page begins where the erased ones end.
LEMMA PagesErase ==
  ASSUME NEW n \in Nat, NEW k \in Nat, NEW e \in Nat, NEW g, Pages(n, k, e, g), ~ (e > n - k)
  PROVE  Pages(n, k, e + SectorSize, EraseSector(g, e)) /\ e + SectorSize \in Nat
<1>1. SectorSize \in Nat /\ e = n - k
  BY FlashAssumption DEF Pages
<1>2. PICK s \in Nat : e = s * SectorSize
  BY DEF Pages
<1>3. e + SectorSize = (s + 1) * SectorSize /\ s + 1 \in Nat
  BY <1>1, <1>2
<1>4. ASSUME NEW i \in Region, n - k <= i, i < e + SectorSize
      PROVE  EraseSector(g, e)[i] = Erased
  <2>1. i \in e .. e + SectorSize - 1
    BY <1>1, <1>4, FlashAssumption DEF Region
  <2> QED
    BY <2>1 DEF EraseSector
<1> QED
  BY <1>1, <1>3, <1>4 DEF Pages

\* A page that begins in the erased sectors is blank.
LEMMA PagesBlank ==
  ASSUME NEW n \in Nat, NEW k \in Nat, NEW e \in Nat, NEW g, Pages(n, k, e, g), e > n - k
  PROVE  /\ n - k + PageSize <= e
         /\ \A i \in Region : i \in n - k .. n - k + PageSize - 1 => g[i] = Erased
<1>1. PICK p \in Nat : n - k = p * PageSize
  BY DEF Pages
<1>2. PICK s \in Nat : e = s * SectorSize
  BY DEF Pages
<1>3. n - k + PageSize <= e
  BY <1>1, <1>2, PageFits
<1>4. ASSUME NEW i \in Region, i \in n - k .. n - k + PageSize - 1
      PROVE  g[i] = Erased
  <2>1. n - k <= i /\ i < e
    BY <1>3, <1>4, FlashAssumption
  <2> QED
    BY <2>1 DEF Pages
<1> QED
  BY <1>3, <1>4

\* A full page is programmed, and the next one begins after it.
LEMMA PagesProgram ==
  ASSUME NEW n \in Nat, NEW e \in Nat, NEW g \in Regions, NEW b \in Seq(Units),
         Pages(n, PageSize, e, g), e > n - PageSize
  PROVE  Pages(n, 0, e, ProgramPage(g, n - PageSize, b))
<1>1. PageSize \in Nat \ {0}
  BY FlashAssumption
<1>2. PICK p \in Nat : n - PageSize = p * PageSize
  BY DEF Pages
<1>3. n - 0 = (p + 1) * PageSize /\ p + 1 \in Nat
  BY <1>1, <1>2
<1>4. n - 0 <= e
  BY <1>1, PagesBlank
<1>5. ASSUME NEW i \in Region, n - 0 <= i, i < e
      PROVE  ProgramPage(g, n - PageSize, b)[i] = Erased
  <2>1. i \notin n - PageSize .. n - PageSize + PageSize - 1 /\ n - PageSize <= i
    BY <1>1, <1>5 DEF Region
  <2>2. g[i] = Erased
    BY <1>1, <1>5, <2>1 DEF Pages
  <2> QED
    BY <2>1, <2>2 DEF ProgramPage
<1>6. 0 <= PageSize /\ 0 <= n
  BY <1>1
<1> QED
  BY <1>3, <1>4, <1>5, <1>6 DEF Pages

\* An upload that is not writing has no page to be right about.
LEMMA NotWriting ==
  ASSUME upload'.active = FALSE, handler' \notin {"page", "last_page"}
  PROVE  PagesInv'
  BY DEF PagesInv, Writing

\* Nor is anything to prove of a step that leaves the writer alone.
LEMMA WriterUnchanged ==
  ASSUME PagesInv, UNCHANGED <<upload, buffer, staging>>,
         handler \in {"idle", "finished"}, handler' \in {"idle", "finished"}
  PROVE  PagesInv'
  BY DEF PagesInv, Writing

\* The browsers keep the page where it is (httpd_post_begin,
\* httpd_post_receive_data).
LEMMA PostPages ==
  ASSUME UploadTypeOK, PagesInv, BrowserStep
  PROVE  PagesInv'
<1>0. /\ PageSize \in Nat \ {0} /\ HeaderSize \in Nat /\ buffer \in Seq(Units)
      /\ upload \in Uploads /\ upload.image_received \in Nat /\ upload.erased_up_to \in Nat
      /\ upload.received \in Nat /\ upload.received + 1 \in Nat
      /\ upload.image_received + 1 \in Nat
  <2>1. PageSize \in Nat \ {0} /\ HeaderSize \in Nat
    BY FlashAssumption DEF HeaderSize
  <2>2. /\ buffer \in Seq(Units) /\ upload \in Uploads
        /\ upload.image_received \in Nat /\ upload.erased_up_to \in Nat
        /\ upload.received \in Nat
    BY DEF UploadTypeOK, Uploads
  <2> QED
    BY <2>1, <2>2
<1>1. handler = "idle" /\ UNCHANGED staging
  BY DEF BrowserStep, PostBegin, PostMalformed, PostOtherUri, ReceiveUnit, ConnectionLost, flash
<1>2. ASSUME NEW b \in Browsers, NEW f \in OtaFiles, NEW off, PostBegin(b, f, off)
      PROVE  PagesInv'
  <2>1. handler' = "idle"
    BY <1>1, <1>2 DEF PostBegin
  <2>2. CASE off = 0 /\ ImageSize[f] <= RegionSize
    <3>1. /\ upload' = [NoUpload EXCEPT !.active = TRUE, !.content_len = Total(f)]
          /\ buffer' = << >>
      BY <1>2, <2>2, FlashAssumption DEF PostBegin, BeginUpload, OtaFiles
    <3>2. /\ upload'.image_received = 0 /\ upload'.erased_up_to = 0 /\ Len(buffer') = 0
      BY <3>1 DEF NoUpload
    <3>3. Pages(upload'.image_received, Len(buffer'), upload'.erased_up_to, staging')
      BY <3>2, PagesBegin
    <3> QED
      BY <1>0, <2>1, <3>1, <3>2, <3>3 DEF PagesInv, Pages
  <2>3. CASE off = 0 /\ ~ (ImageSize[f] <= RegionSize)
    <3>1. upload' = [NoUpload EXCEPT !.ok = FALSE]
      BY <1>2, <2>3, FlashAssumption DEF PostBegin, BeginUpload, OtaFiles
    <3> QED
      BY <2>1, <3>1, NotWriting DEF NoUpload
  <2>4. CASE off # 0
    <3>1. ContinueUpload(f, off) /\ UNCHANGED buffer
      BY <1>2, <2>4 DEF PostBegin
    <3>2. CASE UNCHANGED upload
      BY <1>1, <2>1, <3>1, <3>2, WriterUnchanged
    <3>3. CASE RequestFail(NoRequest, upload)
      BY <1>0, <2>1, <3>3, NotWriting DEF RequestFail, Uploads
    <3> QED
      BY <3>1, <3>2, <3>3 DEF ContinueUpload
  <2> QED
    BY <2>2, <2>3, <2>4
<1>3. ASSUME NEW b \in Browsers, NEW f \in OtaFiles, PostMalformed(b, f)
      PROVE  PagesInv'
  BY <1>0, <1>1, <1>3, NotWriting DEF PostMalformed, RequestFail, Uploads
<1>4. CASE PostOtherUri
  BY <1>1, <1>4, WriterUnchanged DEF PostOtherUri
<1>5. ASSUME NEW b \in Browsers, ConnectionLost(b)
      PROVE  PagesInv'
  BY <1>1, <1>5, WriterUnchanged DEF ConnectionLost
<1>6. ASSUME NEW b \in Browsers, ReceiveUnit(b)
      PROVE  PagesInv'
  <2> DEFINE unit == <<browsers[b].file, browsers[b].offset + browsers[b].sent>>
             req == [request EXCEPT !.received = @ + 1]
             upl == [upload EXCEPT !.received = @ + 1]
             upi == [upl EXCEPT !.image_received = @ + 1]
  <2>1. AfterUnit(b) \in {"finished", "idle"}
    BY DEF AfterUnit
  <2>2. /\ upl \in Uploads /\ upl.active = upload.active /\ upl.received = upload.received + 1
        /\ upl.image_received = upload.image_received /\ upl.erased_up_to = upload.erased_up_to
        /\ upi \in Uploads /\ upi.active = upload.active /\ upi.received = upload.received + 1
        /\ upi.image_received = upload.image_received + 1
        /\ upi.erased_up_to = upload.erased_up_to
    BY <1>0 DEF Uploads
  <2>3. CASE ~ Accepting
    BY <1>1, <1>6, <2>1, <2>3, WriterUnchanged DEF ReceiveUnit
  <2>4. CASE Accepting /\ upload.received < HeaderSize
    <3>1. WriteHeader(unit, upl, req) /\ handler' = AfterUnit(b)
      BY <1>6, <2>4 DEF ReceiveUnit
    <3>2. CASE RequestFail(req, upl)
      BY <2>1, <2>2, <3>1, <3>2, NotWriting DEF RequestFail, Uploads
    <3>3. ASSUME buffer' = << >>, upload'.image_received = upload.image_received,
                 upload'.erased_up_to = upload.erased_up_to
          PROVE  PagesInv'
      <4>1. /\ buffer = << >> /\ upload.image_received = 0
            /\ Pages(upload.image_received, Len(buffer), upload.erased_up_to, staging)
        BY <1>1, <2>4 DEF PagesInv, Writing, Accepting
      <4>2. Len(buffer') = Len(buffer) /\ Len(buffer') = 0
        BY <3>3, <4>1
      <4>3. Pages(upload'.image_received, Len(buffer'), upload'.erased_up_to, staging')
        BY <1>1, <3>3, <4>1, <4>2
      <4> QED
        BY <1>0, <2>1, <3>1, <3>3, <4>1, <4>2, <4>3 DEF PagesInv, Pages
    <3>4. CASE upload' = upl /\ UNCHANGED buffer
      <4>1. buffer = << >>
        BY <1>1, <2>4 DEF PagesInv, Writing, Accepting
      <4> QED
        BY <2>2, <3>3, <3>4, <4>1
    <3>5. CASE /\ upload' = [upl EXCEPT !.header_valid = TRUE, !.image_size = ImageSize[header'[1]]]
               /\ buffer' = << >>
      BY <2>2, <3>3, <3>5 DEF Uploads
    <3> QED
      BY <3>1, <3>2, <3>4, <3>5 DEF WriteHeader
  <2>5. CASE Accepting /\ ~ (upload.received < HeaderSize)
    <3>1. /\ WriteImage(unit, upi, req)
          /\ handler' = IF upload'.active /\ Len(buffer') = PageSize THEN "page" ELSE AfterUnit(b)
      BY <1>6, <2>5 DEF ReceiveUnit, PageIsFull
    <3>2. CASE RequestFail(req, upi)
      BY <2>1, <2>2, <3>1, <3>2, NotWriting DEF RequestFail, Uploads
    <3>3. CASE upload' = upi
      <4>1. /\ Pages(upload.image_received, Len(buffer), upload.erased_up_to, staging)
            /\ Len(buffer) < PageSize /\ Len(buffer) \in Nat
        BY <1>0, <1>1, <2>5 DEF PagesInv, Writing, Accepting
      <4>2. Pages(upload.image_received + 1, Len(buffer) + 1, upload.erased_up_to, staging)
        BY <1>0, <4>1, PagesGrow
      <4>3. Len(buffer') = Len(buffer) + 1
        BY <1>0, <3>1 DEF WriteImage
      <4>4. /\ Pages(upload'.image_received, Len(buffer'), upload'.erased_up_to, staging')
            /\ upload'.received = upload.received + 1 /\ upload'.active = upload.active
        BY <1>1, <2>2, <3>3, <4>2, <4>3
      <4>5. Len(buffer) + 1 # PageSize => Len(buffer) + 1 < PageSize
        BY <1>0, <4>1
      <4>6. ~ (upload.received + 1 < HeaderSize)
        BY <1>0, <2>5
      <4> QED
        BY <2>1, <2>5, <3>1, <4>3, <4>4, <4>5, <4>6 DEF PagesInv, Writing, Accepting
    <3> QED
      BY <3>1, <3>2, <3>3 DEF WriteImage
  <2> QED
    BY <2>3, <2>4, <2>5
<1> QED
  BY <1>2, <1>3, <1>4, <1>5, <1>6 DEF BrowserStep

\* The writer itself keeps to the erased sectors
\* (app_firmware_update_write_image_data, app_firmware_update_finish_write).
LEMMA WriterPages ==
  ASSUME FlashTypeOK, UploadTypeOK, PagesInv, HandlerStep \/ FlashError
  PROVE  PagesInv'
<1>0. /\ PageSize \in Nat \ {0} /\ buffer \in Seq(Units) /\ staging \in Regions
      /\ upload.image_received \in Nat /\ upload.erased_up_to \in Nat /\ upload \in Uploads
  <2>1. PageSize \in Nat \ {0}
    BY FlashAssumption
  <2>2. /\ buffer \in Seq(Units) /\ staging \in Regions /\ upload \in Uploads
        /\ upload.image_received \in Nat /\ upload.erased_up_to \in Nat
    BY DEF FlashTypeOK, UploadTypeOK, Uploads
  <2> QED
    BY <2>1, <2>2
<1>1. CASE EraseForPage
  <2>1. /\ Pages(upload.image_received, Len(buffer), upload.erased_up_to, staging)
        /\ handler \in {"page", "last_page"} /\ upload.active /\ Len(buffer) \in Nat
        /\ ~ (upload.erased_up_to > upload.image_received - Len(buffer))
    BY <1>0, <1>1 DEF EraseForPage, PagesInv, Writing, SectorIsErased, PageOffset
  <2>2. Pages(upload.image_received, Len(buffer), upload.erased_up_to + SectorSize,
              EraseSector(staging, upload.erased_up_to))
    BY <1>0, <2>1, PagesErase
  <2>3. /\ upload'.image_received = upload.image_received /\ buffer' = buffer
        /\ upload'.erased_up_to = upload.erased_up_to + SectorSize
        /\ upload'.active = upload.active /\ upload'.received = upload.received
        /\ staging' = EraseSector(staging, upload.erased_up_to) /\ handler' = handler
    BY <1>0, <1>1 DEF EraseForPage, Uploads
  <2>4. Pages(upload'.image_received, Len(buffer'), upload'.erased_up_to, staging')
    BY <2>2, <2>3
  <2> QED
    BY <2>1, <2>3, <2>4 DEF PagesInv, Writing
<1>2. CASE ProgramForPage
  <2>1. CASE handler = "page"
    <3>1. /\ Pages(upload.image_received, PageSize, upload.erased_up_to, staging)
          /\ upload.active /\ Len(buffer) = PageSize
          /\ upload.erased_up_to > upload.image_received - PageSize
      BY <1>0, <1>2, <2>1 DEF ProgramForPage, PagesInv, Writing, SectorIsErased, PageOffset
    <3>2. Pages(upload.image_received, 0, upload.erased_up_to,
                ProgramPage(staging, upload.image_received - PageSize, buffer))
      BY <1>0, <3>1, PagesProgram
    <3>3. /\ staging' = ProgramPage(staging, upload.image_received - PageSize, buffer)
          /\ buffer' = << >> /\ upload' = upload /\ handler' \in {"idle", "finished"}
      BY <1>2, <2>1, <3>1 DEF ProgramForPage, PageOffset, AfterPage
    <3>4. Len(buffer') = 0 /\ buffer # << >>
      BY <1>0, <3>1, <3>3
    <3>5. Pages(upload'.image_received, Len(buffer'), upload'.erased_up_to, staging')
      BY <3>2, <3>3, <3>4
    <3>6. ~ (upload'.received < HeaderSize)
      BY <2>1, <3>1, <3>3, <3>4 DEF PagesInv, Writing
    <3> QED
      BY <1>0, <3>3, <3>4, <3>5, <3>6 DEF PagesInv, Writing
  <2>2. CASE handler = "last_page"
    <3>1. handler' = "erase_metadata"
      BY <1>2, <2>2 DEF ProgramForPage, AfterPage
    <3> QED
      BY <3>1 DEF PagesInv, Writing
  <2> QED
    BY <1>2, <2>1, <2>2 DEF ProgramForPage
<1>3. CASE PostFinished
  <2>1. handler = "finished" /\ FinishRequest /\ UNCHANGED <<buffer, staging>>
    BY <1>3 DEF PostFinished, flash
  <2>2. CASE handler' = "idle" /\ RequestFail(request, upload)
    BY <1>0, <2>2, NotWriting DEF RequestFail, Uploads
  <2>3. CASE UploadEnds(FALSE)
    BY <1>0, <2>3, NotWriting DEF UploadEnds, Uploads
  <2>4. CASE handler' = "idle" /\ UNCHANGED upload
    BY <2>1, <2>4, WriterUnchanged
  <2>5. CASE handler' = "erase_metadata"
    BY <2>5 DEF PagesInv, Writing
  <2>6. CASE handler' = "last_page" /\ UNCHANGED upload /\ upload.active
    BY <2>1, <2>6 DEF PagesInv, Writing
  <2> QED
    BY <2>1, <2>2, <2>3, <2>4, <2>5, <2>6 DEF FinishRequest
<1>4. CASE EraseMetadata
  BY <1>4 DEF EraseMetadata, PagesInv, Writing
<1>5. CASE ProgramMetadata
  <2>1. CASE handler' = "program_metadata"
    BY <2>1 DEF PagesInv, Writing
  <2>2. CASE UploadEnds(TRUE)
    BY <1>0, <2>2, NotWriting DEF UploadEnds, Uploads
  <2> QED
    BY <1>5, <2>1, <2>2 DEF ProgramMetadata
<1>6. CASE FlashError
  <2>1. handler' \notin {"page", "last_page"}
    BY <1>6 DEF FlashError, AfterPage, UploadEnds
  <2>2. upload'.active = FALSE
    BY <1>0, <1>6 DEF FlashError, RequestFail, UploadEnds, Uploads
  <2> QED
    BY <2>1, <2>2, NotWriting
<1> QED
  BY <1>1, <1>2, <1>3, <1>4, <1>5, <1>6 DEF HandlerStep

\* The boot loader does not write the staging area, and a reset ends the upload.
LEMMA PagesNext == TInv /\ PagesInv /\ [Next]_vars => PagesInv'
<1> SUFFICES ASSUME TInv, PagesInv, [Next]_vars PROVE PagesInv'
  OBVIOUS
<1>1. CASE BootRuns \/ CopyFault \/ UNCHANGED vars
  <2>1. UNCHANGED <<upload, buffer, staging, handler>>
    BY <1>1 DEF BootRuns, BootStep, CopyFault, CopyProgramFault, TryApplyUpdate, CopyEraseSector,
       CopyProgramPage, VerifyCopy, ClearUpdateMetadata, JumpToApp, flash, uploadVars, vars
  <2>2. UNCHANGED upload.received
    BY <2>1
  <2> QED
    BY <2>1, <2>2 DEF PagesInv, Writing
<1>2. CASE AppRuns \/ AppFlashError
  BY <1>2, PostPages, WriterPages DEF AppRuns, AppFlashError, TInv, TypeOK
<1>3. CASE Reboot \/ PowerLoss
  <2>1. UploadReset
    BY <1>3 DEF Reboot, PowerLoss
  <2>2. upload'.active = FALSE /\ handler' \notin {"page", "last_page"}
    BY <2>1 DEF UploadReset, NoUpload
  <2> QED
    BY <2>2, NotWriting
<1> QED
  BY <1>1, <1>2, <1>3 DEF Next

\* No page is programmed over units of the staging area that are not blank,
\* whatever the browsers do and however the file is cut into requests.
THEOREM AlwaysProgramsErasedFlash == Spec => []ProgramsErasedFlash
<1>1. Init => PagesInv
  BY DEF Init, UploadInit, NoUpload, PagesInv, Writing
<1>2. TInv /\ PagesInv => ProgramsErasedFlash
  <2> SUFFICES ASSUME TInv, PagesInv, handler \in {"page", "last_page"}, SectorIsErased
               PROVE  \A i \in Region : i \in PageOffset .. PageOffset + PageSize - 1
                                          => staging[i] = Erased
    BY DEF ProgramsErasedFlash
  <2>1. /\ upload.image_received \in Nat /\ upload.erased_up_to \in Nat /\ buffer \in Seq(Units)
    BY DEF TInv, TypeOK, UploadTypeOK
  <2>2. /\ Pages(upload.image_received, Len(buffer), upload.erased_up_to, staging)
        /\ upload.erased_up_to > upload.image_received - Len(buffer)
    BY DEF PagesInv, Writing, SectorIsErased, PageOffset
  <2> QED
    BY <2>1, <2>2, PagesBlank DEF PageOffset
<1> QED
  BY <1>1, <1>2, TInvInit, TInvNext, PagesNext, PTL DEF Spec
-----------------------------------------------------------------------------
(***************************************************************************)
(* What is written stays in the staging area: no more of the image is      *)
(* taken than the manifest announced, which is no more than the area       *)
(* holds, and pages and sectors do not straddle its end.                   *)
(***************************************************************************)
PlaceInv ==
  /\ upload.image_size <= RegionSize
  /\ Writing => upload.image_received <= upload.image_size
  /\ handler = "last_page" => buffer # << >>

\* The browsers bring the header and the image (httpd_post_begin,
\* httpd_post_receive_data).
LEMMA PostPlace ==
  ASSUME UploadTypeOK, PagesInv, PlaceInv, BrowserStep
  PROVE  PlaceInv'
<1>0. /\ upload \in Uploads /\ RegionSize \in Nat /\ HeaderSize \in Nat
      /\ upload.image_received \in Nat /\ upload.image_size \in Nat
      /\ upload.received + 1 \in Nat /\ upload.image_received + 1 \in Nat
  <2>1. RegionSize \in Nat /\ HeaderSize \in Nat
    BY FlashAssumption DEF HeaderSize
  <2>2. /\ upload \in Uploads /\ upload.received \in Nat
        /\ upload.image_received \in Nat /\ upload.image_size \in Nat
    BY DEF UploadTypeOK, Uploads
  <2> QED
    BY <2>1, <2>2
<1>1. handler = "idle"
  BY DEF BrowserStep, PostBegin, PostMalformed, PostOtherUri, ReceiveUnit, ConnectionLost
<1>2. ASSUME NEW b \in Browsers, NEW f \in OtaFiles, NEW off, PostBegin(b, f, off)
      PROVE  PlaceInv'
  <2>1. handler' = "idle"
    BY <1>1, <1>2 DEF PostBegin
  <2>2. CASE off = 0
    <3>1. upload' = [NoUpload EXCEPT !.ok = FALSE]
            \/ upload' = [NoUpload EXCEPT !.active = TRUE, !.content_len = Total(f)]
      BY <1>2, <2>2 DEF PostBegin, BeginUpload
    <3>2. upload'.image_size = 0 /\ upload'.image_received = 0
      BY <3>1 DEF NoUpload
    <3> QED
      BY <1>0, <2>1, <3>2 DEF PlaceInv
  <2>3. CASE off # 0
    <3>1. UNCHANGED upload \/ RequestFail(NoRequest, upload)
      BY <1>2, <2>3 DEF PostBegin, ContinueUpload
    <3>2. CASE UNCHANGED upload
      BY <1>1, <2>1, <3>2 DEF PlaceInv, Writing
    <3>3. CASE RequestFail(NoRequest, upload)
      <4>1. /\ upload'.image_size = upload.image_size /\ upload'.active = FALSE
            /\ upload'.image_received = upload.image_received
        BY <1>0, <3>3 DEF RequestFail, Uploads
      <4> QED
        BY <2>1, <4>1 DEF PlaceInv, Writing
    <3> QED
      BY <3>1, <3>2, <3>3
  <2> QED
    BY <2>2, <2>3
<1>3. ASSUME NEW b \in Browsers, NEW f \in OtaFiles, PostMalformed(b, f)
      PROVE  PlaceInv'
  <2>1. handler' = "idle" /\ RequestFail(NoRequest, upload)
    BY <1>1, <1>3 DEF PostMalformed
  <2>2. /\ upload'.image_size = upload.image_size /\ upload'.active = FALSE
        /\ upload'.image_received = upload.image_received
    BY <1>0, <2>1 DEF RequestFail, Uploads
  <2> QED
    BY <2>1, <2>2 DEF PlaceInv, Writing
<1>4. CASE PostOtherUri \/ \E b \in Browsers : ConnectionLost(b)
  <2>1. UNCHANGED upload /\ handler' \in {"idle", "finished"}
    BY <1>1, <1>4 DEF PostOtherUri, ConnectionLost
  <2> QED
    BY <1>1, <2>1 DEF PlaceInv, Writing
<1>5. ASSUME NEW b \in Browsers, ReceiveUnit(b)
      PROVE  PlaceInv'
  <2> DEFINE unit == <<browsers[b].file, browsers[b].offset + browsers[b].sent>>
             req == [request EXCEPT !.received = @ + 1]
             upl == [upload EXCEPT !.received = @ + 1]
             upi == [upl EXCEPT !.image_received = @ + 1]
  <2>1. handler' \in {"page", "finished", "idle"}
    BY <1>5 DEF ReceiveUnit, AfterUnit
  <2>2. /\ upl \in Uploads /\ upl.active = upload.active
        /\ upl.image_received = upload.image_received /\ upl.image_size = upload.image_size
        /\ upi \in Uploads /\ upi.image_received = upload.image_received + 1
        /\ upi.image_size = upload.image_size
    BY <1>0 DEF Uploads
  <2>3. CASE ~ Accepting
    <3>1. UNCHANGED upload
      BY <1>5, <2>3 DEF ReceiveUnit
    <3> QED
      BY <1>1, <2>1, <3>1 DEF PlaceInv, Writing
  <2>4. CASE Accepting /\ upload.received < HeaderSize
    <3>1. WriteHeader(unit, upl, req)
      BY <1>5, <2>4 DEF ReceiveUnit
    <3>2. upload.image_received = 0
      BY <1>1, <2>4 DEF PagesInv, Writing, Accepting
    <3>3. CASE RequestFail(req, upl)
      <4>1. upload'.image_size = upload.image_size /\ upload'.active = FALSE
        BY <2>2, <3>3 DEF RequestFail, Uploads
      <4> QED
        BY <2>1, <4>1 DEF PlaceInv, Writing
    <3>4. CASE upload' = upl
      BY <1>0, <2>1, <2>2, <3>2, <3>4 DEF PlaceInv
    <3>5. CASE /\ HeaderIsValid(header', upl.content_len)
               /\ upload' = [upl EXCEPT !.header_valid = TRUE, !.image_size = ImageSize[header'[1]]]
      <4>1. ImageSize[header'[1]] <= RegionSize /\ ImageSize[header'[1]] \in Nat
        BY <3>5, FlashAssumption DEF HeaderIsValid
      <4>2. upload'.image_size = ImageSize[header'[1]] /\ upload'.image_received = 0
        BY <2>2, <3>2, <3>5 DEF Uploads
      <4> QED
        BY <1>0, <2>1, <4>1, <4>2 DEF PlaceInv
    <3> QED
      BY <3>1, <3>3, <3>4, <3>5 DEF WriteHeader
  <2>5. CASE Accepting /\ ~ (upload.received < HeaderSize)
    <3>1. WriteImage(unit, upi, req)
      BY <1>5, <2>5 DEF ReceiveUnit
    <3>2. CASE RequestFail(req, upi)
      <4>1. upload'.image_size = upload.image_size /\ upload'.active = FALSE
        BY <2>2, <3>2 DEF RequestFail, Uploads
      <4> QED
        BY <2>1, <4>1 DEF PlaceInv, Writing
    <3>3. CASE upload' = upi /\ ~ (upi.image_received > upi.image_size)
      <4>1. /\ upload'.image_size = upload.image_size
            /\ upload'.image_received <= upload'.image_size
        BY <1>0, <2>2, <3>3
      <4> QED
        BY <2>1, <4>1 DEF PlaceInv
    <3> QED
      BY <3>1, <3>2, <3>3 DEF WriteImage
  <2> QED
    BY <2>3, <2>4, <2>5
<1> QED
  BY <1>2, <1>3, <1>4, <1>5 DEF BrowserStep

\* The writer takes no more than was received (app_firmware_update_finish).
LEMMA WriterPlace ==
  ASSUME UploadTypeOK, PagesInv, PlaceInv, HandlerStep \/ FlashError
  PROVE  PlaceInv'
<1>0. upload \in Uploads
  BY DEF UploadTypeOK, Uploads
<1>1. ASSUME upload'.active = FALSE, upload'.image_size = upload.image_size, handler' # "last_page"
      PROVE  PlaceInv'
  BY <1>1 DEF PlaceInv, Writing
<1>2. CASE EraseForPage
  <2>1. /\ upload'.image_size = upload.image_size /\ upload'.active = upload.active
        /\ upload'.image_received = upload.image_received
        /\ handler' = handler /\ buffer' = buffer
    BY <1>0, <1>2 DEF EraseForPage, Uploads
  <2> QED
    BY <2>1 DEF PlaceInv, Writing
<1>3. CASE ProgramForPage
  <2>1. /\ UNCHANGED upload /\ handler \in {"page", "last_page"}
        /\ handler' \in {"erase_metadata", "finished", "idle"}
    BY <1>3 DEF ProgramForPage, AfterPage
  <2> QED
    BY <2>1 DEF PlaceInv, Writing
<1>4. CASE PostFinished
  <2>1. handler = "finished" /\ FinishRequest /\ UNCHANGED buffer
    BY <1>4 DEF PostFinished
  <2>2. CASE handler' = "idle" /\ RequestFail(request, upload)
    <3>1. upload'.active = FALSE /\ upload'.image_size = upload.image_size
      BY <1>0, <2>2 DEF RequestFail, Uploads
    <3> QED
      BY <1>1, <2>2, <3>1
  <2>3. CASE UploadEnds(FALSE)
    <3>1. upload'.active = FALSE /\ upload'.image_size = upload.image_size /\ handler' = "idle"
      BY <1>0, <2>3 DEF UploadEnds, Uploads
    <3> QED
      BY <1>1, <3>1
  <2>4. CASE UNCHANGED upload /\ handler' \in {"idle", "erase_metadata"}
    BY <2>1, <2>4 DEF PlaceInv, Writing
  <2>5. CASE UNCHANGED upload /\ handler' = "last_page" /\ buffer # << >>
    BY <2>1, <2>5 DEF PlaceInv, Writing
  <2> QED
    BY <2>1, <2>2, <2>3, <2>4, <2>5 DEF FinishRequest
<1>5. CASE EraseMetadata
  BY <1>5 DEF EraseMetadata, PlaceInv, Writing
<1>6. CASE ProgramMetadata
  <2>1. CASE UNCHANGED <<upload, handler>>
    BY <1>6, <2>1 DEF ProgramMetadata, PlaceInv, Writing
  <2>2. CASE UploadEnds(TRUE)
    <3>1. upload'.active = FALSE /\ upload'.image_size = upload.image_size /\ handler' = "idle"
      BY <1>0, <2>2 DEF UploadEnds, Uploads
    <3> QED
      BY <1>1, <3>1
  <2> QED
    BY <1>6, <2>1, <2>2 DEF ProgramMetadata
<1>7. CASE FlashError
  <2>1. handler' # "last_page"
    BY <1>7 DEF FlashError, AfterPage, UploadEnds
  <2>2. upload'.active = FALSE /\ upload'.image_size = upload.image_size
    BY <1>0, <1>7 DEF FlashError, RequestFail, UploadEnds, Uploads
  <2> QED
    BY <1>1, <2>1, <2>2
<1> QED
  BY <1>2, <1>3, <1>4, <1>5, <1>6, <1>7 DEF HandlerStep

\* The boot loader leaves the upload alone, and a reset ends it.
LEMMA PlaceNext == TInv /\ PagesInv /\ PlaceInv /\ [Next]_vars => PlaceInv'
<1> SUFFICES ASSUME TInv, PagesInv, PlaceInv, [Next]_vars PROVE PlaceInv'
  OBVIOUS
<1>1. CASE BootRuns \/ CopyFault \/ UNCHANGED vars
  <2>1. UNCHANGED <<upload, buffer, handler>>
    BY <1>1 DEF BootRuns, CopyFault, uploadVars, vars
  <2> QED
    BY <2>1 DEF PlaceInv, Writing
<1>2. CASE AppRuns \/ AppFlashError
  BY <1>2, PostPlace, WriterPlace DEF AppRuns, AppFlashError, TInv, TypeOK
<1>3. CASE Reboot \/ PowerLoss
  <2>1. UploadReset
    BY <1>3 DEF Reboot, PowerLoss
  <2>2. upload'.image_size = 0 /\ upload'.image_received = 0 /\ handler' = "idle"
    BY <2>1 DEF UploadReset, NoUpload
  <2> QED
    BY <2>2, FlashAssumption DEF PlaceInv
<1> QED
  BY <1>1, <1>2, <1>3 DEF Next

\* Whatever the browsers send, in whatever order and however many of them:
\* the page buffer never overflows, and nothing outside the staging area is
\* erased or programmed for an image.
THEOREM AlwaysWritesInPlace == Spec => []WritesInPlace
<1>1. Init => PagesInv /\ PlaceInv
  BY FlashAssumption DEF Init, UploadInit, NoUpload, PagesInv, Writing, PlaceInv
<1>2. TInv /\ PagesInv /\ PlaceInv => WritesInPlace
  <2> SUFFICES ASSUME TInv, PagesInv, PlaceInv PROVE WritesInPlace
    OBVIOUS
  <2>0. /\ upload.image_received \in Nat /\ upload.erased_up_to \in Nat /\ buffer \in Seq(Units)
        /\ upload.image_size \in Nat /\ Len(buffer) \in Nat
    BY DEF TInv, TypeOK, UploadTypeOK
  <2>1. handler = "idle" /\ Accepting => Len(buffer) < PageSize
    BY DEF PagesInv, Writing, Accepting
  <2>2. ASSUME handler \in {"page", "last_page"}
        PROVE  IF SectorIsErased THEN PageOffset + PageSize <= RegionSize
                                 ELSE upload.erased_up_to + SectorSize <= RegionSize
    <3>1. /\ Pages(upload.image_received, Len(buffer), upload.erased_up_to, staging)
          /\ upload.image_received <= RegionSize
      BY <2>0, <2>2, FlashAssumption DEF PagesInv, PlaceInv, Writing
    <3>2. Len(buffer) > 0
      <4>1. handler = "page" => Len(buffer) = PageSize
        BY <2>2 DEF PagesInv, Writing
      <4>2. handler = "last_page" => Len(buffer) # 0
        BY <2>0 DEF PlaceInv
      <4> QED
        BY <2>0, <2>2, <4>1, <4>2, FlashAssumption
    <3>3. PICK p \in Nat, s \in Nat :
            upload.image_received - Len(buffer) = p * PageSize /\ upload.erased_up_to = s * SectorSize
      BY <3>1 DEF Pages
    <3>4. PICK m \in 1 .. RegionSize : RegionSize = m * SectorSize
      BY FlashAssumption
    <3>5. /\ PageSize \in Nat \ {0} /\ SectorSize \in Nat \ {0} /\ m \in Nat /\ RegionSize \in Nat
      BY <3>4, FlashAssumption
    <3>6. p * PageSize < m * SectorSize
      BY <2>0, <3>1, <3>2, <3>3, <3>4, <3>5
    <3>7. p * PageSize + PageSize <= m * SectorSize
      BY <3>5, <3>6, PageFits
    <3>8. CASE ~ SectorIsErased
      <4>1. s * SectorSize <= p * PageSize
        BY <2>0, <3>3, <3>5, <3>8 DEF SectorIsErased, PageOffset
      <4>2. s * SectorSize < m * SectorSize
        BY <3>5, <3>6, <4>1
      <4>3. s * SectorSize + SectorSize <= m * SectorSize
        BY <3>5, <4>2, NextMultiple
      <4> QED
        BY <3>3, <3>4, <3>8, <4>3
    <3> QED
      BY <3>3, <3>4, <3>7, <3>8 DEF PageOffset
  <2> QED
    BY <2>1, <2>2 DEF WritesInPlace
<1> QED
  BY <1>1, <1>2, TInvInit, TInvNext, PagesNext, PlaceNext, PTL DEF Spec
-----------------------------------------------------------------------------
(***************************************************************************)
(* What "uploaded" promises, when one browser uploads at a time.  While an *)
(* upload is active its units are those of one file, in order: the header  *)
(* is that file's, the flash and the page being filled hold as much of its *)
(* image as was received, and the browser goes on where the upload stands. *)
(* With two browsers the last part fails, and so does the promise.         *)
(***************************************************************************)
\* What the application knows of the file f from the requests and the header.
Announced(f, u, h) ==
  /\ ImageSize[f] <= RegionSize /\ u.content_len = Total(f)
  /\ u.received > 0 => h = <<f, 0>>
  /\ u.header_valid => h = <<f, 0>> /\ u.image_size = ImageSize[f]
  /\ u.received >= HeaderSize => u.received = HeaderSize + u.image_received

\* Of the n units of f's image that came, the last are in buffer b, the
\* others in region g.
Content(f, n, b, g) ==
  /\ \A i \in Region : i < n - Len(b) => g[i] = <<f, HeaderSize + i>>
  /\ \A j \in 1 .. Len(b) : b[j] = <<f, HeaderSize + (n - Len(b)) + (j - 1)>>

\* The browsers send f, the next unit being unit n.
Feeding(f, n, req, brs) ==
  \A b \in Browsers :
    /\ brs[b].file \in {f, NoFile}
    /\ brs[b].open /\ req.valid => brs[b].offset + brs[b].sent = n

Finishing == handler \in {"last_page", "erase_metadata", "program_metadata"}

\* The upload of f, as far as it has come.
UploadOf(f) ==
  /\ Announced(f, upload, header)
  /\ Content(f, upload.image_received, buffer, staging)
  /\ Feeding(f, upload.received, request, browsers)

ContentInv ==
  /\ upload.active => \E f \in Files : UploadOf(f)
  /\ Finishing => /\ upload.active /\ upload.header_valid
                  /\ upload.image_received = upload.image_size
  /\ handler \in {"erase_metadata", "program_metadata"} => buffer = << >>
  /\ handler \in {"last_page", "erase_metadata"} => metaPage = 0
  /\ handler = "program_metadata" =>
       metadata = IF metaPage = 0 THEN Erased ELSE header[1]
  /\ status = "uploaded" =>
       ~ upload.active /\ metadata \in Files /\ Holds(staging, metadata)
  /\ pc # "app" => status # "uploaded" /\ ~ upload.active

OneBrowser == \A b, c \in Browsers : b = c

\* A further unit of the image goes to the end of the buffer.
LEMMA ContentGrow ==
  ASSUME NEW f \in Files, NEW n \in Nat, NEW b \in Seq(Units), NEW g, Content(f, n, b, g)
  PROVE  Content(f, n + 1, Append(b, <<f, HeaderSize + n>>), g)
<1> DEFINE c == Append(b, <<f, HeaderSize + n>>)
<1>1. /\ Len(b) \in Nat /\ Len(c) = Len(b) + 1 /\ (n + 1) - (Len(b) + 1) = n - Len(b)
      /\ \A j \in 1 .. Len(b) : c[j] = b[j]
      /\ c[Len(b) + 1] = <<f, HeaderSize + n>>
  OBVIOUS
<1>2. HeaderSize \in Nat
  BY FlashAssumption DEF HeaderSize
<1>3. ASSUME NEW j \in 1 .. Len(b) + 1
      PROVE  c[j] = <<f, HeaderSize + (n - Len(b)) + (j - 1)>>
  <2>1. CASE j = Len(b) + 1
    <3>1. HeaderSize + (n - Len(b)) + (j - 1) = HeaderSize + n
      BY <1>1, <1>2, <2>1
    <3> QED
      BY <1>1, <2>1, <3>1
  <2>2. CASE j \in 1 .. Len(b)
    BY <1>1, <2>2 DEF Content
  <2> QED
    BY <1>1, <2>1, <2>2
<1>4. \A i \in Region : i < n - Len(b) => g[i] = <<f, HeaderSize + i>>
  BY DEF Content
<1> HIDE DEF c
<1>5. Content(f, n + 1, c, g)
  BY <1>1, <1>3, <1>4 DEF Content
<1> QED
  BY <1>5 DEF c

\* Erasing ahead of the page loses nothing.
LEMMA ContentErase ==
  ASSUME NEW f \in Files, NEW n \in Nat, NEW e \in Nat, NEW b \in Seq(Units), NEW g,
         Content(f, n, b, g), Pages(n, Len(b), e, g)
  PROVE  Content(f, n, b, EraseSector(g, e))
<1>1. n - Len(b) <= e /\ Len(b) \in Nat
  BY DEF Pages
<1>2. \A i \in Region : i < n - Len(b) => i \notin e .. e + SectorSize - 1
  BY <1>1 DEF Region
<1> QED
  BY <1>2 DEF Content, EraseSector

\* Programming the buffer moves its units to the flash.
LEMMA ContentProgram ==
  ASSUME NEW f \in Files, NEW n \in Nat, NEW e \in Nat, NEW b \in Seq(Units), NEW g,
         Content(f, n, b, g), Pages(n, Len(b), e, g), e > n - Len(b)
  PROVE  Content(f, n, << >>, ProgramPage(g, n - Len(b), b))
<1>1. /\ Len(b) \in Nat /\ Len(b) <= PageSize /\ PageSize \in Nat /\ HeaderSize \in Nat
      /\ Len(<< >>) = 0
  BY FlashAssumption DEF Pages, HeaderSize
<1>2. ASSUME NEW i \in Region, i < n
      PROVE  ProgramPage(g, n - Len(b), b)[i] = <<f, HeaderSize + i>>
  <2>1. i \in Int
    BY FlashAssumption DEF Region
  <2>2. CASE i < n - Len(b)
    <3>1. i \notin n - Len(b) .. n - Len(b) + PageSize - 1
      BY <1>1, <2>1, <2>2
    <3> QED
      BY <2>2, <3>1 DEF Content, ProgramPage
  <2>3. CASE ~ (i < n - Len(b))
    <3>1. /\ i \in n - Len(b) .. n - Len(b) + PageSize - 1
          /\ i - (n - Len(b)) < Len(b) /\ i - (n - Len(b)) + 1 \in 1 .. Len(b)
      BY <1>1, <1>2, <2>1, <2>3
    <3>2. g[i] = Erased
      BY <1>1, <3>1, PagesBlank
    <3>3. b[i - (n - Len(b)) + 1] = <<f, HeaderSize + (n - Len(b)) + (i - (n - Len(b)) + 1 - 1)>>
      BY <3>1 DEF Content
    <3>4. HeaderSize + (n - Len(b)) + (i - (n - Len(b)) + 1 - 1) = HeaderSize + i
      BY <1>1, <2>1
    <3> QED
      BY <3>1, <3>2, <3>3, <3>4 DEF ProgramPage, Programmed
  <2> QED
    BY <2>2, <2>3
<1>3. \A i \in Region : i < n - 0 => ProgramPage(g, n - Len(b), b)[i] = <<f, HeaderSize + i>>
  BY <1>2
<1> QED
  BY <1>1, <1>3 DEF Content

\* When everything came and nothing is left in the buffer, the image is whole.
LEMMA ContentHeld ==
  ASSUME NEW f \in Files, NEW g, ImageSize[f] <= RegionSize, Content(f, ImageSize[f], << >>, g)
  PROVE  Holds(g, f)
<1>1. ImageSize[f] \in Nat /\ RegionSize \in Nat /\ Len(<< >>) = 0
  BY FlashAssumption
<1>2. \A i \in 0 .. ImageSize[f] - 1 : i \in Region /\ i < ImageSize[f] - 0
  BY <1>1 DEF Region
<1> QED
  BY <1>1, <1>2 DEF Content, Holds

\* The first unit of a file is its manifest, and the header is complete when
\* HeaderSize units have come.
LEMMA HeaderUnit ==
  ASSUME NEW f \in Files, NEW u \in Uploads, NEW h, Announced(f, u, h),
         u.received < HeaderSize, u.image_received = 0,
         NEW w \in Uploads, w.received = u.received + 1, w.content_len = u.content_len,
         w.image_received = 0,
         \/ w.header_valid = u.header_valid /\ w.image_size = u.image_size
         \/ w.image_size = ImageSize[f]
  PROVE  Announced(f, w, <<f, 0>>)
<1>1. u.received \in Nat /\ HeaderSize \in Nat
  BY FlashAssumption DEF Uploads, HeaderSize
<1>2. w.received >= HeaderSize => w.received = HeaderSize + w.image_received
  BY <1>1
<1>3. w.header_valid => w.image_size = ImageSize[f]
  BY DEF Announced
<1> QED
  BY <1>2, <1>3 DEF Announced

\* A unit of the image is counted twice, in the file and in the image.
LEMMA ImageUnit ==
  ASSUME NEW f \in Files, NEW u \in Uploads, NEW h, Announced(f, u, h),
         ~ (u.received < HeaderSize),
         NEW w \in Uploads, w.received = u.received + 1, w.content_len = u.content_len,
         w.image_received = u.image_received + 1,
         w.header_valid = u.header_valid, w.image_size = u.image_size
  PROVE  Announced(f, w, h) /\ u.received = HeaderSize + u.image_received
<1>1. u.received \in Nat /\ HeaderSize \in Nat \ {0} /\ u.image_received \in Nat
  BY FlashAssumption DEF Uploads, HeaderSize
<1>2. u.received = HeaderSize + u.image_received /\ h = <<f, 0>>
  BY <1>1 DEF Announced
<1>3. w.received = HeaderSize + w.image_received
  BY <1>1, <1>2
<1>4. /\ ImageSize[f] <= RegionSize /\ w.content_len = Total(f)
      /\ w.header_valid => w.image_size = ImageSize[f]
  BY DEF Announced
<1> QED
  BY <1>2, <1>3, <1>4 DEF Announced

\* An upload that is over promises nothing.
LEMMA UploadOver ==
  ASSUME upload'.active = FALSE, ~ Finishing', status' # "uploaded"
  PROVE  ContentInv'
  BY DEF ContentInv, Finishing

\* A handler that neither ends the upload nor writes to the flash keeps what
\* an earlier upload promised.
LEMMA UploadGoesOn ==
  ASSUME ContentInv, upload'.active = upload.active, ~ Finishing', pc = "app", pc' = "app",
         UNCHANGED <<flash, status>>,
         upload.active => \E f \in Files : UploadOf(f)'
  PROVE  ContentInv'
<1>1. status' = "uploaded" =>
        ~ upload'.active /\ metadata' \in Files /\ Holds(staging', metadata')
  <2> SUFFICES ASSUME status' = "uploaded"
               PROVE  ~ upload'.active /\ metadata' \in Files /\ Holds(staging', metadata')
    OBVIOUS
  <2>1. ~ upload.active /\ metadata \in Files /\ Holds(staging, metadata)
    BY DEF ContentInv
  <2>2. metadata' = metadata /\ staging' = staging
    BY DEF flash
  <2> QED
    BY <2>1, <2>2
<1> QED
  BY <1>1 DEF ContentInv, Finishing

\* The browser's next POST continues the upload of the file it is in.
LEMMA BeginContent ==
  ASSUME OneBrowser, UploadTypeOK, ContentInv, pc = "app", pc' = "app",
         NEW b \in Browsers, NEW f \in OtaFiles, NEW off, PostBegin(b, f, off)
  PROVE  ContentInv'
<1>0. /\ HeaderSize \in Nat \ {0} /\ f \in Files /\ upload \in Uploads
      /\ browsers \in [Browsers -> Loops]
  BY FlashAssumption DEF HeaderSize, OtaFiles, UploadTypeOK, Uploads, Loops
<1>1. /\ handler' = "idle" /\ UNCHANGED flash
      /\ browsers' = [browsers EXCEPT ![b] =
                        [file |-> f, offset |-> off, sent |-> 0, open |-> TRUE]]
  BY DEF PostBegin
<1>2. ~ Finishing'
  BY <1>1 DEF Finishing
<1>3. \A c \in Browsers : /\ c = b /\ browsers'[c].file = f /\ browsers'[c].offset = off
                          /\ browsers'[c].sent = 0
  BY <1>0, <1>1 DEF OneBrowser
<1>4. CASE off = 0 /\ ImageSize[f] <= RegionSize
  <2>1. /\ upload' = [NoUpload EXCEPT !.active = TRUE, !.content_len = Total(f)]
        /\ buffer' = << >> /\ status' = "in_progress"
    BY <1>0, <1>4, FlashAssumption DEF PostBegin, BeginUpload
  <2>2. /\ upload'.received = 0 /\ upload'.image_received = 0 /\ upload'.header_valid = FALSE
        /\ upload'.content_len = Total(f) /\ Len(buffer') = 0
    BY <2>1 DEF NoUpload
  <2>3. Announced(f, upload', header')
    BY <1>0, <1>4, <2>2 DEF Announced
  <2>4. Content(f, upload'.image_received, buffer', staging')
    BY <2>1, <2>2 DEF Content, Region
  <2>5. Feeding(f, upload'.received, request', browsers')
    BY <1>3, <1>4, <2>2 DEF Feeding
  <2>6. UploadOf(f)'
    BY <2>3, <2>4, <2>5 DEF UploadOf
  <2> QED
    BY <1>0, <1>1, <1>2, <2>1, <2>6 DEF ContentInv, Finishing
<1>5. CASE off = 0 /\ ~ (ImageSize[f] <= RegionSize)
  <2>1. upload' = [NoUpload EXCEPT !.ok = FALSE] /\ status' = "failed"
    BY <1>0, <1>5, FlashAssumption DEF PostBegin, BeginUpload
  <2> QED
    BY <1>2, <2>1, UploadOver DEF NoUpload
<1>6. CASE off # 0
  <2>1. ContinueUpload(f, off) /\ UNCHANGED <<header, buffer>> /\ browsers[b].file = f
    BY <1>6 DEF PostBegin, OpensChunk
  <2>2. CASE RequestFail(NoRequest, upload)
    BY <1>0, <1>2, <2>2, UploadOver DEF RequestFail, Uploads
  <2>3. CASE upload.active /\ off = upload.received /\ UNCHANGED <<upload, status>>
    <3>1. PICK g \in Files : UploadOf(g)
      BY <2>3 DEF ContentInv
    <3>2. g = f
      BY <1>0, <2>1, <3>1, UploadAssumption DEF UploadOf, Feeding
    <3>3. Feeding(f, upload.received, request', browsers')
      <4>1. upload.received \in Nat
        BY <1>0 DEF Uploads
      <4> QED
        BY <1>3, <2>3, <4>1 DEF Feeding
    <3>4. UploadOf(f)'
      BY <1>1, <2>1, <2>3, <3>1, <3>2, <3>3 DEF UploadOf, flash
    <3> QED
      BY <1>0, <1>1, <1>2, <2>3, <3>4, UploadGoesOn
  <2> QED
    BY <2>1, <2>2, <2>3 DEF ContinueUpload
<1> QED
  BY <1>4, <1>5, <1>6

\* A counter of the upload advances and the rest of it stays.
LEMMA UploadFields ==
  ASSUME NEW u \in Uploads, NEW n \in Nat
  PROVE  /\ [u EXCEPT !.received = n] \in Uploads
         /\ [u EXCEPT !.received = n].active = u.active
         /\ [u EXCEPT !.received = n].received = n
         /\ [u EXCEPT !.received = n].image_received = u.image_received
         /\ [u EXCEPT !.received = n].content_len = u.content_len
         /\ [u EXCEPT !.received = n].header_valid = u.header_valid
         /\ [u EXCEPT !.received = n].image_size = u.image_size
         /\ [u EXCEPT !.image_received = n] \in Uploads
         /\ [u EXCEPT !.image_received = n].active = u.active
         /\ [u EXCEPT !.image_received = n].received = u.received
         /\ [u EXCEPT !.image_received = n].image_received = n
         /\ [u EXCEPT !.image_received = n].content_len = u.content_len
         /\ [u EXCEPT !.image_received = n].header_valid = u.header_valid
         /\ [u EXCEPT !.image_received = n].image_size = u.image_size
  BY DEF Uploads

\* A unit of the body goes where the file has it.
LEMMA UnitContent ==
  ASSUME OneBrowser, UploadTypeOK, UploadKnown, PagesInv, ContentInv, pc = "app", pc' = "app",
         NEW b \in Browsers, ReceiveUnit(b)
  PROVE  ContentInv'
<1> DEFINE unit == <<browsers[b].file, browsers[b].offset + browsers[b].sent>>
           req == [request EXCEPT !.received = @ + 1]
           upl == [upload EXCEPT !.received = @ + 1]
           upi == [upl EXCEPT !.image_received = @ + 1]
<1>0. /\ upload \in Uploads /\ browsers \in [Browsers -> Loops] /\ request \in Requests
      /\ buffer \in Seq(Units) /\ browsers[b] \in Loops
      /\ upload.received \in Nat /\ upload.image_received \in Nat
  BY DEF UploadTypeOK, Uploads, Loops, Requests
<1>1. /\ browsers' = [browsers EXCEPT ![b].sent = @ + 1] /\ browsers[b].open
      /\ UNCHANGED flash /\ handler = "idle"
  BY DEF ReceiveUnit
<1>2. ~ Finishing'
  BY DEF Finishing, ReceiveUnit, AfterUnit
<1>3. \A c \in Browsers : /\ c = b /\ browsers'[c].file = browsers[b].file
                          /\ browsers'[c].offset = browsers[b].offset
                          /\ browsers'[c].sent = browsers[b].sent + 1
  BY <1>0, <1>1 DEF OneBrowser, Loops
<1>4. /\ upl \in Uploads /\ upl.active = upload.active /\ upl.received = upload.received + 1
      /\ upl.image_received = upload.image_received /\ upl.content_len = upload.content_len
      /\ upl.header_valid = upload.header_valid /\ upl.image_size = upload.image_size
      /\ upi \in Uploads /\ upi.active = upload.active /\ upi.received = upload.received + 1
      /\ upi.image_received = upload.image_received + 1 /\ upi.content_len = upload.content_len
      /\ upi.header_valid = upload.header_valid /\ upi.image_size = upload.image_size
  <2>1. upload.received + 1 \in Nat /\ upload.image_received + 1 \in Nat
    BY <1>0
  <2>2. /\ upl \in Uploads /\ upl.active = upload.active /\ upl.received = upload.received + 1
        /\ upl.image_received = upload.image_received /\ upl.content_len = upload.content_len
        /\ upl.header_valid = upload.header_valid /\ upl.image_size = upload.image_size
    BY <1>0, <2>1, UploadFields
  <2>3. upi = [upl EXCEPT !.image_received = upload.image_received + 1]
    BY <2>2
  <2> HIDE DEF upl, upi
  <2>4. /\ upi \in Uploads /\ upi.active = upl.active /\ upi.received = upl.received
        /\ upi.image_received = upload.image_received + 1 /\ upi.content_len = upl.content_len
        /\ upi.header_valid = upl.header_valid /\ upi.image_size = upl.image_size
    BY <2>1, <2>2, <2>3, UploadFields
  <2> QED
    BY <2>2, <2>4
<1>5. CASE ~ Accepting
  <2>1. UNCHANGED <<request, upload, header, buffer, status>>
    BY <1>5 DEF ReceiveUnit
  <2>2. ASSUME upload.active PROVE \E f \in Files : UploadOf(f)'
    <3>1. PICK f \in Files : UploadOf(f)
      BY <2>2 DEF ContentInv
    <3>2. ~ request.valid /\ browsers[b].file \in {f, NoFile}
      BY <1>5, <2>2, <3>1 DEF Accepting, UploadOf, Feeding
    <3>3. Feeding(f, upload.received, request, browsers')
      BY <1>3, <3>2 DEF Feeding
    <3> QED
      BY <1>1, <2>1, <3>1, <3>3 DEF UploadOf, flash
  <2> QED
    BY <1>1, <1>2, <2>1, <2>2, UploadGoesOn
<1>6. CASE Accepting
  <2>1. PICK f \in Files : UploadOf(f)
    BY <1>6 DEF ContentInv, Accepting
  <2>2. /\ browsers[b].file = f
        /\ browsers[b].offset + browsers[b].sent = upload.received
    BY <1>0, <1>1, <1>6, <2>1, UploadAssumption DEF UploadOf, Feeding, Accepting, UploadKnown
  <2>3. unit = <<f, upload.received>>
    BY <2>2
  <2>4. browsers[b].offset + (browsers[b].sent + 1) = upload.received + 1
    BY <1>0, <2>2 DEF Loops
  <2>5. Feeding(f, upload.received + 1, request', browsers')
    BY <1>3, <2>2, <2>4 DEF Feeding
  <2> HIDE DEF unit, req, upl, upi
  <2>6. CASE upload.received < HeaderSize
    <3>1. WriteHeader(unit, upl, req)
      BY <1>6, <2>6 DEF ReceiveUnit, PageIsFull, unit, req, upl
    <3>2. header' = <<f, 0>>
      <4>1. upload.received # 0 => upload.received > 0
        BY <1>0
      <4> QED
        BY <2>1, <2>3, <3>1, <4>1 DEF WriteHeader, UploadOf, Announced
    <3>3. upload.image_received = 0 /\ buffer = << >>
      BY <1>1, <1>6, <2>6 DEF PagesInv, Writing, Accepting
    <3>4. CASE RequestFail(req, upl)
      BY <1>2, <1>4, <3>4, UploadOver DEF RequestFail, Uploads
    <3>5. ASSUME buffer' = << >>, UNCHANGED status,
                 NEW w \in Uploads, upload' = w, w.active = upload.active,
                 w.received = upload.received + 1, w.content_len = upload.content_len,
                 w.image_received = 0,
                 \/ w.header_valid = upload.header_valid /\ w.image_size = upload.image_size
                 \/ w.image_size = ImageSize[f]
          PROVE  ContentInv'
      <4>1. Announced(f, w, <<f, 0>>)
        <5>1. Announced(f, upload, header)
          BY <2>1 DEF UploadOf
        <5> QED
          BY <1>0, <2>6, <3>3, <3>5, <5>1, HeaderUnit
      <4>2. Content(f, upload'.image_received, buffer', staging')
        BY <1>1, <2>1, <3>3, <3>5 DEF UploadOf, flash
      <4>3. UploadOf(f)'
        BY <2>5, <3>2, <3>5, <4>1, <4>2 DEF UploadOf
      <4> QED
        BY <1>1, <1>2, <3>5, <4>3, UploadGoesOn
    <3>6. CASE upload' = upl /\ UNCHANGED <<status, buffer>>
      BY <1>4, <3>3, <3>5, <3>6
    <3>7. CASE /\ upload' = [upl EXCEPT !.header_valid = TRUE, !.image_size = ImageSize[header'[1]]]
               /\ buffer' = << >> /\ UNCHANGED status
      <4>1. header'[1] = f /\ ImageSize[f] \in Nat
        BY <3>2, FlashAssumption
      <4> DEFINE w == [upl EXCEPT !.header_valid = TRUE, !.image_size = ImageSize[f]]
      <4>2. /\ w \in Uploads /\ w.active = upl.active /\ w.received = upl.received
            /\ w.content_len = upl.content_len /\ w.image_received = upl.image_received
            /\ w.image_size = ImageSize[f]
        BY <1>4, <4>1 DEF Uploads
      <4>3. upload' = w
        BY <3>7, <4>1
      <4> HIDE DEF w
      <4> QED
        BY <1>4, <3>3, <3>5, <3>7, <4>2, <4>3
    <3> QED
      BY <3>1, <3>4, <3>6, <3>7 DEF WriteHeader
  <2>7. CASE ~ (upload.received < HeaderSize)
    <3>1. WriteImage(unit, upi, req)
      BY <1>6, <2>7 DEF ReceiveUnit, PageIsFull, unit, req, upl, upi
    <3>2. CASE RequestFail(req, upi)
      BY <1>2, <1>4, <3>2, UploadOver DEF RequestFail, Uploads
    <3>3. CASE upload' = upi /\ UNCHANGED status
      <4>1. Announced(f, upload, header) /\ Content(f, upload.image_received, buffer, staging)
        BY <2>1 DEF UploadOf
      <4>2. Announced(f, upi, header) /\ upload.received = HeaderSize + upload.image_received
        BY <1>0, <1>4, <2>7, <4>1, ImageUnit
      <4>3. buffer' = Append(buffer, <<f, HeaderSize + upload.image_received>>)
        BY <2>3, <3>1, <4>2 DEF WriteImage
      <4>4. Content(f, upload.image_received + 1, buffer', staging)
        BY <1>0, <4>1, <4>3, ContentGrow
      <4>5. UploadOf(f)'
        <5>1. upload'.received = upload.received + 1 /\ upload'.image_received = upload.image_received + 1
          BY <1>4, <3>3
        <5>2. header' = header /\ staging' = staging
          BY <1>1, <3>1 DEF WriteImage, flash
        <5> QED
          BY <2>5, <3>3, <4>2, <4>4, <5>1, <5>2 DEF UploadOf
      <4> QED
        BY <1>1, <1>2, <1>4, <3>3, <4>5, UploadGoesOn
    <3> QED
      BY <3>1, <3>2, <3>3 DEF WriteImage
  <2> QED
    BY <2>6, <2>7
<1> QED
  BY <1>5, <1>6

\* The browsers keep the upload in order (app_web.c, html/settings.html).
LEMMA PostContent ==
  ASSUME OneBrowser, UploadTypeOK, UploadKnown, PagesInv, ContentInv, BrowserStep,
         pc = "app", pc' = "app"
  PROVE  ContentInv'
<1>1. handler = "idle" /\ UNCHANGED flash /\ upload \in Uploads
  BY DEF BrowserStep, PostBegin, PostMalformed, PostOtherUri, ReceiveUnit, ConnectionLost,
     UploadTypeOK, Uploads
<1>2. ASSUME NEW b \in Browsers, NEW f \in OtaFiles, NEW off, PostBegin(b, f, off)
      PROVE  ContentInv'
  BY <1>2, BeginContent
<1>3. ASSUME NEW b \in Browsers, NEW f \in OtaFiles, PostMalformed(b, f)
      PROVE  ContentInv'
  BY <1>1, <1>3, UploadOver DEF PostMalformed, RequestFail, Uploads, Finishing
<1>4. CASE PostOtherUri
  <2>1. ASSUME NEW f \in Files, UploadOf(f) PROVE UploadOf(f)'
    BY <1>1, <1>4, <2>1 DEF PostOtherUri, UploadOf, Feeding, NoRequest, flash
  <2> QED
    BY <1>1, <1>4, <2>1, UploadGoesOn DEF PostOtherUri, Finishing, ContentInv
<1>5. ASSUME NEW b \in Browsers, ConnectionLost(b)
      PROVE  ContentInv'
  <2>1. ASSUME NEW f \in Files, UploadOf(f) PROVE UploadOf(f)'
    BY <1>1, <1>5, <2>1 DEF ConnectionLost, UploadOf, Feeding, flash
  <2> QED
    BY <1>1, <1>5, <2>1, UploadGoesOn DEF ConnectionLost, Finishing, ContentInv
<1>6. ASSUME NEW b \in Browsers, ReceiveUnit(b)
      PROVE  ContentInv'
  BY <1>6, UnitContent
<1> QED
  BY <1>2, <1>3, <1>4, <1>5, <1>6 DEF BrowserStep

\* The handler finishes an upload only when all of its image is staged
\* (app_firmware_update_finish, httpd_post_finished).
LEMMA WriterContent ==
  ASSUME OneBrowser, UploadTypeOK, PagesInv, ContentInv, HandlerStep \/ FlashError,
         pc = "app", pc' = "app"
  PROVE  ContentInv'
<1>0. /\ buffer \in Seq(Units) /\ upload \in Uploads /\ current \in Browsers
      /\ upload.image_received \in Nat /\ upload.erased_up_to \in Nat /\ metaPage \in Nat
      /\ browsers \in [Browsers -> Loops]
  BY DEF UploadTypeOK, Uploads, Loops
<1>1. CASE EraseForPage
  <2>1. /\ upload.active /\ handler \in {"page", "last_page"}
        /\ Pages(upload.image_received, Len(buffer), upload.erased_up_to, staging)
    BY <1>1 DEF EraseForPage, PagesInv, Writing
  <2>2. PICK f \in Files : UploadOf(f)
    BY <2>1 DEF ContentInv
  <2>3. Content(f, upload.image_received, buffer, EraseSector(staging, upload.erased_up_to))
    BY <1>0, <2>1, <2>2, ContentErase DEF UploadOf
  <2>4. /\ upload' = [upload EXCEPT !.erased_up_to = upload.erased_up_to + SectorSize]
        /\ staging' = EraseSector(staging, upload.erased_up_to)
        /\ UNCHANGED <<request, header, buffer, status, handler, metaPage, browsers>>
    BY <1>1 DEF EraseForPage
  <2>5. /\ upload'.active = upload.active /\ upload'.content_len = upload.content_len
        /\ upload'.received = upload.received /\ upload'.header_valid = upload.header_valid
        /\ upload'.image_size = upload.image_size
        /\ upload'.image_received = upload.image_received
    BY <1>0, <2>4 DEF Uploads
  <2>6. UploadOf(f)'
    <3>1. Announced(f, upload', header')
      BY <2>2, <2>4, <2>5 DEF UploadOf, Announced
    <3> QED
      BY <2>2, <2>3, <2>4, <2>5, <3>1 DEF UploadOf
  <2> QED
    BY <2>1, <2>4, <2>5, <2>6 DEF ContentInv, Finishing
<1>2. CASE ProgramForPage
  <2>1. /\ upload.active /\ handler \in {"page", "last_page"}
        /\ Pages(upload.image_received, Len(buffer), upload.erased_up_to, staging)
        /\ upload.erased_up_to > upload.image_received - Len(buffer)
    BY <1>2 DEF ProgramForPage, PagesInv, Writing, SectorIsErased, PageOffset
  <2>2. PICK f \in Files : UploadOf(f)
    BY <2>1 DEF ContentInv
  <2>3. Content(f, upload.image_received, << >>,
                ProgramPage(staging, upload.image_received - Len(buffer), buffer))
    BY <1>0, <2>1, <2>2, ContentProgram DEF UploadOf
  <2>4. /\ staging' = ProgramPage(staging, upload.image_received - Len(buffer), buffer)
        /\ buffer' = << >> /\ handler' = AfterPage
        /\ UNCHANGED <<request, upload, header, status, metaPage, browsers>>
    BY <1>2 DEF ProgramForPage, PageOffset
  <2>5. UploadOf(f)'
    BY <2>2, <2>3, <2>4 DEF UploadOf
  <2>6. /\ handler = "last_page" => handler' = "erase_metadata"
        /\ handler # "last_page" => handler' \in {"finished", "idle"}
    BY <2>4 DEF AfterPage
  <2> QED
    BY <2>1, <2>4, <2>5, <2>6 DEF ContentInv, Finishing
<1>3. CASE PostFinished
  <2>1. /\ handler = "finished" /\ FinishRequest /\ UNCHANGED <<buffer, header, flash>>
        /\ metaPage' = 0
        /\ browsers' = [browsers EXCEPT ![current] = BrowserAfterPost(browsers[current])]
    BY <1>3 DEF PostFinished
  <2>2. CASE handler' = "idle" /\ RequestFail(request, upload)
    BY <1>0, <2>2, UploadOver DEF RequestFail, Uploads, Finishing
  <2>3. CASE UploadEnds(FALSE)
    BY <1>0, <2>3, UploadOver DEF UploadEnds, Uploads, Finishing
  <2>4. ASSUME UNCHANGED upload, NEW f \in Files, UploadOf(f)
        PROVE  UploadOf(f)'
    <3>1. \A b \in Browsers : /\ browsers'[b].file \in {f, NoFile}
                              /\ browsers'[b].open = FALSE
      <4>1. BrowserAfterPost(browsers[current]).open = FALSE
        BY <1>0 DEF BrowserAfterPost, NoBrowser, Loops
      <4>2. BrowserAfterPost(browsers[current]).file \in {browsers[current].file, NoFile}
        BY <1>0 DEF BrowserAfterPost, NoBrowser, Loops
      <4>3. browsers[current].file \in {f, NoFile}
        BY <1>0, <2>4 DEF UploadOf, Feeding
      <4> HIDE DEF BrowserAfterPost
      <4> QED
        BY <1>0, <2>1, <4>1, <4>2, <4>3 DEF OneBrowser
    <3>2. Feeding(f, upload.received, request', browsers')
      BY <3>1 DEF Feeding
    <3> QED
      BY <2>1, <2>4, <3>2 DEF UploadOf, flash
  <2>5. CASE handler' = "idle" /\ UNCHANGED <<upload, status>>
    BY <2>1, <2>4, <2>5, UploadGoesOn DEF Finishing, ContentInv
  <2>6. CASE handler' = "idle" /\ status' = "in_progress" /\ UNCHANGED upload
    <3>1. pc' = "app" /\ upload'.active = upload.active
      BY <2>6
    <3> QED
      BY <2>4, <2>6, <3>1 DEF ContentInv, Finishing
  <2>7. CASE /\ handler' = IF buffer = << >> THEN "erase_metadata" ELSE "last_page"
             /\ UNCHANGED <<upload, status>> /\ upload.active /\ ImageIsComplete
    BY <2>1, <2>4, <2>7 DEF ContentInv, Finishing, ImageIsComplete
  <2> QED
    BY <2>1, <2>2, <2>3, <2>5, <2>6, <2>7 DEF FinishRequest
<1>4. CASE EraseMetadata
  <2>1. /\ handler = "erase_metadata" /\ handler' = "program_metadata" /\ metadata' = Erased
        /\ UNCHANGED <<request, upload, header, buffer, status, metaPage, browsers, staging>>
    BY <1>4 DEF EraseMetadata
  <2>2. ASSUME NEW f \in Files, UploadOf(f) PROVE UploadOf(f)'
    BY <2>1, <2>2 DEF UploadOf
  <2> QED
    BY <2>1, <2>2 DEF ContentInv, Finishing
<1>5. CASE ProgramMetadata
  <2>1. /\ handler = "program_metadata" /\ metaPage' = metaPage + 1 /\ buffer = << >>
        /\ UNCHANGED <<header, buffer, browsers, staging>> /\ upload.active
        /\ upload.header_valid /\ upload.image_received = upload.image_size
    BY <1>5 DEF ProgramMetadata, ContentInv, Finishing
  <2>2. PICK f \in Files : UploadOf(f)
    BY <2>1 DEF ContentInv
  <2>3. header[1] = f /\ upload.image_received = ImageSize[f] /\ ImageSize[f] <= RegionSize
    BY <2>1, <2>2 DEF UploadOf, Announced
  <2>4. metadata' = f
    <3>1. metadata = IF metaPage = 0 THEN Erased ELSE f
      BY <2>1, <2>3 DEF ContentInv
    <3> QED
      BY <1>5, <2>3, <3>1 DEF ProgramMetadata, Programmed
  <2>5. CASE UNCHANGED <<request, upload, status, handler>>
    <3>1. UploadOf(f)' /\ metaPage' # 0
      BY <1>0, <2>1, <2>2, <2>5 DEF UploadOf
    <3> QED
      BY <2>1, <2>3, <2>4, <2>5, <3>1 DEF ContentInv, Finishing
  <2>6. CASE UploadEnds(TRUE)
    <3>1. Content(f, ImageSize[f], << >>, staging)
      BY <2>1, <2>2, <2>3 DEF UploadOf
    <3>2. Holds(staging', metadata')
      BY <2>1, <2>3, <2>4, <3>1, ContentHeld
    <3>3. upload'.active = FALSE /\ handler' = "idle"
      BY <1>0, <2>6 DEF UploadEnds, Uploads
    <3> QED
      BY <2>4, <3>2, <3>3 DEF ContentInv, Finishing
  <2> QED
    BY <1>5, <2>5, <2>6 DEF ProgramMetadata
<1>6. CASE FlashError
  BY <1>0, <1>6, UploadOver DEF FlashError, RequestFail, UploadEnds, Uploads, AfterPage, Finishing
<1> QED
  BY <1>1, <1>2, <1>3, <1>4, <1>5, <1>6 DEF HandlerStep

\* A reset ends the upload; the boot loader runs only when there is none.
LEMMA ContentNext ==
  ASSUME OneBrowser, TInv, PagesInv, ContentInv, [Next]_vars PROVE ContentInv'
<1>1. CASE BootRuns \/ CopyFault
  <2>1. pc # "app" /\ UNCHANGED uploadVars
    BY <1>1 DEF BootRuns, BootStep, CopyFault, CopyProgramFault, TryApplyUpdate,
       CopyEraseSector, CopyProgramPage, VerifyCopy, ClearUpdateMetadata, JumpToApp
  <2>2. ~ upload.active /\ status # "uploaded" /\ ~ Finishing
    BY <2>1 DEF ContentInv
  <2> QED
    BY <2>1, <2>2 DEF uploadVars, ContentInv, Finishing
<1>2. CASE AppRuns \/ AppFlashError
  <2>1. pc = "app" /\ pc' = "app"
    BY <1>2 DEF AppRuns, AppFlashError, bootVars
  <2> QED
    BY <1>2, <2>1, PostContent, WriterContent DEF AppRuns, AppFlashError, TInv, TypeOK
<1>3. CASE Reboot \/ PowerLoss
  <2>1. UploadReset
    BY <1>3 DEF Reboot, PowerLoss
  <2>2. upload'.active = FALSE /\ ~ Finishing' /\ status' # "uploaded"
    BY <2>1 DEF UploadReset, NoUpload, Finishing
  <2> QED
    BY <2>2, UploadOver
<1>4. CASE UNCHANGED vars
  <2>1. \A f \in Files : UploadOf(f) => UploadOf(f)'
    BY <1>4 DEF vars, uploadVars, flash, UploadOf
  <2> QED
    BY <1>4, <2>1 DEF vars, uploadVars, flash, bootVars, ContentInv, Finishing
<1> QED
  BY <1>1, <1>2, <1>3, <1>4 DEF Next

\* With one browser, "Update uploaded. Reboot to apply firmware." is true:
\* the manifest in flash is that of an image that is staged whole.
THEOREM AlwaysUploadedIsApplicable == OneBrowser => (Spec => []UploadedIsApplicable)
<1> SUFFICES ASSUME OneBrowser PROVE Spec => []UploadedIsApplicable
  OBVIOUS
<1>1. Init => PagesInv /\ ContentInv
  BY DEF Init, UploadInit, NoUpload, PagesInv, Writing, ContentInv, Finishing
<1>2. TInv /\ PagesInv /\ ContentInv /\ [Next]_vars => ContentInv'
  BY ContentNext
<1>3. ContentInv => UploadedIsApplicable
  BY DEF ContentInv, UploadedIsApplicable
<1> QED
  BY <1>1, <1>2, <1>3, TInvInit, TInvNext, PagesNext, PTL DEF Spec
=============================================================================
