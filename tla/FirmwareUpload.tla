--------------------------- MODULE FirmwareUpload ---------------------------
(***************************************************************************)
(* The application's half of an update: the POST handlers of app_web.c and *)
(* the writer of app_firmware_update.c, driven by the upload loop of       *)
(* html/settings.html in one or more browsers.                             *)
(*                                                                         *)
(* The handlers run to completion on one core, but each flash operation    *)
(* they make is a step of its own, because the power can fail between two  *)
(* of them.  A pbuf of n units is handled as n pbufs of one unit, which is *)
(* what the handler's loop makes of it.                                    *)
(***************************************************************************)
EXTENDS FirmwareFlash

CONSTANTS
  Browsers,  \* HTTP clients that may be uploading
  NoFile     \* no upload loop is running in this browser

ASSUME UploadAssumption == NoFile \notin Files

VARIABLES
  request,   \* app_web_update_request: one for all connections
  upload,    \* app_firmware_update, without its buffers
  header,    \* app_firmware_update.header: only its first unit is ever read
  buffer,    \* app_firmware_update.page, up to page_fill
  status,    \* app_web_save_status, as far as updates set it
  handler,   \* what the running handler has still to do; "idle" if none runs
  current,   \* the connection it runs for
  metaPage,  \* next page of the metadata sector to program
  browsers   \* the upload loop of every browser and its open POST, if any

uploadVars ==
  <<request, upload, header, buffer, status, handler, current, metaPage, browsers>>

Handlers == {"idle", "page", "finished", "last_page", "erase_metadata",
             "program_metadata"}

NoRequest == [valid |-> FALSE, offset |-> 0, size |-> 0, received |-> 0]

NoUpload ==
  [active |-> FALSE, header_valid |-> FALSE, ok |-> TRUE, content_len |-> 0,
   received |-> 0, image_received |-> 0, image_size |-> 0, erased_up_to |-> 0]

NoBrowser == [file |-> NoFile, offset |-> 0, sent |-> 0, open |-> FALSE]

UploadTypeOK ==
  /\ request \in [valid : BOOLEAN, offset : Nat, size : Nat, received : Nat]
  /\ upload \in [active : BOOLEAN, header_valid : BOOLEAN, ok : BOOLEAN,
                 content_len : Nat, received : Nat, image_received : Nat,
                 image_size : Nat, erased_up_to : Nat]
  /\ header \in Units
  /\ buffer \in Seq(Units)
  /\ status \in {"none", "in_progress", "uploaded", "failed"}
  /\ handler \in Handlers
  /\ current \in Browsers
  /\ metaPage \in Nat
  /\ browsers \in [Browsers -> [file : Files \cup {NoFile}, offset : Nat,
                                sent : Nat, open : BOOLEAN]]

\* app_web_init, the zeroed statics, and every connection gone: a reset.
UploadReset ==
  /\ request' = NoRequest /\ upload' = NoUpload
  /\ header' = Erased /\ buffer' = << >> /\ status' = "none"
  /\ handler' = "idle" /\ metaPage' = 0 /\ UNCHANGED current
  /\ browsers' = [b \in Browsers |-> NoBrowser]

UploadInit ==
  /\ request = NoRequest /\ upload = NoUpload
  /\ header = Erased /\ buffer = << >> /\ status = "none"
  /\ handler = "idle" /\ metaPage = 0 /\ current \in Browsers
  /\ browsers = [b \in Browsers |-> NoBrowser]

\* The files users have to upload; the factory image is not among them.
OtaFiles == Files \ {Factory}

Total(f) == HeaderSize + ImageSize[f]
ChunkLen(f, off) == IF Total(f) - off > ChunkSize THEN ChunkSize ELSE Total(f) - off

(***************************************************************************)
(* app_web_update_request_fail, with app_firmware_update_abort.            *)
(***************************************************************************)
RequestFail(req, upl) ==
  /\ request' = [req EXCEPT !.valid = FALSE]
  /\ upload' = [upl EXCEPT !.active = FALSE, !.ok = @ /\ ~ upl.active]
  /\ status' = "failed"

(***************************************************************************)
(* httpd_post_begin.  The browser opens a POST: the first chunk of a file, *)
(* or the next one unless the page has reported a failed update.           *)
(***************************************************************************)
OpensChunk(b, f, off) ==
  \/ off = 0
  \/ off > 0 /\ browsers[b].file = f /\ browsers[b].offset = off /\ status # "failed"

BeginUpload(f) ==
  IF ImageSize[f] > RegionSize
  THEN /\ upload' = [NoUpload EXCEPT !.ok = FALSE]
       /\ request' = NoRequest /\ status' = "failed"
  ELSE /\ upload' = [NoUpload EXCEPT !.active = TRUE, !.content_len = Total(f)]
       /\ request' = [NoRequest EXCEPT !.valid = TRUE, !.size = ChunkLen(f, 0)]
       /\ status' = "in_progress"

ContinueUpload(f, off) ==
  IF upload.active /\ Total(f) = upload.content_len /\ off = upload.received
  THEN /\ request' = [NoRequest EXCEPT !.valid = TRUE, !.offset = off,
                                       !.size = ChunkLen(f, off)]
       /\ UNCHANGED <<upload, status>>
  ELSE RequestFail(NoRequest, upload)

PostBegin(b, f, off) ==
  /\ handler = "idle" /\ ~ browsers[b].open
  /\ OpensChunk(b, f, off) /\ off < Total(f)
  /\ browsers' = [browsers EXCEPT ![b] =
                    [file |-> f, offset |-> off, sent |-> 0, open |-> TRUE]]
  /\ IF off = 0
     THEN BeginUpload(f) /\ header' = Erased /\ buffer' = << >>
     ELSE ContinueUpload(f, off) /\ UNCHANGED <<header, buffer>>
  /\ UNCHANGED <<handler, current, metaPage, flash>>

\* A POST for another URI is refused, after the shared request was cleared.
PostOtherUri ==
  /\ handler = "idle"
  /\ request' = NoRequest
  /\ UNCHANGED <<upload, header, buffer, status, handler, current, metaPage,
                 browsers, flash>>

\* A POST to the update URI whose offset, total or length do not fit.
PostMalformed(b, f) ==
  /\ handler = "idle" /\ ~ browsers[b].open
  /\ browsers' = [browsers EXCEPT ![b] =
                    [file |-> f, offset |-> 0, sent |-> 0, open |-> TRUE]]
  /\ RequestFail(NoRequest, upload)
  /\ UNCHANGED <<header, buffer, handler, current, metaPage, flash>>

(***************************************************************************)
(* httpd_post_receive_data with app_firmware_update_write: one unit of the *)
(* POST's body.  It is written only while the shared request is valid and  *)
(* an upload is active; nothing ties it to the connection it came on.      *)
(***************************************************************************)
\* app_firmware_update_manifest_is_valid
HeaderIsValid(unit, content_len) ==
  \E f \in Files : /\ unit = <<f, 0>>
                   /\ ImageSize[f] <= RegionSize
                   /\ content_len = HeaderSize + ImageSize[f]

WriteHeader(unit, upl, req) ==
  LET hdr == IF upload.received = 0 THEN unit ELSE header IN
  /\ header' = hdr
  /\ IF upl.received < HeaderSize
     THEN upload' = upl /\ request' = req /\ UNCHANGED <<status, buffer>>
     ELSE IF HeaderIsValid(hdr, upl.content_len)
     THEN /\ upload' = [upl EXCEPT !.header_valid = TRUE,
                                   !.image_size = ImageSize[hdr[1]]]
          /\ request' = req /\ buffer' = << >> /\ UNCHANGED status
     ELSE RequestFail(req, upl) /\ UNCHANGED buffer

WriteImage(unit, upl, req) ==
  /\ buffer' = Append(buffer, unit)
  /\ IF upl.image_received > upl.image_size
     THEN RequestFail(req, upl)
     ELSE upload' = upl /\ request' = req /\ UNCHANGED status
  /\ UNCHANGED header

Accepting == request.valid /\ upload.active

\* Variant: a page is flashed when more than one has come.
PageIsFullLate(page) == Len(page) > PageSize
PageIsFull(page) == Len(page) = PageSize

\* What is left to do after this unit: a full page to flash, then, if this
\* was the POST's last unit, httpd_post_finished.
AfterUnit(b) ==
  IF browsers'[b].sent = ChunkLen(browsers[b].file, browsers[b].offset)
  THEN "finished" ELSE "idle"

ReceiveUnit(b) ==
  LET unit == <<browsers[b].file, browsers[b].offset + browsers[b].sent>>
      req == [request EXCEPT !.received = @ + 1]
      upl == [upload EXCEPT !.received = @ + 1]
  IN
  /\ handler = "idle" /\ browsers[b].open
  /\ browsers' = [browsers EXCEPT ![b].sent = @ + 1]
  /\ current' = b
  /\ IF ~ Accepting
     THEN /\ handler' = AfterUnit(b)
          /\ UNCHANGED <<request, upload, header, buffer, status>>
     ELSE IF upload.received < HeaderSize
     THEN WriteHeader(unit, upl, req) /\ handler' = AfterUnit(b)
     ELSE /\ WriteImage(unit, [upl EXCEPT !.image_received = @ + 1], req)
          /\ handler' = IF upload'.active /\ PageIsFull(buffer')
                        THEN "page" ELSE AfterUnit(b)
  /\ UNCHANGED <<metaPage, flash>>

(***************************************************************************)
(* The flash operations of app_firmware_update_write_image_data and of     *)
(* app_firmware_update_finish_write: erase as far as the page, then program*)
(* it.  handler is "page" in the first and "last_page" in the second.      *)
(***************************************************************************)
PageOffset == upload.image_received - Len(buffer)
\* Variant: a sector too few is erased.
SectorIsErasedOneShort == upload.erased_up_to >= PageOffset
SectorIsErased == upload.erased_up_to > PageOffset

AfterPage ==
  IF handler = "last_page" THEN "erase_metadata"
  ELSE IF browsers[current].sent =
          ChunkLen(browsers[current].file, browsers[current].offset)
  THEN "finished" ELSE "idle"

EraseForPage ==
  /\ handler \in {"page", "last_page"} /\ ~ SectorIsErased
  /\ staging' = EraseSector(staging, upload.erased_up_to)
  /\ upload' = [upload EXCEPT !.erased_up_to = @ + SectorSize]
  /\ UNCHANGED <<request, header, buffer, status, handler, current, metaPage,
                 browsers, metadata, active>>

ProgramForPage ==
  /\ handler \in {"page", "last_page"} /\ SectorIsErased
  /\ staging' = ProgramPage(staging, PageOffset, buffer)
  /\ buffer' = << >>
  /\ handler' = AfterPage
  /\ UNCHANGED <<request, upload, header, status, current, metaPage, browsers,
                 metadata, active>>

\* The end of app_firmware_update_finish and of httpd_post_finished.
UploadEnds(ok) ==
  /\ upload' = [upload EXCEPT !.active = FALSE, !.ok = ok]
  /\ request' = [request EXCEPT !.valid = FALSE]
  /\ status' = IF ok THEN "uploaded" ELSE "failed"
  /\ handler' = "idle"

\* flash_safe_execute returns an error and the operation is not performed.
FlashError ==
  /\ \/ handler = "page" /\ RequestFail(request, upload) /\ handler' = AfterPage
     \/ /\ handler \in {"last_page", "erase_metadata", "program_metadata"}
        /\ UploadEnds(FALSE)
  /\ UNCHANGED <<header, buffer, current, metaPage, browsers, flash>>

(***************************************************************************)
(* httpd_post_finished, called when the body is complete or when the       *)
(* connection is lost before that, and app_firmware_update_finish.         *)
(***************************************************************************)
ConnectionLost(b) ==
  /\ handler = "idle" /\ browsers[b].open
  /\ handler' = "finished" /\ current' = b
  /\ UNCHANGED <<request, upload, header, buffer, status, metaPage, browsers, flash>>

RequestIsComplete ==
  /\ request.received = request.size
  /\ upload.received = request.offset + request.size

ImageIsComplete ==
  /\ upload.header_valid
  /\ upload.received = upload.content_len
  /\ upload.image_received = upload.image_size

\* The browser goes on to the next chunk, stops after the last one, and
\* stops when the request itself failed.
BrowserAfterPost(br) ==
  IF br.sent = ChunkLen(br.file, br.offset) /\ br.offset + br.sent < Total(br.file)
  THEN [br EXCEPT !.offset = @ + br.sent, !.sent = 0, !.open = FALSE]
  ELSE NoBrowser

\* Variant: forgets the last, partial page.
FinishRequestWithoutLastPage ==
  IF request.valid /\ RequestIsComplete /\ upload.active /\ ImageIsComplete
  THEN handler' = "erase_metadata" /\ UNCHANGED <<request, upload, status>>
  ELSE /\ handler' = "idle"
       /\ request' = [request EXCEPT !.valid = FALSE]
       /\ UNCHANGED <<upload, status>>

FinishRequest ==
  IF ~ request.valid
  THEN handler' = "idle" /\ UNCHANGED <<request, upload, status>>
  ELSE IF ~ RequestIsComplete
  THEN handler' = "idle" /\ RequestFail(request, upload)
  ELSE IF upload.active /\ upload.received = upload.content_len
  THEN IF ~ upload.ok \/ ~ ImageIsComplete
       THEN UploadEnds(FALSE)
       ELSE /\ handler' = IF buffer = << >> THEN "erase_metadata" ELSE "last_page"
            /\ UNCHANGED <<request, upload, status>>
  ELSE /\ handler' = "idle" /\ status' = "in_progress"
       /\ request' = [request EXCEPT !.valid = FALSE]
       /\ UNCHANGED upload

PostFinished ==
  /\ handler = "finished"
  /\ browsers' = [browsers EXCEPT ![current] = BrowserAfterPost(@)]
  /\ FinishRequest
  /\ metaPage' = 0
  /\ UNCHANGED <<header, buffer, current, flash>>

EraseMetadata ==
  /\ handler = "erase_metadata"
  /\ metadata' = Erased
  /\ handler' = "program_metadata"
  /\ UNCHANGED <<request, upload, header, buffer, status, current, metaPage,
                 browsers, staging, active>>

\* The manifest lies in the first page of the header; the others pad it.
ProgramMetadata ==
  /\ handler = "program_metadata"
  /\ metadata' = IF metaPage = 0 THEN Programmed(metadata, header[1]) ELSE metadata
  /\ metaPage' = metaPage + 1
  /\ IF (metaPage + 1) * PageSize < HeaderSize
     THEN UNCHANGED <<request, upload, status, handler>>
     ELSE UploadEnds(TRUE)
  /\ UNCHANGED <<header, buffer, current, browsers, staging, active>>

HandlerStep ==
  \/ EraseForPage \/ ProgramForPage \/ PostFinished \/ EraseMetadata
  \/ ProgramMetadata

BrowserStep ==
  \/ \E b \in Browsers, f \in OtaFiles :
       \/ \E off \in {0, browsers[b].offset} : PostBegin(b, f, off)
       \/ PostMalformed(b, f)
  \/ PostOtherUri
  \/ \E b \in Browsers : ReceiveUnit(b) \/ ConnectionLost(b)

\* What the flash operation in progress leaves when the power fails.
UploadTear ==
  \/ /\ handler \in {"page", "last_page"}
     /\ staging' = IF SectorIsErased THEN TearRange(staging, PageOffset, PageSize)
                   ELSE TearRange(staging, upload.erased_up_to, SectorSize)
     /\ UNCHANGED <<metadata, active>>
  \/ /\ handler \in {"erase_metadata", "program_metadata"} /\ metaPage = 0
     /\ metadata' = Torn
     /\ UNCHANGED <<staging, active>>
=============================================================================
