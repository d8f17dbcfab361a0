--------------------------- MODULE FirmwareUpdate ---------------------------
(***************************************************************************)
(* The whole life of an update: the application receives a file and stages *)
(* it, the device resets, the boot loader installs it.  The two programs   *)
(* share only the flash; a power loss may fall anywhere and ends both.     *)
(***************************************************************************)
EXTENDS FirmwareUpload, Bootloader

CONSTANTS
  MaxUpsets,  \* bound on power losses, flash errors and failed writes
  NoImage     \* nothing is pending

ASSUME UpdateAssumption == MaxUpsets \in Nat /\ NoImage \notin Files

VARIABLE upsets

vars == <<flash, bootVars, uploadVars, upsets>>

\* A device fresh from the factory: blank staging area, no manifest.
Init ==
  /\ metadata = Erased
  /\ staging = [i \in Region |-> Erased]
  /\ active = [i \in Region |-> IF i < ImageSize[Factory]
                                THEN <<Factory, HeaderSize + i>> ELSE Erased]
  /\ BootInit /\ UploadInit
  /\ upsets = 0

BootRuns == BootStep /\ UNCHANGED <<uploadVars, upsets>>

AppRuns ==
  /\ pc = "app"
  /\ HandlerStep \/ BrowserStep
  /\ UNCHANGED <<bootVars, upsets>>

\* watchdog_reboot from the main loop, between two handlers.
Reboot ==
  /\ pc = "app" /\ handler = "idle"
  /\ Reset /\ UploadReset
  /\ UNCHANGED <<flash, upsets>>

Upset == upsets < MaxUpsets /\ upsets' = upsets + 1

AppFlashError == pc = "app" /\ Upset /\ FlashError /\ UNCHANGED bootVars

CopyFault == Upset /\ CopyProgramFault /\ UNCHANGED uploadVars

PowerLoss ==
  /\ Upset
  /\ \/ UNCHANGED flash
     \/ pc = "app" /\ UploadTear
     \/ BootTear
  /\ Reset /\ UploadReset

Next ==
  BootRuns \/ AppRuns \/ Reboot \/ AppFlashError \/ CopyFault \/ PowerLoss

\* The boot loader is straight-line code: while the power lasts it proceeds.
Spec == Init /\ [][Next]_vars /\ WF_vars(BootRuns)

-----------------------------------------------------------------------------
\* Types of all the state.
TypeOK == FlashTypeOK /\ BootTypeOK /\ UploadTypeOK /\ upsets \in 0 .. MaxUpsets

ActiveIntact == \E f \in BootableFiles : Holds(active, f)

UpdatePending ==
  metadata \in SoundFiles \cap BootableFiles /\ Holds(staging, metadata)

\* The application is started only from a whole image, and the boot loader
\* never gives up (reset_usb_boot), whatever was interrupted before
\* (bootloader_try_apply_update, bootloader_jump_to_app).
StartsIntactImage == pc # "usb" /\ (pc = "app" => ActiveIntact)

\* Whenever the application area is not a whole image, the manifest and the
\* staged image needed to write it again are both intact.
Recoverable == ActiveIntact \/ UpdatePending

\* The page about to be programmed lies in sectors erased for this upload
\* (erased_up_to in app_firmware_update_write_image_data).
ProgramsErasedFlash ==
  handler \in {"page", "last_page"} /\ SectorIsErased =>
    \A i \in Region : i \in PageOffset .. PageOffset + PageSize - 1 => staging[i] = Erased

\* Whatever requests, in whatever order, bring: the page buffer has room for
\* what is received next (with a full one app_firmware_update_write_image_data
\* would copy nothing, for ever), and what is erased or programmed lies in the
\* staging area, not in the metadata or the files behind it.
WritesInPlace ==
  /\ handler = "idle" /\ Accepting => Len(buffer) < PageSize
  /\ handler \in {"page", "last_page"} =>
       IF SectorIsErased THEN PageOffset + PageSize <= RegionSize
                         ELSE upload.erased_up_to + SectorSize <= RegionSize

\* "Update uploaded. Reboot to apply firmware.": when this is the status, the
\* manifest in flash belongs to an image that is staged whole.
UploadedIsApplicable ==
  status = "uploaded" => metadata \in Files /\ Holds(staging, metadata)

\* A pending update that a reset finds is installed and started, however
\* often (within MaxUpsets) the copy is interrupted or fails.
PendingIsInstalled ==
  \A f \in Files :
    (pc = "check" /\ UpdatePending /\ metadata = f) ~> (pc = "app" /\ Holds(active, f))

(***************************************************************************)
(* Refinement: the installed firmware is the image that is, or by the      *)
(* manifest is bound to become, the one in the application area.           *)
(***************************************************************************)
Installed == IF ActiveIntact THEN CHOOSE f \in BootableFiles : Holds(active, f)
                             ELSE metadata

Install == INSTANCE FirmwareInstall WITH
  Images <- SoundFiles \cap BootableFiles, None <- NoImage, FactoryImage <- Factory,
  installed <- Installed,
  pending <- IF UpdatePending THEN metadata ELSE NoImage,
  running <- (pc = "app")

\* The update mechanism installs staged images atomically and in order.
InstallSpec == Install!Spec
=============================================================================
