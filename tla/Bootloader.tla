----------------------------- MODULE Bootloader -----------------------------
(***************************************************************************)
(* bootloader_stub.c: on every reset, look for a pending update, copy the  *)
(* staged image over the application, verify it, and start the             *)
(* application.  Each flash operation is one step, so that a power loss    *)
(* can fall between any two of them.                                       *)
(***************************************************************************)
EXTENDS FirmwareFlash

VARIABLES
  pc,       \* where main() is; "app" once the application runs, "usb" after
            \* reset_usb_boot
  target,   \* image_size and image_crc32, copied from the manifest: its file
  offset,   \* of the sector being copied
  page      \* offset of the next page inside that sector

bootVars == <<pc, target, offset, page>>

BootPcs == {"check", "erase", "program", "verify", "clear", "jump", "app", "usb"}

BootTypeOK ==
  /\ pc \in BootPcs
  /\ target \in Files
  /\ offset \in Nat
  /\ page \in Nat

\* Whatever stopped the device, it starts again at main().
Reset == /\ pc' = "check" /\ offset' = 0 /\ page' = 0 /\ target' = Factory

BootInit == /\ pc = "check" /\ offset = 0 /\ page = 0 /\ target = Factory

\* bootloader_manifest_is_valid: magic, version, size, flag and header CRC.
ManifestIsValid(m) == m \in Files /\ ImageSize[m] <= RegionSize

\* The first two words of a region are a stack pointer and a reset handler
\* of the image that starts there.
VectorsAreValid(unit) == \E g \in BootableFiles : unit = <<g, HeaderSize>>

\* Variant: the staged image is trusted if it starts like one.
StagedVectorsAreValid(m) == VectorsAreValid(staging[0])

StagedImageIsValid(m) == VectorsAreValid(staging[0]) /\ CrcMatches(staging, m)

\* Variant: the manifest is cleared before the copy, not after it.
TryApplyUpdateOnce ==
  /\ pc = "check"
  /\ IF ManifestIsValid(metadata) /\ StagedImageIsValid(metadata)
     THEN pc' = "erase" /\ target' = metadata /\ metadata' = Erased
     ELSE pc' = "jump" /\ UNCHANGED <<target, metadata>>
  /\ offset' = 0 /\ page' = 0
  /\ UNCHANGED <<staging, active>>

TryApplyUpdate ==
  /\ pc = "check"
  /\ IF ManifestIsValid(metadata) /\ StagedImageIsValid(metadata)
     THEN pc' = "erase" /\ target' = metadata
     ELSE pc' = "jump" /\ UNCHANGED target
  /\ offset' = 0 /\ page' = 0
  /\ UNCHANGED flash

\* bootloader_round_up(image_size, FLASH_SECTOR_SIZE)
CopySize(f) == ((ImageSize[f] + SectorSize - 1) \div SectorSize) * SectorSize

(***************************************************************************)
(* bootloader_copy_staged_image.  sector_buffer is read from staging, which*)
(* the bootloader never writes, so the page programmed is staging's.       *)
(***************************************************************************)
CopyEraseSector ==
  /\ pc = "erase"
  /\ active' = EraseSector(active, offset)
  /\ pc' = "program" /\ page' = 0
  /\ UNCHANGED <<target, offset, metadata, staging>>

SectorPage == [k \in 1 .. PageSize |-> staging[offset + page + k - 1]]

CopyAdvance ==
  IF page + PageSize < SectorSize
  THEN page' = page + PageSize /\ UNCHANGED <<pc, offset>>
  ELSE /\ page' = 0
       /\ offset' = offset + SectorSize
       /\ pc' = IF offset + SectorSize < CopySize(target) THEN "erase"
                                                         ELSE "verify"

CopyProgramPage ==
  /\ pc = "program"
  /\ active' = ProgramPage(active, offset + page, SectorPage)
  /\ CopyAdvance
  /\ UNCHANGED <<target, metadata, staging>>

\* flash_range_program reports nothing: a page it fails to write goes unseen
\* until the copy is verified.
CopyProgramFault ==
  /\ pc = "program"
  /\ active' = TearRange(active, offset + page, PageSize)
  /\ CopyAdvance
  /\ UNCHANGED <<target, metadata, staging>>

\* Variant: the copy is taken to be good.
VerifyNothing ==
  /\ pc = "verify" /\ pc' = "clear"
  /\ UNCHANGED <<target, offset, page, flash>>

\* The copy is checked against the manifest; if it differs the device resets
\* with the manifest still in place, and so tries again.
VerifyCopy ==
  /\ pc = "verify"
  /\ IF CrcMatches(active, target)
     THEN pc' = "clear" /\ UNCHANGED <<target, offset, page>>
     ELSE Reset
  /\ UNCHANGED flash

\* Variant: the manifest stays.
ClearNothing == pc = "clear" /\ Reset /\ UNCHANGED flash

ClearUpdateMetadata ==
  /\ pc = "clear"
  /\ metadata' = Erased
  /\ Reset
  /\ UNCHANGED <<staging, active>>

(***************************************************************************)
(* bootloader_jump_to_app looks at the vectors only.  An image's vectors   *)
(* decide; an erased vector table is rejected; anything else may or may not*)
(* look like one.                                                          *)
(***************************************************************************)
JumpOutcomes(unit) ==
  IF VectorsAreValid(unit) THEN {"app"}
  ELSE IF unit = Erased THEN {"usb"} ELSE {"app", "usb"}

JumpToApp ==
  /\ pc = "jump"
  /\ pc' \in JumpOutcomes(active[0])
  /\ UNCHANGED <<target, offset, page, flash>>

BootStep ==
  \/ TryApplyUpdate \/ CopyEraseSector \/ CopyProgramPage \/ VerifyCopy
  \/ ClearUpdateMetadata \/ JumpToApp

(***************************************************************************)
(* The operation in progress when the power fails leaves its range torn.   *)
(***************************************************************************)
BootTear ==
  \/ /\ pc = "erase" /\ active' = TearRange(active, offset, SectorSize)
     /\ UNCHANGED <<metadata, staging>>
  \/ /\ pc = "program" /\ active' = TearRange(active, offset + page, PageSize)
     /\ UNCHANGED <<metadata, staging>>
  \/ /\ pc = "clear" /\ metadata' = Torn /\ UNCHANGED <<staging, active>>
=============================================================================
