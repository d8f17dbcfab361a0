--------------------------- MODULE FirmwareFlash ---------------------------
(***************************************************************************)
(* The three flash regions an over-the-air update works on, and what the   *)
(* two flash operations do to them.                                        *)
(*                                                                         *)
(* A region is a function from addresses to units.  A unit is a fixed      *)
(* number of bytes; pages, sectors and images are whole numbers of units.  *)
(* The unit <<f, k>> is the k-th unit of the OTA file f: the header (which *)
(* starts with the manifest) comes first, the image follows.               *)
(***************************************************************************)
EXTENDS Integers, Sequences

CONSTANTS
  Files,         \* the OTA files that exist (the factory image included)
  SoundFiles,    \* those whose manifest carries the CRC of their own image
  BootableFiles, \* those whose image starts with a valid vector table
  ImageSize,     \* units in the image of each file
  Factory,       \* the image programmed over USB, before any update
  PageSize,      \* FLASH_PAGE_SIZE: unit of programming
  SectorSize,    \* FLASH_SECTOR_SIZE: unit of erasing
  RegionSize,    \* size of the staging area and of the application area
  Erased,        \* content of an erased unit
  Torn           \* content no file accounts for

ASSUME FlashAssumption ==
  /\ SoundFiles \subseteq Files /\ BootableFiles \subseteq Files
  /\ ImageSize \in [Files -> Nat \ {0}]
  /\ PageSize \in Nat \ {0}
  /\ SectorSize \in Nat \ {0}
  /\ \E n \in 1 .. SectorSize : SectorSize = n * PageSize
  /\ RegionSize \in Nat \ {0}
  /\ \E n \in 1 .. RegionSize : RegionSize = n * SectorSize
  /\ Factory \in BootableFiles /\ ImageSize[Factory] <= RegionSize
  /\ Erased # Torn
  /\ {Erased, Torn} \cap Files = {}
  /\ Erased \notin Files \X Nat /\ Torn \notin Files \X Nat

(***************************************************************************)
(* APP_FIRMWARE_UPDATE_HEADER_SIZE is defined as FLASH_SECTOR_SIZE, and    *)
(* APP_WEB_OTA_CHUNK_SIZE has the same value.                              *)
(***************************************************************************)
HeaderSize == SectorSize
ChunkSize == SectorSize

VARIABLES
  metadata,  \* the sector at UPDATE_METADATA_BASE: a file (its manifest),
             \* Erased or Torn
  staging,   \* the region at APP_COPY_BASE
  active     \* the region at APP_IMAGE_BASE

flash == <<metadata, staging, active>>

Region == 0 .. RegionSize - 1
Units == (Files \X Nat) \cup {Erased, Torn}
Regions == [Region -> Units]
ManifestStates == Files \cup {Erased, Torn}

FlashTypeOK ==
  /\ metadata \in ManifestStates
  /\ staging \in Regions
  /\ active \in Regions

\* The image of f, whole, at the start of a region.
Holds(region, f) ==
  /\ ImageSize[f] <= RegionSize
  /\ \A i \in 0 .. ImageSize[f] - 1 : region[i] = <<f, HeaderSize + i>>

(***************************************************************************)
(* flash_range_erase of the sector at base.                                *)
(***************************************************************************)
EraseSector(region, base) ==
  [i \in Region |-> IF i \in base .. base + SectorSize - 1 THEN Erased
                                                          ELSE region[i]]

(***************************************************************************)
(* flash_range_program of a page, padded with 0xff.  Programming can only  *)
(* clear bits: an erased unit takes the new content, 0xff changes nothing, *)
(* and new content over old content is neither.                            *)
(***************************************************************************)
Programmed(old, new) ==
  IF old = Erased THEN new
  ELSE IF new \in {Erased, old} THEN old ELSE Torn

ProgramPage(region, base, page) ==
  [i \in Region |->
     IF i \in base .. base + PageSize - 1
     THEN Programmed(region[i], IF i - base < Len(page) THEN page[i - base + 1]
                                                        ELSE Erased)
     ELSE region[i]]

\* What an operation cut short by a power loss leaves in its range.
TearRange(region, base, size) ==
  [i \in Region |-> IF i \in base .. base + size - 1 THEN Torn ELSE region[i]]

(***************************************************************************)
(* The CRC-32 of a region over the manifest's image_size equals the        *)
(* manifest's image_crc32.  Distinct contents are taken to have distinct   *)
(* checksums.                                                              *)
(***************************************************************************)
CrcMatches(region, f) == f \in SoundFiles /\ Holds(region, f)
=============================================================================
