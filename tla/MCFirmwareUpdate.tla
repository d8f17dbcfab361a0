-------------------------- MODULE MCFirmwareUpdate --------------------------
(***************************************************************************)
(* Instances of FirmwareUpdate for TLC.  Pages of two units and images of  *)
(* an odd number of them make last pages partial; f1 needs two sectors,    *)
(* f3 is larger than the region, and the images that are not installed (f2 *)
(* fails the boot loader's check, f4 has a wrong CRC) are short.           *)
(***************************************************************************)
EXTENDS FirmwareUpdate, TLC

CONSTANTS f0, f1, f2, f3, f4

MCImageSize ==
  [f \in Files |-> CASE f = f0 -> 3 [] f = f1 -> 5 [] f = f3 -> 9 [] OTHER -> 1]

BrowserSymmetry == Permutations(Browsers)
=============================================================================
