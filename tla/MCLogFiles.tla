----------------------------- MODULE MCLogFiles -----------------------------
(***************************************************************************)
(* Files of three units and lines of one or two: a rotation comes with the *)
(* second or the third line, and a stream outlives two of them.            *)
(***************************************************************************)
EXTENDS LogFiles
=============================================================================
