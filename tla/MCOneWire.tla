----------------------------- MODULE MCOneWire ------------------------------
(***************************************************************************)
(* Two buses with one sensor each at a time, which is exchanged now and    *)
(* then, and a table with as many rows as can be found in one cycle.       *)
(***************************************************************************)
EXTENDS OneWire
=============================================================================
