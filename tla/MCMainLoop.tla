----------------------------- MODULE MCMainLoop -----------------------------
(***************************************************************************)
(* Payloads of up to three units; the send buffer holds two of them, so    *)
(* that a payload needs several writes.                                    *)
(***************************************************************************)
EXTENDS MainLoop
=============================================================================
