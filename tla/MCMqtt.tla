------------------------------- MODULE MCMqtt -------------------------------
(***************************************************************************)
(* Two brokers, batches of up to two samples and a backoff that is capped  *)
(* after it was doubled twice.                                             *)
(***************************************************************************)
EXTENDS Mqtt
=============================================================================
