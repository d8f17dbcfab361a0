---------------------------- MODULE MCDhcpServer ----------------------------
(***************************************************************************)
(* Two clients and two addresses, both of which one of them may come to    *)
(* hold; they are interchangeable.                                         *)
(***************************************************************************)
EXTENDS DhcpServer, TLC

ClientSymmetry == Permutations(Clients)
=============================================================================
