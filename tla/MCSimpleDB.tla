----------------------------- MODULE MCSimpleDB -----------------------------
(* Clients and the two loops, for TLC. *)
EXTENDS SimpleDB

CONSTANTS c1, c2, c3, checkpoint, cleaner

TwoClients == {c1, c2}
ThreeClients == {c1, c2, c3}
MCLoops == {checkpoint, cleaner}
=============================================================================
