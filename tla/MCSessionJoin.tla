---- MODULE MCSessionJoin ----
(***************************************************************************)
(* SessionJoin on small instances.                                         *)
(***************************************************************************)
EXTENDS SessionJoin

CONSTANTS k1, k2

MCKeys == {k1, k2}
====
