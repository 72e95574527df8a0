---- MODULE MCFactoryJoin ----
(***************************************************************************)
(* FactoryJoin on small instances.  What the events weigh: as little as    *)
(* they may, or unevenly, so that the byte ceiling refuses captures with   *)
(* an attested prefix and, where the first record is public, windows with  *)
(* none.                                                                   *)
(***************************************************************************)
EXTENDS FactoryJoin

LightEvents == [e \in Events |-> 1]
UnevenEvents == [e \in Events |-> CASE e.seq = 1 -> 7 [] e.seq = 3 -> 3 [] OTHER -> 1]

====
