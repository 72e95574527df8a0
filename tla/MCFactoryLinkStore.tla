------------------------- MODULE MCFactoryLinkStore -------------------------
(* The small instance of FactoryLinkStore: two views of one session, which   *)
(* compete for its channel.                                                  *)
EXTENDS FactoryLinkStore

CONSTANTS a1, a2, chA

MCBinding == {a1, a2}
MCChannel == {chA}
MCChannelOf == [b \in Binding |-> chA]
=============================================================================
