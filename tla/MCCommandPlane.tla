---------------------------- MODULE MCCommandPlane ----------------------------
(* The small instance of CommandPlane under its pages: one control mounted in two places that *)
(* come and go while its command is replayed, and the composer beside a gate's*)
(* card, each with a command of its own or one with two.                      *)
EXTENDS FactoryPages

CONSTANTS input, gate, composer, pane, card

MCControls == {input}
MCGates == {gate}
MCStores == {composer, pane, card}
MCOwns == [v \in MCStores |-> IF v = card THEN {gate} ELSE {input}]

Nothing == [t \in Spendable |-> 0]

Remounts == [Nothing EXCEPT ![composer] = 2, ![pane] = 1, !.sends = 1, !.attempts = 2]
Supersedes == [Nothing EXCEPT ![composer] = 1, !.sends = 2, !.attempts = 3, !.misfires = 1]
Abreast == [Nothing EXCEPT ![composer] = 1, ![card] = 1, !.sends = 2, !.attempts = 2]
Pruned == [Nothing EXCEPT ![pane] = 1, ![card] = 1, !.sends = 1, !.attempts = 1, !.misfires = 1,
             !.moves = 1]

MCShellLimits == {[reads |-> 0, logins |-> 0], [reads |-> 3, logins |-> 2]}

MCAllowances == {Remounts, Supersedes, Abreast, Pruned, Nothing}
=============================================================================
