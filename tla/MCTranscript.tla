---------------------------- MODULE MCTranscript ----------------------------
(* The small instance of Transcript: a turn of two steps with its frames over *)
(* a lost connection; a subagent, whose record is written before its work or  *)
(* behind its beginning, over a page that starts behind the root's; and       *)
(* submits that are acknowledged, refused and cancelled.                      *)
EXTENDS Transcript, TLC

CONSTANTS root, child, noLoop, c1, c2, noCommand, gate

MCCommands == {c1, c2}
MCSymmetry == Permutations(MCCommands)
NoAllowance == [k \in Spendable |-> 0]

Frames == [NoAllowance EXCEPT !.turns = 1, !.steps = 2, !.deltas = 2, !.drops = 1]
Tools == [NoAllowance EXCEPT !.turns = 1, !.steps = 1, !.deltas = 1, !.tools = 2, !.drops = 1]
Subagent == [NoAllowance EXCEPT !.turns = 2, !.steps = 1, !.spawns = 1, !.deltas = 1, !.tools = 1]
Late == [NoAllowance EXCEPT !.turns = 2, !.steps = 1, !.spawns = 1, !.deltas = 1, !.late = 1]
Submits == [NoAllowance EXCEPT !.turns = 1, !.refusals = 1, !.gates = 2, !.deltas = 1, !.submits = 2]

MCAllowances == {Frames, Tools, Subagent, Late, Submits}
=============================================================================
