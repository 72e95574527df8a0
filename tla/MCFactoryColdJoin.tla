------------------------- MODULE MCFactoryColdJoin -------------------------
(* The small instance of FactoryColdJoin.  The four sources of a snapshot    *)
(* meet pairwise: the rows of the cold read, the join and the earlier pages  *)
(* over a truncation; the three paths that read the gate page, over restarts;*)
(* and refusals and failures in the middle of any of them.                   *)
EXTENDS FactoryColdJoin

NoAllowance == [k \in Spendable |-> 0]

RowsMeet == [NoAllowance EXCEPT !.commits = 3, !.truncations = 1, !.generations = 1, !.clicks = 1,
               !.repairs = 1]
GatesShown == [NoAllowance EXCEPT !.commits = 1, !.gates = 2, !.generations = 3]
Refusals == [NoAllowance EXCEPT !.commits = 1, !.gates = 1, !.revocations = 1,
               !.generations = 2, !.clicks = 1, !.failures = 1]
Strays == [NoAllowance EXCEPT !.commits = 1, !.gates = 2, !.generations = 3, !.strays = 1]

MCAllowances == {RowsMeet, GatesShown, Refusals, Strays}
=============================================================================
