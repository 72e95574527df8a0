----------------------- MODULE FactoryColdJoin_proofs -----------------------
(***************************************************************************)
(* What the Factory session hook shows is true, for any tail limit and     *)
(* journal, and any number of truncations, restarts, clicks, refusals and  *)
(* failures.                                                               *)
(*                                                                         *)
(* ShownInv follows the rows rather than the reads: the current rows that  *)
(* the join committed are those of the tail it took (HoldsRows), the tail  *)
(* is the journal's up to the lowest tip the journal was cut to since      *)
(* (TailAgrees), and what is shown adds only earlier rows of other         *)
(* sequences (ShowsCurrent).  The cold read can spoil none of this, as it  *)
(* is over before the join projects (OneSource).  TicketInv follows the    *)
(* reads of the gate page, which answer in any order.                      *)
(***************************************************************************)
EXTENDS FactoryColdJoin, TLAPS, SequenceTheorems, FiniteSetTheorems

\* A row of any journal, and what is left of the bounds.
RowT == [seq : Nat, epoch : Nat]
Budgets == [Spendable -> Nat]

\* The records a step takes apart have the fields they were made with.
IsShot(s) == s = [state |-> s.state, liveState |-> s.liveState, status |-> s.status, gates |-> s.gates,
                  events |-> s.events, covered |-> s.covered, earlierState |-> s.earlierState]
IsJoin(j) == j = [phase |-> j.phase, tail |-> j.tail, from |-> j.from, covered |-> j.covered,
                  projected |-> j.projected, ticket |-> j.ticket, since |-> j.since, page |-> j.page]
IsCold(c) == c = [ticket |-> c.ticket, since |-> c.since, page |-> c.page, tail |-> c.tail,
                  restarted |-> c.restarted]
IsEarlier(e) == e = [of |-> e.of, aborted |-> e.aborted, page |-> e.page, from |-> e.from]

FactoryTypes == /\ journal \in Seq(Nat) /\ lowest \in Nat /\ access \in BOOLEAN
                /\ budget \in Budgets
ViewTypes == /\ generation \in Nat /\ running \in BOOLEAN /\ revoked \in BOOLEAN
             /\ IsShot(snapshot) /\ currentEvents \subseteq RowT
JoinTypes == /\ IsJoin(join) /\ join.tail \in Seq(Nat) /\ join.from \in Nat /\ join.covered \in Nat
             /\ join.projected \in BOOLEAN
ColdTypes == \A c \in cold : IsCold(c) /\ c.tail.rows \subseteq RowT
EarlierTypes == \A e \in earlierRead : IsEarlier(e) /\ e.of \in Nat /\ e.of <= generation

Types == FactoryTypes /\ ViewTypes /\ JoinTypes /\ ColdTypes /\ EarlierTypes

\* A stopped machine reads nothing, and a cold read is over once the join is authorized.
OneSource ==
    /\ ~running => cold = {} /\ join = NoJoin
    /\ cold # {} => ~join.projected /\ join.phase \in {"none", "subscribing"}
    /\ join.phase = "following" => join.projected

\* The rows shown are the current ones, and earlier ones of other sequences.
ShowsCurrent ==
    /\ currentEvents \subseteq snapshot.events
    /\ \A r \in snapshot.events : r \in currentEvents \/ \A q \in currentEvents : q.seq # r.seq

\* The tail the join took is the journal's, up to the lowest tip it was cut to since.
TailAgrees(tail) ==
    \A s \in 1..Len(tail) : s <= lowest => s <= Len(journal) /\ tail[s] = journal[s]

\* What the join committed is what its tail holds, and no current row is beyond the tail.
HoldsRows(rows, j) ==
    /\ j.from >= 1 /\ j.covered <= Len(j.tail)
    /\ {r \in rows : r.seq \in j.from..j.covered} = RowsOf(j.tail, j.from, j.covered)
    /\ \A r \in rows : r.seq <= Len(j.tail)

JoinRows == join.projected => HoldsRows(currentEvents, join) /\ TailAgrees(join.tail)

\* A view that says it is live has reached the tip of the tail.
LiveAtTip ==
    running /\ snapshot.liveState = "live"
      => join.phase = "following" /\ join.covered >= Len(join.tail)

\* After a refusal nothing is shown, nothing runs, and no read that counts has an answer.
Refused ==
    revoked => /\ ~access /\ ~running
               /\ snapshot.events = {} /\ snapshot.gates = None
               /\ ~snapshot.status /\ snapshot.covered = 0
               /\ \A e \in earlierRead : EarlierCurrent(e) => ~e.page.read

ShownInv == Types /\ OneSource /\ ShowsCurrent /\ JoinRows /\ LiveAtTip /\ Refused

-----------------------------------------------------------------------------
(* Helpers.                                                                *)

LEMMA SpendBudget ==
    ASSUME NEW what \in Spendable, budget \in Budgets, Spend(what)
    PROVE  budget' \in Budgets
BY DEF Budgets, Spend, Spendable

\* The rows of a log are rows.
LEMMA RowsTyped ==
    ASSUME NEW l \in Seq(Nat), NEW a \in Nat \ {0}, NEW b \in Nat, b <= Len(l)
    PROVE  RowsOf(l, a, b) \subseteq RowT
BY DEF RowsOf, RowT

LEMMA SetRowsTyped ==
    ASSUME NEW A \in SUBSET RowT, NEW B \in SUBSET RowT
    PROVE  SetRows(A, B) \subseteq RowT
BY DEF SetRows

LEMMA TailStartType ==
    ASSUME journal \in Seq(Nat)
    PROVE  /\ TailStart \in Nat \ {0} /\ TailStart <= Len(journal) + 1
BY BoundAssumption, LenProperties DEF TailStart

LEMMA PrefixAt ==
    ASSUME NEW a \in Seq(Nat), NEW b \in Seq(Nat), IsPrefix(a, b)
    PROVE  /\ Len(a) <= Len(b)
           /\ \A s \in 1..Len(a) : a[s] = b[s]
<1>1. Len(a) <= Len(b) /\ SubSeq(a, 1, Len(a)) = SubSeq(b, 1, Len(a))
  BY DEF IsPrefix
<1>2. ASSUME NEW s \in 1..Len(a)  PROVE a[s] = b[s]
  <2>1. SubSeq(a, 1, Len(a))[s] = a[s] /\ SubSeq(b, 1, Len(a))[s] = b[s]
    BY <1>1, LenProperties, SubSeqProperties
  <2> QED BY <2>1, <1>1
<1> QED BY <1>1, <1>2

LEMMA SameRows ==
    ASSUME NEW a, NEW b, NEW m, NEW n,
           \A s \in m..n : a[s] = b[s]
    PROVE  RowsOf(a, m, n) = RowsOf(b, m, n)
BY DEF RowsOf

\* Ordered keeps the current rows and adds no other row of their sequences.
LEMMA OrderedShows ==
    ASSUME NEW now, NEW past
    PROVE  /\ now \subseteq Ordered(now, past)
           /\ \A r \in Ordered(now, past) : r \in now \/ \A q \in now : q.seq # r.seq
BY DEF Ordered

\* Records changed in a field or two.
LEMMA ColdRestarted ==
    ASSUME NEW c, IsCold(c), NEW d, d = [c EXCEPT !.tail = Unread, !.restarted = TRUE]
    PROVE  d = [ticket |-> c.ticket, since |-> c.since, page |-> c.page, tail |-> Unread, restarted |-> TRUE]
BY DEF IsCold

LEMMA EarlierAborted ==
    ASSUME NEW e, IsEarlier(e), NEW d, d = [e EXCEPT !.aborted = TRUE]
    PROVE  d = [of |-> e.of, aborted |-> TRUE, page |-> e.page, from |-> e.from]
BY DEF IsEarlier

-----------------------------------------------------------------------------
(* Steps that leave the rows, the join and the reads as they were.         *)

LEMMA InitShown == Init => ShownInv
<1> SUFFICES ASSUME Init PROVE ShownInv
  OBVIOUS
<1>1. journal \in Seq(Nat)
  BY BoundAssumption DEF Init
<1>2. budget \in Budgets
  BY BoundAssumption DEF Init, Budgets
<1>3. FactoryTypes
  BY <1>1, <1>2, BoundAssumption DEF Init, FactoryTypes
<1>4. ViewTypes
  BY DEF Init, ViewTypes, IsShot
<1>5. JoinTypes
  BY DEF Init, JoinTypes, IsJoin, NoJoin
<1>6. ColdTypes /\ EarlierTypes /\ OneSource
  BY DEF Init, ColdTypes, EarlierTypes, OneSource, NoJoin
<1>7. ShowsCurrent /\ JoinRows /\ LiveAtTip /\ Refused
  BY DEF Init, ShowsCurrent, JoinRows, LiveAtTip, Refused, NoJoin
<1> QED BY <1>3, <1>4, <1>5, <1>6, <1>7 DEF ShownInv, Types

\* What a step without a say in the rows keeps.
Quiet ==
    /\ UNCHANGED <<journal, lowest, generation, running, currentEvents, revoked>>
    /\ budget' \in Budgets
    /\ access' \in BOOLEAN /\ (access' => access)
    /\ IsShot(snapshot)' /\ snapshot'.events = snapshot.events
    /\ snapshot'.liveState = snapshot.liveState
    /\ revoked => /\ snapshot'.gates = snapshot.gates /\ snapshot'.status = snapshot.status
                  /\ snapshot'.covered = snapshot.covered

LEMMA QuietStep ==
    ASSUME ShownInv, Quiet, UNCHANGED join, cold' = {} \/ cold' = cold,
           UNCHANGED earlierRead
    PROVE  ShownInv'
<1>1. Types' /\ OneSource'
  BY DEF ShownInv, Types, FactoryTypes, ViewTypes, JoinTypes, ColdTypes, EarlierTypes, OneSource,
         Quiet, IsShot, IsJoin, IsCold, IsEarlier
<1>2. ShowsCurrent' /\ JoinRows' /\ LiveAtTip'
  BY DEF ShownInv, ShowsCurrent, JoinRows, LiveAtTip, Quiet, HoldsRows, RowsOf, TailAgrees
<1>3. Refused'
  BY DEF ShownInv, Refused, Quiet, EarlierCurrent
<1> QED BY <1>1, <1>2, <1>3 DEF ShownInv

\* A publication that touches no row and says no more of being live.
LEMMA GateMovesStep == ASSUME ShownInv, GateMoves PROVE ShownInv'
<1>1. budget' \in Budgets
  BY SpendBudget DEF GateMoves, ShownInv, Types, FactoryTypes, Spendable
<1>2. Quiet
  BY <1>1 DEF GateMoves, Quiet, viewVars, ShownInv, Types, ViewTypes, FactoryTypes
<1> QED BY <1>2, QuietStep DEF GateMoves, viewVars, earlierVars

LEMMA RevokeStep == ASSUME ShownInv, Revoke PROVE ShownInv'
<1>1. budget' \in Budgets
  BY SpendBudget DEF Revoke, ShownInv, Types, FactoryTypes, Spendable
<1>2. Quiet
  BY <1>1 DEF Revoke, Quiet, viewVars, ShownInv, Types, ViewTypes, FactoryTypes
<1> QED BY <1>2, QuietStep DEF Revoke, viewVars, earlierVars

-----------------------------------------------------------------------------
(* The journal.                                                            *)

LEMMA CommitStep == ASSUME ShownInv, Commit PROVE ShownInv'
<1> USE DEF ShownInv, Types
<1>1. budget' \in Budgets /\ budget.truncations \in Nat
  BY SpendBudget DEF Commit, FactoryTypes, Spendable, Budgets
<1>2. /\ journal' \in Seq(Nat) /\ Len(journal') = Len(journal) + 1
      /\ \A s \in 1..Len(journal) : journal'[s] = journal[s]
  BY <1>1, AppendProperties DEF Commit, FactoryTypes
<1>3. Types' /\ OneSource'
  BY <1>1, <1>2 DEF Commit, viewVars, gateVars, refreshVars, earlierVars, FactoryTypes, ViewTypes, JoinTypes,
       ColdTypes, EarlierTypes, OneSource, IsShot, IsJoin, IsCold, IsEarlier
<1>4. TailAgrees(join.tail) => TailAgrees(join.tail)'
  <2> SUFFICES ASSUME TailAgrees(join.tail), NEW s \in 1..Len(join.tail), s <= lowest
               PROVE  s <= Len(journal') /\ join.tail[s] = journal'[s]
    BY DEF TailAgrees, Commit, viewVars
  <2>1. s <= Len(journal) /\ join.tail[s] = journal[s] /\ s \in Nat /\ s >= 1
    BY LenProperties DEF TailAgrees, JoinTypes
  <2>2. s \in 1..Len(journal)
    BY <2>1, LenProperties DEF FactoryTypes
  <2> QED BY <1>2, <2>1, <2>2
<1>5. JoinRows'
  BY <1>4 DEF JoinRows, HoldsRows, RowsOf, Commit, viewVars
<1>6. ShowsCurrent' /\ LiveAtTip' /\ Refused'
  BY DEF Commit, viewVars, earlierVars, ShowsCurrent, LiveAtTip, Refused, EarlierCurrent
<1> QED BY <1>3, <1>5, <1>6

LEMMA TruncateStep == ASSUME ShownInv, Truncate PROVE ShownInv'
<1> USE DEF ShownInv, Types
<1>1. budget' \in Budgets
  BY SpendBudget DEF Truncate, FactoryTypes, Spendable, Budgets
<1>2. PICK tip \in 0..(Len(journal) - 1) :
         journal' = SubSeq(journal, 1, tip) /\ lowest' = Least(lowest, tip)
  BY DEF Truncate
<1>3. /\ tip \in Nat /\ lowest' \in Nat /\ lowest' <= lowest /\ lowest' <= tip
  BY <1>2, LenProperties DEF Least, FactoryTypes
<1>4. /\ journal' \in Seq(Nat) /\ Len(journal') = tip
      /\ \A s \in 1..tip : journal'[s] = journal[s]
  BY <1>2, <1>3, SubSeqProperties, LenProperties DEF FactoryTypes
<1>5. Types' /\ OneSource'
  BY <1>1, <1>3, <1>4 DEF Truncate, viewVars, gateVars, refreshVars, earlierVars, FactoryTypes, ViewTypes,
       JoinTypes, ColdTypes, EarlierTypes, OneSource, IsShot, IsJoin, IsCold, IsEarlier
<1>6. TailAgrees(join.tail) => TailAgrees(join.tail)'
  <2> SUFFICES ASSUME TailAgrees(join.tail), NEW s \in 1..Len(join.tail), s <= lowest'
               PROVE  s <= Len(journal') /\ join.tail[s] = journal'[s]
    BY DEF TailAgrees, Truncate, viewVars
  <2>1. s \in Nat /\ s >= 1 /\ s <= lowest /\ s <= tip
    BY <1>3, LenProperties DEF JoinTypes, FactoryTypes
  <2>2. join.tail[s] = journal[s]
    BY <2>1 DEF TailAgrees
  <2>3. s \in 1..tip
    BY <2>1, <1>3
  <2> QED BY <1>4, <2>1, <2>2, <2>3
<1>7. JoinRows'
  BY <1>6 DEF JoinRows, HoldsRows, RowsOf, Truncate, viewVars
<1>8. ShowsCurrent' /\ LiveAtTip' /\ Refused'
  BY DEF Truncate, viewVars, earlierVars, ShowsCurrent, LiveAtTip, Refused, EarlierCurrent
<1> QED BY <1>5, <1>7, <1>8

-----------------------------------------------------------------------------
(* The machine starts, stops and is refused.                               *)

LEMMA LaterGeneration ==
    ASSUME Types, generation' = generation + 1, UNCHANGED earlierRead
    PROVE  EarlierTypes'
BY DEF Types, ViewTypes, EarlierTypes

LEMMA StartStep == ASSUME ShownInv, Start PROVE ShownInv'
<1> USE DEF ShownInv, Types
<1>1. budget' \in Budgets
  BY SpendBudget DEF Start, FactoryTypes, Spendable, Budgets
<1>2. snapshot' = [state |-> "reading", liveState |-> "joining", status |-> snapshot.status,
                   gates |-> snapshot.gates, events |-> snapshot.events,
                   covered |-> snapshot.covered, earlierState |-> snapshot.earlierState]
  BY DEF Start, Publish, ViewTypes, IsShot
<1>3. join' = [phase |-> "subscribing", tail |-> <<>>, from |-> 1, covered |-> Initial,
               projected |-> FALSE, ticket |-> 0, since |-> 0, page |-> None]
  BY DEF Start, NoJoin
<1>4. ColdTypes'
  BY DEF Start, ColdTypes, IsCold, Unread
<1>5. FactoryTypes' /\ ViewTypes' /\ EarlierTypes'
  <2>1. FactoryTypes'
    BY <1>1, BoundAssumption DEF Start, FactoryTypes
  <2>2. ViewTypes'
    <3>1. IsShot(snapshot)'
      BY <1>2 DEF IsShot
    <3>2. generation' \in Nat
      BY DEF Start, ViewTypes
    <3>3. running' \in BOOLEAN /\ revoked' \in BOOLEAN
      BY DEF Start
    <3>4. currentEvents' \subseteq RowT
      BY DEF Start, ViewTypes
    <3> QED BY <3>1, <3>2, <3>3, <3>4 DEF ViewTypes
  <2>3. EarlierTypes'
    BY LaterGeneration DEF Start, earlierVars
  <2> QED BY <2>1, <2>2, <2>3
<1>6. JoinTypes'
  BY <1>3, BoundAssumption DEF JoinTypes, IsJoin
<1>7. OneSource' /\ JoinRows' /\ LiveAtTip' /\ Refused'
  <2>1. OneSource' /\ JoinRows'
    <3>1. running' = TRUE
      BY DEF Start
    <3> QED BY <1>3, <3>1 DEF OneSource, JoinRows
  <2>2. LiveAtTip'
    BY <1>2 DEF LiveAtTip
  <2> QED BY <2>1, <2>2 DEF Start, Refused
<1>8. ShowsCurrent'
  BY <1>2 DEF Start, ShowsCurrent
<1> QED BY <1>4, <1>5, <1>6, <1>7, <1>8

LEMMA StopStep == ASSUME ShownInv, Stop PROVE ShownInv'
<1> USE DEF ShownInv, Types
<1>1. budget' \in Budgets
  BY SpendBudget DEF Stop, FactoryTypes, Spendable, Budgets
<1>2. JoinTypes' /\ OneSource' /\ ColdTypes' /\ JoinRows'
  BY DEF Stop, Abort, JoinTypes, IsJoin, NoJoin, OneSource, ColdTypes, JoinRows
<1>3. FactoryTypes' /\ ViewTypes'
  <2>1. IsShot(snapshot)'
    BY DEF Stop, ViewTypes, IsShot
  <2>2. generation' \in Nat
    BY DEF Stop, ViewTypes
  <2>4. running' \in BOOLEAN
    BY DEF Stop, Abort
  <2>3. ViewTypes'
    BY <2>1, <2>2, <2>4 DEF Stop, ViewTypes
  <2> QED BY <2>3, <1>1 DEF Stop, factoryVars, FactoryTypes
<1>5. EarlierTypes'
  BY LaterGeneration DEF Stop, earlierVars
<1>4. ShowsCurrent' /\ LiveAtTip' /\ Refused'
  BY DEF Stop, Abort, OneSource, ViewTypes, ShowsCurrent, LiveAtTip, Refused
<1> QED BY <1>2, <1>3, <1>4, <1>5

\* The reads of before the refusal no longer count.
LEMMA RejectStep ==
    ASSUME ShownInv, ~access, RejectAccess, UNCHANGED factoryVars, budget' \in Budgets,
           earlierRead' = {} \/ earlierRead' = earlierRead
    PROVE  ShownInv'
<1> USE DEF ShownInv, Types
<1>1. JoinTypes' /\ OneSource' /\ ColdTypes' /\ JoinRows'
  BY DEF RejectAccess, Abort, JoinTypes, IsJoin, NoJoin, OneSource, ColdTypes, JoinRows
<1>2. FactoryTypes' /\ ViewTypes'
  <2>1. IsShot(snapshot)'
    BY DEF RejectAccess, IsShot
  <2>2. generation' \in Nat
    BY DEF RejectAccess, ViewTypes
  <2>4. running' \in BOOLEAN /\ revoked' \in BOOLEAN
    BY DEF RejectAccess, Abort
  <2>3. ViewTypes'
    BY <2>1, <2>2, <2>4 DEF RejectAccess, ViewTypes
  <2> QED BY <2>3 DEF factoryVars, FactoryTypes
<1>5. EarlierTypes'
  BY LaterGeneration DEF RejectAccess, EarlierTypes
<1>3. \A e \in earlierRead' : ~EarlierCurrent(e)'
  BY DEF RejectAccess, EarlierTypes, EarlierCurrent, ViewTypes
<1>4. ShowsCurrent' /\ LiveAtTip' /\ Refused'
  BY <1>3 DEF RejectAccess, Abort, factoryVars, ShowsCurrent, LiveAtTip, Refused
<1> QED BY <1>1, <1>2, <1>4, <1>5

-----------------------------------------------------------------------------
(* The cold read.                                                          *)

LEMMA ColdGatesStep == ASSUME ShownInv, NEW c \in cold, ColdGates(c) PROVE ShownInv'
<1> USE DEF ShownInv, Types
<1>1. ColdTypes'
  BY DEF ColdGates, ColdTypes, IsCold
<1>2. FactoryTypes' /\ ViewTypes' /\ JoinTypes' /\ EarlierTypes' /\ OneSource'
  BY DEF ColdGates, factoryVars, earlierVars, FactoryTypes, ViewTypes, JoinTypes, EarlierTypes, OneSource, IsShot,
         IsJoin, IsEarlier
<1>3. ShowsCurrent' /\ JoinRows' /\ LiveAtTip' /\ Refused'
  BY DEF ColdGates, factoryVars, earlierVars, ShowsCurrent, JoinRows, HoldsRows, RowsOf, TailAgrees, LiveAtTip,
         Refused, EarlierCurrent
<1> QED BY <1>1, <1>2, <1>3

LEMMA ColdTailStep == ASSUME ShownInv, NEW c \in cold, ColdTail(c) PROVE ShownInv'
<1> USE DEF ShownInv, Types
<1>1. RowsOf(journal, TailStart, Len(journal)) \subseteq RowT
  BY RowsTyped, TailStartType, LenProperties DEF FactoryTypes
<1>2. ColdTypes'
  BY <1>1 DEF ColdTail, ColdTypes, IsCold
<1>3. FactoryTypes' /\ ViewTypes' /\ JoinTypes' /\ EarlierTypes' /\ OneSource'
  BY DEF ColdTail, factoryVars, earlierVars, FactoryTypes, ViewTypes, JoinTypes, EarlierTypes, OneSource, IsShot,
         IsJoin, IsEarlier
<1>4. ShowsCurrent' /\ JoinRows' /\ LiveAtTip' /\ Refused'
  BY DEF ColdTail, factoryVars, earlierVars, ShowsCurrent, JoinRows, HoldsRows, RowsOf, TailAgrees, LiveAtTip,
         Refused, EarlierCurrent
<1> QED BY <1>2, <1>3, <1>4

LEMMA ColdRecaptureStep == ASSUME ShownInv, NEW c \in cold, ColdRecapture(c) PROVE ShownInv'
<1> USE DEF ShownInv, Types
<1>1. budget' \in Budgets
  BY SpendBudget DEF ColdRecapture, MayFail, FactoryTypes, Spendable
<1>2. ColdTypes'
  <2>1. cold' = {[ticket |-> c.ticket, since |-> c.since, page |-> c.page, tail |-> Unread, restarted |-> TRUE]}
    <3>1. IsCold(c)
      BY DEF ColdTypes
    <3> QED BY <3>1, ColdRestarted DEF ColdRecapture
  <2> QED BY <2>1 DEF ColdTypes, IsCold, Unread
<1>3. FactoryTypes' /\ ViewTypes' /\ JoinTypes' /\ EarlierTypes' /\ OneSource'
  BY <1>1 DEF ColdRecapture, factoryVars, earlierVars, FactoryTypes, ViewTypes, JoinTypes, EarlierTypes,
         OneSource, IsShot, IsJoin, IsEarlier
<1>4. ShowsCurrent' /\ JoinRows' /\ LiveAtTip' /\ Refused'
  BY DEF ColdRecapture, factoryVars, earlierVars, ShowsCurrent, JoinRows, HoldsRows, RowsOf, TailAgrees,
         LiveAtTip, Refused, EarlierCurrent
<1> QED BY <1>2, <1>3, <1>4

LEMMA ColdReadyStep == ASSUME ShownInv, NEW c \in cold, ColdReady(c) PROVE ShownInv'
<1> USE DEF ShownInv, Types
<1>1. /\ running /\ ~revoked /\ ~join.projected
  BY DEF OneSource, Refused, ViewTypes
<1>2. currentEvents' = SetRows(currentEvents, c.tail.rows) /\ currentEvents' \subseteq RowT
  BY SetRowsTyped DEF ColdReady, ColdTypes, ViewTypes
<1>3. snapshot' = [state |-> "ready", liveState |-> snapshot.liveState, status |-> TRUE, gates |-> gates',
                   events |-> Ordered(currentEvents', earlierEvents),
                   covered |-> Greatest(Initial, c.tail.tip), earlierState |-> snapshot.earlierState]
  BY DEF ColdReady, Publish, ViewTypes, IsShot
<1>4. FactoryTypes' /\ ViewTypes' /\ JoinTypes' /\ EarlierTypes' /\ ColdTypes' /\ OneSource'
  BY <1>2, <1>3 DEF ColdReady, factoryVars, earlierVars, FactoryTypes, ViewTypes, JoinTypes, EarlierTypes,
         ColdTypes, OneSource, IsShot, IsJoin, IsEarlier
<1>5. ShowsCurrent'
  BY <1>3, OrderedShows DEF ShowsCurrent
<1>6. JoinRows' /\ LiveAtTip' /\ Refused'
  BY <1>1, <1>3 DEF ColdReady, JoinRows, LiveAtTip, Refused
<1> QED BY <1>4, <1>5, <1>6

LEMMA ColdFailsStep == ASSUME ShownInv, NEW c \in cold, ColdFails(c) PROVE ShownInv'
<1>1. budget' \in Budgets
  BY SpendBudget DEF ColdFails, MayFail, ShownInv, Types, FactoryTypes, Spendable
<1>2. snapshot' = [state |-> "failed", liveState |-> snapshot.liveState, status |-> snapshot.status,
                   gates |-> snapshot.gates, events |-> snapshot.events,
                   covered |-> snapshot.covered, earlierState |-> snapshot.earlierState]
  BY DEF ColdFails, Publish, ShownInv, Types, ViewTypes, IsShot
<1>3. Quiet
  BY <1>1, <1>2 DEF ColdFails, factoryVars, Quiet, IsShot, ShownInv, Types, FactoryTypes
<1> QED BY <1>3, QuietStep DEF ColdFails, earlierVars

LEMMA ReadColdStep == ASSUME ShownInv, ReadCold PROVE ShownInv'
<1>1. PICK c \in cold :
        \/ ColdGates(c) \/ ColdTail(c) \/ ColdRecapture(c)
        \/ ColdReady(c) \/ ColdFails(c) \/ ColdDenied(c)
  BY DEF ReadCold
<1>2. ASSUME ColdDenied(c) PROVE ShownInv'
  BY <1>2, RejectStep DEF ColdDenied, ShownInv, Types, FactoryTypes
<1> QED BY <1>1, <1>2, ColdGatesStep, ColdTailStep, ColdRecaptureStep, ColdReadyStep, ColdFailsStep

-----------------------------------------------------------------------------
(* The join.                                                               *)

\* A change of the join's phase, or of the page it read, commits no record.
LEMMA OtherPhase ==
    ASSUME ShownInv, NEW phase, NEW ticket, NEW since, NEW page,
           join' = [phase |-> phase, tail |-> join.tail, from |-> join.from, covered |-> join.covered,
                    projected |-> join.projected, ticket |-> ticket, since |-> since, page |-> page],
           UNCHANGED <<journal, lowest, currentEvents>>
    PROVE  JoinTypes' /\ JoinRows'
<1> USE DEF ShownInv, Types
<1>1. IsJoin(join')
  BY DEF IsJoin
<1>2. /\ join'.tail = join.tail /\ join'.from = join.from /\ join'.covered = join.covered
      /\ join'.projected = join.projected
  OBVIOUS
<1>3. JoinTypes'
  BY <1>1, <1>2 DEF JoinTypes
<1>4. HoldsRows(currentEvents, join) => HoldsRows(currentEvents, join)'
  BY <1>2 DEF HoldsRows
<1>5. TailAgrees(join.tail) => TailAgrees(join.tail)'
  BY <1>2 DEF TailAgrees
<1> QED BY <1>2, <1>3, <1>4, <1>5 DEF JoinRows

LEMMA AuthorizeStep == ASSUME ShownInv, Authorize PROVE ShownInv'
<1> USE DEF ShownInv, Types
<1>1. join' = [phase |-> "reading", tail |-> join.tail, from |-> join.from, covered |-> join.covered,
               projected |-> join.projected, ticket |-> NewTicket, since |-> gate.version, page |-> None]
  BY DEF Authorize, JoinTypes, IsJoin
<1>2. JoinTypes' /\ JoinRows'
  BY <1>1, OtherPhase DEF Authorize, factoryVars
<1>3. FactoryTypes' /\ ViewTypes' /\ ColdTypes' /\ EarlierTypes'
  BY DEF Authorize, CancelCold, factoryVars, earlierVars, FactoryTypes, ViewTypes, ColdTypes, EarlierTypes, IsShot
<1>4. running
  BY DEF Authorize, OneSource, NoJoin, ViewTypes
<1>5. OneSource' /\ LiveAtTip'
  BY <1>1, <1>4 DEF Authorize, CancelCold, OneSource, LiveAtTip
<1>6. ShowsCurrent' /\ Refused'
  BY DEF Authorize, factoryVars, earlierVars, ShowsCurrent, Refused, EarlierCurrent
<1> QED BY <1>2, <1>3, <1>5, <1>6

LEMMA JoinGatesStep == ASSUME ShownInv, JoinGates PROVE ShownInv'
<1> USE DEF ShownInv, Types
<1>1. join' = [phase |-> "reading", tail |-> join.tail, from |-> join.from, covered |-> join.covered,
               projected |-> join.projected, ticket |-> join.ticket, since |-> join.since, page |-> gate]
  BY DEF JoinGates, JoinTypes, IsJoin
<1>2. JoinTypes' /\ JoinRows'
  BY <1>1, OtherPhase DEF JoinGates, factoryVars
<1>3. FactoryTypes' /\ ViewTypes' /\ ColdTypes' /\ EarlierTypes'
  BY DEF JoinGates, factoryVars, earlierVars, FactoryTypes, ViewTypes, ColdTypes, EarlierTypes, IsShot
<1>4. running
  BY DEF JoinGates, OneSource, NoJoin, ViewTypes
<1>5. OneSource' /\ LiveAtTip'
  BY <1>1, <1>4 DEF JoinGates, OneSource, LiveAtTip
<1>6. ShowsCurrent' /\ Refused'
  BY DEF JoinGates, factoryVars, earlierVars, ShowsCurrent, Refused, EarlierCurrent
<1> QED BY <1>2, <1>3, <1>5, <1>6

LEMMA StatusReadStep == ASSUME ShownInv, StatusRead PROVE ShownInv'
<1> USE DEF ShownInv, Types
<1>1. join' = [phase |-> "capturing", tail |-> join.tail, from |-> join.from, covered |-> join.covered,
               projected |-> join.projected, ticket |-> 0, since |-> 0, page |-> None]
  BY DEF StatusRead, JoinTypes, IsJoin
<1>2. JoinTypes' /\ JoinRows'
  BY <1>1, OtherPhase DEF StatusRead, factoryVars
<1>3. FactoryTypes' /\ ViewTypes' /\ ColdTypes' /\ EarlierTypes'
  BY DEF StatusRead, factoryVars, earlierVars, FactoryTypes, ViewTypes, ColdTypes, EarlierTypes, IsShot
<1>4. running
  BY DEF StatusRead, OneSource, NoJoin, ViewTypes
<1>5. OneSource' /\ LiveAtTip'
  BY <1>1, <1>4 DEF StatusRead, OneSource, LiveAtTip
<1>6. ShowsCurrent' /\ Refused'
  BY DEF StatusRead, factoryVars, earlierVars, ShowsCurrent, Refused, EarlierCurrent
<1> QED BY <1>2, <1>3, <1>5, <1>6

\* A cursor the join may go on from is in its tail, and the journal agrees up to it.
LEMMA CursorTrue ==
    ASSUME ShownInv, NEW c \in Cursors
    PROVE  /\ c \in Nat /\ c <= join.covered /\ c <= Len(journal)
           /\ join.projected => \A s \in 1..c : s <= Len(join.tail) /\ join.tail[s] = journal[s]
<1> USE DEF ShownInv, Types
<1>1. /\ join.covered \in Nat /\ Len(journal) \in Nat /\ Len(join.tail) \in Nat /\ lowest \in Nat
  BY LenProperties DEF JoinTypes, FactoryTypes
<1>2. Least(join.covered, Len(journal)) \in Nat /\ Least(join.covered, Len(journal)) <= join.covered
      /\ Least(join.covered, Len(journal)) <= Len(journal)
  BY <1>1 DEF Least
<1>3. /\ c \in Nat /\ c <= join.covered /\ c <= Len(journal)
      /\ join.projected => c <= lowest
  BY <1>1, <1>2 DEF Cursors, Least
<1>4. ASSUME join.projected, NEW s \in 1..c  PROVE s <= Len(join.tail) /\ join.tail[s] = journal[s]
  <2>1. s \in Nat /\ s >= 1 /\ s <= lowest /\ s <= join.covered
    BY <1>1, <1>3, <1>4
  <2>2. s <= Len(join.tail)
    BY <2>1, <1>1, <1>4 DEF JoinRows, HoldsRows
  <2> QED BY <1>1, <1>4, <2>1, <2>2 DEF JoinRows, TailAgrees
<1> QED BY <1>3, <1>4

\* The rows a projection keeps are the new capture's, up to the cursor.
LEMMA ProjectedRows ==
    ASSUME ShownInv, NEW c \in Cursors, NEW ceiling \in Nat, c <= ceiling, ceiling <= Len(journal),
           NEW j, j.tail = journal, j.covered = c, j.from = JoinStart(c)
    PROVE  HoldsRows(Pruned(ceiling), j)
<1> USE DEF ShownInv, Types
<1>1. /\ c \in Nat /\ c <= join.covered /\ c <= Len(journal)
      /\ join.projected => \A s \in 1..c : s <= Len(join.tail) /\ join.tail[s] = journal[s]
  BY CursorTrue
<1>2. /\ join.covered \in Nat /\ Len(journal) \in Nat /\ join.from \in Nat
      /\ TailStart \in Nat /\ TailStart >= 1
      /\ \A r \in currentEvents : r.seq \in Nat
  BY LenProperties, TailStartType DEF JoinTypes, FactoryTypes, ViewTypes, RowT
<1>3. JoinStart(c) \in Nat /\ JoinStart(c) >= 1
  BY <1>1, <1>2 DEF JoinStart, Least, JoinRows, HoldsRows, JoinTypes
<1>4. \A r \in Pruned(ceiling) : r \in currentEvents /\ r.seq \in Nat /\ r.seq <= ceiling
  BY <1>2 DEF Pruned
<1>5. {r \in Pruned(ceiling) : r.seq \in JoinStart(c)..c} = RowsOf(journal, JoinStart(c), c)
  <2>1. CASE JoinStart(c) > c
    BY <2>1, <1>1, <1>3, <1>4 DEF RowsOf
  <2>2. CASE JoinStart(c) <= c
    <3>1. join.projected /\ JoinStart(c) = join.from /\ join.from >= 1 /\ c >= 1
      BY <2>2, <1>1, <1>2 DEF JoinStart, Least, JoinRows, HoldsRows, JoinTypes
    <3>2. {r \in currentEvents : r.seq \in join.from..join.covered}
            = RowsOf(join.tail, join.from, join.covered)
      BY <3>1 DEF JoinRows, HoldsRows
    <3>3. {r \in currentEvents : r.seq \in join.from..c} = RowsOf(join.tail, join.from, c)
      <4>1. join.from..c \subseteq join.from..join.covered
        BY <1>1, <1>2
      <4> QED BY <3>2, <4>1 DEF RowsOf
    <3>4. RowsOf(join.tail, join.from, c) = RowsOf(journal, join.from, c)
      <4>1. \A s \in join.from..c : join.tail[s] = journal[s]
        BY <1>1, <1>2, <3>1
      <4> HIDE DEF ShownInv, Types
      <4> QED BY <4>1, SameRows
    <3>5. {r \in Pruned(ceiling) : r.seq \in join.from..c} = {r \in currentEvents : r.seq \in join.from..c}
      BY <1>1, <1>2 DEF Pruned
    <3> QED BY <3>1, <3>3, <3>4, <3>5
  <2> QED BY <2>1, <2>2, <1>1, <1>3
<1>6. \A r \in Pruned(ceiling) : r.seq <= Len(journal)
  BY <1>2, <1>4
<1> QED BY <1>1, <1>3, <1>5, <1>6 DEF HoldsRows

LEMMA ProjectionStep == ASSUME ShownInv, Projection PROVE ShownInv'
<1> USE DEF ShownInv, Types
<1>1. /\ join.phase = "capturing" /\ access /\ lowest' = MaxSeq
      /\ UNCHANGED <<journal, gate, access, budget, generation, cold, gateVars, refreshes, revoked, running>>
  BY DEF Projection
<1> DEFINE Lowered(c) == IF join.projected THEN c < join.covered ELSE Len(journal) < snapshot.covered
<1>2. PICK c \in Cursors :
        /\ join' = [join EXCEPT !.phase = "following", !.tail = journal, !.covered = c,
                      !.from = JoinStart(c), !.projected = TRUE]
        /\ currentEvents' = Pruned(IF join.projected /\ Lowered(c) THEN c ELSE Len(journal))
        /\ IF Lowered(c)
           THEN /\ earlierEvents' = {}
                /\ earlier' = [cursor |-> 0, started |-> FALSE]
                /\ earlierRead' = {[e EXCEPT !.aborted = TRUE] : e \in earlierRead}
           ELSE UNCHANGED earlierVars
        /\ snapshot' = [snapshot EXCEPT !.state = "ready", !.status = TRUE, !.gates = gates,
                          !.liveState = LiveState(c, Len(journal)),
                          !.events = Ordered(currentEvents', earlierEvents'), !.covered = c,
                          !.earlierState = AfterReset(Lowered(c), @)]
  BY DEF Projection, Publish
<1>3. join' = [phase |-> "following", tail |-> journal, from |-> JoinStart(c), covered |-> c,
               projected |-> TRUE, ticket |-> join.ticket, since |-> join.since, page |-> join.page]
  BY <1>2 DEF JoinTypes, IsJoin
<1>4. snapshot' = [state |-> "ready", liveState |-> LiveState(c, Len(journal)), status |-> TRUE, gates |-> gates,
                   events |-> Ordered(currentEvents', earlierEvents'), covered |-> c,
                   earlierState |-> AfterReset(Lowered(c), snapshot.earlierState)]
  BY <1>2 DEF ViewTypes, IsShot
<1>5. /\ c \in Nat /\ c <= Len(journal) /\ Len(journal) \in Nat
  BY CursorTrue, LenProperties DEF FactoryTypes
<1>6. running /\ ~revoked
  BY <1>1 DEF OneSource, NoJoin, ViewTypes, Refused
<1>7. cold = {}
  BY <1>1 DEF OneSource
<1>8. JoinStart(c) \in Nat
  BY <1>5, TailStartType DEF JoinStart, Least, JoinTypes, FactoryTypes
<1>9. currentEvents' \subseteq RowT
  BY <1>2 DEF Pruned, ViewTypes
<1>10. EarlierTypes'
  <2>1. CASE Lowered(c)
    <3>1. ASSUME NEW e \in earlierRead, NEW d, d = [e EXCEPT !.aborted = TRUE]
          PROVE  IsEarlier(d) /\ d.of \in Nat /\ d.of <= generation
      <4>1. IsEarlier(e) /\ e.of \in Nat /\ e.of <= generation
        BY DEF EarlierTypes
      <4>2. d = [of |-> e.of, aborted |-> TRUE, page |-> e.page, from |-> e.from]
        BY <3>1, <4>1, EarlierAborted
      <4> QED BY <4>1, <4>2 DEF IsEarlier
    <3>2. earlierRead' = {[e EXCEPT !.aborted = TRUE] : e \in earlierRead}
      BY <2>1, <1>2
    <3> QED BY <1>1, <3>1, <3>2 DEF EarlierTypes
  <2>2. CASE ~Lowered(c)
    BY <2>2, <1>1, <1>2 DEF EarlierTypes, earlierVars
  <2> QED BY <2>1, <2>2
<1>11. FactoryTypes' /\ ColdTypes'
  BY <1>1, <1>7, BoundAssumption DEF FactoryTypes, ColdTypes
<1>12. ViewTypes'
  BY <1>1, <1>4, <1>9 DEF ViewTypes, IsShot
<1>13. JoinTypes'
  BY <1>3, <1>5, <1>8 DEF JoinTypes, IsJoin, FactoryTypes
<1>14. OneSource' /\ Refused'
  BY <1>1, <1>3, <1>6, <1>7 DEF OneSource, Refused
<1>15. ShowsCurrent'
  BY <1>4, OrderedShows DEF ShowsCurrent
<1>16. JoinRows'
  <2>1. HoldsRows(currentEvents', join')
    <3>1. PICK ceiling \in Nat : /\ currentEvents' = Pruned(ceiling)
                                 /\ c <= ceiling /\ ceiling <= Len(journal)
      BY <1>2, <1>5
    <3>2. join'.tail = journal /\ join'.covered = c /\ join'.from = JoinStart(c)
      BY <1>3
    <3> QED BY <3>1, <3>2, ProjectedRows
  <2>2. TailAgrees(join.tail)'
    BY <1>1, <1>3, <1>5 DEF TailAgrees
  <2> QED BY <2>1, <2>2 DEF JoinRows, HoldsRows
<1>17. LiveAtTip'
  BY <1>3, <1>4, <1>5 DEF LiveAtTip, LiveState
<1> HIDE DEF ShownInv, Types
<1> QED BY <1>10, <1>11, <1>12, <1>13, <1>14, <1>15, <1>16, <1>17 DEF ShownInv, Types

LEMMA PublicStep == ASSUME ShownInv, Public PROVE ShownInv'
<1> USE DEF ShownInv, Types
<1> DEFINE next == Greatest(join.covered, join.from - 1) + 1
<1> DEFINE tail == IF next <= Len(join.tail) \/ ~IsPrefix(join.tail, journal) THEN join.tail
                   ELSE SubSeq(journal, 1, Least(next, Len(journal)))
<1>1. /\ join.phase = "following" /\ next <= Len(tail)
      /\ join' = [join EXCEPT !.tail = tail, !.covered = next]
      /\ currentEvents' = SetRows(currentEvents, RowsOf(tail, next, next))
      /\ snapshot' = [snapshot EXCEPT !.state = "ready", !.status = TRUE, !.gates = gates,
                        !.liveState = LiveState(next, Len(tail)),
                        !.events = Ordered(currentEvents', earlierEvents), !.covered = next]
      /\ UNCHANGED <<factoryVars, budget, generation, cold, earlierVars, revoked, running>>
  BY DEF Public, Publish
<1>2. join' = [phase |-> join.phase, tail |-> tail, from |-> join.from, covered |-> next,
               projected |-> join.projected, ticket |-> join.ticket, since |-> join.since, page |-> join.page]
  BY <1>1 DEF JoinTypes, IsJoin
<1>3. snapshot' = [state |-> "ready", liveState |-> LiveState(next, Len(tail)), status |-> TRUE, gates |-> gates,
                   events |-> Ordered(currentEvents', earlierEvents), covered |-> next,
                   earlierState |-> snapshot.earlierState]
  BY <1>1 DEF ViewTypes, IsShot
<1>4. join.projected /\ HoldsRows(currentEvents, join) /\ TailAgrees(join.tail)
  BY <1>1 DEF OneSource, JoinRows
<1>5. /\ join.covered \in Nat /\ join.from \in Nat /\ join.from >= 1
      /\ Len(join.tail) \in Nat /\ Len(journal) \in Nat
      /\ \A r \in currentEvents : r.seq \in Nat
  BY <1>4, LenProperties DEF HoldsRows, JoinTypes, FactoryTypes, ViewTypes, RowT
<1>6. /\ next \in Nat /\ next >= 1 /\ next >= join.from /\ next > join.covered
      /\ next - 1 = join.covered \/ next = join.from
  BY <1>5 DEF Greatest
<1>7. /\ tail \in Seq(Nat) /\ Len(join.tail) <= Len(tail)
      /\ \A s \in 1..Len(join.tail) : tail[s] = join.tail[s]
      /\ TailAgrees(tail)
  <2>1. CASE tail = join.tail
    <3>1. join.tail \in Seq(Nat) /\ Len(join.tail) <= Len(join.tail)
      BY <1>5 DEF JoinTypes
    <3> HIDE DEF tail, next, ShownInv, Types
    <3> QED BY <2>1, <3>1, <1>4
  <2>2. CASE tail # join.tail
    <3>1. next > Len(join.tail) /\ IsPrefix(join.tail, journal)
      BY <2>2, <1>5, <1>6
    <3>2. tail = SubSeq(journal, 1, Least(next, Len(journal)))
      BY <2>2
    <3>3. Least(next, Len(journal)) \in 1..Len(journal) \/ Least(next, Len(journal)) = 0
      BY <1>5, <1>6 DEF Least
    <3>4. /\ tail \in Seq(Nat) /\ Len(tail) = Least(next, Len(journal))
          /\ \A s \in 1..Len(tail) : tail[s] = journal[s]
      <4> HIDE DEF tail, next
      <4> QED BY <3>2, <3>3, <1>5, SubSeqProperties DEF FactoryTypes
    <3>5. Len(tail) = next /\ next <= Len(journal)
      BY <1>1, <3>4, <1>5, <1>6 DEF Least
    <3>6. /\ Len(join.tail) <= Len(journal)
          /\ \A s \in 1..Len(join.tail) : join.tail[s] = journal[s]
      BY <3>1, PrefixAt DEF JoinTypes, FactoryTypes
    <3> HIDE DEF tail, next
    <3>7. TailAgrees(tail)
      <4>1. \A s \in 1..Len(tail) : s <= Len(journal)
        BY <3>5, <1>5, <1>6
      <4> QED BY <4>1, <3>4 DEF TailAgrees
    <3>8. \A s \in 1..Len(join.tail) : tail[s] = join.tail[s]
      <4>1. 1..Len(join.tail) \subseteq 1..Len(tail)
        BY <3>1, <3>5, <1>5, <1>6
      <4> QED BY <4>1, <3>4, <3>6
    <3>9. Len(join.tail) <= Len(tail)
      BY <3>1, <3>5, <1>5, <1>6
    <3> QED BY <3>4, <3>7, <3>8, <3>9
  <2> QED BY <2>1, <2>2
<1> HIDE DEF next, tail
<1>8. tail[next] \in Nat /\ RowsOf(tail, next, next) = {[seq |-> next, epoch |-> tail[next]]}
  <2>1. tail[next] \in Nat
    BY <1>1, <1>6, <1>7, ElementOfSeq, LenProperties
  <2>2. next..next = {next}
    BY <1>6
  <2> QED BY <2>1, <2>2 DEF RowsOf
<1> DEFINE new == [seq |-> next, epoch |-> tail[next]]
<1>9. /\ new \in RowT /\ new.seq = next
      /\ currentEvents' = {new} \union {r \in currentEvents : r.seq # next}
  BY <1>1, <1>6, <1>8 DEF SetRows, RowT
<1> HIDE DEF new
<1>10. {r \in currentEvents : r.seq \in join.from..(next - 1)} = RowsOf(tail, join.from, next - 1)
  <2>1. CASE next - 1 = join.covered
    <3>1. RowsOf(join.tail, join.from, join.covered) = RowsOf(tail, join.from, join.covered)
      <4>1. \A s \in join.from..join.covered : join.tail[s] = tail[s]
        BY <1>4, <1>5, <1>7 DEF HoldsRows
      <4> HIDE DEF ShownInv, Types
      <4> QED BY <4>1, SameRows
    <3> QED BY <2>1, <3>1, <1>4 DEF HoldsRows
  <2>2. CASE next = join.from
    <3>1. join.from..(next - 1) = {}
      BY <2>2, <1>5
    <3> QED BY <3>1 DEF RowsOf
  <2> QED BY <2>1, <2>2, <1>6
<1>11. HoldsRows(currentEvents', join')
  <2>1. {r \in currentEvents' : r.seq \in join.from..next} = RowsOf(tail, join.from, next)
    <3>1. join.from..next = (join.from..(next - 1)) \union {next} /\ next \notin join.from..(next - 1)
      BY <1>5, <1>6
    <3>2. RowsOf(tail, join.from, next) = RowsOf(tail, join.from, next - 1) \union {new}
      BY <3>1 DEF RowsOf, new
    <3>3. {r \in currentEvents' : r.seq \in join.from..next}
            = {r \in currentEvents : r.seq \in join.from..(next - 1)} \union {new}
      BY <3>1, <1>9
    <3> QED BY <3>2, <3>3, <1>10
  <2>2. \A r \in currentEvents' : r.seq <= Len(tail)
    <3>1. Len(tail) \in Nat
      BY <1>7, LenProperties
    <3>2. \A r \in currentEvents : r.seq <= Len(tail)
      BY <3>1, <1>4, <1>5, <1>7 DEF HoldsRows
    <3> QED BY <3>2, <1>1, <1>9
  <2>3. join'.tail = tail /\ join'.from = join.from /\ join'.covered = next
    BY <1>2
  <2> QED BY <2>1, <2>2, <2>3, <1>1, <1>5 DEF HoldsRows
<1>12. JoinRows'
  <2>1. join'.tail = tail
    BY <1>2
  <2>2. TailAgrees(join.tail)'
    BY <1>1, <1>7, <2>1 DEF TailAgrees, factoryVars
  <2>3. HoldsRows(currentEvents, join)'
    BY <1>11 DEF HoldsRows
  <2> QED BY <2>2, <2>3 DEF JoinRows
<1>13. JoinTypes'
  BY <1>2, <1>5, <1>6, <1>7 DEF JoinTypes, IsJoin
<1>14. running /\ ~revoked
  BY <1>1 DEF OneSource, NoJoin, ViewTypes, Refused
<1>15. cold = {}
  BY <1>1 DEF OneSource
<1>16. ViewTypes'
  <2>1. IsShot(snapshot)'
    BY <1>3 DEF IsShot
  <2>2. currentEvents' \subseteq RowT
    BY <1>9 DEF ViewTypes
  <2> QED BY <1>1, <2>1, <2>2 DEF ViewTypes
<1>17. FactoryTypes' /\ ColdTypes' /\ EarlierTypes'
  BY <1>1, <1>15 DEF FactoryTypes, ColdTypes, EarlierTypes, factoryVars, earlierVars
<1>18. OneSource' /\ Refused'
  BY <1>1, <1>2, <1>4, <1>14, <1>15 DEF OneSource, Refused
<1>19. ShowsCurrent'
  BY <1>3, OrderedShows DEF ShowsCurrent
<1>20. LiveAtTip'
  BY <1>1, <1>2, <1>3, <1>6 DEF LiveAtTip, LiveState
<1> HIDE DEF ShownInv, Types
<1> QED BY <1>12, <1>13, <1>16, <1>17, <1>18, <1>19, <1>20 DEF ShownInv, Types

\* A publication that touches no row: the join's phase may change, and the view says no more that it is live.
LEMMA RepairStep == ASSUME ShownInv, Repair PROVE ShownInv'
<1> USE DEF ShownInv, Types
<1>1. budget' \in Budgets
  BY SpendBudget DEF Repair, FactoryTypes, Spendable
<1>2. join' = [phase |-> "subscribing", tail |-> join.tail, from |-> join.from, covered |-> join.covered,
               projected |-> join.projected, ticket |-> join.ticket, since |-> join.since, page |-> join.page]
  BY DEF Repair, JoinTypes, IsJoin
<1>3. snapshot' = [state |-> snapshot.state, liveState |-> "repairing", status |-> snapshot.status,
                   gates |-> snapshot.gates, events |-> snapshot.events,
                   covered |-> snapshot.covered, earlierState |-> snapshot.earlierState]
  BY DEF Repair, Publish, ViewTypes, IsShot
<1>4. JoinTypes' /\ JoinRows'
  BY <1>2, OtherPhase DEF Repair, factoryVars
<1>5. IsShot(snapshot)'
  BY <1>3 DEF IsShot
<1>6. FactoryTypes' /\ ViewTypes' /\ ColdTypes' /\ EarlierTypes'
  BY <1>1, <1>5 DEF Repair, factoryVars, earlierVars, FactoryTypes, ViewTypes, ColdTypes, EarlierTypes
<1>7. running
  BY DEF Repair, OneSource, NoJoin, ViewTypes
<1>8. OneSource' /\ LiveAtTip'
  BY <1>2, <1>3, <1>7 DEF Repair, OneSource, LiveAtTip
<1>9. ShowsCurrent' /\ Refused'
  BY <1>3, <1>7 DEF Repair, ShowsCurrent, Refused
<1> QED BY <1>4, <1>6, <1>8, <1>9

LEMMA JoinFailsStep == ASSUME ShownInv, JoinFails PROVE ShownInv'
<1> USE DEF ShownInv, Types
<1>1. budget' \in Budgets
  BY SpendBudget DEF JoinFails, MayFail, FactoryTypes, Spendable
<1>2. snapshot' = [state |-> IF snapshot.status THEN "ready" ELSE "failed", liveState |-> "failed",
                   status |-> snapshot.status, gates |-> snapshot.gates, events |-> snapshot.events,
                   covered |-> snapshot.covered, earlierState |-> snapshot.earlierState]
  BY DEF JoinFails, Publish, ViewTypes, IsShot
<1>3. JoinTypes' /\ JoinRows'
  BY DEF JoinFails, JoinTypes, JoinRows, IsJoin, NoJoin
<1>4. IsShot(snapshot)'
  BY <1>2 DEF IsShot
<1>5. FactoryTypes' /\ ViewTypes' /\ ColdTypes' /\ EarlierTypes'
  BY <1>1, <1>4 DEF JoinFails, factoryVars, earlierVars, FactoryTypes, ViewTypes, ColdTypes, EarlierTypes
<1>6. running
  BY DEF JoinFails, OneSource, NoJoin, ViewTypes
<1>7. OneSource' /\ LiveAtTip'
  BY <1>2, <1>6 DEF JoinFails, OneSource, LiveAtTip, NoJoin
<1>8. ShowsCurrent' /\ Refused'
  BY <1>2, <1>6 DEF JoinFails, ShowsCurrent, Refused
<1> QED BY <1>3, <1>5, <1>7, <1>8

LEMMA FollowStep == ASSUME ShownInv, Follow PROVE ShownInv'
<1>1. ASSUME JoinDenied PROVE ShownInv'
  BY <1>1, RejectStep DEF JoinDenied, ShownInv, Types, FactoryTypes
<1> QED BY <1>1, AuthorizeStep, JoinGatesStep, StatusReadStep, ProjectionStep, PublicStep, RepairStep,
           JoinFailsStep DEF Follow

-----------------------------------------------------------------------------
(* The gate re-reads and the earlier pages.                                *)

LEMMA GateTimerStep == ASSUME ShownInv, GateTimer PROVE ShownInv'
<1>1. Quiet
  BY DEF GateTimer, factoryVars, Quiet, ShownInv, Types, FactoryTypes, ViewTypes
<1> QED BY <1>1, QuietStep DEF GateTimer, earlierVars

\* A page of the gate is shown, or nothing new is.
LEMMA GatesShown ==
    ASSUME ShownInv, NEW page,
           snapshot' = [snapshot EXCEPT !.gates = page] \/ snapshot' = snapshot
    PROVE  /\ IsShot(snapshot)' /\ snapshot'.events = snapshot.events
           /\ snapshot'.liveState = snapshot.liveState
           /\ snapshot'.status = snapshot.status /\ snapshot'.covered = snapshot.covered
<1>1. CASE snapshot' = snapshot
  BY <1>1 DEF ShownInv, Types, ViewTypes, IsShot
<1>2. CASE snapshot' = [snapshot EXCEPT !.gates = page]
  <2>1. snapshot' = [state |-> snapshot.state, liveState |-> snapshot.liveState, status |-> snapshot.status,
                     gates |-> page, events |-> snapshot.events,
                     covered |-> snapshot.covered, earlierState |-> snapshot.earlierState]
    BY <1>2 DEF ShownInv, Types, ViewTypes, IsShot
  <2> QED BY <2>1 DEF IsShot
<1> QED BY <1>1, <1>2

LEMMA RefreshStep ==
    ASSUME ShownInv, NEW r \in refreshes,
           RefreshSampled(r) \/ Refreshed(r) \/ RefreshSuperseded(r) \/ RefreshFails(r) \/ RefreshDenied(r)
    PROVE  ShownInv'
<1>1. CASE RefreshSampled(r)
  <2>1. Quiet
    BY <1>1 DEF RefreshSampled, factoryVars, Quiet, ShownInv, Types, FactoryTypes, ViewTypes
  <2> QED BY <1>1, <2>1, QuietStep DEF RefreshSampled, earlierVars
<1>2. CASE Refreshed(r)
  <2>1. ~revoked
    BY <1>2 DEF Refreshed, Current, ShownInv, Refused, Types, ViewTypes
  <2>2. snapshot' = [snapshot EXCEPT !.gates = r.page] \/ snapshot' = snapshot
    BY <1>2 DEF Refreshed, Publish
  <2>3. Quiet
    BY <1>2, <2>1, <2>2, GatesShown DEF Refreshed, factoryVars, Quiet, ShownInv, Types, FactoryTypes
  <2> QED BY <1>2, <2>3, QuietStep DEF Refreshed, earlierVars
<1>3. CASE RefreshSuperseded(r)
  <2>1. budget' \in Budgets
    BY <1>3, SpendBudget DEF RefreshSuperseded, ShownInv, Types, FactoryTypes, Spendable
  <2>2. Quiet
    BY <1>3, <2>1 DEF RefreshSuperseded, factoryVars, Quiet, ShownInv, Types, FactoryTypes, ViewTypes
  <2> QED BY <1>3, <2>2, QuietStep DEF RefreshSuperseded, earlierVars
<1>4. CASE RefreshFails(r)
  <2>1. budget' \in Budgets
    BY <1>4, SpendBudget DEF RefreshFails, MayFail, ShownInv, Types, FactoryTypes, Spendable
  <2>2. Quiet
    BY <1>4, <2>1 DEF RefreshFails, Publish, factoryVars, Quiet, ShownInv, Types, FactoryTypes, ViewTypes
  <2> QED BY <1>4, <2>2, QuietStep DEF RefreshFails, earlierVars
<1>5. CASE RefreshDenied(r)
  BY <1>5, RejectStep DEF RefreshDenied, ShownInv, Types, FactoryTypes
<1> QED BY <1>1, <1>2, <1>3, <1>4, <1>5

LEMMA RefreshGatesStep == ASSUME ShownInv, RefreshGates PROVE ShownInv'
BY GateTimerStep, RefreshStep DEF RefreshGates

\* A page of earlier history is asked for, read or given up: no row changes.
EarlierQuiet ==
    /\ UNCHANGED <<journal, lowest, access, generation, running, currentEvents, revoked, cold, join>>
    /\ budget' \in Budgets
    /\ IsShot(snapshot)' /\ snapshot'.events = snapshot.events
    /\ snapshot'.liveState = snapshot.liveState
    /\ snapshot'.gates = snapshot.gates /\ snapshot'.status = snapshot.status
    /\ snapshot'.covered = snapshot.covered
    /\ EarlierTypes'
    /\ revoked => \A e \in earlierRead' : EarlierCurrent(e)' => ~e.page.read

LEMMA EarlierQuietStep == ASSUME ShownInv, EarlierQuiet PROVE ShownInv'
<1>1. FactoryTypes' /\ JoinTypes' /\ ColdTypes' /\ EarlierTypes' /\ OneSource'
  BY DEF ShownInv, Types, FactoryTypes, JoinTypes, ColdTypes, OneSource, EarlierQuiet
<1>2. ViewTypes'
  BY DEF ShownInv, Types, ViewTypes, EarlierQuiet
<1>3. ShowsCurrent' /\ JoinRows' /\ LiveAtTip'
  BY DEF ShownInv, ShowsCurrent, JoinRows, LiveAtTip, EarlierQuiet, HoldsRows, RowsOf, TailAgrees
<1>4. Refused'
  BY DEF ShownInv, Refused, EarlierQuiet
<1> QED BY <1>1, <1>2, <1>3, <1>4 DEF ShownInv, Types

\* Only the word on the earlier page changes.
LEMMA WordShown ==
    ASSUME ShownInv, NEW word, snapshot' = [snapshot EXCEPT !.earlierState = word]
    PROVE  /\ IsShot(snapshot)' /\ snapshot'.events = snapshot.events
           /\ snapshot'.liveState = snapshot.liveState
           /\ snapshot'.gates = snapshot.gates /\ snapshot'.status = snapshot.status
           /\ snapshot'.covered = snapshot.covered
<1>1. snapshot' = [state |-> snapshot.state, liveState |-> snapshot.liveState, status |-> snapshot.status,
                   gates |-> snapshot.gates, events |-> snapshot.events,
                   covered |-> snapshot.covered, earlierState |-> word]
  BY DEF ShownInv, Types, ViewTypes, IsShot
<1> QED BY <1>1 DEF IsShot

LEMMA BrowseEarlierStep == ASSUME ShownInv, BrowseEarlier PROVE ShownInv'
<1>1. budget' \in Budgets
  BY SpendBudget DEF BrowseEarlier, ShownInv, Types, FactoryTypes, Spendable
<1>2. \A e \in earlierRead' : IsEarlier(e) /\ e.of = generation /\ ~e.page.read
  BY DEF BrowseEarlier, IsEarlier, Unread
<1>3. snapshot' = [snapshot EXCEPT !.earlierState = "loading"]
  BY DEF BrowseEarlier, Publish
<1>4. EarlierTypes'
  <2>1. generation \in Nat /\ generation' = generation
    BY DEF BrowseEarlier, ShownInv, Types, ViewTypes
  <2>2. generation <= generation
    BY <2>1
  <2> QED BY <1>2, <2>1, <2>2 DEF EarlierTypes
<1>5. EarlierQuiet
  BY <1>1, <1>2, <1>3, <1>4, WordShown DEF BrowseEarlier, factoryVars, EarlierQuiet
<1> QED BY <1>5, EarlierQuietStep

LEMMA EarlierSampledStep == ASSUME ShownInv, NEW e \in earlierRead, EarlierSampled(e) PROVE ShownInv'
<1>1. ~revoked
  BY DEF EarlierSampled, ShownInv, Refused
<1>2. PICK page : earlierRead' = {[e EXCEPT !.page = page]}
  BY DEF EarlierSampled
<1>3. EarlierTypes'
  <2>1. IsEarlier(e) /\ e.of \in Nat /\ e.of <= generation
    BY DEF ShownInv, Types, EarlierTypes
  <2>2. ASSUME NEW d, d = [e EXCEPT !.page = page]
        PROVE  d = [of |-> e.of, aborted |-> e.aborted, page |-> page, from |-> e.from]
    BY <2>1, <2>2 DEF IsEarlier
  <2>3. \A d \in earlierRead' : d = [of |-> e.of, aborted |-> e.aborted, page |-> page, from |-> e.from]
    BY <1>2, <2>2
  <2> QED BY <2>1, <2>3 DEF EarlierSampled, EarlierTypes, IsEarlier
<1>4. EarlierQuiet
  BY <1>1, <1>3 DEF EarlierSampled, factoryVars, EarlierQuiet, ShownInv, Types, FactoryTypes, ViewTypes
<1> QED BY <1>4, EarlierQuietStep

LEMMA EarlierRestartsStep == ASSUME ShownInv, NEW e \in earlierRead, EarlierRestarts(e) PROVE ShownInv'
<1>1. budget' \in Budgets
  BY SpendBudget DEF EarlierRestarts, MayFail, ShownInv, Types, FactoryTypes, Spendable
<1>2. IsEarlier(e) /\ e.of \in Nat /\ e.of <= generation
  BY DEF ShownInv, Types, EarlierTypes
<1>3. \A d \in earlierRead' : d = [of |-> e.of, aborted |-> e.aborted, page |-> e.page, from |-> 0]
  <2>1. ASSUME NEW d, d = [e EXCEPT !.from = 0]
        PROVE  d = [of |-> e.of, aborted |-> e.aborted, page |-> e.page, from |-> 0]
    BY <1>2, <2>1 DEF IsEarlier
  <2> QED BY <2>1 DEF EarlierRestarts
<1>4. EarlierTypes'
  BY <1>2, <1>3 DEF EarlierRestarts, EarlierTypes, IsEarlier
<1>5. EarlierQuiet
  BY <1>1, <1>3, <1>4 DEF EarlierRestarts, factoryVars, EarlierQuiet, ShownInv, Types, ViewTypes
<1> QED BY <1>5, EarlierQuietStep

LEMMA EarlierShownStep == ASSUME ShownInv, NEW e \in earlierRead, EarlierShown(e) PROVE ShownInv'
<1> USE DEF ShownInv, Types
<1>1. ~revoked
  BY DEF EarlierShown, Refused
<1>2. PICK word : snapshot' = [snapshot EXCEPT !.events = Ordered(currentEvents, e.page.rows), !.earlierState = word]
  BY DEF EarlierShown, Publish
<1>3. snapshot' = [state |-> snapshot.state, liveState |-> snapshot.liveState, status |-> snapshot.status,
                   gates |-> snapshot.gates, events |-> Ordered(currentEvents, e.page.rows),
                   covered |-> snapshot.covered, earlierState |-> word]
  BY <1>2 DEF ViewTypes, IsShot
<1>4. IsShot(snapshot)'
  BY <1>3 DEF IsShot
<1>5. FactoryTypes' /\ ViewTypes' /\ JoinTypes' /\ ColdTypes' /\ EarlierTypes' /\ OneSource'
  BY <1>4 DEF EarlierShown, factoryVars, FactoryTypes, ViewTypes, JoinTypes, ColdTypes, EarlierTypes, OneSource
<1>6. ShowsCurrent'
  BY <1>3, OrderedShows DEF EarlierShown, ShowsCurrent
<1>7. JoinRows'
  BY DEF EarlierShown, factoryVars, JoinRows, HoldsRows, RowsOf, TailAgrees
<1>8. LiveAtTip' /\ Refused'
  BY <1>1, <1>3 DEF EarlierShown, LiveAtTip, Refused
<1> QED BY <1>5, <1>6, <1>7, <1>8

LEMMA EarlierDroppedStep == ASSUME ShownInv, NEW e \in earlierRead, EarlierDropped(e) PROVE ShownInv'
<1>1. EarlierTypes'
  BY DEF EarlierDropped, EarlierTypes
<1>2. EarlierQuiet
  BY <1>1 DEF EarlierDropped, factoryVars, EarlierQuiet, ShownInv, Types, FactoryTypes, ViewTypes
<1> QED BY <1>2, EarlierQuietStep

LEMMA EarlierFailsStep == ASSUME ShownInv, NEW e \in earlierRead, EarlierFails(e) PROVE ShownInv'
<1>1. budget' \in Budgets
  BY SpendBudget DEF EarlierFails, MayFail, ShownInv, Types, FactoryTypes, Spendable
<1>2. EarlierTypes'
  BY DEF EarlierFails, EarlierTypes
<1>3. snapshot' = [snapshot EXCEPT !.earlierState = "failed"]
  BY DEF EarlierFails, Publish
<1>4. EarlierQuiet
  BY <1>1, <1>2, <1>3, WordShown DEF EarlierFails, factoryVars, EarlierQuiet
<1> QED BY <1>4, EarlierQuietStep

LEMMA ReadEarlierStep == ASSUME ShownInv, ReadEarlier PROVE ShownInv'
<1>1. ASSUME NEW e \in earlierRead, EarlierDenied(e) PROVE ShownInv'
  BY <1>1, RejectStep DEF EarlierDenied, ShownInv, Types, FactoryTypes
<1> QED BY <1>1, BrowseEarlierStep, EarlierSampledStep, EarlierRestartsStep, EarlierShownStep,
           EarlierDroppedStep, EarlierFailsStep DEF ReadEarlier

-----------------------------------------------------------------------------
(* The gate page.  Three paths read it and answer in any order; a ticket    *)
(* is taken when a read starts, and a page is adopted only over older ones. *)

GateReads == cold \union refreshes \union {join}

IsRefresh(r) == r = [ticket |-> r.ticket, since |-> r.since, of |-> r.of, page |-> r.page]

\* A read's page is no older than its start.
ReadsAfterStart(a) ==
    /\ a.since \in Nat /\ a.since <= gate.version
    /\ a.page # None => a.page.version \in Nat /\ a.since <= a.page.version

TicketTypes ==
    /\ gate.version \in Nat /\ gateFloor \in 0..gate.version
    /\ gateTickets \subseteq (Nat \ {0}) \X (Nat \ {0})
    /\ IsFiniteSet(InFlight)
    /\ \A r \in refreshes : IsRefresh(r)

\* Who took a ticket later started later, and an answer that is still adopted is of a
\* read that started no earlier than any whose page was adopted.
TicketsInOrder ==
    \A a, b \in GateReads : <<a.ticket, b.ticket>> \in gateTickets => a.since <= b.since
AdoptsForward == \A a \in GateReads : Adoptable(a.ticket) => gateFloor <= a.since

TicketInv ==
    /\ TicketTypes /\ (\A a \in GateReads : ReadsAfterStart(a))
    /\ TicketsInOrder /\ AdoptsForward
    /\ gates # None => gates.version \in Nat /\ gateFloor <= gates.version

LEMMA InFlightReads == InFlight = {a.ticket : a \in GateReads}
BY DEF InFlight, GateReads

\* A new ticket is nobody's: a finite set leaves one out of the first numbers.
LEMMA TicketIsNew ==
    ASSUME IsFiniteSet(InFlight)
    PROVE  NewTicket \in Nat \ {0} /\ NewTicket \notin InFlight
<1> DEFINE n == Cardinality(InFlight)
           some == 1..(n + 1)
<1>1. n \in Nat
  BY FS_CardinalityType
<1>2. Cardinality(some) = n + 1
  <2>1. Cardinality(some) = IF 1 > n + 1 THEN 0 ELSE (n + 1) - 1 + 1
    BY <1>1, FS_Interval
  <2> QED BY <1>1, <2>1
<1>3. \E t \in some : t \notin InFlight
  <2> SUFFICES ASSUME some \in SUBSET InFlight PROVE FALSE
    OBVIOUS
  <2>1. Cardinality(some) <= n
    BY FS_Subset
  <2> QED BY <1>1, <1>2, <2>1
<1>4. NewTicket \in some /\ NewTicket \notin InFlight
  BY <1>3 DEF NewTicket
<1> QED BY <1>1, <1>4

\* A read that goes on keeps its ticket and its start, and may have its answer by now.
GoesOnAs(a, b) ==
    /\ a.ticket = b.ticket /\ a.since = b.since
    /\ a.page \in {b.page, gate, None}

\* The join when it reads no page.
NotReading(a) == a.ticket = 0 /\ a.since = 0 /\ a.page = None

FewerReads == \A a \in GateReads' : NotReading(a) \/ \E b \in GateReads : GoesOnAs(a, b)

LEMMA FewerInFlight ==
    ASSUME TicketInv, FewerReads
    PROVE  IsFiniteSet(InFlight)'
<1>1. InFlight' \subseteq InFlight \union {0}
  BY InFlightReads DEF FewerReads, GoesOnAs, NotReading, InFlight, GateReads
<1>2. IsFiniteSet(InFlight \union {0})
  BY FS_AddElement DEF TicketInv, TicketTypes
<1> QED BY <1>1, <1>2, FS_Subset

\* Reads go on or end, and no page is adopted.
LEMMA FewerStep ==
    ASSUME TicketInv, FewerReads, UNCHANGED <<gateTickets, gateFloor>>, gates' \in {gates, None},
           gate'.version \in Nat, gate.version <= gate'.version, \A r \in refreshes' : IsRefresh(r)
    PROVE  TicketInv'
<1>1. TicketTypes'
  <2>1. IsFiniteSet(InFlight)'
    BY FewerInFlight
  <2> QED BY <2>1 DEF TicketInv, TicketTypes, IsRefresh
<1>2. ASSUME NEW a \in GateReads' PROVE ReadsAfterStart(a)'
  BY <1>2 DEF FewerReads, GoesOnAs, NotReading, TicketInv, TicketTypes, ReadsAfterStart, None
<1>3. \A a \in GateReads' : a.ticket # 0 => \E b \in GateReads : a.ticket = b.ticket /\ a.since = b.since
  BY DEF FewerReads, GoesOnAs, NotReading
<1>4. \A t, u : <<t, u>> \in gateTickets => t # 0 /\ u # 0
  BY DEF TicketInv, TicketTypes
<1>5. TicketsInOrder' /\ AdoptsForward'
  BY <1>3, <1>4 DEF TicketInv, TicketsInOrder, AdoptsForward, Adoptable
<1> QED BY <1>1, <1>2, <1>5 DEF TicketInv

\* A read that is over may have its page adopted: whatever it passes over started no later.
LEMMA AdoptStep ==
    ASSUME TicketInv, NEW r \in GateReads, r.page # None, AdoptGates(r.ticket, r.page, r.since),
           FewerReads, UNCHANGED gate, \A q \in refreshes' : IsRefresh(q)
    PROVE  TicketInv'
<1>1. CASE ~Adoptable(r.ticket)
  BY <1>1, FewerStep DEF AdoptGates, gateVars, TicketInv, TicketTypes
<1>2. CASE Adoptable(r.ticket)
  <2>1. /\ gates' = r.page /\ gateFloor' = Greatest(r.since, gateFloor)
        /\ gateTickets' \subseteq gateTickets
        /\ \A t, u : <<t, u>> \in gateTickets' => <<r.ticket, t>> \in gateTickets /\ <<r.ticket, u>> \in gateTickets
    <3> DEFINE newer == {p[2] : p \in {q \in gateTickets : q[1] = r.ticket}} \ {r.ticket}
    <3>1. /\ gates' = r.page /\ gateFloor' = Greatest(r.since, gateFloor)
          /\ gateTickets' = gateTickets \cap (newer \X newer)
      BY <1>2 DEF AdoptGates
    <3>2. \A p \in gateTickets : p = <<p[1], p[2]>>
      BY DEF TicketInv, TicketTypes
    <3>3. \A t \in newer : <<r.ticket, t>> \in gateTickets
      BY <3>2
    <3> HIDE DEF newer
    <3>4. \A t, u : <<t, u>> \in gateTickets' => t \in newer /\ u \in newer
      BY <3>1
    <3> QED BY <3>1, <3>3, <3>4
  <2>2. /\ r.since \in Nat /\ r.since <= gate.version /\ r.page.version \in Nat /\ r.since <= r.page.version
        /\ gateFloor \in Nat /\ gateFloor <= r.since
    BY <1>2 DEF TicketInv, TicketTypes, ReadsAfterStart, AdoptsForward
  <2>3. gateFloor' = r.since
    BY <2>1, <2>2 DEF Greatest
  <2>4. TicketTypes'
    <3>1. gateFloor' \in 0..gate'.version /\ gate'.version \in Nat
      BY <2>2, <2>3 DEF TicketInv, TicketTypes
    <3>2. IsFiniteSet(InFlight)'
      BY FewerInFlight
    <3>3. gateTickets' \subseteq (Nat \ {0}) \X (Nat \ {0})
      BY <2>1 DEF TicketInv, TicketTypes
    <3> QED BY <3>1, <3>2, <3>3 DEF TicketInv, TicketTypes, IsRefresh
  <2>5. ASSUME NEW a \in GateReads' PROVE ReadsAfterStart(a)'
    BY <2>5 DEF FewerReads, GoesOnAs, NotReading, TicketInv, TicketTypes, ReadsAfterStart, None
  <2>6. \A a \in GateReads' : a.ticket # 0 => \E b \in GateReads : a.ticket = b.ticket /\ a.since = b.since
    BY DEF FewerReads, GoesOnAs, NotReading
  <2>7. \A t, u : <<t, u>> \in gateTickets => t # 0 /\ u # 0
    BY DEF TicketInv, TicketTypes
  <2>8. TicketsInOrder'
    BY <2>1, <2>6, <2>7 DEF TicketInv, TicketsInOrder
  <2>9. AdoptsForward'
    <3> SUFFICES ASSUME NEW a \in GateReads', <<a.ticket, a.ticket>> \in gateTickets'
                 PROVE  gateFloor' <= a.since
      BY DEF AdoptsForward, Adoptable
    <3>1. <<r.ticket, a.ticket>> \in gateTickets
      BY <2>1
    <3>2. PICK b \in GateReads : a.ticket = b.ticket /\ a.since = b.since
      BY <2>6, <2>7, <3>1
    <3>3. r.since <= a.since
      BY <3>1, <3>2 DEF TicketInv, TicketsInOrder
    <3> QED BY <2>3, <3>3
  <2> QED BY <2>1, <2>2, <2>3, <2>4, <2>5, <2>8, <2>9 DEF TicketInv
<1> QED BY <1>1, <1>2

\* A read starts: it is the newest of those in flight.
LEMMA TakeStep ==
    ASSUME TicketInv, TakeTicket, UNCHANGED <<gates, gateFloor, gate>>,
           \A a \in GateReads' : \/ NotReading(a) \/ a \in GateReads
                                 \/ a.ticket = NewTicket /\ a.since = gate.version /\ a.page = None,
           \A r \in refreshes' : IsRefresh(r)
    PROVE  TicketInv'
<1>1. NewTicket \in Nat \ {0} /\ NewTicket \notin InFlight
  BY TicketIsNew DEF TicketInv, TicketTypes
<1>2. /\ \A t, u : <<t, u>> \in gateTickets' =>
             t # 0 /\ u # 0 /\ (u = NewTicket \/ (<<t, u>> \in gateTickets /\ t # NewTicket))
      /\ gateTickets' \subseteq (Nat \ {0}) \X (Nat \ {0})
  BY <1>1 DEF TakeTicket, TicketInv, TicketTypes
<1>3. \A a \in GateReads : a.ticket # NewTicket
  BY <1>1, InFlightReads
<1>4. TicketTypes'
  <2>1. InFlight' \subseteq (InFlight \union {0}) \union {NewTicket}
    BY InFlightReads DEF NotReading, InFlight, GateReads
  <2>2. IsFiniteSet((InFlight \union {0}) \union {NewTicket})
    BY FS_AddElement DEF TicketInv, TicketTypes
  <2>3. IsFiniteSet(InFlight)'
    BY <2>1, <2>2, FS_Subset
  <2> QED BY <1>2, <2>3 DEF TicketInv, TicketTypes, IsRefresh
<1>5. ASSUME NEW a \in GateReads' PROVE ReadsAfterStart(a)'
  BY <1>5 DEF NotReading, TicketInv, TicketTypes, ReadsAfterStart, None
<1>6. \A a \in GateReads' : a.ticket # 0 => \/ a \in GateReads
                                            \/ a.ticket = NewTicket /\ a.since = gate.version
  BY DEF NotReading
<1>7. gate.version \in Nat /\ \A a \in GateReads' : a.since <= gate.version
  BY <1>5 DEF TicketInv, TicketTypes, ReadsAfterStart
<1>8. TicketsInOrder'
  <2> SUFFICES ASSUME NEW a \in GateReads', NEW b \in GateReads', <<a.ticket, b.ticket>> \in gateTickets'
               PROVE  a.since <= b.since
    BY DEF TicketsInOrder
  <2>1. CASE b.ticket = NewTicket
    BY <1>1, <1>3, <1>6, <1>7, <2>1
  <2>2. CASE b.ticket # NewTicket
    BY <1>2, <1>3, <1>6, <2>2 DEF TicketInv, TicketsInOrder
  <2> QED BY <2>1, <2>2
<1>9. AdoptsForward'
  <2> SUFFICES ASSUME NEW a \in GateReads', <<a.ticket, a.ticket>> \in gateTickets'
               PROVE  gateFloor <= a.since
    BY DEF AdoptsForward, Adoptable
  <2>1. CASE a.ticket = NewTicket
    BY <1>1, <1>3, <1>6, <2>1 DEF TicketInv, TicketTypes
  <2>2. CASE a.ticket # NewTicket
    BY <1>2, <1>3, <1>6, <2>2 DEF TicketInv, AdoptsForward, Adoptable
  <2> QED BY <2>1, <2>2
<1> QED BY <1>4, <1>5, <1>8, <1>9 DEF TicketInv

LEMMA TicketsInit == Init => TicketInv
<1> SUFFICES ASSUME Init PROVE TicketInv
  OBVIOUS
<1>1. GateReads = {NoJoin} /\ refreshes = {}
  BY DEF Init, GateReads
<1>2. IsFiniteSet(InFlight)
  <2>1. InFlight = {NoJoin.ticket}
    BY <1>1, InFlightReads
  <2> QED BY <2>1, FS_Singleton
<1>3. TicketTypes
  BY <1>1, <1>2 DEF Init, TicketTypes
<1>4. \A a \in GateReads : ReadsAfterStart(a)
  BY <1>1 DEF Init, ReadsAfterStart, NoJoin
<1>5. TicketsInOrder /\ AdoptsForward
  BY DEF Init, TicketsInOrder, AdoptsForward, Adoptable
<1> QED BY <1>3, <1>4, <1>5 DEF Init, TicketInv

\* Reads end, and no page is adopted; a refusal drops the page.
LEMMA EndsStep ==
    ASSUME TicketInv, cold' \subseteq cold, refreshes' \subseteq refreshes,
           NotReading(join') \/ GoesOnAs(join', join),
           UNCHANGED <<gateTickets, gateFloor, gate>>, gates' \in {gates, None}
    PROVE  TicketInv'
<1>1. FewerReads
  BY DEF FewerReads, GateReads, GoesOnAs
<1>2. (\A r \in refreshes' : IsRefresh(r)) /\ gate.version \in Nat
  BY DEF TicketInv, TicketTypes
<1> QED BY <1>1, <1>2, FewerStep

LEMMA NobodyReads == NotReading(NoJoin) /\ GoesOnAs(join, join)
BY DEF NotReading, NoJoin, GoesOnAs

LEMMA FactoryTickets ==
    ASSUME ShownInv, TicketInv, Commit \/ Truncate \/ GateMoves \/ Revoke PROVE TicketInv'
<1>1. UNCHANGED viewVars
  BY DEF Commit, Truncate, GateMoves, Revoke
<1>2. CASE GateMoves
  <2>1. gate'.version \in Nat /\ gate.version <= gate'.version
    BY <1>2 DEF GateMoves, TicketInv, TicketTypes
  <2>2. FewerReads
    BY <1>1 DEF viewVars, refreshVars, FewerReads, GateReads, GoesOnAs
  <2> QED BY <1>1, <2>1, <2>2, FewerStep DEF viewVars, gateVars, refreshVars, TicketInv, TicketTypes
<1>3. CASE ~GateMoves
  BY <1>1, <1>3, NobodyReads, EndsStep DEF viewVars, gateVars, refreshVars, Commit, Truncate, Revoke
<1> QED BY <1>2, <1>3

\* The record of a read whose answer has come.
LEMMA Answered ==
    ASSUME ShownInv, TicketInv, UNCHANGED <<gateVars, gate>>,
           \/ /\ \E c \in cold : \E d : cold' = {d} /\ GoesOnAs(d, c)
              /\ UNCHANGED <<refreshes, join>>
           \/ GoesOnAs(join', join) /\ UNCHANGED <<refreshes, cold>>
           \/ /\ \E r \in refreshes : \E q : refreshes' = (refreshes \ {r}) \union {q} /\ GoesOnAs(q, r) /\ IsRefresh(q)
              /\ UNCHANGED <<cold, join>>
    PROVE  TicketInv'
<1>1. FewerReads
  BY DEF FewerReads, GateReads, GoesOnAs
<1>2. \A r \in refreshes' : IsRefresh(r)
  BY DEF TicketInv, TicketTypes
<1> QED BY <1>1, <1>2, FewerStep DEF gateVars, TicketInv, TicketTypes

LEMMA RunTickets == ASSUME ShownInv, TicketInv, Start \/ Stop PROVE TicketInv'
<1>1. CASE Start
  <2>1. PICK c : cold' = {c} /\ c = [ticket |-> NewTicket, since |-> gate.version, page |-> None,
                                     tail |-> Unread, restarted |-> FALSE]
    BY <1>1 DEF Start
  <2>2. NotReading(join')
    BY <1>1 DEF Start, NoJoin, NotReading
  <2>3. TakeTicket /\ UNCHANGED <<gates, gateFloor, gate, refreshes>>
    BY <1>1 DEF Start
  <2>4. \A a \in GateReads' : \/ NotReading(a) \/ a \in GateReads
                              \/ a.ticket = NewTicket /\ a.since = gate.version /\ a.page = None
    BY <2>1, <2>2, <2>3 DEF GateReads
  <2>5. \A r \in refreshes' : IsRefresh(r)
    BY <2>3 DEF TicketInv, TicketTypes
  <2> QED BY <2>3, <2>4, <2>5, TakeStep
<1>2. CASE Stop
  BY <1>2, NobodyReads, EndsStep DEF Stop, Abort, gateVars, factoryVars
<1> QED BY <1>1, <1>2

LEMMA RejectTickets ==
    ASSUME TicketInv, RejectAccess, UNCHANGED gate, refreshes' \subseteq refreshes PROVE TicketInv'
BY NobodyReads, EndsStep DEF RejectAccess, Abort

LEMMA ColdTickets == ASSUME ShownInv, TicketInv, ReadCold PROVE TicketInv'
<1>1. PICK c \in cold : \/ ColdGates(c) \/ ColdTail(c) \/ ColdRecapture(c)
                        \/ ColdReady(c) \/ ColdFails(c) \/ ColdDenied(c)
  BY DEF ReadCold
<1>2. IsCold(c)
  BY DEF ShownInv, Types, ColdTypes
<1>3. CASE ColdGates(c) \/ ColdTail(c) \/ ColdRecapture(c)
  <2>1. PICK d : cold' = {d} /\ (\/ d = [c EXCEPT !.page = gate]
                                 \/ \E tail : d = [c EXCEPT !.tail = tail]
                                 \/ d = [c EXCEPT !.tail = Unread, !.restarted = TRUE])
    BY <1>3 DEF ColdGates, ColdTail, ColdRecapture
  <2>2. GoesOnAs(d, c)
    BY <1>2, <2>1 DEF IsCold, GoesOnAs
  <2>3. UNCHANGED <<gateVars, gate, refreshes, join>>
    BY <1>3 DEF ColdGates, ColdTail, ColdRecapture, factoryVars, refreshVars
  <2> QED BY <2>1, <2>2, <2>3, Answered
<1>4. CASE ColdReady(c)
  <2>1. /\ c.page # None /\ cold' = {} /\ AdoptGates(c.ticket, c.page, c.since)
        /\ UNCHANGED <<gate, refreshes, join>>
    BY <1>4 DEF ColdReady, factoryVars
  <2>2. FewerReads
    BY <2>1, NobodyReads DEF FewerReads, GateReads, GoesOnAs
  <2>3. (\A r \in refreshes' : IsRefresh(r)) /\ c \in GateReads
    BY <2>1 DEF TicketInv, TicketTypes, GateReads
  <2> QED BY <2>1, <2>2, <2>3, AdoptStep
<1>5. CASE ColdFails(c)
  BY <1>5, NobodyReads, EndsStep DEF ColdFails, factoryVars, gateVars
<1>6. CASE ColdDenied(c)
  BY <1>6, RejectTickets DEF ColdDenied, factoryVars
<1> QED BY <1>1, <1>3, <1>4, <1>5, <1>6

LEMMA FollowTickets == ASSUME ShownInv, TicketInv, Follow PROVE TicketInv'
<1>1. IsJoin(join)
  BY DEF ShownInv, Types, JoinTypes
<1>2. CASE Authorize
  <2>1. TakeTicket /\ cold' = {} /\ UNCHANGED <<gates, gateFloor, gate, refreshes>>
    BY <1>2 DEF Authorize, CancelCold, factoryVars, refreshVars
  <2>2. PICK j : j = join'
    OBVIOUS
  <2>3. j = [join EXCEPT !.phase = "reading", !.page = None, !.ticket = NewTicket, !.since = gate.version]
    BY <1>2, <2>2 DEF Authorize
  <2>4. j.ticket = NewTicket /\ j.since = gate.version /\ j.page = None
    BY <1>1, <2>3 DEF IsJoin
  <2>5. \A a \in GateReads' : \/ NotReading(a) \/ a \in GateReads
                              \/ a.ticket = NewTicket /\ a.since = gate.version /\ a.page = None
    BY <2>1, <2>2, <2>4 DEF GateReads
  <2>6. \A r \in refreshes' : IsRefresh(r)
    BY <2>1 DEF TicketInv, TicketTypes
  <2> QED BY <2>1, <2>5, <2>6, TakeStep
<1>3. CASE JoinGates
  <2>1. PICK j : j = join'
    OBVIOUS
  <2>2. j = [join EXCEPT !.page = gate]
    BY <1>3, <2>1 DEF JoinGates
  <2>3. GoesOnAs(j, join)
    BY <1>1, <2>2 DEF IsJoin, GoesOnAs
  <2> QED BY <1>3, <2>1, <2>3, Answered DEF JoinGates, factoryVars, refreshVars
<1>4. CASE StatusRead
  <2>1. PICK j : j = join'
    OBVIOUS
  <2>2. j = [join EXCEPT !.phase = "capturing", !.ticket = 0, !.since = 0, !.page = None]
    BY <1>4, <2>1 DEF StatusRead
  <2>3. NotReading(j)
    BY <1>1, <2>2 DEF IsJoin, NotReading
  <2>4. /\ join.page # None /\ AdoptGates(join.ticket, join.page, join.since)
        /\ UNCHANGED <<gate, cold, refreshes>>
    BY <1>4 DEF StatusRead, factoryVars, refreshVars
  <2>5. FewerReads
    BY <2>1, <2>3, <2>4 DEF FewerReads, GateReads, GoesOnAs
  <2>6. (\A r \in refreshes' : IsRefresh(r)) /\ join \in GateReads
    BY <2>4 DEF TicketInv, TicketTypes, GateReads
  <2> QED BY <2>4, <2>5, <2>6, AdoptStep
<1>5. CASE Projection \/ Public \/ Repair
  <2>1. PICK j : j = join'
    OBVIOUS
  <2>2. \/ \E tail, covered, from : j = [join EXCEPT !.phase = "following", !.tail = tail,
                                           !.covered = covered, !.from = from, !.projected = TRUE]
        \/ \E tail, covered : j = [join EXCEPT !.tail = tail, !.covered = covered]
        \/ j = [join EXCEPT !.phase = "subscribing"]
    <3>1. CASE Projection
      <4>1. PICK covered \in Cursors :
              join' = [join EXCEPT !.phase = "following", !.tail = journal, !.covered = covered,
                                   !.from = JoinStart(covered), !.projected = TRUE]
        BY <3>1 DEF Projection
      <4> QED BY <2>1, <4>1
    <3>2. CASE Public
      <4>1. \E tail, covered : join' = [join EXCEPT !.tail = tail, !.covered = covered]
        BY <3>2 DEF Public
      <4> QED BY <2>1, <4>1
    <3>3. CASE Repair
      BY <2>1, <3>3 DEF Repair
    <3> QED BY <1>5, <3>1, <3>2, <3>3
  <2>3. GoesOnAs(j, join)
    BY <1>1, <2>2 DEF IsJoin, GoesOnAs
  <2>4. UNCHANGED <<gateVars, gate, cold, refreshes>>
    BY <1>5 DEF Projection, Public, Repair, factoryVars
  <2> QED BY <2>1, <2>3, <2>4, Answered
<1>6. CASE JoinFails
  BY <1>6, NobodyReads, EndsStep DEF JoinFails, factoryVars, gateVars
<1>7. CASE JoinDenied
  BY <1>7, RejectTickets DEF JoinDenied, factoryVars
<1> QED BY <1>2, <1>3, <1>4, <1>5, <1>6, <1>7 DEF Follow

LEMMA RefreshTickets == ASSUME ShownInv, TicketInv, RefreshGates PROVE TicketInv'
<1>1. CASE GateTimer
  <2>1. PICK q : /\ refreshes' = refreshes \union {q}
                 /\ q = [ticket |-> NewTicket, since |-> gate.version, of |-> generation, page |-> None]
    BY <1>1 DEF GateTimer
  <2>2. TakeTicket /\ UNCHANGED <<gates, gateFloor, gate, cold, join>>
    BY <1>1 DEF GateTimer, factoryVars
  <2>3. \A a \in GateReads' : \/ NotReading(a) \/ a \in GateReads
                              \/ a.ticket = NewTicket /\ a.since = gate.version /\ a.page = None
    BY <2>1, <2>2 DEF GateReads
  <2>4. \A r \in refreshes' : IsRefresh(r)
    BY <2>1 DEF TicketInv, TicketTypes, IsRefresh
  <2> QED BY <2>2, <2>3, <2>4, TakeStep
<1>2. ASSUME NEW r \in refreshes, RefreshSampled(r) PROVE TicketInv'
  <2>1. PICK q : q = [r EXCEPT !.page = gate]
    OBVIOUS
  <2>2. q = [ticket |-> r.ticket, since |-> r.since, of |-> r.of, page |-> gate]
    BY <2>1 DEF TicketInv, TicketTypes, IsRefresh
  <2>3. GoesOnAs(q, r) /\ IsRefresh(q)
    BY <2>2 DEF IsRefresh, GoesOnAs
  <2>4. refreshes' = (refreshes \ {r}) \union {q} /\ UNCHANGED <<gateVars, gate, cold, join>>
    BY <1>2, <2>1 DEF RefreshSampled, factoryVars
  <2> QED BY <2>3, <2>4, Answered
<1>3. ASSUME NEW r \in refreshes, Refreshed(r) PROVE TicketInv'
  <2>1. /\ r.page # None /\ refreshes' \subseteq refreshes /\ AdoptGates(r.ticket, r.page, r.since)
        /\ UNCHANGED <<gate, cold, join>>
    BY <1>3 DEF Refreshed, factoryVars
  <2>2. FewerReads
    BY <2>1, NobodyReads DEF FewerReads, GateReads, GoesOnAs
  <2>3. (\A q \in refreshes' : IsRefresh(q)) /\ r \in GateReads
    BY <2>1 DEF TicketInv, TicketTypes, GateReads
  <2> QED BY <2>1, <2>2, <2>3, AdoptStep
<1>4. ASSUME NEW r \in refreshes, RefreshSuperseded(r) \/ RefreshFails(r) PROVE TicketInv'
  BY <1>4, NobodyReads, EndsStep DEF RefreshSuperseded, RefreshFails, factoryVars, gateVars
<1>5. ASSUME NEW r \in refreshes, RefreshDenied(r) PROVE TicketInv'
  BY <1>5, RejectTickets DEF RefreshDenied, factoryVars
<1> QED BY <1>1, <1>2, <1>3, <1>4, <1>5 DEF RefreshGates

LEMMA EarlierTickets == ASSUME ShownInv, TicketInv, ReadEarlier PROVE TicketInv'
<1>1. ASSUME NEW e \in earlierRead, EarlierDenied(e) PROVE TicketInv'
  BY <1>1, RejectTickets DEF EarlierDenied, factoryVars
<1>2. CASE UNCHANGED <<cold, gateVars, refreshes, join, gate>>
  BY <1>2, NobodyReads, EndsStep DEF gateVars
<1> QED BY <1>1, <1>2 DEF ReadEarlier, BrowseEarlier, EarlierSampled, EarlierRestarts, EarlierShown,
              EarlierDropped, EarlierFails, factoryVars, refreshVars

LEMMA NextTickets == ShownInv /\ TicketInv /\ [Next]_vars => TicketInv'
<1> SUFFICES ASSUME ShownInv, TicketInv, [Next]_vars PROVE TicketInv'
  OBVIOUS
<1>1. CASE UNCHANGED vars
  BY <1>1, NobodyReads, EndsStep DEF vars, gateVars, refreshVars, factoryVars
<1> QED BY <1>1, FactoryTickets, RunTickets, ColdTickets, FollowTickets, RefreshTickets, EarlierTickets
        DEF Next

-----------------------------------------------------------------------------
(* The theorem.                                                            *)

LEMMA NextShown == ShownInv /\ [Next]_vars => ShownInv'
<1> SUFFICES ASSUME ShownInv, [Next]_vars PROVE ShownInv'
  OBVIOUS
<1>1. ASSUME UNCHANGED vars PROVE ShownInv'
  <2>1. Quiet
    BY <1>1 DEF vars, factoryVars, Quiet, ShownInv, Types, FactoryTypes, ViewTypes
  <2> QED BY <1>1, <2>1, QuietStep DEF vars, earlierVars
<1> QED BY <1>1, CommitStep, TruncateStep, GateMovesStep, RevokeStep, StartStep, StopStep, ReadColdStep,
           FollowStep, RefreshGatesStep, ReadEarlierStep DEF Next

\* A row shown of a sequence the join committed is the current one.
LEMMA CommittedShown ==
    ASSUME ShownInv, running, snapshot.liveState = "live", join.phase = "following",
           IsPrefix(join.tail, journal)
    PROVE  /\ {r \in snapshot.events : r.seq \in join.from..join.covered}
                = RowsOf(journal, join.from, join.covered)
           /\ \A r \in snapshot.events : r.seq <= join.covered \/ r \notin currentEvents
<1>1. HoldsRows(currentEvents, join) /\ join.covered >= Len(join.tail)
  BY DEF ShownInv, OneSource, JoinRows, LiveAtTip
<1>2. /\ join.from \in Nat /\ join.covered \in Nat /\ join.from >= 1
      /\ join.covered <= Len(join.tail) /\ Len(join.tail) \in Nat
      /\ join.tail \in Seq(Nat) /\ journal \in Seq(Nat)
  BY <1>1, LenProperties DEF ShownInv, Types, JoinTypes, FactoryTypes, HoldsRows
<1>3. RowsOf(join.tail, join.from, join.covered) = RowsOf(journal, join.from, join.covered)
  <2>1. \A s \in 1..Len(join.tail) : join.tail[s] = journal[s]
    BY <1>2, PrefixAt
  <2>2. \A s \in join.from..join.covered : join.tail[s] = journal[s]
    <3>1. join.from..join.covered \subseteq 1..Len(join.tail)
      BY <1>2
    <3> QED BY <3>1, <2>1
  <2> QED BY <2>2, SameRows
<1>4. {r \in currentEvents : r.seq \in join.from..join.covered} = RowsOf(journal, join.from, join.covered)
  BY <1>1, <1>3 DEF HoldsRows
<1>5. ASSUME NEW r \in snapshot.events, r.seq \in join.from..join.covered
      PROVE  r \in currentEvents
  <2> DEFINE q == [seq |-> r.seq, epoch |-> journal[r.seq]]
  <2>1. q \in RowsOf(journal, join.from, join.covered)
    BY <1>5 DEF RowsOf
  <2>2. q \in currentEvents /\ q.seq = r.seq
    BY <2>1, <1>4
  <2> QED BY <2>2 DEF ShownInv, ShowsCurrent
<1>6. \A r \in currentEvents : r.seq <= join.covered
  BY <1>1, <1>2 DEF HoldsRows, ShownInv, Types, ViewTypes, RowT
<1>7. currentEvents \subseteq snapshot.events
  BY DEF ShownInv, ShowsCurrent
<1> QED BY <1>4, <1>5, <1>6, <1>7

\* What the hook shows is true, for any tail limit, journal, and number of
\* truncations, restarts, refusals and failures: once it says it is live its
\* rows are the journal's, after a refusal nothing of the session is left, and
\* the gate page it holds is no older than the start of any read whose page it
\* adopted before (useFactorySessionView).
THEOREM ShowsTheTruth == Spec => []ShownIsTrue
<1>1. ShownInv => RowsMatchJournal /\ RevokedShowsNothing
  BY CommittedShown DEF ShownInv, RowsMatchJournal, RevokedShowsNothing, Refused
<1>2. TicketInv => NewestGates
  BY DEF TicketInv, TicketTypes, NewestGates
<1>3. ShownInv /\ TicketInv => ShownIsTrue
  BY <1>1, <1>2 DEF ShownIsTrue
<1>4. Init => ShownInv /\ TicketInv
  BY InitShown, TicketsInit
<1>5. ShownInv /\ TicketInv /\ [Next]_vars => ShownInv' /\ TicketInv'
  BY NextShown, NextTickets
<1> QED BY <1>3, <1>4, <1>5, PTL DEF Spec
=============================================================================
