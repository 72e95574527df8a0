---- MODULE FactoryJoin_proofs ----
(***************************************************************************)
(* Proofs about FactoryJoin: type correctness, the order of what is        *)
(* yielded and the only way the cursor goes back; then that nothing is     *)
(* skipped, and when the join gives up.                                    *)
(***************************************************************************)
EXTENDS FactoryJoin, TLAPS, FiniteSetTheorems, SequenceTheorems

\* What a link carried, and the tip of the reset it owes, are in the journal.
LinkBehind ==
  /\ link.sent <= Len(log) /\ link.reset.tip <= Len(log)
  /\ link.attached \/ link = NoLink

\* The inductive strengthening of TypeOK: a link never runs ahead of the
\* journal, a capture that asked for another page has admitted one, and the
\* loop only runs with attempts left.
TypeInv ==
  /\ TypeOK
  /\ LinkBehind
  /\ pc = "walk" => cap.covered >= 0 /\ ~Conflict(cap.events)
  /\ ~Stopped => repairs <= MaxRepairAttempts

\* A page the join validated: it names records, finitely many, consistently.
Pages ==
  {p \in [tip : 0..MaxSeq, covered : 0..MaxSeq, events : SUBSET Events,
          cursor : 0..MaxSeq] : IsFiniteSet(p.events) /\ ~Conflict(p.events)}

LEMMA PublicBetweenOK ==
  ASSUME log \in Seq(Records), Len(log) <= MaxSeq,
         NEW low \in Nat, NEW high \in 0..Len(log)
  PROVE  /\ PublicBetween(low, high) \subseteq Events
         /\ IsFiniteSet(PublicBetween(low, high))
         /\ ~Conflict(PublicBetween(low, high))
         /\ \A e \in PublicBetween(low, high) : e.seq \in (low + 1)..high
<1> USE JoinAssumption
<1> DEFINE S == {x \in (low + 1)..high : log[x].public}
<1>1. IsFiniteSet(S)
  <2>1. IsFiniteSet((low + 1)..high)
    BY FS_Interval
  <2> QED
    BY <2>1, FS_Subset
<1>2. IsFiniteSet({Event(s) : s \in S})
  <2> DEFINE T == {Event(s) : s \in S}
             f == [s \in S |-> Event(s)]
  <2>1. f \in Surjection(S, T)
    BY DEF Surjection
  <2> QED
    BY <1>1, <2>1, FS_Surjection
<1>3. \A s \in S : s \in 1..MaxSeq /\ log[s] \in Records
  <2>1. Len(log) \in Nat
    BY LenProperties
  <2>2. \A s \in S : s \in 1..Len(log) /\ s \in 1..MaxSeq
    BY <2>1
  <2> QED
    BY <2>2, ElementOfSeq
<1>4. \A s \in S : Event(s) \in Events /\ Event(s).seq = s /\ Event(s).id = log[s].id
  BY <1>3 DEF Event, Events, Records
<1> QED
  BY <1>2, <1>4 DEF PublicBetween, Conflict

\* The pages a Factory may answer with pass the join's validators.
LEMMA AnswersOK ==
  ASSUME log \in Seq(Records), Len(log) <= MaxSeq,
         NEW from \in Nat \ {0}, NEW tip \in 0..Len(log),
         NEW page \in Answers(from, tip)
  PROVE  page \in Pages /\ page.tip = tip
<1> USE JoinAssumption
<1>0. Len(log) \in Nat
  BY LenProperties
<1>1. CASE page \in HonestPages(from, tip)
  <2>1. PICK c \in 0..tip : page = Page(from, tip, c)
    BY <1>0, <1>1 DEF HonestPages
  <2>2. from - 1 \in Nat /\ c \in 0..Len(log)
    BY <1>0
  <2>3. /\ PublicBetween(from - 1, c) \subseteq Events
        /\ IsFiniteSet(PublicBetween(from - 1, c))
        /\ ~Conflict(PublicBetween(from - 1, c))
    BY <2>2, PublicBetweenOK
  <2>4. c \in 0..MaxSeq /\ tip \in 0..MaxSeq
    BY <1>0
  <2> QED
    BY <2>1, <2>3, <2>4 DEF Pages, Page, NoCursor
<1>2. CASE page \in InconsistentPages(from, tip)
  <2>1. PICK c \in {NoCursor, from} :
          from <= tip /\ page = [tip |-> tip, covered |-> from - 1, events |-> {}, cursor |-> c]
    BY <1>2 DEF InconsistentPages
  <2>2. from - 1 \in 0..MaxSeq /\ c \in 0..MaxSeq /\ tip \in 0..MaxSeq
    BY <1>0, <2>1 DEF NoCursor
  <2>3. IsFiniteSet({}) /\ ~Conflict({})
    BY FS_EmptySet DEF Conflict
  <2> QED
    BY <2>1, <2>2, <2>3 DEF Pages
<1> QED
  BY <1>1, <1>2 DEF Answers

\* What holds of a capture from its first page on: no two of its events claim
\* one sequence, and it asks for more only above something it attested.
Sound(c) ==
  c \in Captures /\ ~Conflict(c.events) /\ (c.step = "continue" => c.covered >= 0)

\* What some events weigh is a number, and adds up.
LEMMA BytesAre ==
  ASSUME NEW S \in SUBSET Events, IsFiniteSet(S)
  PROVE  IsFiniteSet(BytesOf(S)) /\ Cardinality(BytesOf(S)) \in Nat
<1> DEFINE of(e) == {e} \X (1..EventBytes[e])
           family == {of(e) : e \in S}
           f == [e \in S |-> of(e)]
<1>1. \A e \in S : IsFiniteSet(of(e))
  <2> SUFFICES ASSUME NEW e \in S PROVE IsFiniteSet(of(e))
    OBVIOUS
  <2>1. EventBytes[e] \in Nat
    BY WeightAssumption
  <2>2. IsFiniteSet(1..EventBytes[e])
    BY <2>1, FS_Interval
  <2>3. IsFiniteSet({e})
    BY FS_Singleton
  <2> QED
    BY <2>2, <2>3, FS_Product
<1>2. IsFiniteSet(family)
  <2>1. f \in Surjection(S, family)
    BY DEF Surjection
  <2> QED
    BY <2>1, FS_Surjection
<1>3. BytesOf(S) = UNION family
  BY DEF BytesOf
<1>4. \A T \in family : IsFiniteSet(T)
  BY <1>1
<1> HIDE DEF family
<1>5. IsFiniteSet(BytesOf(S))
  BY <1>2, <1>3, <1>4, FS_UNION
<1> QED
  BY <1>5, FS_CardinalityType

LEMMA BytesOfMore ==
  ASSUME NEW S \in SUBSET Events, IsFiniteSet(S), NEW T \in SUBSET S
  PROVE  Cardinality(BytesOf(T)) <= Cardinality(BytesOf(S))
<1>1. BytesOf(T) \in SUBSET BytesOf(S)
  BY DEF BytesOf
<1> QED
  BY <1>1, BytesAre, FS_Subset

LEMMA BytesOfBoth ==
  ASSUME NEW S \in SUBSET Events, IsFiniteSet(S),
         NEW T \in SUBSET Events, IsFiniteSet(T), S \cap T = {}
  PROVE  Cardinality(BytesOf(S \cup T)) = Cardinality(BytesOf(S)) + Cardinality(BytesOf(T))
<1>1. BytesOf(S \cup T) = BytesOf(S) \cup BytesOf(T)
  BY DEF BytesOf
<1>2. BytesOf(S) \cap BytesOf(T) = {}
  BY DEF BytesOf
<1>3. IsFiniteSet(BytesOf(S)) /\ IsFiniteSet(BytesOf(T))
  BY BytesAre
<1>4. Cardinality(BytesOf(S)) \in Nat /\ Cardinality(BytesOf(T)) \in Nat
  BY BytesAre
<1>5. Cardinality(BytesOf(S) \cap BytesOf(T)) = 0
  BY <1>2, FS_EmptySet
<1>6. Cardinality(BytesOf(S) \cup BytesOf(T))
        = Cardinality(BytesOf(S)) + Cardinality(BytesOf(T)) - Cardinality(BytesOf(S) \cap BytesOf(T))
  BY <1>3, FS_Union
<1> DEFINE m == Cardinality(BytesOf(S))  n == Cardinality(BytesOf(T))
           k == Cardinality(BytesOf(S) \cap BytesOf(T))
<1>7. m \in Nat /\ n \in Nat /\ k = 0
  BY <1>4, <1>5
<1>8. Cardinality(BytesOf(S \cup T)) = m + n - k
  BY <1>1, <1>6
<1> HIDE DEF m, n, k
<1>9. m + n - k = m + n
  BY <1>7
<1> QED
  BY <1>8, <1>9 DEF m, n

\* A page is at most as heavy as its events and the brackets of an array.
LEMMA PageWeighs ==
  ASSUME NEW page \in Pages
  PROVE  /\ PageBytes(page) \in Nat
         /\ PageBytes(page) <= 2 + Cardinality(BytesOf(page.events))
<1>1. page.events \in SUBSET Events /\ IsFiniteSet(page.events)
  BY DEF Pages
<1>2. Cardinality(BytesOf(page.events)) \in Nat
  BY <1>1, BytesAre
<1> QED
  BY <1>2 DEF PageBytes

LEMMA AdmitOK ==
  ASSUME NEW c \in Captures, ~Conflict(c.events), NEW page \in Pages
  PROVE  Sound(Admit(c, page))
<1> USE JoinAssumption
<1>1. Cardinality(page.events) \in Nat
  BY FS_CardinalityType DEF Pages
<1>2. PageFault(c, page) \in Refusals \cup {"none"}
  BY DEF PageFault, Refusals, BudgetRefusals
<1>3. NextStep(c, page) \in Steps
  BY DEF NextStep, Steps, Refusals, BudgetRefusals
<1>4. CASE PageFault(c, page) # "none"
  <2>1. PageFault(c, page) \in Steps /\ PageFault(c, page) # "continue"
    BY <1>2, <1>4 DEF Steps, Refusals, BudgetRefusals
  <2>2. [c EXCEPT !.pages = c.pages + 1] \in Captures
    BY DEF Captures
  <2>3. Admit(c, page) = [c EXCEPT !.pages = c.pages + 1, !.step = PageFault(c, page)]
    BY <1>4 DEF Admit
  <2>4. [[c EXCEPT !.pages = c.pages + 1] EXCEPT !.step = PageFault(c, page)] \in Captures
    BY <2>1, <2>2 DEF Captures
  <2>5. Admit(c, page).events = c.events /\ Admit(c, page).step # "continue"
    BY <2>1, <2>3 DEF Captures
  <2> QED
    BY <2>3, <2>4, <2>5 DEF Sound
<1>5. CASE PageFault(c, page) = "none"
  <2>1. ~Conflict(c.events \cup page.events)
    BY <1>5 DEF PageFault
  <2>2. c.events \cup page.events \subseteq Events
    BY DEF Captures, Pages
  <2>3. c.cursors \cup {page.cursor} \subseteq 0..MaxSeq
    BY DEF Captures, Pages
  <2>4. /\ c.pages + 1 \in Nat /\ c.count + Cardinality(page.events) \in Nat
        /\ c.bytes + PageBytes(page) \in Nat
    BY <1>1, PageWeighs DEF Captures
  <2>5. page.covered \in 0..MaxSeq
    BY DEF Pages
  <2> DEFINE n == Admit(c, page)
  <2>6. n = [tip     |-> c.tip,
             covered |-> page.covered,
             events  |-> c.events \cup page.events,
             cursors |-> c.cursors \cup {page.cursor},
             pages   |-> c.pages + 1,
             count   |-> c.count + Cardinality(page.events),
             bytes   |-> c.bytes + PageBytes(page),
             step    |-> NextStep(c, page)]
    BY <1>5 DEF Admit
  <2>7. n \in Captures
    BY <1>3, <2>2, <2>3, <2>4, <2>5, <2>6 DEF Captures
  <2>8. n.events = c.events \cup page.events /\ n.covered = page.covered
    BY <2>6
  <2> QED
    BY <2>1, <2>5, <2>7, <2>8 DEF Sound
<1> QED
  BY <1>4, <1>5

LEMMA CapturedOK ==
  ASSUME NEW page \in Pages
  PROVE  Sound(Captured(page))
<1> USE JoinAssumption
<1> DEFINE empty == [tip |-> page.tip, covered |-> -1, events |-> {}, cursors |-> {},
                     pages |-> 0, count |-> 0, bytes |-> 0, step |-> "continue"]
<1>1. empty \in Captures
  BY DEF Captures, Pages, Steps
<1>2. ~Conflict(empty.events)
  BY DEF Conflict
<1> QED
  BY <1>1, <1>2, AdmitOK DEF Captured

LEMMA AcceptOK ==
  ASSUME NEW c, Sound(c), NEW page \in Pages
  PROVE  Sound(Accept(c, page))
<1>1. CASE c.step # "continue"
  BY <1>1 DEF Accept
<1>2. CASE c.step = "continue" /\ page.tip = c.tip
  BY <1>2, AdmitOK DEF Accept, Sound
<1>3. CASE c.step = "continue" /\ page.tip # c.tip
  BY <1>3 DEF Accept, Sound, Captures, Steps, Refusals
<1> QED
  BY <1>1, <1>2, <1>3

LEMMA QueueFields ==
  ASSUME NEW q \in Queues
  PROVE  /\ q.items \in Seq(Items) /\ q.hand \in Seq(Items)
         /\ q.waiting \in BOOLEAN /\ q.repair \in BOOLEAN
BY DEF Queues

LEMMA PushOK ==
  ASSUME NEW q \in Queues, NEW item \in Items
  PROVE  Push(q, item) \in Queues
<1>0. q.repair \in BOOLEAN /\ (q.repair \/ item.kind = "repair") \in BOOLEAN
  BY DEF Queues
<1>1. Append(q.items, item) \in Seq(Items) /\ <<item>> \in Seq(Items) /\ <<>> \in Seq(Items)
  BY DEF Queues
<1> DEFINE r == q.repair \/ item.kind = "repair"
<1>2. CASE q.waiting
  <2>1. [q EXCEPT !.waiting = FALSE] \in Queues
    BY DEF Queues
  <2>2. [[q EXCEPT !.waiting = FALSE] EXCEPT !.hand = <<item>>] \in Queues
    BY <1>1, <2>1 DEF Queues
  <2>3. [[[q EXCEPT !.waiting = FALSE] EXCEPT !.hand = <<item>>] EXCEPT !.repair = r] \in Queues
    BY <1>0, <2>2 DEF Queues
  <2> QED
    BY <1>2, <2>3 DEF Push
<1>3. CASE ~q.waiting /\ Overflows(q, item)
  <2>1. [q EXCEPT !.items = <<>>] \in Queues
    BY <1>1 DEF Queues
  <2>2. [[q EXCEPT !.items = <<>>] EXCEPT !.repair = TRUE] \in Queues
    BY <2>1 DEF Queues
  <2> QED
    BY <1>3, <2>2 DEF Push
<1>4. CASE ~q.waiting /\ ~Overflows(q, item)
  <2>1. [q EXCEPT !.items = Append(q.items, item)] \in Queues
    BY <1>1 DEF Queues
  <2>2. [[q EXCEPT !.items = Append(q.items, item)] EXCEPT !.repair = r] \in Queues
    BY <1>0, <2>1 DEF Queues
  <2> QED
    BY <1>4, <2>2 DEF Push
<1> QED
  BY <1>2, <1>3, <1>4, QueueFields

LEMMA DrainOK ==
  ASSUME NEW q \in Queues
  PROVE  Drained(q) \in Queues /\ DrainedEvents(q) \subseteq Events
<1>1. Drained(q) \in Queues
  <2> DEFINE r == q.repair \/ \E i \in DOMAIN q.items : q.items[i].kind = "repair"
  <2>1. [q EXCEPT !.items = <<>>] \in Queues
    BY EmptySeq DEF Queues
  <2>2. r \in BOOLEAN
    BY DEF Queues
  <2>3. [[q EXCEPT !.items = <<>>] EXCEPT !.repair = r] \in Queues
    BY <2>1, <2>2 DEF Queues
  <2> QED
    BY <2>3 DEF Drained
<1>2. \A i \in DOMAIN q.items : q.items[i] \in Items
  BY QueueFields, ElementOfSeq, LenProperties
<1>3. \A i \in DOMAIN q.items : q.items[i].kind = "enduring" =>
        [seq |-> q.items[i].seq, id |-> q.items[i].id] \in Events
  BY <1>2 DEF Items, Enduring, HintItem, RepairItem, Events
<1> QED
  BY <1>1, <1>3 DEF DrainedEvents

LEMMA PendingOK ==
  ASSUME NEW q \in Queues, Pending(q) # <<>>
  PROVE  Taken(q) \in Queues /\ Head(Pending(q)) \in Items
<1>1. Pending(q) \in Seq(Items)
  BY QueueFields, ConcatProperties DEF Pending
<1>2. Head(Pending(q)) \in Items
  BY <1>1, HeadTailProperties
<1>3. CASE q.hand # <<>>
  BY <1>2, <1>3, EmptySeq DEF Taken, Queues
<1>4. CASE q.hand = <<>>
  <2>1. q.items # <<>>
    BY <1>4, QueueFields, ConcatProperties DEF Pending
  <2>2. Tail(q.items) \in Seq(Items)
    BY <2>1, QueueFields, HeadTailProperties
  <2> QED
    BY <1>2, <1>4, <2>2 DEF Taken, Queues
<1> QED
  BY <1>3, <1>4

LEMMA NewQueueOK == NewQueue \in Queues
BY EmptySeq DEF NewQueue, Queues

LEMMA ItemsOK ==
  /\ HintItem \in Items /\ RepairItem \in Items
  /\ \A e \in Events : Enduring(e) \in Items
  /\ \A item \in Items : item.kind = "enduring" => [seq |-> item.seq, id |-> item.id] \in Events
BY DEF Items, HintItem, RepairItem, Enduring, Events

----
\* Type correctness.  Each lemma is one way a step of the join can end.

LEMMA NothingOK ==
  NoLink \in Links /\ NoCapture \in Captures /\ NoPlan \in Plans /\ NoReset \in Resets
BY JoinAssumption DEF NoLink, Links, NoReset, Resets, NoCapture, Captures, Steps, NoPlan, Plans

LEMMA TeardownOK ==
  ASSUME TypeOK, Teardown
  PROVE  /\ link' \in Links /\ late' \subseteq Resets /\ queue' \in Queues
         /\ prejoin' \in BOOLEAN /\ cap' \in Captures /\ plan' \in Plans
         /\ seen' \subseteq Events
         /\ UNCHANGED log => LinkBehind'
<1>1. Len(log) \in Nat
  BY LenProperties DEF TypeOK
<1>2. UNCHANGED log => LinkBehind'
  BY <1>1 DEF Teardown, LinkBehind, NoLink, NoReset
<1> QED
  BY <1>2, NothingOK, NewQueueOK DEF TypeOK, Teardown, Links

LEMMA RepairOK ==
  ASSUME TypeInv, ~Stopped, Repair, setbacks' \in Nat
  PROVE  TypeInv'
<1> USE JoinAssumption
<1>1. Teardown
  BY DEF Repair
<1>2. /\ link' \in Links /\ late' \subseteq Resets /\ queue' \in Queues
      /\ prejoin' \in BOOLEAN /\ cap' \in Captures /\ plan' \in Plans
      /\ seen' \subseteq Events /\ LinkBehind'
  BY <1>1, TeardownOK DEF TypeInv, Repair
<1>3. /\ repairs' \in 0..(MaxRepairAttempts + 1)
      /\ pc' \in {"returned", "threw", "delay"}
      /\ ~Stopped' => repairs' <= MaxRepairAttempts
  <2>1. repairs \in 0..MaxRepairAttempts
    BY DEF TypeInv, TypeOK
  <2>2. CASE aborted
    BY <2>1, <2>2 DEF Repair, Stopped
  <2>3. CASE ~aborted
    BY <2>1, <2>3 DEF Repair, Stopped
  <2> QED
    BY <2>2, <2>3
<1>4. UNCHANGED <<log, cuts, covered, base, floor, aborted, historyVars>>
  BY DEF Repair
<1> QED
  BY <1>2, <1>3, <1>4 DEF TypeInv, TypeOK, historyVars

LEMMA ReturnOK ==
  ASSUME TypeInv, ~Stopped, Return, setbacks' \in Nat
  PROVE  TypeInv'
<1>1. /\ link' \in Links /\ late' \subseteq Resets /\ queue' \in Queues
      /\ prejoin' \in BOOLEAN /\ cap' \in Captures /\ plan' \in Plans
      /\ seen' \subseteq Events /\ LinkBehind'
  BY TeardownOK DEF TypeInv, Return
<1> QED
  BY <1>1 DEF TypeInv, TypeOK, Return, Stopped, historyVars

LEMMA AdvanceOK ==
  ASSUME TypeInv, ~Stopped, setbacks' \in Nat, NEW c, Sound(c), Advance(c)
  PROVE  TypeInv'
<1> USE JoinAssumption, NothingOK
<1>0. TypeOK
  BY DEF TypeInv
<1>1. CASE c.step = "continue" /\ Continue(c)
  <2>1. CASE aborted
    BY <1>1, <2>1, ReturnOK DEF Continue
  <2>2. CASE ~aborted
    BY <1>0, <1>1, <2>2 DEF Continue, TypeInv, LinkBehind, TypeOK, Sound, Stopped, historyVars
  <2> QED
    BY <2>1, <2>2
<1>2. CASE c.step = "complete" /\ JoinAt(c)
  <2>1. CASE c.covered < covered \/ queue.repair
    BY <1>2, <2>1, RepairOK DEF JoinAt
  <2>2. CASE ~(c.covered < covered \/ queue.repair)
    <3> DEFINE buffered == DrainedEvents(queue)
               overlap  == {e \in buffered : covered < e.seq /\ e.seq <= c.tip}
               merged   == c.events \cup overlap
               joined   == [todo |-> {e \in merged : e.seq > covered},
                            target |-> c.covered,
                            above |-> {e \in buffered : e.seq > c.tip},
                            next |-> "live"]
    <3>1. buffered \subseteq Events /\ Drained(queue) \in Queues
      BY <1>0, DrainOK DEF TypeOK
    <3>2. c.covered \in 0..MaxSeq /\ c.tip \in 0..MaxSeq /\ c.events \subseteq Events
      <4>1. covered \in 0..MaxSeq
        BY <1>0 DEF TypeOK
      <4>2. c.covered \in -1..MaxSeq /\ c.tip \in 0..MaxSeq /\ c.events \subseteq Events
        BY DEF Sound, Captures
      <4>3. c.covered >= covered
        BY <2>2, <4>1, <4>2
      <4> QED
        BY <4>1, <4>2, <4>3
    <3>3. merged \subseteq Events
      BY <3>1, <3>2
    <3>4. joined \in Plans
      BY <3>1, <3>2, <3>3 DEF Plans
    <3>5. Upper(0, c.tip - PageLimit) \in 0..MaxSeq
      BY <3>2, TailBoundsAssumption DEF Upper
    <3>6. /\ plan' \in Plans /\ seen' \subseteq Events /\ queue' \in Queues
          /\ opened' \in 0..MaxSeq /\ cap' \in Captures /\ prejoin' \in BOOLEAN
          /\ pc' = "emit"
      <4> HIDE DEF joined, overlap, buffered
      <4>1. plan' = IF Conflict(merged) THEN NoPlan ELSE joined
        BY <1>2, <2>2 DEF JoinAt, joined, overlap, buffered
      <4>2. /\ seen' = merged /\ queue' = Drained(queue)
            /\ opened' = IF base > 0 THEN opened ELSE Upper(0, c.tip - PageLimit)
            /\ cap' = NoCapture /\ prejoin' = FALSE /\ pc' = "emit"
        BY <1>2, <2>2 DEF JoinAt, overlap, buffered
      <4> QED
        BY <1>0, <3>1, <3>3, <3>4, <3>5, <4>1, <4>2 DEF TypeOK
    <3>7. UNCHANGED <<log, cuts, link, late, covered, base, repairs, floor, aborted,
                      told, yielded>>
      BY <1>2, <2>2 DEF JoinAt
    <3> QED
      BY <1>0, <3>6, <3>7 DEF TypeInv, LinkBehind, TypeOK, Stopped
  <2> QED
    BY <2>1, <2>2
<1>3. CASE c.step \in Refusals /\ Refuse(c)
  <2> DEFINE fits == /\ base > 0 /\ c.step \in BudgetRefusals
                     /\ HasAttested(c) /\ c.covered > covered
  <2>1. CASE ~fits
    BY <1>3, <2>1, RepairOK DEF Refuse
  <2>2. CASE fits
    <3>1. c.covered \in 0..MaxSeq /\ Attested(c) \subseteq Events
      BY <2>2 DEF Sound, Captures, Attested, HasAttested
    <3>2. plan' = [todo |-> {e \in Attested(c) : e.seq > covered},
                   target |-> c.covered, above |-> {}, next |-> "repair"]
      BY <1>3, <2>2 DEF Refuse
    <3>3. plan' \in Plans
      BY <3>1, <3>2 DEF Plans
    <3> QED
      BY <1>0, <1>3, <2>2, <3>3 DEF Refuse, TypeInv, LinkBehind, TypeOK, Stopped, historyVars
  <2> QED
    BY <2>1, <2>2
<1> QED
  BY <1>1, <1>2, <1>3 DEF Advance

LEMMA YieldOK ==
  ASSUME TypeOK, NEW e \in Events, Yield(e)
  PROVE  covered' \in 0..MaxSeq /\ yielded' \in Seq(Events)
BY AppendProperties DEF TypeOK, Yield, Events

LEMMA SignalOK ==
  ASSUME TypeOK, NEW item \in Items, Signal(item)
  PROVE  queue' \in Queues /\ setbacks' \in Nat
BY PushOK DEF TypeOK, Signal

LEMMA FunctionIsSeq ==
  ASSUME NEW S, NEW n \in Nat, NEW f \in [1..n -> S]
  PROVE  f \in Seq(S)
OBVIOUS

LEMMA InitOK == Init => TypeInv
<1> SUFFICES ASSUME Init PROVE TypeInv
  OBVIOUS
<1> USE JoinAssumption
<1>1. PICK n \in InitialLengths : log \in [1..n -> [public : BOOLEAN, id : {0}]]
  BY DEF Init
<1>2. n \in 0..MaxSeq
  OBVIOUS
<1>3. log \in Seq([public : BOOLEAN, id : {0}]) /\ Len(log) = n
  <2>1. n \in Nat
    BY <1>2
  <2>2. log \in Seq([public : BOOLEAN, id : {0}])
    BY <1>1, <2>1, FunctionIsSeq
  <2> QED
    BY <1>1, <2>1, <2>2, LenProperties
<1>4. log \in Seq(Records)
  <2>1. \A r \in [public : BOOLEAN, id : {0}] : r \in Records
    BY DEF Records
  <2> QED
    BY <1>3, <2>1, SeqMonotonic
<1>5. Len(log) \in 0..MaxSeq /\ covered \in 0..MaxSeq
  BY <1>2, <1>3 DEF Init
<1>6. yielded \in Seq(Events)
  BY EmptySeq DEF Init
<1>7. /\ covered \in 0..MaxSeq /\ base = covered /\ opened = covered
      /\ cuts = 0 /\ setbacks = 0 /\ late = {} /\ seen = {} /\ prejoin = TRUE
      /\ link = NoLink /\ queue = NewQueue /\ cap = NoCapture /\ plan = NoPlan
      /\ told = NoReset /\ pc = "delay" /\ repairs = 0 /\ floor = -1 /\ aborted = FALSE
  BY <1>5 DEF Init, NoFloor
<1>8. /\ link \in Links /\ queue \in Queues /\ cap \in Captures /\ plan \in Plans
      /\ told \in Resets /\ late \subseteq Resets /\ seen \subseteq Events
  BY <1>7, NothingOK, NewQueueOK
<1>9. TypeOK
  <2>1. cuts \in 0..MaxTruncations /\ setbacks \in Nat /\ floor \in -1..MaxSeq
    BY <1>7
  <2>2. repairs \in 0..(MaxRepairAttempts + 1)
    BY <1>7
  <2>3. covered \in 0..MaxSeq /\ base \in 0..MaxSeq /\ opened \in 0..MaxSeq
    BY <1>7
  <2>4. pc \in {"delay", "ready", "cold", "walk", "emit", "live", "returned", "threw"}
    BY <1>7
  <2>5. aborted \in BOOLEAN /\ prejoin \in BOOLEAN
    BY <1>7
  <2> QED
    BY <1>4, <1>5, <1>6, <1>8, <2>1, <2>2, <2>3, <2>4, <2>5 DEF TypeOK
<1>10. LinkBehind
  BY <1>5, <1>7 DEF LinkBehind, NoLink, NoReset
<1> QED
  BY <1>7, <1>9, <1>10 DEF TypeInv

LEMMA FactoryOK ==
  ASSUME TypeInv, ~Stopped, Factory
  PROVE  TypeInv'
<1> USE JoinAssumption, NothingOK
<1>0. TypeOK /\ Len(log) \in 0..MaxSeq
  BY LenProperties DEF TypeInv, TypeOK
<1>b. /\ link.sent <= Len(log) /\ link.reset.tip <= Len(log)
      /\ link.attached \/ link = NoLink
  BY DEF TypeInv, LinkBehind
<1>a. /\ link \in Links /\ setbacks \in Nat
      /\ link.sent \in 0..MaxSeq /\ link.run \in 0..MaxSeq /\ link.reset \in Resets
  BY <1>0 DEF TypeOK, Links
<1>1. CASE Commit
  <2>1. PICK public \in BOOLEAN : log' = Append(log, [public |-> public, id |-> cuts])
    BY <1>1 DEF Commit
  <2>2. log' \in Seq(Records) /\ Len(log') = Len(log) + 1
    BY <1>0, <2>1, AppendProperties DEF TypeOK, Records
  <2>3. Len(log') <= MaxSeq
    BY <1>0, <1>1, <2>2 DEF Commit
  <2>4. LinkBehind'
    BY <1>0, <1>a, <1>b, <1>1, <2>2 DEF Commit, LinkBehind, Resets, NoReset
  <2> QED
    BY <1>0, <1>1, <2>2, <2>3, <2>4
       DEF Commit, TypeInv, TypeOK, Stopped, joinVars, genVars, historyVars
<1>2. CASE Attach
  <2>1. [link EXCEPT !.attached = TRUE] \in Links
    BY <1>a DEF Links
  <2>2. [[link EXCEPT !.attached = TRUE] EXCEPT !.sent = Len(log)] \in Links
    BY <1>0, <2>1 DEF Links
  <2>3. link' \in Links
    BY <1>2, <2>2 DEF Attach
  <2>4. LinkBehind'
    BY <1>0, <1>a, <1>b, <1>2, <2>1 DEF Attach, LinkBehind, Links
  <2> QED
    BY <1>0, <1>2, <2>3, <2>4
       DEF Attach, TypeInv, TypeOK, Stopped, joinVars, genVars, historyVars
<1>3. CASE Truncate
  <2>1. PICK tip \in 0..(Len(log) - 1) :
          /\ log' = SubSeq(log, 1, tip)
          /\ link' = IF link.attached
                     THEN [attached |-> TRUE, sent |-> Lower(link.sent, tip),
                           run |-> Lower(link.run, tip), lost |-> TRUE, cut |-> TRUE,
                           reset |-> NoReset]
                     ELSE link
    BY <1>3 DEF Truncate
  <2>2. log' \in Seq(Records) /\ Len(log') <= MaxSeq
    BY <1>0, <2>1, SubSeqProperties DEF TypeOK
  <2>3. Lower(link.sent, tip) \in 0..MaxSeq /\ Lower(link.run, tip) \in 0..MaxSeq
    BY <1>0, <1>a DEF Lower
  <2>4. link' \in Links
    BY <1>a, <2>1, <2>3 DEF Links
  <2>5. cuts' \in 0..MaxTruncations
    BY <1>0, <1>3 DEF Truncate, TypeOK
  <2>6. LinkBehind'
    <3>1. Len(log') = tip
      BY <1>0, <2>1, SubSeqProperties DEF TypeOK
    <3>2. CASE link.attached
      <4>1. /\ link'.attached /\ link'.sent = Lower(link.sent, tip)
            /\ link'.reset = NoReset
        BY <2>1, <3>2
      <4>2. Lower(link.sent, tip) <= tip /\ NoReset.tip <= tip
        BY <1>a DEF Lower, NoReset
      <4> QED
        BY <3>1, <4>1, <4>2 DEF LinkBehind
    <3>3. CASE ~link.attached
      BY <1>0, <1>b, <2>1, <3>1, <3>3 DEF LinkBehind, NoLink, NoReset
    <3> QED
      BY <3>2, <3>3
  <2> QED
    BY <1>0, <1>3, <2>2, <2>4, <2>5, <2>6
       DEF Truncate, TypeInv, TypeOK, Stopped, joinVars, genVars, historyVars
<1>4. CASE LoseRecords
  <2>1. [link EXCEPT !.lost = TRUE] \in Links
    BY <1>a DEF Links
  <2>2. link' \in Links /\ setbacks' \in Nat
    BY <1>a, <1>4, <2>1 DEF LoseRecords
  <2>3. LinkBehind'
    BY <1>a, <1>b, <1>4 DEF LoseRecords, LinkBehind, Links
  <2> QED
    BY <1>0, <1>4, <2>2, <2>3
       DEF LoseRecords, TypeInv, TypeOK, Stopped, joinVars, genVars, historyVars
<1>5. CASE SendReset
  <2>1. PICK last \in {0, link.run} :
          link' = [link EXCEPT !.reset = [tip |-> Len(log), last |-> last, cut |-> link.cut]]
    BY <1>5 DEF SendReset
  <2>2. last \in 0..MaxSeq /\ link.cut \in BOOLEAN
    BY <1>a DEF Links
  <2>3. [tip |-> Len(log), last |-> last, cut |-> link.cut] \in Resets
    BY <1>0, <2>2 DEF Resets
  <2>4. link' \in Links
    BY <1>a, <2>1, <2>3 DEF Links
  <2>5. LinkBehind'
    <3>1. link.attached
      BY <1>b, <1>5 DEF SendReset, NoLink
    <3>2. /\ link'.attached = link.attached /\ link'.sent = link.sent
          /\ link'.reset = [tip |-> Len(log), last |-> last, cut |-> link.cut]
      BY <1>a, <2>1 DEF Links
    <3>3. log' = log
      BY <1>5 DEF SendReset
    <3> QED
      BY <1>0, <1>b, <3>1, <3>2, <3>3 DEF LinkBehind
  <2> QED
    BY <1>0, <1>5, <2>4, <2>5
       DEF SendReset, TypeInv, TypeOK, Stopped, joinVars, genVars, historyVars
<1>6. CASE Publish
  <2>1. PICK e \in PublicBetween(link.sent, Len(log)) :
          AdmitEnduring(e) /\ link' = [link EXCEPT !.sent = e.seq, !.run = e.seq]
    BY <1>6 DEF Publish
  <2>2. e \in Events /\ e.seq \in 0..MaxSeq
    BY <1>0, <1>a, PublicBetweenOK DEF TypeOK, Events
  <2>3. queue' \in Queues /\ setbacks' \in Nat
    BY <1>0, <2>1, <2>2, ItemsOK, SignalOK DEF AdmitEnduring, TypeOK
  <2>4. [link EXCEPT !.sent = e.seq] \in Links
    BY <1>a, <2>2 DEF Links
  <2>5. [[link EXCEPT !.sent = e.seq] EXCEPT !.run = e.seq] \in Links
    BY <2>2, <2>4 DEF Links
  <2>6. LinkBehind'
    <3>1. e.seq <= Len(log)
      BY <1>0, <1>a, PublicBetweenOK DEF TypeOK
    <3> QED
      BY <1>a, <1>b, <1>6, <2>1, <2>5, <3>1 DEF Publish, LinkBehind, Links
  <2> QED
    BY <1>0, <1>6, <2>1, <2>3, <2>5, <2>6
       DEF Publish, TypeInv, TypeOK, Stopped, joinVars, historyVars
<1>7. CASE Republish
  <2>1. PICK e \in PublicBetween(0, link.sent) :
          queue' = IF prejoin /\ e.seq <= base THEN queue ELSE Push(queue, Enduring(e))
    BY <1>7 DEF Republish
  <2>2. Enduring(e) \in Items
    BY <1>0, <1>a, <1>b, PublicBetweenOK, ItemsOK DEF TypeOK
  <2>3. queue' \in Queues /\ setbacks' \in Nat
    BY <1>0, <1>a, <1>7, <2>1, <2>2, PushOK DEF Republish, TypeOK
  <2> QED
    BY <1>0, <1>7, <2>3 DEF Republish, TypeInv, LinkBehind, TypeOK, Stopped, joinVars, historyVars
<1>8. CASE Hint
  <2>1. queue' \in Queues /\ setbacks' \in Nat
    BY <1>0, <1>8, ItemsOK, SignalOK DEF Hint
  <2> QED
    BY <1>0, <1>8, <2>1 DEF Hint, TypeInv, LinkBehind, TypeOK, Stopped, joinVars, historyVars
<1>9. CASE LinkFault
  <2>1. PICK carried \in link.sent..Len(log) :
          link' = [link EXCEPT !.sent = carried, !.run = 0]
    BY <1>9 DEF LinkFault
  <2>2. [link EXCEPT !.sent = carried] \in Links
    BY <1>0, <1>a DEF Links
  <2>3. [[link EXCEPT !.sent = carried] EXCEPT !.run = 0] \in Links
    <3>1. 0 \in 0..MaxSeq
      OBVIOUS
    <3> QED
      BY <2>2, <3>1 DEF Links
  <2>4. queue' \in Queues
    BY <1>0, <1>9, ItemsOK, PushOK DEF LinkFault, TypeOK
  <2>5. setbacks' \in Nat
    BY <1>a, <1>9 DEF LinkFault
  <2>6. LinkBehind'
    BY <1>0, <1>a, <1>b, <1>9, <2>1 DEF LinkFault, LinkBehind, Links
  <2> QED
    BY <1>0, <1>9, <2>1, <2>3, <2>4, <2>5, <2>6
       DEF LinkFault, TypeInv, TypeOK, Stopped, joinVars, historyVars
<1>10. CASE DeliverReset
  <2>1. link.reset.tip \in 0..MaxSeq /\ link.reset.last \in 0..MaxSeq
    BY <1>a, <1>10 DEF DeliverReset, Resets
  <2>2. link' \in Links
    BY <1>a, <1>10, <2>1 DEF DeliverReset, Links
  <2>3. floor' \in -1..MaxSeq
    BY <1>0, <1>10, <2>1 DEF DeliverReset, OnReset, TypeOK, Lower, NoFloor
  <2>4. queue' \in Queues /\ told' \in Resets
    BY <1>0, <1>a, <1>10, ItemsOK, PushOK DEF DeliverReset, OnReset, TypeOK
  <2>5. LinkBehind'
    <3>1. link.attached
      BY <1>b, <1>10 DEF DeliverReset, NoLink
    <3>2. link'.attached /\ link'.sent = link.reset.tip /\ link'.reset = NoReset
      BY <1>10, <3>1 DEF DeliverReset
    <3>3. log' = log
      BY <1>10 DEF DeliverReset
    <3> QED
      BY <1>0, <1>b, <3>2, <3>3 DEF LinkBehind, NoReset
  <2> QED
    BY <1>0, <1>10, <2>2, <2>3, <2>4, <2>5 DEF DeliverReset, TypeInv, TypeOK, Stopped
<1>11. CASE LateReset
  BY <1>0, <1>11 DEF LateReset, OnReset, TypeInv, LinkBehind, TypeOK, Stopped, historyVars
<1> QED
  BY <1>1, <1>2, <1>3, <1>4, <1>5, <1>6, <1>7, <1>8, <1>9, <1>10, <1>11 DEF Factory

\* Whatever page arrives, the capture it leads to is sound.
LEMMA PageOK ==
  ASSUME TypeInv, FirstPage \/ NextPage
  PROVE  setbacks' \in Nat /\ \E c : Sound(c) /\ Advance(c)
<1>0. TypeOK /\ Len(log) \in 0..MaxSeq /\ setbacks \in Nat
  BY LenProperties DEF TypeInv, TypeOK
<1>1. CASE FirstPage
  <2>1. FirstSeq \in Nat \ {0}
    BY <1>0, TailBoundsAssumption, JoinAssumption DEF FirstSeq, Upper, TypeOK
  <2>2. PICK page \in Answers(FirstSeq, Len(log)) :
          Arrives(page, FirstSeq, Len(log)) /\ Advance(Captured(page))
    BY <1>1 DEF FirstPage
  <2>3. Sound(Captured(page))
    BY <1>0, <2>1, <2>2, AnswersOK, CapturedOK DEF TypeOK
  <2>4. setbacks' \in Nat
    BY <1>0, <2>2 DEF Arrives
  <2> QED
    BY <2>2, <2>3, <2>4
<1>2. CASE NextPage
  <2>1. cap.covered + 1 \in Nat \ {0} /\ cap.tip \in 0..Len(log)
    BY <1>0, <1>2, JoinAssumption DEF NextPage, TypeInv, TypeOK, Captures
  <2>2. PICK page \in Answers(cap.covered + 1, cap.tip) :
          Arrives(page, cap.covered + 1, cap.tip) /\ Advance(Accept(cap, page))
    BY <1>2 DEF NextPage
  <2>3. Sound(cap)
    BY <1>0, <1>2 DEF NextPage, TypeInv, TypeOK, Sound
  <2>4. page \in Pages
    BY <1>0, <2>1, <2>2, AnswersOK DEF TypeOK
  <2>5. Sound(Accept(cap, page))
    BY <2>3, <2>4, AcceptOK
  <2>6. setbacks' \in Nat
    BY <1>0, <2>2 DEF Arrives
  <2> QED
    BY <2>2, <2>5, <2>6
<1> QED
  BY <1>1, <1>2

LEMMA JoinOK ==
  ASSUME TypeInv, ~Stopped, Join \/ ReadyFails \/ ReadFails \/ Abort \/ Aborted
  PROVE  TypeInv'
<1> USE JoinAssumption, NothingOK
<1>0. /\ TypeOK /\ Len(log) \in 0..MaxSeq /\ setbacks \in Nat
      /\ LinkBehind /\ repairs <= MaxRepairAttempts
  BY LenProperties DEF TypeInv, TypeOK
<1>1. CASE StartGeneration
  <2>1. covered' \in 0..MaxSeq /\ base' = covered'
    BY <1>0, <1>1 DEF StartGeneration, TypeOK, NoFloor
  <2>2. opened' \in 0..MaxSeq /\ yielded' \in Seq(Events)
    BY <1>0, <1>1, <2>1, EmptySeq DEF StartGeneration, TypeOK
  <2> QED
    BY <1>0, <1>1, <2>1, <2>2
       DEF StartGeneration, TypeInv, LinkBehind, TypeOK, Stopped, NoFloor,
           factoryVars, genVars
<1>2. CASE Ready
  BY <1>0, <1>2 DEF Ready, TypeInv, LinkBehind, TypeOK, Stopped,
                    factoryVars, genVars, historyVars
<1>3. CASE Woken
  BY <1>0, <1>3, RepairOK DEF Woken
<1>4. CASE FirstPage \/ NextPage
  BY <1>4, PageOK, AdvanceOK
<1>6. CASE EmitEvent
  <2>1. PICK e \in plan.todo : Yield(e) /\ plan' = [plan EXCEPT !.todo = plan.todo \ {e}]
    BY <1>6 DEF EmitEvent
  <2>2. e \in Events
    BY <1>0 DEF TypeOK, Plans
  <2>3. covered' \in 0..MaxSeq /\ yielded' \in Seq(Events)
    BY <1>0, <2>1, <2>2, YieldOK
  <2>4. plan' \in Plans
    BY <1>0, <2>1 DEF TypeOK, Plans
  <2> QED
    BY <1>0, <1>6, <2>3, <2>4
       DEF EmitEvent, TypeInv, LinkBehind, TypeOK, Stopped, factoryVars
<1>7. CASE EmitCoverage
  <2>1. covered' \in 0..MaxSeq
    BY <1>0, <1>7 DEF EmitCoverage, TypeOK, Plans
  <2> QED
    BY <1>0, <1>7, <2>1
       DEF EmitCoverage, TypeInv, LinkBehind, TypeOK, Stopped, factoryVars, genVars,
           historyVars
<1>8. CASE EmitAbove
  <2>1. setbacks' \in Nat
    BY <1>0, <1>8 DEF EmitAbove
  <2>2. CASE Repair
    BY <2>1, <2>2, RepairOK
  <2>3. CASE ~Repair
    <3>1. PICK e \in plan.above :
            /\ plan' = [plan EXCEPT !.above = plan.above \ {e}]
            /\ IF Disposition(e) = "apply"
               THEN Yield(e) /\ seen' = seen \cup {e}
               ELSE UNCHANGED <<covered, yielded, seen>>
      BY <1>8, <2>3 DEF EmitAbove
    <3>2. UNCHANGED <<log, cuts, link, late, pc, base, repairs, floor,
                      aborted, queue, prejoin, cap, told, opened>>
      BY <1>8, <2>3 DEF EmitAbove
    <3>3. e \in Events
      BY <1>0 DEF TypeOK, Plans
    <3>4. covered' \in 0..MaxSeq /\ yielded' \in Seq(Events) /\ seen' \subseteq Events
      BY <1>0, <3>1, <3>3, YieldOK DEF TypeOK
    <3>5. plan' \in Plans
      BY <1>0, <3>1 DEF TypeOK, Plans
    <3> QED
      BY <1>0, <2>1, <3>2, <3>4, <3>5 DEF TypeInv, LinkBehind, TypeOK, Stopped
  <2> QED
    BY <2>2, <2>3
<1>9. CASE EmitDone
  <2>1. setbacks' \in Nat
    BY <1>0, <1>9 DEF EmitDone
  <2>2. CASE plan.next = "repair"
    BY <1>9, <2>1, <2>2, RepairOK DEF EmitDone
  <2>3. CASE plan.next # "repair"
    BY <1>0, <1>9, <2>1, <2>3
       DEF EmitDone, TypeInv, LinkBehind, TypeOK, Stopped, genVars, historyVars
  <2> QED
    BY <2>2, <2>3
<1>10. CASE Await
  <2>1. queue' \in Queues
    BY <1>0, <1>10 DEF Await, TypeOK, Queues
  <2> QED
    BY <1>0, <1>10, <2>1
       DEF Await, TypeInv, LinkBehind, TypeOK, Stopped, factoryVars, joinVars, historyVars
<1>11. CASE Follow
  <2>1. setbacks' \in Nat
    BY <1>0, <1>11 DEF Follow
  <2>2. CASE Repair
    BY <2>1, <2>2, RepairOK
  <2>3. CASE ~Repair
    <3> DEFINE item == Head(Pending(queue))
               e    == [seq |-> item.seq, id |-> item.id]
    <3>1. Taken(queue) \in Queues /\ item \in Items
      BY <1>0, <1>11, PendingOK DEF Follow, TypeOK
    <3>2. /\ queue' = Taken(queue)
          /\ IF item.kind = "enduring" /\ Disposition(e) = "apply"
             THEN Yield(e) /\ seen' = seen \cup {e}
             ELSE UNCHANGED <<covered, yielded, seen>>
          /\ UNCHANGED <<log, cuts, link, late, pc, base, repairs, floor, aborted,
                         prejoin, cap, plan, told, opened>>
      BY <1>11, <2>3 DEF Follow
    <3>3. item.kind = "enduring" => e \in Events
      BY <3>1, ItemsOK
    <3>4. covered' \in 0..MaxSeq /\ yielded' \in Seq(Events) /\ seen' \subseteq Events
      <4> HIDE DEF item, e
      <4>1. CASE item.kind = "enduring" /\ Disposition(e) = "apply"
        BY <1>0, <3>2, <3>3, <4>1, YieldOK DEF TypeOK
      <4>2. CASE ~(item.kind = "enduring" /\ Disposition(e) = "apply")
        BY <1>0, <3>2, <4>2 DEF TypeOK
      <4> QED
        BY <4>1, <4>2
    <3> QED
      BY <1>0, <2>1, <3>1, <3>2, <3>4 DEF TypeInv, LinkBehind, TypeOK, Stopped
  <2> QED
    BY <2>2, <2>3
<1>12. CASE ReadyFails
  BY <1>0, <1>12, RepairOK DEF ReadyFails
<1>13. CASE ReadFails
  BY <1>0, <1>13, RepairOK DEF ReadFails
<1>14. CASE Abort
  BY <1>0, <1>14 DEF Abort, TypeInv, LinkBehind, TypeOK, Stopped,
                     factoryVars, genVars, historyVars
<1>15. CASE Aborted
  BY <1>0, <1>15, ReturnOK DEF Aborted
<1> QED
  BY <1>1, <1>2, <1>3, <1>4, <1>6, <1>7, <1>8, <1>9, <1>10, <1>11,
     <1>12, <1>13, <1>14, <1>15 DEF Join

LEMMA TypeStep == TypeInv /\ [Next]_vars => TypeInv'
<1> SUFFICES ASSUME TypeInv, [Next]_vars PROVE TypeInv'
  OBVIOUS
<1>1. CASE UNCHANGED vars
  BY <1>1 DEF vars, factoryVars, joinVars, genVars, historyVars,
              TypeInv, LinkBehind, TypeOK, Stopped
<1>2. CASE Next
  BY <1>1, <1>2, FactoryOK, JoinOK DEF Next, Terminated
<1> QED
  BY <1>1, <1>2

\* Every variable keeps its type, for every journal, bound and number of
\* faults.
THEOREM TypeCorrect == Spec => []TypeOK
<1>1. Spec => []TypeInv
  BY InitOK, TypeStep, PTL DEF Spec
<1>2. TypeInv => TypeOK
  BY DEF TypeInv
<1> QED
  BY <1>1, <1>2, PTL

----
\* The order of what is yielded.

\* What was yielded is in order and at or below the cursor; what the plan still
\* has to yield is above it, one record to a sequence.
Delivered == InOrderOnce /\ \A i \in DOMAIN yielded : yielded[i].seq <= covered

Ahead ==
  /\ \A e \in plan.todo : e.seq > covered
  /\ ~Conflict(plan.todo)
  /\ pc # "emit" => plan.todo = {}

OrderInv == Delivered /\ Ahead

LEMMA YieldInOrder ==
  ASSUME TypeOK, Delivered, NEW e \in Events, e.seq > covered, Yield(e)
  PROVE  Delivered'
<1>1. /\ yielded \in Seq(Events) /\ yielded' = Append(yielded, e)
      /\ covered \in Nat /\ covered' = e.seq /\ e.seq \in Nat
  BY DEF TypeOK, Yield, Events
<1>2. /\ Len(yielded) \in Nat /\ Len(yielded') = Len(yielded) + 1
      /\ DOMAIN yielded = 1..Len(yielded) /\ DOMAIN yielded' = 1..(Len(yielded) + 1)
      /\ \A i \in 1..Len(yielded) : yielded'[i] = yielded[i]
      /\ yielded'[Len(yielded) + 1] = e
  BY <1>1, AppendProperties, LenProperties
<1>3. \A i \in 1..Len(yielded) : yielded[i].seq \in Nat /\ yielded[i].seq <= covered
  <2>1. \A i \in 1..Len(yielded) : yielded[i] \in Events
    BY <1>1, <1>2, ElementOfSeq
  <2>2. \A i \in 1..Len(yielded) : yielded[i].seq \in Nat
    BY <2>1 DEF Events
  <2> QED
    BY <1>2, <2>2 DEF Delivered
<1>4. \A i \in DOMAIN yielded' : yielded'[i].seq <= covered'
  BY <1>1, <1>2, <1>3
<1>5. \A i, j \in DOMAIN yielded' : i < j => yielded'[i].seq < yielded'[j].seq
  BY <1>1, <1>2, <1>3 DEF Delivered, InOrderOnce
<1> QED
  BY <1>4, <1>5 DEF Delivered, InOrderOnce

LEMMA TeardownInOrder ==
  ASSUME OrderInv, Teardown, UNCHANGED <<covered, yielded>>
  PROVE  OrderInv'
BY DEF OrderInv, Delivered, InOrderOnce, Ahead, Teardown, NoPlan, Conflict

LEMMA AdvanceInOrder ==
  ASSUME OrderInv, pc \in {"cold", "walk"}, NEW c, Sound(c), Advance(c)
  PROVE  OrderInv'
<1>1. CASE Repair \/ Return
  BY <1>1, TeardownInOrder DEF Repair, Return, historyVars
<1>2. CASE c.step = "continue" /\ Continue(c) /\ ~Return
  <2>1. UNCHANGED <<covered, yielded, plan>> /\ pc' = "walk" /\ pc # "emit"
    BY <1>2 DEF Continue, historyVars
  <2> QED
    BY <2>1 DEF OrderInv, Delivered, InOrderOnce, Ahead
<1>3. CASE c.step = "complete" /\ JoinAt(c) /\ ~Repair
  <2> DEFINE merged == c.events \cup {e \in DrainedEvents(queue) :
                                         covered < e.seq /\ e.seq <= c.tip}
  <2>1. /\ UNCHANGED <<covered, yielded>> /\ pc' = "emit"
        /\ plan'.todo = IF Conflict(merged) THEN {} ELSE {e \in merged : e.seq > covered}
    <3> DEFINE above == {e \in DrainedEvents(queue) : e.seq > c.tip}
               todo  == {e \in merged : e.seq > covered}
    <3>1. /\ UNCHANGED <<covered, yielded>> /\ pc' = "emit"
          /\ plan' = IF Conflict(merged) THEN NoPlan
                     ELSE [todo |-> todo, target |-> c.covered, above |-> above,
                           next |-> "live"]
      BY <1>3 DEF JoinAt
    <3> HIDE DEF merged, above, todo
    <3>2. plan'.todo = IF Conflict(merged) THEN {} ELSE todo
      BY <3>1 DEF NoPlan
    <3> QED
      BY <3>1, <3>2 DEF todo
  <2>2. (\A e \in plan'.todo : e.seq > covered) /\ ~Conflict(plan'.todo)
    BY <2>1 DEF Conflict
  <2> QED
    BY <2>1, <2>2 DEF OrderInv, Delivered, InOrderOnce, Ahead
<1>4. CASE c.step \in Refusals /\ Refuse(c) /\ ~Repair
  <2>1. /\ UNCHANGED <<covered, yielded>> /\ pc' = "emit"
        /\ plan'.todo = {e \in Attested(c) : e.seq > covered}
    BY <1>4 DEF Refuse, historyVars
  <2>2. ~Conflict(plan'.todo)
    BY <2>1 DEF Conflict, Attested, Sound
  <2> QED
    BY <2>1, <2>2 DEF OrderInv, Delivered, InOrderOnce, Ahead
<1> QED
  BY <1>1, <1>2, <1>3, <1>4 DEF Advance

LEMMA FactoryInOrder ==
  ASSUME OrderInv, Factory
  PROVE  OrderInv'
<1>1. UNCHANGED <<covered, yielded, plan, pc>>
  BY DEF Factory, Commit, Attach, Truncate, LoseRecords, SendReset, Publish, Republish,
         Hint, LinkFault, DeliverReset, LateReset, joinVars, genVars, historyVars
<1> QED
  BY <1>1 DEF OrderInv, Delivered, InOrderOnce, Ahead

\* A live record is applied only above the cursor.
LEMMA ApplyInOrder ==
  ASSUME TypeOK, OrderInv, plan.todo = {}, plan'.todo = {},
         NEW e \in Events, Disposition(e) = "apply", Yield(e)
  PROVE  OrderInv' /\ covered' > covered
<1>1. e.seq > covered /\ covered' = e.seq
  BY DEF Disposition, TypeOK, Events, Yield
<1>2. Delivered'
  BY <1>1, YieldInOrder DEF OrderInv
<1>3. Ahead'
  BY DEF Ahead, Conflict
<1> QED
  BY <1>1, <1>2, <1>3 DEF OrderInv

\* Within a generation the cursor only advances, and what is yielded stays in
\* order.
LEMMA JoinInOrder ==
  ASSUME TypeInv, OrderInv,
         (Join /\ ~StartGeneration) \/ ReadyFails \/ ReadFails \/ Abort \/ Aborted
  PROVE  OrderInv' /\ covered' >= covered
<1>0. TypeOK /\ covered \in Nat
  BY DEF TypeInv, TypeOK
<1>1. CASE Repair \/ Return
  BY <1>0, <1>1, TeardownInOrder DEF Repair, Return, historyVars
<1>2. CASE UNCHANGED <<covered, yielded, plan>> /\ (plan.todo = {} \/ UNCHANGED pc)
  BY <1>0, <1>2 DEF OrderInv, Delivered, InOrderOnce, Ahead, Conflict
<1>3. CASE Ready \/ Woken \/ ReadyFails \/ ReadFails \/ Abort \/ Aborted \/ Await
  <2>1. CASE Woken \/ ReadyFails \/ ReadFails \/ Aborted
    BY <1>1, <2>1 DEF Woken, ReadyFails, ReadFails, Aborted
  <2>2. CASE Ready
    BY <1>2, <2>2 DEF Ready, OrderInv, Ahead, genVars, historyVars
  <2>3. CASE Abort
    BY <1>2, <2>3 DEF Abort, genVars, historyVars
  <2>4. CASE Await
    BY <1>2, <2>4 DEF Await, joinVars, historyVars
  <2> QED
    BY <1>3, <2>1, <2>2, <2>3, <2>4
<1>4. CASE FirstPage \/ NextPage
  <2>1. PICK c : Sound(c) /\ Advance(c)
    BY <1>4, PageOK
  <2>2. pc \in {"cold", "walk"}
    BY <1>4 DEF FirstPage, NextPage
  <2>3. covered' = covered
    BY <2>1 DEF Advance, Continue, JoinAt, Refuse, Repair, Return
  <2> QED
    BY <1>0, <2>1, <2>2, <2>3, AdvanceInOrder
<1>5. CASE EmitEvent
  <2>1. PICK e \in plan.todo :
          /\ IsEarliest(e, plan.todo) /\ Yield(e)
          /\ plan' = [plan EXCEPT !.todo = plan.todo \ {e}]
    BY <1>5 DEF EmitEvent
  <2>2. e \in Events /\ plan.todo \subseteq Events /\ plan'.todo = plan.todo \ {e}
    BY <1>0, <2>1 DEF TypeOK, Plans
  <2>3. covered' = e.seq /\ e.seq > covered
    BY <2>1 DEF OrderInv, Ahead, Yield
  <2>4. \A f \in plan'.todo : f.seq > e.seq
    BY <2>1, <2>2 DEF OrderInv, Ahead, Conflict, IsEarliest, Events
  <2>5. ~Conflict(plan'.todo)
    BY <2>2 DEF OrderInv, Ahead, Conflict
  <2>6. pc' = "emit"
    BY <1>5 DEF EmitEvent
  <2>7. Delivered'
    BY <1>0, <2>1, <2>2, <2>3, YieldInOrder DEF OrderInv
  <2> QED
    BY <1>0, <2>2, <2>3, <2>4, <2>5, <2>6, <2>7 DEF OrderInv, Ahead, Events
<1>6. CASE EmitCoverage
  <2>1. /\ plan.todo = {} /\ plan' = plan /\ pc' = pc /\ yielded' = yielded
        /\ covered' = plan.target /\ plan.target > covered
    BY <1>6 DEF EmitCoverage, genVars, historyVars
  <2>2. \A i \in DOMAIN yielded : yielded[i].seq \in Nat
    <3>1. \A i \in DOMAIN yielded : yielded[i] \in Events
      BY <1>0, ElementOfSeq, LenProperties DEF TypeOK
    <3> QED
      BY <3>1 DEF Events
  <2>3. plan.target \in Nat
    BY <1>0 DEF TypeOK, Plans
  <2> QED
    BY <1>0, <2>1, <2>2, <2>3 DEF OrderInv, Delivered, InOrderOnce, Ahead
<1>7. CASE EmitAbove /\ ~Repair
  <2>1. PICK e \in plan.above :
          /\ plan' = [plan EXCEPT !.above = plan.above \ {e}] /\ UNCHANGED pc
          /\ IF Disposition(e) = "apply" THEN Yield(e) ELSE UNCHANGED <<covered, yielded>>
    BY <1>7 DEF EmitAbove
  <2>2. plan.todo = {} /\ plan'.todo = {} /\ e \in Events
    BY <1>0, <1>7, <2>1 DEF EmitAbove, TypeOK, Plans
  <2>3. CASE Disposition(e) = "apply"
    BY <1>0, <2>1, <2>2, <2>3, ApplyInOrder DEF Yield, Events
  <2>4. CASE Disposition(e) # "apply"
    BY <1>0, <2>1, <2>2, <2>4 DEF OrderInv, Delivered, InOrderOnce, Ahead, Conflict
  <2> QED
    BY <2>3, <2>4
<1>8. CASE EmitDone
  BY <1>1, <1>2, <1>8 DEF EmitDone, genVars, historyVars
<1>9. CASE Follow /\ ~Repair
  <2> DEFINE item == Head(Pending(queue))
             e    == [seq |-> item.seq, id |-> item.id]
  <2>1. /\ plan' = plan /\ UNCHANGED pc /\ pc = "live"
        /\ IF item.kind = "enduring" /\ Disposition(e) = "apply"
           THEN Yield(e) ELSE UNCHANGED <<covered, yielded>>
    BY <1>9 DEF Follow
  <2>2. plan.todo = {} /\ (item.kind = "enduring" => e \in Events)
    BY <1>0, <1>9, <2>1, PendingOK, ItemsOK DEF Follow, TypeOK, OrderInv, Ahead
  <2> HIDE DEF item, e
  <2>3. CASE item.kind = "enduring" /\ Disposition(e) = "apply"
    BY <1>0, <2>1, <2>2, <2>3, ApplyInOrder DEF Yield, Events
  <2>4. CASE ~(item.kind = "enduring" /\ Disposition(e) = "apply")
    BY <1>2, <2>1, <2>4
  <2> QED
    BY <2>3, <2>4
<1> QED
  BY <1>1, <1>3, <1>4, <1>5, <1>6, <1>7, <1>8, <1>9 DEF Join

\* Going back empties what was yielded above the old cursor.
LEMMA StartInOrder ==
  ASSUME TypeInv, OrderInv, StartGeneration
  PROVE  OrderInv'
<1>1. /\ pc = "delay" /\ pc' = "ready" /\ plan' = plan
      /\ \/ covered' = covered /\ yielded' = yielded
         \/ yielded' = <<>>
  BY DEF StartGeneration, genVars, TypeInv, TypeOK
<1> QED
  BY <1>1 DEF OrderInv, Delivered, InOrderOnce, Ahead, Conflict

LEMMA OrderStep == TypeInv /\ OrderInv /\ [Next]_vars => OrderInv'
<1> SUFFICES ASSUME TypeInv, OrderInv, [Next]_vars PROVE OrderInv'
  OBVIOUS
<1>1. CASE UNCHANGED vars
  BY <1>1 DEF vars, joinVars, genVars, historyVars, OrderInv, Delivered, InOrderOnce, Ahead
<1>2. CASE Next
  BY <1>1, <1>2, FactoryInOrder, JoinInOrder, StartInOrder DEF Next, Join, Terminated
<1> QED
  BY <1>1, <1>2

\* For every journal and every interleaving of pages, buffered records, live
\* publications, repairs, resets and truncations: public records are yielded
\* in strictly ascending order, hence none twice.
THEOREM YieldsInOrder == Spec => []InOrderOnce
<1>1. Init => OrderInv
  BY DEF Init, OrderInv, Delivered, InOrderOnce, Ahead, NoPlan, Conflict
<1>2. Spec => [](TypeInv /\ OrderInv)
  BY <1>1, InitOK, TypeStep, OrderStep, PTL DEF Spec
<1>3. OrderInv => InOrderOnce
  BY DEF OrderInv, Delivered
<1> QED
  BY <1>2, <1>3, PTL

----
\* The only way the cursor goes back.

\* A floor that waits to be applied came with a reset this generation's own
\* link delivered, whose tip is still below the cursor.
FloorInv == floor # NoFloor => told # NoReset /\ told.tip < covered

LoweredStep == covered' < covered => told # NoReset /\ told.tip < covered

LEMMA FactoryFloor ==
  ASSUME TypeInv, FloorInv, Factory
  PROVE  FloorInv' /\ covered' = covered
<1>0. /\ covered \in Nat /\ link.reset \in Resets /\ told \in Resets
  BY DEF TypeInv, TypeOK, Links
<1>1. CASE Commit \/ Attach \/ Truncate \/ LoseRecords \/ SendReset \/ Publish
           \/ Republish \/ Hint \/ LinkFault
  <2>1. UNCHANGED <<covered, floor, told>>
    BY <1>1 DEF Commit, Attach, Truncate, LoseRecords, SendReset, Publish, Republish,
                Hint, LinkFault, joinVars, historyVars
  <2> QED
    BY <2>1 DEF FloorInv
<1>2. CASE DeliverReset
  <2>1. /\ covered' = covered /\ link.reset # NoReset
        /\ floor' # NoFloor => floor # NoFloor \/ link.reset.tip < covered
        /\ told' = IF told = NoReset \/ link.reset.tip < told.tip THEN link.reset ELSE told
    BY <1>2 DEF DeliverReset, OnReset
  <2>2. told.tip \in Int /\ link.reset.tip \in Int
    BY <1>0, JoinAssumption DEF Resets, NoReset
  <2> QED
    BY <1>0, <2>1, <2>2 DEF FloorInv
<1>3. CASE LateReset
  <2>1. UNCHANGED <<covered, floor, told>>
    BY <1>3 DEF LateReset, OnReset, historyVars
  <2> QED
    BY <2>1 DEF FloorInv
<1> QED
  BY <1>1, <1>2, <1>3 DEF Factory

LEMMA JoinFloor ==
  ASSUME TypeInv, OrderInv, FloorInv, ~Stopped,
         Join \/ ReadyFails \/ ReadFails \/ Abort \/ Aborted
  PROVE  FloorInv' /\ LoweredStep
<1>0. covered \in Nat /\ covered' \in Nat /\ floor \in Int /\ told.tip \in Int
  <2>1. TypeInv'
    BY JoinOK
  <2>2. told \in Resets /\ covered \in 0..MaxSeq /\ covered' \in 0..MaxSeq
        /\ floor \in -1..MaxSeq
    BY <2>1 DEF TypeInv, TypeOK
  <2> QED
    BY <2>2, JoinAssumption DEF Resets, NoReset
<1>1. CASE StartGeneration
  <2>1. floor' = NoFloor /\ (covered' < covered => floor # NoFloor)
    BY <1>0, <1>1 DEF StartGeneration
  <2> QED
    BY <2>1 DEF FloorInv, LoweredStep
<1>2. CASE ~StartGeneration
  <2>1. covered' >= covered
    BY <1>2, JoinInOrder
  <2>2. UNCHANGED <<floor, told>>
    <3>1. CASE Repair \/ Return
      BY <3>1 DEF Repair, Return, historyVars
    <3>2. CASE FirstPage \/ NextPage
      <4>1. PICK c : Advance(c)
        BY <3>2, PageOK
      <4> QED
        BY <3>1, <4>1 DEF Advance, Continue, JoinAt, Refuse, historyVars
    <3>3. CASE Ready \/ EmitEvent \/ EmitCoverage \/ Await \/ Abort
      BY <3>3 DEF Ready, EmitEvent, EmitCoverage, Await, Abort, joinVars, historyVars
    <3>4. CASE EmitAbove \/ EmitDone \/ Follow
      BY <3>1, <3>4 DEF EmitAbove, EmitDone, Follow, historyVars
    <3>5. CASE Woken \/ ReadyFails \/ ReadFails \/ Aborted
      BY <3>1, <3>5 DEF Woken, ReadyFails, ReadFails, Aborted
    <3> QED
      BY <1>2, <3>2, <3>3, <3>4, <3>5 DEF Join
  <2> QED
    BY <1>0, <2>1, <2>2 DEF FloorInv, LoweredStep
<1> QED
  BY <1>1, <1>2

LEMMA FloorStep ==
  TypeInv /\ OrderInv /\ FloorInv /\ [Next]_vars => FloorInv' /\ [LoweredStep]_vars
<1> SUFFICES ASSUME TypeInv, OrderInv, FloorInv, [Next]_vars
             PROVE  FloorInv' /\ [LoweredStep]_vars
  OBVIOUS
<1>1. CASE UNCHANGED vars
  BY <1>1 DEF vars, joinVars, historyVars, FloorInv
<1>2. CASE Next
  <2>1. covered \in Nat
    BY DEF TypeInv, TypeOK
  <2> QED
    BY <1>1, <1>2, <2>1, FactoryFloor, JoinFloor DEF Next, Terminated, LoweredStep
<1> QED
  BY <1>1, <1>2

\* The cursor goes back only on a reset that the running generation's own link
\* delivered and whose tip was below it: not for a superseded subscription, not
\* twice for one reset, and for nothing else.
THEOREM LoweredOnlyByOwnReset == Spec => LoweredOnlyWhenTold
<1>1. Init => FloorInv /\ OrderInv
  BY DEF Init, FloorInv, OrderInv, Delivered, InOrderOnce, Ahead, NoPlan, Conflict
<1>2. Spec => [](TypeInv /\ OrderInv /\ FloorInv) /\ [][LoweredStep]_vars
  BY <1>1, InitOK, TypeStep, OrderStep, FloorStep, PTL DEF Spec
<1> QED
  BY <1>2, PTL DEF LoweredStep, LoweredOnlyWhenTold

-----------------------------------------------------------------------------
(***************************************************************************)
(* A joined session is a feed without holes: FactoryJoin implements        *)
(* ContiguousFeed, and its cursor never passes a public record that was    *)
(* not yielded.                                                            *)
(*                                                                         *)
(* The argument follows a record through the generation.  What a capture   *)
(* covers is in the capture, and then in the plan; what the link carries   *)
(* above the capture's tip is in the buffer, and then in the plan or still *)
(* pending.  FeedInv states this accounting, for a journal that was not    *)
(* cut, and a record is met only after those below it.                     *)
(*                                                                         *)
(* The last part accounts for repairs: GiveInv counts the repairs made     *)
(* without progress against the faults met, and says of a generation that  *)
(* is bound to be repaired that a fault is still owed for it.              *)
(***************************************************************************)

\* What the types of the join's variables say, component by component.
LEMMA JoinTypes ==
  ASSUME TypeInv
  PROVE  /\ TypeOK /\ log \in Seq(Records) /\ Len(log) \in Nat /\ Len(log) <= MaxSeq
         /\ DOMAIN log = 1..Len(log)
         /\ covered \in Nat /\ base \in Nat /\ opened \in Nat /\ cuts \in Nat
         /\ floor \in -1..MaxSeq
         /\ queue \in Queues /\ link \in Links /\ link.sent \in Nat /\ link.sent <= Len(log)
         /\ cap \in Captures /\ cap.tip \in Nat /\ cap.covered \in Int
         /\ plan \in Plans /\ plan.target \in Nat
         /\ plan.todo \subseteq Events /\ plan.above \subseteq Events /\ seen \subseteq Events
         /\ yielded \in Seq(Events) /\ Len(yielded) \in Nat /\ DOMAIN yielded = 1..Len(yielded)
<1> USE JoinAssumption
<1>1. TypeOK /\ link.sent <= Len(log)
  BY DEF TypeInv, LinkBehind
<1>2. /\ log \in Seq(Records) /\ Len(log) <= MaxSeq /\ queue \in Queues /\ link \in Links
      /\ cap \in Captures /\ plan \in Plans /\ seen \subseteq Events /\ yielded \in Seq(Events)
  BY <1>1 DEF TypeOK
<1>3. /\ covered \in Nat /\ base \in Nat /\ opened \in Nat /\ cuts \in Nat
      /\ floor \in -1..MaxSeq
  BY <1>1 DEF TypeOK
<1>4. link.sent \in Nat
  BY <1>2 DEF Links
<1>5. cap.tip \in Nat /\ cap.covered \in Int
  BY <1>2 DEF Captures
<1>6. plan.target \in Nat /\ plan.todo \subseteq Events /\ plan.above \subseteq Events
  BY <1>2 DEF Plans
<1>7. /\ Len(log) \in Nat /\ DOMAIN log = 1..Len(log)
      /\ Len(yielded) \in Nat /\ DOMAIN yielded = 1..Len(yielded)
  BY <1>2, LenProperties
<1> QED
  BY <1>1, <1>2, <1>3, <1>4, <1>5, <1>6, <1>7

----
\* What is buffered, as one sequence.

\* A queue between two callbacks: at most one item is in the waiting hand,
\* next() waits only on an empty buffer, and the buffer is within its bound.
QueueShape(q) ==
  /\ Len(q.hand) <= 1
  /\ q.waiting => Pending(q) = <<>>
  /\ Cardinality(Publications(q.items)) <= MaxBuffered

LEMMA AppendAfter ==
  ASSUME NEW S, NEW s \in Seq(S), NEW t \in Seq(S), NEW e \in S
  PROVE  s \o Append(t, e) = Append(s \o t, e)
OBVIOUS

LEMMA PendingSeq ==
  ASSUME NEW q \in Queues
  PROVE  /\ Pending(q) \in Seq(Items)
         /\ Len(Pending(q)) \in Nat /\ DOMAIN Pending(q) = 1..Len(Pending(q))
         /\ \A i \in DOMAIN Pending(q) : Pending(q)[i] \in Items
         /\ q.hand = <<>> => Pending(q) = q.items
         /\ Pending(q) = <<>> <=> q.hand = <<>> /\ q.items = <<>>
<1>1. q.items \in Seq(Items) /\ q.hand \in Seq(Items)
  BY QueueFields
<1>2. Pending(q) \in Seq(Items)
  BY <1>1, ConcatProperties DEF Pending
<1>3. Len(Pending(q)) \in Nat /\ DOMAIN Pending(q) = 1..Len(Pending(q))
  BY <1>2, LenProperties
<1>4. \A i \in DOMAIN Pending(q) : Pending(q)[i] \in Items
  BY <1>2, <1>3, ElementOfSeq
<1>5. q.hand = <<>> => Pending(q) = q.items
  BY <1>1, ConcatEmptySeq DEF Pending
<1>6. Pending(q) = <<>> <=> q.hand = <<>> /\ q.items = <<>>
  BY <1>1, ConcatEqualIffEmpty DEF Pending
<1> QED
  BY <1>2, <1>3, <1>4, <1>5, <1>6

LEMMA PublicationsFinite ==
  ASSUME NEW items \in Seq(Items)
  PROVE  /\ IsFiniteSet(Publications(items))
         /\ Cardinality(Publications(items)) \in Nat
         /\ Publications(items) = {i \in 1..Len(items) : items[i].kind # "repair"}
<1>1. Len(items) \in Nat /\ DOMAIN items = 1..Len(items)
  BY LenProperties
<1>2. IsFiniteSet(1..Len(items))
  BY <1>1, FS_Interval
<1>3. Publications(items) = {i \in 1..Len(items) : items[i].kind # "repair"}
  BY <1>1 DEF Publications
<1>4. IsFiniteSet(Publications(items))
  BY <1>2, <1>3, FS_Subset
<1> QED
  BY <1>3, <1>4, FS_CardinalityType

\* What counts against the bound depends only on whether the new item is a
\* request to repair: such a request never overflows a buffer in shape, and
\* two publications overflow it alike.
LEMMA OverflowAlike ==
  ASSUME NEW q \in Queues, NEW item \in Items, NEW other \in Items
  PROVE  /\ QueueShape(q) /\ item.kind = "repair" => ~Overflows(q, item)
         /\ item.kind # "repair" /\ other.kind # "repair" =>
              (Overflows(q, item) <=> Overflows(q, other))
<1>1. q.items \in Seq(Items) /\ Len(q.items) \in Nat
  BY QueueFields, LenProperties
<1>2. \A x \in Items : 
        Publications(Append(q.items, x)) =
          Publications(q.items) \cup (IF x.kind = "repair" THEN {} ELSE {Len(q.items) + 1})
  <2> SUFFICES ASSUME NEW x \in Items
               PROVE  Publications(Append(q.items, x)) =
                        Publications(q.items) \cup (IF x.kind = "repair" THEN {} ELSE {Len(q.items) + 1})
    OBVIOUS
  <2> DEFINE a == Append(q.items, x)
  <2>1. /\ a \in Seq(Items) /\ Len(a) = Len(q.items) + 1
        /\ \A i \in 1..Len(q.items) : a[i] = q.items[i]
        /\ a[Len(q.items) + 1] = x
    BY <1>1, AppendProperties
  <2>2. Publications(a) = {i \in 1..Len(a) : a[i].kind # "repair"}
    BY <2>1, PublicationsFinite
  <2>3. Publications(q.items) = {i \in 1..Len(q.items) : q.items[i].kind # "repair"}
    BY <1>1, PublicationsFinite
  <2> HIDE DEF a
  <2> QED
    BY <1>1, <2>1, <2>2, <2>3 DEF a
<1>3. item.kind = "repair" =>
        Publications(Append(q.items, item)) = Publications(q.items)
  BY <1>2
<1>4. item.kind # "repair" /\ other.kind # "repair" =>
        Publications(Append(q.items, item)) = Publications(Append(q.items, other))
  BY <1>2
<1>5. Cardinality(Publications(q.items)) \in Nat
  BY <1>1, PublicationsFinite
<1> QED
  BY <1>3, <1>4, <1>5, BufferAssumption DEF Overflows, QueueShape

\* Short of an overflow, what is pushed comes after what is pending.
LEMMA PushPending ==
  ASSUME NEW q \in Queues, QueueShape(q), NEW item \in Items
  PROVE  /\ QueueShape(Push(q, item))
         /\ ~q.waiting => ~Push(q, item).waiting /\ Push(q, item).hand = q.hand
         /\ ~Overflows(q, item) =>
              /\ Pending(Push(q, item)) = Append(Pending(q), item)
              /\ Push(q, item).repair = (q.repair \/ item.kind = "repair")
         /\ Overflows(q, item) => Push(q, item).repair /\ Push(q, item).items = <<>>
<1>0. /\ q.items \in Seq(Items) /\ q.hand \in Seq(Items)
      /\ q.waiting \in BOOLEAN /\ q.repair \in BOOLEAN
      /\ Len(q.hand) \in Nat
  BY QueueFields, LenProperties
<1>1. q = [items |-> q.items, hand |-> q.hand, waiting |-> q.waiting, repair |-> q.repair]
  BY DEF Queues
<1>2. <<item>> \in Seq(Items) /\ Len(<<item>>) = 1 /\ <<>> \in Seq(Items)
  OBVIOUS
<1> DEFINE r == q.repair \/ item.kind = "repair"
<1>3. CASE q.waiting
  <2>1. q.hand = <<>> /\ q.items = <<>> /\ Pending(q) = <<>>
    BY <1>3, PendingSeq DEF QueueShape
  <2>2. /\ Push(q, item).items = <<>> /\ Push(q, item).hand = <<item>>
        /\ Push(q, item).waiting = FALSE /\ Push(q, item).repair = r
    BY <1>1, <1>3, <2>1 DEF Push
  <2>3. Pending(Push(q, item)) = <<item>>
    BY <1>2, <2>2, ConcatEmptySeq DEF Pending
  <2>4. Append(Pending(q), item) = <<item>>
    BY <2>1
  <2>5. QueueShape(Push(q, item))
    BY <1>2, <2>1, <2>2 DEF QueueShape
  <2>6. ~Overflows(q, item)
    BY <1>3 DEF Overflows
  <2> QED
    BY <1>3, <2>2, <2>3, <2>4, <2>5, <2>6
<1>4. CASE ~q.waiting /\ Overflows(q, item)
  <2>1. /\ Push(q, item).items = <<>> /\ Push(q, item).hand = q.hand
        /\ Push(q, item).waiting = q.waiting /\ Push(q, item).repair = TRUE
    BY <1>1, <1>4 DEF Push
  <2>2. Publications(<<>>) = {} /\ Cardinality({}) = 0
    BY FS_EmptySet DEF Publications
  <2>3. QueueShape(Push(q, item))
    <3>1. Cardinality(Publications(Push(q, item).items)) = 0
      BY <2>1, <2>2
    <3>2. 0 <= MaxBuffered
      BY BufferAssumption
    <3> QED
      BY <1>4, <2>1, <3>1, <3>2 DEF QueueShape
  <2> QED
    BY <1>4, <2>1, <2>3
<1>5. CASE ~q.waiting /\ ~Overflows(q, item)
  <2>1. /\ Push(q, item).items = Append(q.items, item) /\ Push(q, item).hand = q.hand
        /\ Push(q, item).waiting = q.waiting /\ Push(q, item).repair = r
    BY <1>1, <1>5 DEF Push
  <2>2. Append(q.items, item) \in Seq(Items)
    BY <1>0, AppendProperties
  <2>3. Cardinality(Publications(Append(q.items, item))) <= MaxBuffered
    <3>1. Cardinality(Publications(Append(q.items, item))) \in Nat
      BY <2>2, PublicationsFinite
    <3> QED
      BY <1>5, <3>1, BufferAssumption DEF Overflows
  <2>4. QueueShape(Push(q, item))
    BY <1>5, <2>1, <2>3 DEF QueueShape
  <2>5. q.hand \o Append(q.items, item) = Append(q.hand \o q.items, item)
    <3>1. \A s, t \in Seq(Items) : \A e \in Items : s \o Append(t, e) = Append(s \o t, e)
      BY AppendAfter
    <3> QED
      BY <1>0, <3>1
  <2> QED
    BY <1>5, <2>1, <2>4, <2>5 DEF Pending
<1> QED
  BY <1>0, <1>3, <1>4, <1>5

\* Taking the oldest item leaves the rest.
LEMMA TakenPending ==
  ASSUME NEW q \in Queues, QueueShape(q), Pending(q) # <<>>
  PROVE  /\ QueueShape(Taken(q)) /\ Pending(Taken(q)) = Tail(Pending(q))
         /\ Taken(q).repair = q.repair
<1>0. /\ q.items \in Seq(Items) /\ q.hand \in Seq(Items)
      /\ q.waiting \in BOOLEAN /\ q.repair \in BOOLEAN
      /\ Len(q.hand) \in Nat /\ Len(q.items) \in Nat
  BY QueueFields, LenProperties
<1>1. q = [items |-> q.items, hand |-> q.hand, waiting |-> q.waiting, repair |-> q.repair]
  BY DEF Queues
<1>2. ~q.waiting
  BY DEF QueueShape
<1>3. CASE q.hand # <<>>
  <2>1. Taken(q) = [items |-> q.items, hand |-> <<>>, waiting |-> q.waiting, repair |-> q.repair]
    BY <1>1, <1>3 DEF Taken
  <2>2. Len(q.hand) = 1
    <3>1. Len(q.hand) \in Nat \ {0}
      BY <1>0, <1>3, EmptySeq
    <3>2. Len(q.hand) <= 1
      BY DEF QueueShape
    <3>3. \A n \in Nat \ {0} : n <= 1 => n = 1
      OBVIOUS
    <3> QED
      BY <3>1, <3>2, <3>3, Zenon
  <2>3. Tail(Pending(q)) = q.items
    <3>1. /\ Pending(q) \in Seq(Items) /\ Len(Pending(q)) = 1 + Len(q.items)
          /\ \A i \in 1..(1 + Len(q.items)) :
               Pending(q)[i] = IF i <= 1 THEN q.hand[i] ELSE q.items[i - 1]
      <4>1. /\ Pending(q) \in Seq(Items)
            /\ Len(Pending(q)) = Len(q.hand) + Len(q.items)
            /\ \A i \in 1..(Len(q.hand) + Len(q.items)) :
                 Pending(q)[i] = IF i <= Len(q.hand) THEN q.hand[i]
                                 ELSE q.items[i - Len(q.hand)]
        BY <1>0, ConcatProperties, Zenon DEF Pending
      <4> QED
        BY <2>2, <4>1
    <3>2. /\ Tail(Pending(q)) \in Seq(Items)
          /\ Len(Tail(Pending(q))) = Len(q.items)
          /\ \A i \in 1..Len(q.items) : Tail(Pending(q))[i] = Pending(q)[i + 1]
      BY <1>0, <3>1, HeadTailProperties
    <3>3. \A i \in 1..Len(q.items) : Tail(Pending(q))[i] = q.items[i]
      BY <1>0, <3>1, <3>2
    <3> QED
      BY <1>0, <3>2, <3>3, SeqEqual
  <2>4. Pending(Taken(q)) = q.items
    BY <1>0, <2>1, ConcatEmptySeq DEF Pending
  <2>5. QueueShape(Taken(q))
    BY <1>2, <2>1 DEF QueueShape
  <2> QED
    BY <2>1, <2>3, <2>4, <2>5
<1>4. CASE q.hand = <<>>
  <2> DEFINE t == Tail(q.items)
  <2>1. q.items # <<>> /\ Pending(q) = q.items
    BY <1>4, PendingSeq
  <2>2. /\ t \in Seq(Items) /\ Len(t) = Len(q.items) - 1
        /\ \A i \in 1..Len(t) : t[i] = q.items[i + 1]
    BY <1>0, <2>1, HeadTailProperties
  <2>3. Taken(q) = [items |-> t, hand |-> <<>>, waiting |-> q.waiting, repair |-> q.repair]
    BY <1>1, <1>4 DEF Taken
  <2>4. Pending(Taken(q)) = t
    BY <2>2, <2>3, ConcatEmptySeq DEF Pending
  <2>5. Cardinality(Publications(t)) <= Cardinality(Publications(q.items))
    <3> DEFINE f == [i \in Publications(t) |-> i + 1]
    <3>1. Publications(t) = {i \in 1..Len(t) : t[i].kind # "repair"}
      BY <2>2, PublicationsFinite
    <3>2. /\ Publications(q.items) = {i \in 1..Len(q.items) : q.items[i].kind # "repair"}
          /\ IsFiniteSet(Publications(q.items))
      BY <1>0, PublicationsFinite
    <3>3. \A i \in Publications(t) : i \in Nat /\ i + 1 \in Publications(q.items)
      BY <1>0, <2>2, <3>1, <3>2
    <3> HIDE DEF t
    <3>4. \A i, j \in Publications(t) : i + 1 = j + 1 => i = j
      BY <3>3
    <3>5. f \in Injection(Publications(t), Publications(q.items))
      BY <3>3, <3>4 DEF Injection, IsInjective
    <3> QED
      BY <3>2, <3>5, FS_Injection
  <2>6. /\ Cardinality(Publications(t)) \in Nat /\ Cardinality(Publications(q.items)) \in Nat
        /\ MaxBuffered \in Nat
    BY <1>0, <2>2, PublicationsFinite, BufferAssumption
  <2>7. QueueShape(Taken(q))
    <3>1. Len(<<>>) = 0
      OBVIOUS
    <3> HIDE DEF t
    <3> QED
      BY <1>2, <2>3, <2>5, <2>6, <3>1 DEF QueueShape
  <2> QED
    BY <2>1, <2>3, <2>4, <2>7
<1> QED
  BY <1>3, <1>4

----
\* What a capture and a buffer account for.

\* The sequences of the journal's public records, and a record, or a buffered
\* item, that says what the journal says.
Published == {s \in DOMAIN log : log[s].public}
Genuine(e) == e.seq \in Published /\ e.id = log[e.seq].id

\* The sequence a capture that runs to tip starts above.
WindowEdge(tip) == IF base > 0 THEN base ELSE Upper(0, tip - PageLimit)

\* A capture holds the public records above its start that it covers, and
\* nothing else.
Covers(c) ==
  /\ base <= c.tip /\ c.tip <= Len(log) /\ c.covered <= c.tip
  /\ \A e \in c.events : Genuine(e) /\ e.seq <= c.covered
  /\ \A s \in Published : WindowEdge(c.tip) < s /\ s <= c.covered => Event(s) \in c.events

LEMMA PublishedOK ==
  ASSUME log \in Seq(Records), Len(log) <= MaxSeq
  PROVE  /\ Len(log) \in 0..MaxSeq
         /\ \A s \in Published :
              /\ s \in 1..Len(log) /\ s \in 1..MaxSeq /\ log[s] \in Records
              /\ log[s].public
              /\ Event(s) \in Events /\ Event(s).seq = s /\ Genuine(Event(s))
         /\ \A e \in Events : Genuine(e) => e = Event(e.seq)
         /\ \A low, high \in Int : \A e : 0 <= low /\ high <= Len(log) =>
              (e \in PublicBetween(low, high) <=>
                 \E s \in Published : e = Event(s) /\ low < s /\ s <= high)
<1> USE JoinAssumption
<1>1. Len(log) \in 0..MaxSeq /\ DOMAIN log = 1..Len(log)
  BY LenProperties
<1>2. \A s \in 1..Len(log) : log[s] \in Records /\ s \in 1..MaxSeq
  BY <1>1, ElementOfSeq
<1>3. \A s \in Published : s \in 1..Len(log) /\ log[s].public /\ log[s] \in Records /\ s \in 1..MaxSeq
  BY <1>1, <1>2 DEF Published
<1>4. \A s \in Published : Event(s) \in Events /\ Event(s).seq = s /\ Genuine(Event(s))
  BY <1>3 DEF Event, Events, Records, Genuine
<1>5. \A e \in Events : Genuine(e) => e = Event(e.seq)
  BY DEF Genuine, Event, Events
<1>6. ASSUME NEW low \in Int, NEW high \in Int, NEW e, 0 <= low, high <= Len(log)
      PROVE  e \in PublicBetween(low, high) <=>
               \E s \in Published : e = Event(s) /\ low < s /\ s <= high
  <2>1. \A s : s \in (low + 1)..high /\ log[s].public <=> s \in Published /\ low < s /\ s <= high
    BY <1>1, <1>6 DEF Published
  <2> QED
    BY <2>1 DEF PublicBetween
<1> QED
  BY <1>1, <1>3, <1>4, <1>5, <1>6

\* Whatever a Factory answers, the page's events are the public records from
\* where it was asked to start up to where it says it covers.
LEMMA PageHolds ==
  ASSUME log \in Seq(Records), Len(log) <= MaxSeq,
         NEW from \in Nat \ {0}, NEW tip \in 0..Len(log), from <= tip + 1,
         NEW page \in Answers(from, tip)
  PROVE  /\ page.events = PublicBetween(from - 1, page.covered)
         /\ page.covered \in (from - 1)..tip /\ page.tip = tip
<1>0. Len(log) \in Nat
  BY LenProperties
<1>1. CASE page \in HonestPages(from, tip)
  <2>1. PICK c \in IF from > tip THEN {tip} ELSE from..tip : page = Page(from, tip, c)
    BY <1>1 DEF HonestPages
  <2>2. c \in (from - 1)..tip
    BY <1>0, <2>1
  <2> QED
    BY <2>1, <2>2 DEF Page
<1>2. CASE page \in InconsistentPages(from, tip)
  <2>1. PICK c \in {NoCursor, from} :
          from <= tip /\ page = [tip |-> tip, covered |-> from - 1, events |-> {}, cursor |-> c]
    BY <1>2 DEF InconsistentPages
  <2>2. PublicBetween(from - 1, from - 1) = {}
    BY <1>0 DEF PublicBetween
  <2> QED
    BY <1>0, <2>1, <2>2
<1> QED
  BY <1>1, <1>2 DEF Answers

LEMMA AdmitCovers ==
  ASSUME TypeOK, NEW c \in Captures, Covers(c),
         NEW page \in Pages, page.tip = c.tip,
         NEW from \in Nat \ {0}, from <= c.covered + 1 \/ from <= WindowEdge(c.tip) + 1,
         page.events = PublicBetween(from - 1, page.covered), page.covered <= c.tip
  PROVE  Covers(Admit(c, page)) /\ Admit(c, page).tip = c.tip
<1> USE JoinAssumption, TailBoundsAssumption
<1>0. /\ log \in Seq(Records) /\ Len(log) <= MaxSeq /\ Len(log) \in Nat
      /\ base \in Nat /\ c.covered \in Int /\ c.tip \in Nat /\ page.covered \in Nat
      /\ WindowEdge(c.tip) \in Nat
  <2>1. log \in Seq(Records) /\ Len(log) <= MaxSeq /\ base \in Nat
    BY DEF TypeOK
  <2>2. c.covered \in Int /\ c.tip \in Nat /\ page.covered \in Nat
    BY DEF Captures, Pages
  <2>3. WindowEdge(c.tip) \in Nat
    BY <2>1, <2>2 DEF WindowEdge, Upper
  <2> QED
    BY <2>1, <2>2, <2>3, LenProperties
<1>1. /\ base <= c.tip /\ c.tip <= Len(log) /\ c.covered <= c.tip
      /\ \A e \in c.events : Genuine(e) /\ e.seq <= c.covered
      /\ \A s \in Published : WindowEdge(c.tip) < s /\ s <= c.covered => Event(s) \in c.events
  BY DEF Covers
<1>5. \A e \in c.events : e.seq \in Int
  BY DEF Captures, Events
<1>2. CASE PageFault(c, page) # "none"
  <2>1. Admit(c, page) = [c EXCEPT !.pages = c.pages + 1, !.step = PageFault(c, page)]
    BY <1>2 DEF Admit
  <2>2. /\ Admit(c, page).tip = c.tip /\ Admit(c, page).covered = c.covered
        /\ Admit(c, page).events = c.events
    BY <2>1 DEF Captures
  <2> QED
    BY <2>2 DEF Covers
<1>3. CASE PageFault(c, page) = "none"
  <2>1. /\ Admit(c, page).tip = c.tip /\ Admit(c, page).covered = page.covered
        /\ Admit(c, page).events = c.events \cup page.events
    BY <1>3 DEF Admit
  <2>2. page.covered > c.covered
    BY <1>0, <1>3 DEF PageFault
  <2>3. from - 1 \in Int /\ 0 <= from - 1 /\ page.covered <= Len(log)
    BY <1>0, <1>1
  <2>4. \A e \in page.events : Genuine(e) /\ e.seq <= page.covered
    BY <1>0, <2>3, PublishedOK
  <2>5. \A e \in c.events : Genuine(e) /\ e.seq <= page.covered
    BY <1>0, <1>1, <1>5, <2>2
  <2>6. ASSUME NEW s \in Published, WindowEdge(c.tip) < s, s <= page.covered
        PROVE  Event(s) \in c.events \cup page.events
    <3>1. s \in Nat
      BY <1>0, PublishedOK
    <3>2. CASE s <= c.covered
      BY <1>1, <2>6, <3>2
    <3>3. CASE from - 1 < s
      BY <1>0, <2>3, <2>6, <3>3, PublishedOK
    <3>4. s <= c.covered \/ from - 1 < s
      BY <1>0, <2>6, <3>1
    <3> QED
      BY <3>2, <3>3, <3>4
  <2> HIDE DEF Covers
  <2>7. Covers(Admit(c, page)) <=>
          /\ base <= c.tip /\ c.tip <= Len(log) /\ page.covered <= c.tip
          /\ \A e \in c.events \cup page.events : Genuine(e) /\ e.seq <= page.covered
          /\ \A s \in Published : WindowEdge(c.tip) < s /\ s <= page.covered =>
               Event(s) \in c.events \cup page.events
    BY <2>1 DEF Covers
  <2> QED
    BY <1>1, <2>1, <2>4, <2>5, <2>6, <2>7
<1> QED
  BY <1>2, <1>3

\* A capture that waits for its next page covers what it says.
WalkInv == pc = "walk" => Covers(cap) /\ cap.step = "continue"

\* A capture before its first page.
Unread(tip) ==
  [tip |-> tip, covered |-> -1, events |-> {}, cursors |-> {},
   pages |-> 0, count |-> 0, bytes |-> 0, step |-> "continue"]

\* A page that was asked for above start is admitted to the capture read, which
\* covers what it says before and after.
Reads(read, start, page) ==
  /\ read \in Captures /\ Covers(read) /\ read.step = "continue"
  /\ IF pc = "walk" THEN read = cap /\ start = cap.covered
     ELSE read = Unread(Len(log)) /\ start = WindowEdge(Len(log))
  /\ start \in Nat /\ start <= read.tip
  /\ page \in Pages /\ Arrives(page, start + 1, read.tip)
  /\ LET c == Admit(read, page)
     IN  /\ Sound(c) /\ Covers(c) /\ Advance(c) /\ c.tip = read.tip
         /\ c.step = "complete" => c.covered = c.tip

LEMMA PageReads ==
  ASSUME TypeInv, covered = base, base <= Len(log), WalkInv,
         FirstPage \/ NextPage
  PROVE  \E read, start, page : Reads(read, start, page)
<1> USE JoinAssumption, TailBoundsAssumption
<1>0. TypeOK /\ log \in Seq(Records) /\ Len(log) \in 0..MaxSeq /\ base \in Nat
  BY JoinTypes
<1>d. ASSUME NEW c \in Captures, NEW page \in Pages, c.step # "complete"
      PROVE  Admit(c, page).step = "complete" => Admit(c, page).covered = Admit(c, page).tip
  <2>1. CASE PageFault(c, page) # "none"
    <3>1. Admit(c, page).step = PageFault(c, page)
      BY <2>1 DEF Admit, Captures
    <3>2. PageFault(c, page) # "complete"
      BY DEF PageFault
    <3> QED
      BY <3>1, <3>2
  <2>2. CASE PageFault(c, page) = "none"
    <3>1. /\ Admit(c, page).step = NextStep(c, page)
          /\ Admit(c, page).covered = page.covered /\ Admit(c, page).tip = c.tip
      BY <2>2 DEF Admit
    <3>2. NextStep(c, page) = "complete" => page.covered = c.tip
      BY DEF NextStep
    <3> QED
      BY <3>1, <3>2
  <2> QED
    BY <2>1, <2>2
<1>1. CASE FirstPage
  <2>1. FirstSeq \in Nat \ {0} /\ FirstSeq <= Len(log) + 1 /\ FirstSeq = WindowEdge(Len(log)) + 1
    BY <1>0 DEF FirstSeq, Upper, WindowEdge
  <2>2. PICK page \in Answers(FirstSeq, Len(log)) :
          Arrives(page, FirstSeq, Len(log)) /\ Advance(Captured(page))
    BY <1>1 DEF FirstPage
  <2>3. page \in Pages /\ page.tip = Len(log)
    BY <1>0, <2>1, AnswersOK
  <2>4. /\ page.events = PublicBetween(FirstSeq - 1, page.covered)
        /\ page.covered <= Len(log)
    <3>1. Len(log) \in 0..Len(log)
      BY <1>0
    <3>2. /\ page.events = PublicBetween(FirstSeq - 1, page.covered)
          /\ page.covered \in (FirstSeq - 1)..Len(log)
      BY <1>0, <2>1, <3>1, PageHolds
    <3> QED
      BY <1>0, <2>1, <3>2
  <2> DEFINE empty == Unread(page.tip)
  <2>5. empty \in Captures
    BY <2>3 DEF Unread, Captures, Pages, Steps
  <2>6. Covers(empty)
    <3>1. \A s \in Published : s \in Nat
      BY <1>0, PublishedOK
    <3>2. /\ empty.tip = Len(log) /\ empty.covered = -1 /\ empty.events = {}
      BY <2>3 DEF Unread
    <3> HIDE DEF empty
    <3>3. Len(log) <= Len(log) /\ -1 <= Len(log)
      BY <1>0
    <3>4. \A s \in Published : ~(s <= -1)
      BY <3>1
    <3> QED
      BY <3>2, <3>3, <3>4 DEF Covers
  <2>7. empty.tip = Len(log) /\ empty.step = "continue" /\ empty = Unread(Len(log))
    BY <2>3 DEF Unread
  <2>8. Captured(page) = Admit(empty, page)
    BY DEF Captured, Unread
  <2>9. Sound(Captured(page))
    BY <2>3, CapturedOK
  <2> HIDE DEF empty
  <2>10. Covers(Admit(empty, page)) /\ Admit(empty, page).tip = Len(log)
    BY <1>0, <2>1, <2>3, <2>4, <2>5, <2>6, <2>7, AdmitCovers
  <2>11. Admit(empty, page).step = "complete" => Admit(empty, page).covered = Admit(empty, page).tip
    BY <1>d, <2>3, <2>5, <2>7
  <2>12. pc # "walk"
    BY <1>1 DEF FirstPage
  <2>13. WindowEdge(Len(log)) \in Nat /\ WindowEdge(Len(log)) <= Len(log)
    BY <1>0 DEF WindowEdge, Upper
  <2>14. Reads(empty, WindowEdge(Len(log)), page)
    BY <2>1, <2>2, <2>3, <2>5, <2>6, <2>7, <2>8, <2>9, <2>10, <2>11, <2>12, <2>13 DEF Reads
  <2> QED
    BY <2>14
<1>2. CASE NextPage
  <2>1. /\ pc = "walk" /\ cap \in Captures /\ Covers(cap) /\ Sound(cap)
        /\ cap.covered + 1 \in Nat \ {0} /\ cap.tip \in 0..Len(log)
        /\ cap.covered + 1 <= cap.tip + 1 /\ cap.covered \in Nat
    <3>1. /\ pc = "walk" /\ cap \in Captures /\ cap.tip \in Nat /\ cap.covered \in Int
          /\ cap.covered >= 0 /\ ~Conflict(cap.events)
      BY <1>2, JoinTypes DEF NextPage, TypeInv
    <3>2. Covers(cap) /\ cap.covered <= cap.tip /\ cap.tip <= Len(log)
      BY <3>1 DEF WalkInv, Covers
    <3>3. Sound(cap)
      BY <3>1 DEF Sound
    <3> QED
      BY <1>0, <3>1, <3>2, <3>3
  <2>2. PICK page \in Answers(cap.covered + 1, cap.tip) :
          Arrives(page, cap.covered + 1, cap.tip) /\ Advance(Accept(cap, page))
    BY <1>2 DEF NextPage
  <2>3. page \in Pages /\ page.tip = cap.tip
    BY <1>0, <2>1, AnswersOK
  <2>4. /\ page.events = PublicBetween(cap.covered + 1 - 1, page.covered)
        /\ page.covered <= cap.tip
    <3>1. /\ page.events = PublicBetween(cap.covered + 1 - 1, page.covered)
          /\ page.covered \in (cap.covered + 1 - 1)..cap.tip
      BY <1>0, <2>1, PageHolds
    <3> QED
      BY <2>1, <3>1
  <2>5. Sound(Accept(cap, page))
    BY <2>1, <2>3, AcceptOK
  <2>6. Covers(Admit(cap, page)) /\ Admit(cap, page).tip = cap.tip
    BY <1>0, <2>1, <2>3, <2>4, AdmitCovers
  <2>7. Accept(cap, page) = Admit(cap, page)
    BY <2>1, <2>3 DEF Accept, WalkInv
  <2>8. Admit(cap, page).step = "complete" => Admit(cap, page).covered = Admit(cap, page).tip
    BY <1>d, <2>1, <2>3 DEF WalkInv
  <2>9. cap.covered <= cap.tip /\ cap.step = "continue"
    BY <2>1 DEF Covers, WalkInv
  <2>10. Reads(cap, cap.covered, page)
    BY <2>1, <2>2, <2>3, <2>5, <2>6, <2>7, <2>8, <2>9 DEF Reads
  <2> QED
    BY <2>10
<1> QED
  BY <1>1, <1>2

\* The page in hand leads to a capture that covers what it says, pinned to the
\* journal's end when it was opened.
LEMMA PageCovers ==
  ASSUME TypeInv, covered = base, base <= Len(log), WalkInv,
         FirstPage \/ NextPage
  PROVE  \E c : /\ Sound(c) /\ Covers(c) /\ Advance(c)
                /\ c.tip = IF pc = "walk" THEN cap.tip ELSE Len(log)
                /\ c.step = "complete" => c.covered = c.tip
<1>1. PICK read, start, page : Reads(read, start, page)
  BY PageReads
<1>2. read.tip = IF pc = "walk" THEN cap.tip ELSE Len(log)
  BY <1>1 DEF Reads, Unread
<1> QED
  BY <1>1, <1>2 DEF Reads

----
\* The invariant behind a feed without holes.

CursorInJournal ==
  /\ covered <= Len(log) /\ base <= covered
  /\ pc \in {"ready", "cold", "walk"} => covered = base

QueueInv ==
  /\ QueueShape(queue)
  /\ prejoin => ~queue.waiting /\ queue.hand = <<>>
  /\ \A i \in DOMAIN Pending(queue) :
       Pending(queue)[i].kind = "enduring" => Genuine(Pending(queue)[i])

\* While a capture is read, the buffer holds what the link carried of the
\* public records above the capture's tip, unless it asks for a repair.
BufferInv ==
  prejoin /\ ~queue.repair =>
    /\ \A i \in DOMAIN Pending(queue) :
         Pending(queue)[i].kind = "enduring" => Pending(queue)[i].seq <= link.sent
    /\ pc = "walk" =>
         \A s \in Published : cap.tip < s /\ s <= link.sent =>
           \E i \in DOMAIN Pending(queue) : Pending(queue)[i] = Enduring(Event(s))

\* What is still to be yielded is all that is public up to the plan's target.
PlanInv ==
  /\ pc = "emit" =>
       /\ plan.target <= Len(log)
       /\ \A e \in plan.todo : Genuine(e) /\ e.seq <= plan.target
       /\ \A e \in plan.above : Genuine(e)
       /\ \A s \in Published : opened < s /\ covered < s /\ s <= plan.target =>
            Event(s) \in plan.todo
       /\ prejoin => plan.above = {} /\ plan.next = "repair"
  /\ pc # "emit" => plan.todo = {} /\ plan.above = {}
  /\ pc = "live" => ~prejoin /\ plan.target <= covered

\* Where the joined generation stands once its projection is yielded, and the
\* records it meets from there on: first the plan's, then the first n pending.
Reach == Upper(covered, plan.target)
Meets(s, n) ==
  \/ Event(s) \in plan.above
  \/ \E j \in 1..n : Pending(queue)[j] = Enduring(Event(s))
NoRepairBy(n) == \A j \in 1..n : Pending(queue)[j].kind # "repair"

\* Once joined, no public record the link carried is missing from what the
\* generation is going to meet, up to the first request to repair; and a record
\* is met only after those below it.
FlowInv ==
  ~prejoin =>
    /\ pc \in {"emit", "live"}
    /\ \A e \in seen : e.seq <= Reach
    /\ \A e \in plan.above, s \in Published :
         Reach < s /\ s < e.seq => Event(s) \in plan.above
    /\ \A i \in DOMAIN Pending(queue), s \in Published :
         /\ Pending(queue)[i].kind = "enduring" /\ NoRepairBy(i - 1)
         /\ Reach < s /\ s < Pending(queue)[i].seq
         => Meets(s, i - 1)
    /\ NoRepairBy(Len(Pending(queue))) =>
         \A s \in Published : Reach < s /\ s <= link.sent => Meets(s, Len(Pending(queue)))

FeedInv == CursorInJournal /\ QueueInv /\ WalkInv /\ BufferInv /\ PlanInv /\ FlowInv

LEMMA SameJournal ==
  ASSUME log' = log
  PROVE  /\ Published' = Published
         /\ \A s : Event(s)' = Event(s)
         /\ \A e : Genuine(e)' <=> Genuine(e)
BY DEF Published, Event, Genuine

LEMMA NewQueueShape == QueueShape(NewQueue)
<1>1. Publications(<<>>) = {} /\ Cardinality({}) = 0
  BY FS_EmptySet DEF Publications
<1>2. Len(<<>>) = 0 /\ 0 <= MaxBuffered
  BY BufferAssumption
<1>3. /\ Len(NewQueue.hand) = 0 /\ NewQueue.waiting = FALSE
      /\ Cardinality(Publications(NewQueue.items)) = 0
  BY <1>1 DEF NewQueue
<1> QED
  BY <1>1, <1>2, <1>3 DEF QueueShape

\* A generation that ended leaves nothing to account for.
LEMMA TeardownKeeps ==
  ASSUME TypeInv, FeedInv, Teardown, UNCHANGED <<log, covered, base>>,
         pc' \in {"returned", "threw", "delay"}
  PROVE  FeedInv'
<1>1. /\ queue' = NewQueue /\ prejoin' = TRUE /\ plan' = NoPlan
  BY DEF Teardown
<1>2. Pending(NewQueue) = <<>> /\ DOMAIN Pending(NewQueue) = {}
  BY DEF Pending, NewQueue
<1>3. QueueShape(NewQueue)
  BY NewQueueShape
<1>4. CursorInJournal'
  BY DEF CursorInJournal, FeedInv
<1>5. QueueInv'
  BY <1>1, <1>2, <1>3 DEF QueueInv, NewQueue
<1>6. WalkInv' /\ BufferInv'
  BY <1>1, <1>2 DEF WalkInv, BufferInv
<1>7. PlanInv' /\ FlowInv'
  BY <1>1 DEF PlanInv, FlowInv, NoPlan
<1> QED
  BY <1>4, <1>5, <1>6, <1>7 DEF FeedInv

\* The journal grows above everything the generation holds.
LEMMA CommitKeeps ==
  ASSUME TypeInv, FeedInv, Commit
  PROVE  FeedInv'
<1> USE JoinAssumption
<1>0. /\ TypeOK /\ log \in Seq(Records) /\ Len(log) \in Nat /\ Len(log) <= MaxSeq
      /\ link.sent <= Len(log) /\ link.sent \in Nat /\ cap.tip \in Nat
      /\ queue \in Queues /\ plan \in Plans /\ cap \in Captures
      /\ covered \in Nat /\ cap.covered \in Int
  BY JoinTypes
<1>1. PICK r \in Records : log' = Append(log, r)
  BY <1>0 DEF Commit, Records, TypeOK
<1>2. UNCHANGED <<link, pc, covered, base, queue, prejoin, cap, plan, seen, opened>>
  BY DEF Commit, joinVars, genVars, historyVars
<1>3. /\ Len(log') = Len(log) + 1 /\ DOMAIN log' = 1..(Len(log) + 1)
      /\ DOMAIN log = 1..Len(log)
      /\ \A s \in 1..Len(log) : log'[s] = log[s]
  BY <1>0, <1>1, AppendProperties, LenProperties
<1>4. /\ \A s \in Published : s \in 1..Len(log)
      /\ \A s \in Published' : s \in Nat /\ (s <= Len(log) => s \in Published)
      /\ Published \subseteq Published'
      /\ \A s \in Published : Event(s)' = Event(s)
      /\ \A e : Genuine(e) => Genuine(e)' /\ e.seq <= Len(log)
  BY <1>0, <1>3 DEF Published, Event, Genuine
<1>5. CursorInJournal'
  BY <1>0, <1>2, <1>3 DEF CursorInJournal, FeedInv
<1>6. QueueInv'
  BY <1>2, <1>4 DEF QueueInv, FeedInv
<1>7. WalkInv'
  <2>1. WindowEdge(cap.tip)' = WindowEdge(cap.tip)
    BY <1>2 DEF WindowEdge
  <2> SUFFICES ASSUME pc = "walk" PROVE (Covers(cap) /\ cap.step = "continue")'
    BY <1>2 DEF WalkInv
  <2>2. /\ cap.tip <= Len(log) /\ cap.covered <= cap.tip /\ base <= cap.tip
        /\ cap.step = "continue" /\ Covers(cap)
    BY DEF FeedInv, WalkInv, Covers
  <2>3. cap.tip <= Len(log')
    BY <1>0, <1>3, <2>2
  <2>4. \A e \in cap.events : Genuine(e)' /\ e.seq <= cap.covered
    BY <1>4, <2>2 DEF Covers
  <2>5. \A s \in Published' : WindowEdge(cap.tip) < s /\ s <= cap.covered => Event(s)' \in cap.events
    <3>1. \A s \in Published' : s <= cap.covered => s \in Published
      BY <1>0, <1>4, <2>2
    <3> QED
      BY <1>4, <2>2, <3>1 DEF Covers
  <2> QED
    BY <1>2, <2>1, <2>2, <2>3, <2>4, <2>5 DEF Covers
<1>8. BufferInv'
  <2>1. \A s \in Published' : s <= link.sent => s \in Published
    BY <1>0, <1>4
  <2> QED
    BY <1>2, <1>4, <2>1 DEF BufferInv, FeedInv, Enduring
<1>9. PlanInv'
  <2>1. plan.target \in Nat
    BY <1>0 DEF Plans
  <2>2. pc = "emit" => plan.target <= Len(log) /\ plan.target <= Len(log')
    BY <1>0, <1>3, <2>1 DEF PlanInv, FeedInv
  <2>3. pc = "emit" => \A s \in Published' : s <= plan.target => s \in Published
    BY <1>0, <1>4, <2>1, <2>2
  <2> QED
    BY <1>2, <1>4, <2>2, <2>3 DEF PlanInv, FeedInv
<1>10. FlowInv'
  <2> SUFFICES ASSUME ~prejoin PROVE FlowInv'
    BY <1>2 DEF FlowInv
  <2>1. Reach' = Reach
    BY <1>2 DEF Reach
  <2>2. \A n : NoRepairBy(n)' <=> NoRepairBy(n)
    BY <1>2 DEF NoRepairBy
  <2>3. \A s \in Published : \A n : Meets(s, n)' <=> Meets(s, n)
    BY <1>2, <1>4 DEF Meets, Enduring
  <2>4. \A e \in plan.above : e.seq \in Nat /\ e.seq <= Len(log)
    <3>1. \A e \in plan.above : Genuine(e)
      BY DEF FeedInv, PlanInv
    <3>2. \A e \in plan.above : e \in Events
      BY <1>0 DEF Plans
    <3> QED
      BY <1>4, <3>1, <3>2 DEF Events
  <2>5. \A i \in DOMAIN Pending(queue) : Pending(queue)[i].kind = "enduring" =>
          Pending(queue)[i].seq \in Nat /\ Pending(queue)[i].seq <= Len(log)
    BY <1>4 DEF FeedInv, QueueInv, Genuine
  <2>6. /\ \A e \in plan.above, s \in Published' : s < e.seq => s \in Published
        /\ \A i \in DOMAIN Pending(queue), s \in Published' :
             Pending(queue)[i].kind = "enduring" /\ s < Pending(queue)[i].seq => s \in Published
        /\ \A s \in Published' : s <= link.sent => s \in Published
    BY <1>0, <1>4, <2>4, <2>5
  <2>7. FlowInv
    BY DEF FeedInv
  <2>8. pc' \in {"emit", "live"} /\ \A e \in seen' : e.seq <= Reach'
    BY <1>2, <2>1, <2>7 DEF FlowInv
  <2>9. \A e \in plan.above, s \in Published' : Reach < s /\ s < e.seq => Event(s)' \in plan.above
    BY <1>4, <2>6, <2>7 DEF FlowInv
  <2>10. \A i \in DOMAIN Pending(queue), s \in Published' :
           /\ Pending(queue)[i].kind = "enduring" /\ NoRepairBy(i - 1)
           /\ Reach < s /\ s < Pending(queue)[i].seq
           => Meets(s, i - 1)'
    BY <2>3, <2>6, <2>7 DEF FlowInv
  <2>11. NoRepairBy(Len(Pending(queue))) =>
           \A s \in Published' : Reach < s /\ s <= link.sent => Meets(s, Len(Pending(queue)))
    BY <2>6, <2>7 DEF FlowInv
  <2>12. /\ NoRepairBy(Len(Pending(queue)))' <=> NoRepairBy(Len(Pending(queue)))
         /\ \A s \in Published : Meets(s, Len(Pending(queue)))' <=> Meets(s, Len(Pending(queue)))
    BY <1>2, <1>4 DEF NoRepairBy, Meets, Enduring
  <2>13. NoRepairBy(Len(Pending(queue)))' =>
           \A s \in Published' : Reach < s /\ s <= link.sent => Meets(s, Len(Pending(queue)))'
    BY <2>6, <2>11, <2>12
  <2> QED
    BY <1>2, <2>1, <2>2, <2>8, <2>9, <2>10, <2>13 DEF FlowInv
<1> QED
  BY <1>5, <1>6, <1>7, <1>8, <1>9, <1>10 DEF FeedInv

\* A callback leaves an item, and the link goes on from there: over nothing but
\* the record it left, unless it asked for a repair.
LEMMA SignalKeeps ==
  ASSUME TypeInv, FeedInv, NEW item \in Items, queue' = Push(queue, item),
         UNCHANGED <<log, pc, covered, base, prejoin, cap, plan, seen, opened>>,
         link'.sent \in Nat,
         item.kind = "enduring" => Genuine(item) /\ item.seq <= link'.sent,
         item.kind # "repair" =>
           /\ link.sent <= link'.sent
           /\ \A s \in Published : link.sent < s /\ s <= link'.sent => item = Enduring(Event(s)),
         prejoin \/ ~Overflows(queue, item)
  PROVE  FeedInv'
<1> USE JoinAssumption
<1>0. /\ TypeOK /\ queue \in Queues /\ link.sent \in Nat /\ QueueShape(queue)
      /\ log \in Seq(Records) /\ Len(log) <= MaxSeq
      /\ covered \in Nat /\ plan \in Plans /\ cap \in Captures
  BY JoinTypes DEF FeedInv, QueueInv
<1>1. /\ Published' = Published
      /\ \A s : Event(s)' = Event(s)
      /\ \A e : Genuine(e)' <=> Genuine(e)
  BY SameJournal
<1>2. CursorInJournal' /\ WalkInv' /\ PlanInv'
  <2>1. CursorInJournal'
    BY DEF CursorInJournal, FeedInv
  <2>2. WalkInv'
    <3>1. \A c : Covers(c)' <=> Covers(c)
      BY <1>1 DEF Covers, WindowEdge
    <3> QED
      BY <3>1 DEF WalkInv, FeedInv
  <2>3. PlanInv'
    BY <1>1 DEF PlanInv, FeedInv
  <2> QED
    BY <2>1, <2>2, <2>3
<1>3. QueueShape(queue') /\ (prejoin => ~queue'.waiting /\ queue'.hand = <<>>)
  BY <1>0, PushPending DEF FeedInv, QueueInv
<1>p. PICK P \in Seq(Items), n \in Nat :
        /\ P = Pending(queue) /\ n = Len(Pending(queue)) /\ DOMAIN P = 1..n
        /\ \A i \in 1..n : P[i] \in Items
  <2>1. /\ Pending(queue) \in Seq(Items) /\ Len(Pending(queue)) \in Nat
        /\ DOMAIN Pending(queue) = 1..Len(Pending(queue))
        /\ \A i \in 1..Len(Pending(queue)) : Pending(queue)[i] \in Items
    BY <1>0, PendingSeq
  <2> QED
    BY <2>1
<1>4. CASE Overflows(queue, item)
  <2>1. queue'.repair /\ queue'.items = <<>> /\ prejoin /\ queue'.hand = <<>>
    BY <1>0, <1>3, <1>4, PushPending
  <2>2. Pending(queue') = <<>> /\ DOMAIN <<>> = {}
    BY <2>1 DEF Pending
  <2>3. QueueInv'
    BY <1>3, <2>2 DEF QueueInv
  <2>4. BufferInv' /\ FlowInv'
    BY <2>1 DEF BufferInv, FlowInv
  <2> QED
    BY <1>2, <2>3, <2>4 DEF FeedInv
<1>5. CASE ~Overflows(queue, item)
  <2>0. /\ Pending(queue') = Append(P, item)
        /\ queue'.repair = (queue.repair \/ item.kind = "repair")
    BY <1>0, <1>p, <1>5, PushPending
  <2>1. PICK Q : Q = Pending(queue') /\ Q = Append(P, item)
    BY <2>0
  <2>2. /\ Q \in Seq(Items) /\ Len(Q) = n + 1 /\ DOMAIN Q = 1..(n + 1)
        /\ \A i \in 1..n : Q[i] = P[i]
        /\ Q[n + 1] = item
    BY <1>p, <2>1, AppendProperties, LenProperties
  <2>3. QueueInv'
    <3>1. \A i \in 1..(n + 1) : Q[i].kind = "enduring" => Genuine(Q[i])
      BY <1>p, <2>2 DEF FeedInv, QueueInv
    <3> QED
      BY <1>1, <1>3, <2>1, <2>2, <3>1 DEF QueueInv
  <2>4. BufferInv'
    <3> SUFFICES ASSUME prejoin, ~queue'.repair
                 PROVE  /\ \A i \in DOMAIN Q : Q[i].kind = "enduring" => Q[i].seq <= link'.sent
                        /\ pc = "walk" =>
                             \A s \in Published : cap.tip < s /\ s <= link'.sent =>
                               \E i \in DOMAIN Q : Q[i] = Enduring(Event(s))
      BY <1>1, <2>1 DEF BufferInv, Enduring
    <3>1. /\ item.kind # "repair" /\ link.sent <= link'.sent
          /\ \A s \in Published : link.sent < s /\ s <= link'.sent => item = Enduring(Event(s))
          /\ \A i \in 1..n : P[i].kind = "enduring" => P[i].seq <= link.sent
          /\ pc = "walk" =>
               \A s \in Published : cap.tip < s /\ s <= link.sent =>
                 \E i \in 1..n : P[i] = Enduring(Event(s))
      BY <1>p, <2>0 DEF FeedInv, BufferInv
    <3>2. \A i \in 1..(n + 1) : Q[i].kind = "enduring" => Q[i].seq <= link'.sent
      <4>1. \A i \in 1..n : P[i].kind = "enduring" => P[i].seq \in Nat
        BY <1>0, <1>p, PublishedOK DEF FeedInv, QueueInv, Genuine
      <4> QED
        BY <1>0, <1>p, <2>2, <3>1, <4>1
    <3>3. ASSUME pc = "walk", NEW s \in Published, cap.tip < s, s <= link'.sent
          PROVE  \E i \in 1..(n + 1) : Q[i] = Enduring(Event(s))
      <4>1. s \in Nat
        BY <1>0, PublishedOK
      <4>2. CASE s <= link.sent
        BY <1>p, <2>2, <3>1, <3>3, <4>2
      <4>3. CASE link.sent < s
        BY <1>p, <2>2, <3>1, <3>3, <4>3
      <4> QED
        BY <1>0, <4>1, <4>2, <4>3
    <3> QED
      BY <2>2, <3>2, <3>3
  <2>5. FlowInv'
    <3> SUFFICES ASSUME ~prejoin PROVE FlowInv'
      BY DEF FlowInv
    <3>1. Reach' = Reach /\ Reach \in Nat
      BY <1>0 DEF Reach, Upper, Plans
    <3>2. /\ \A k \in 0..n : NoRepairBy(k)' <=> NoRepairBy(k)
          /\ NoRepairBy(n + 1)' => NoRepairBy(n) /\ item.kind # "repair"
      <4>1. \A k : NoRepairBy(k)' <=> \A j \in 1..k : Q[j].kind # "repair"
        BY <2>1 DEF NoRepairBy
      <4>2. \A k : NoRepairBy(k) <=> \A j \in 1..k : P[j].kind # "repair"
        BY <1>p DEF NoRepairBy
      <4>3. ASSUME NEW k \in 0..n
            PROVE  \A j \in 1..k : Q[j] = P[j]
        BY <1>p, <2>2
      <4>4. ASSUME NEW k \in 0..n
            PROVE  NoRepairBy(k)' <=> NoRepairBy(k)
        BY <4>1, <4>2, <4>3
      <4>5. NoRepairBy(n + 1)' => NoRepairBy(n) /\ item.kind # "repair"
        <5>1. n + 1 \in 1..(n + 1) /\ \A j \in 1..n : j \in 1..(n + 1)
          BY <1>p
        <5> QED
          BY <2>2, <4>1, <4>2, <5>1
      <4> QED
        BY <4>4, <4>5
    <3>3. /\ \A s \in Published, k \in 0..(n + 1) : k <= n /\ Meets(s, k) => Meets(s, k)'
          /\ \A s \in Published : item = Enduring(Event(s)) => Meets(s, n + 1)'
          /\ \A s \in Published : Meets(s, n) => Meets(s, n + 1)'
      <4>1. \A s, k : Meets(s, k)' <=>
              Event(s) \in plan.above \/ \E j \in 1..k : Q[j] = Enduring(Event(s))
        BY <1>1, <2>1 DEF Meets, Enduring
      <4>2. \A s, k : Meets(s, k) <=>
              Event(s) \in plan.above \/ \E j \in 1..k : P[j] = Enduring(Event(s))
        BY <1>p DEF Meets
      <4>3. /\ \A k \in 0..(n + 1) : \A j \in 1..k : k <= n => j \in 1..n
            /\ \A j \in 1..n : j \in 1..(n + 1)
            /\ n + 1 \in 1..(n + 1)
        BY <1>p
      <4>4. ASSUME NEW s \in Published, NEW k \in 0..(n + 1), k <= n, Meets(s, k)
            PROVE  Meets(s, k)'
        BY <2>2, <4>1, <4>2, <4>3, <4>4
      <4>5. ASSUME NEW s \in Published, item = Enduring(Event(s)) PROVE Meets(s, n + 1)'
        BY <2>2, <4>1, <4>3, <4>5
      <4>6. ASSUME NEW s \in Published, Meets(s, n) PROVE Meets(s, n + 1)'
        BY <2>2, <4>1, <4>2, <4>3, <4>6
      <4> QED
        BY <4>4, <4>5, <4>6
    <3>4. FlowInv /\ QueueInv
      BY DEF FeedInv
    <3>5. /\ pc \in {"emit", "live"}
          /\ \A e \in seen : e.seq <= Reach
          /\ \A e \in plan.above, s \in Published : Reach < s /\ s < e.seq => Event(s) \in plan.above
          /\ \A i \in 1..n, s \in Published :
               P[i].kind = "enduring" /\ NoRepairBy(i - 1) /\ Reach < s /\ s < P[i].seq
               => Meets(s, i - 1)
          /\ NoRepairBy(n) =>
               \A s \in Published : Reach < s /\ s <= link.sent => Meets(s, n)
      BY <1>p, <3>4 DEF FlowInv
    <3>6. ASSUME NEW i \in 1..(n + 1), NEW s \in Published, Q[i].kind = "enduring",
                 NoRepairBy(i - 1)', Reach < s, s < Q[i].seq
          PROVE  Meets(s, i - 1)'
      <4>1. CASE i \in 1..n
        <5>1. i - 1 \in 0..n /\ i - 1 \in 0..(n + 1) /\ i - 1 <= n
          BY <1>p, <4>1
        <5>2. NoRepairBy(i - 1) /\ Q[i] = P[i]
          BY <2>2, <3>2, <3>6, <4>1, <5>1
        <5> QED
          BY <3>3, <3>5, <3>6, <4>1, <5>1, <5>2
      <4>2. CASE i = n + 1
        <5>1. n \in 0..n /\ n \in 0..(n + 1) /\ i - 1 = n
          BY <1>p, <4>2
        <5>2. NoRepairBy(n) /\ item.kind = "enduring" /\ s < item.seq
          BY <2>2, <3>2, <3>6, <4>2, <5>1
        <5>3. s \in Nat /\ item.seq \in Nat /\ item.seq <= link'.sent /\ item.kind # "repair"
          <6>1. item.seq \in Published
            BY <5>2 DEF Genuine
          <6> QED
            BY <1>0, <5>2, <6>1, PublishedOK
        <5>4. s <= link.sent
          <6>1. SUFFICES ASSUME link.sent < s PROVE FALSE
            BY <1>0, <5>3
          <6>2. item = Enduring(Event(s))
            BY <5>2, <5>3, <6>1
          <6>3. item.seq = s
            BY <6>2 DEF Enduring, Event
          <6> QED
            BY <5>2, <5>3, <6>3
        <5>5. Meets(s, n)
          BY <3>5, <3>6, <5>2, <5>4
        <5> QED
          BY <3>3, <5>1, <5>5
      <4> QED
        BY <1>p, <4>1, <4>2
    <3>7. ASSUME NoRepairBy(n + 1)', NEW s \in Published, Reach < s, s <= link'.sent
          PROVE  Meets(s, n + 1)'
      <4>1. s \in Nat
        BY <1>0, PublishedOK
      <4>2. CASE s <= link.sent
        BY <3>2, <3>3, <3>5, <3>7, <4>2
      <4>3. CASE link.sent < s
        BY <3>2, <3>3, <3>7, <4>3
      <4> QED
        BY <1>0, <4>1, <4>2, <4>3
    <3>8. /\ Pending(queue') = Q /\ Len(Pending(queue')) = n + 1 /\ DOMAIN Pending(queue') = 1..(n + 1)
      BY <2>1, <2>2
    <3> QED
      BY <1>1, <3>1, <3>5, <3>6, <3>7, <3>8 DEF FlowInv, NoRepairBy, Meets
  <2> QED
    BY <1>2, <2>3, <2>4, <2>5 DEF FeedInv
<1> QED
  BY <1>4, <1>5

\* Nothing the generation accounts for changes: the link's state changes
\* without a record, or the join goes on to read or to follow.
LEMMA FrameKeeps ==
  ASSUME TypeInv, FeedInv,
         UNCHANGED <<log, covered, base, queue, prejoin, cap, plan, seen, opened>>,
         link'.sent = link.sent,
         \/ UNCHANGED pc
         \/ pc = "ready" /\ pc' = "cold"
         \/ /\ pc = "emit" /\ pc' = "live" /\ plan.todo = {} /\ plan.above = {}
            /\ plan.target <= covered /\ plan.next = "live"
  PROVE  FeedInv'
<1>1. /\ Published' = Published
      /\ \A s : Event(s)' = Event(s)
      /\ \A e : Genuine(e)' <=> Genuine(e)
  BY SameJournal
<1>3. CursorInJournal'
  BY DEF CursorInJournal, FeedInv
<1>4. QueueInv'
  BY <1>1 DEF QueueInv, FeedInv
<1>5. WalkInv'
  <2>1. \A c : Covers(c)' <=> Covers(c)
    BY <1>1 DEF Covers, WindowEdge
  <2> QED
    BY <2>1 DEF WalkInv, FeedInv
<1>6. BufferInv'
  BY <1>1 DEF BufferInv, FeedInv, Enduring
<1>7. PlanInv'
  BY <1>1 DEF PlanInv, FeedInv
<1>8. FlowInv'
  <2>1. Reach' = Reach
    BY DEF Reach
  <2>2. \A n : (NoRepairBy(n)' <=> NoRepairBy(n)) /\ \A s : Meets(s, n)' <=> Meets(s, n)
    BY <1>1 DEF NoRepairBy, Meets, Enduring
  <2>3. /\ NoRepairBy(Len(Pending(queue)))' <=> NoRepairBy(Len(Pending(queue)))
        /\ \A s : Meets(s, Len(Pending(queue)))' <=> Meets(s, Len(Pending(queue)))
    BY <1>1 DEF NoRepairBy, Meets, Enduring
  <2> QED
    BY <1>1, <2>1, <2>2, <2>3 DEF FlowInv, FeedInv
<1> QED
  BY <1>3, <1>4, <1>5, <1>6, <1>7, <1>8 DEF FeedInv

\* Before the join, the link goes on over records no capture needs.
LEMMA LinkAheadKeeps ==
  ASSUME TypeInv, FeedInv,
         UNCHANGED <<log, pc, covered, base, queue, prejoin, cap, plan, seen, opened>>,
         prejoin, link'.sent \in Nat, link.sent <= link'.sent,
         pc = "walk" => link'.sent <= cap.tip
  PROVE  FeedInv'
<1>0. /\ TypeOK /\ link.sent \in Nat /\ cap.tip \in Nat
      /\ log \in Seq(Records) /\ Len(log) <= MaxSeq
  BY JoinTypes
<1>1. /\ Published' = Published
      /\ \A s : Event(s)' = Event(s)
      /\ \A e : Genuine(e)' <=> Genuine(e)
  BY SameJournal
<1>2. \A s \in Published : s \in Nat
  BY <1>0, PublishedOK
<1>3. CursorInJournal' /\ QueueInv'
  BY <1>1 DEF CursorInJournal, QueueInv, FeedInv
<1>5. WalkInv'
  <2>1. \A c : Covers(c)' <=> Covers(c)
    BY <1>1 DEF Covers, WindowEdge
  <2> QED
    BY <2>1 DEF WalkInv, FeedInv
<1>6. BufferInv'
  <2>1. \A i \in DOMAIN Pending(queue) :
          Pending(queue)[i].kind = "enduring" => Pending(queue)[i].seq \in Nat
    BY <1>2 DEF FeedInv, QueueInv, Genuine
  <2>2. pc = "walk" => \A s \in Published : ~(cap.tip < s /\ s <= link'.sent)
    BY <1>0, <1>2
  <2>3. ~queue.repair =>
          \A i \in DOMAIN Pending(queue) :
            Pending(queue)[i].kind = "enduring" => Pending(queue)[i].seq <= link'.sent
    BY <1>0, <2>1 DEF FeedInv, BufferInv
  <2> QED
    BY <1>1, <2>2, <2>3 DEF BufferInv
<1>7. PlanInv' /\ FlowInv'
  BY <1>1 DEF PlanInv, FlowInv, FeedInv
<1> QED
  BY <1>3, <1>5, <1>6, <1>7 DEF FeedInv

\* The Factory's steps.
LEMMA FactoryKeeps ==
  ASSUME TypeInv, ~Stopped, FeedInv, ConsumerKeepsUp, Factory, ~Truncate
  PROVE  FeedInv'
<1> USE JoinAssumption
<1>0. /\ TypeOK /\ log \in Seq(Records) /\ Len(log) <= MaxSeq /\ Len(log) \in Nat
      /\ queue \in Queues /\ base \in Nat /\ link.sent \in Nat /\ link.sent <= Len(log)
      /\ cap.tip \in Nat /\ link \in Links
  BY JoinTypes
<1>r. \A item \in Items : (item.kind = "repair" \/ (ConsumerKeepsUp /\ Paced)) =>
        prejoin \/ ~Overflows(queue, item)
  BY <1>0, OverflowAlike, ItemsOK DEF Paced, FeedInv, QueueInv, HintItem
<1>1. CASE Commit
  BY <1>1, CommitKeeps
<1>2. CASE Attach
  <2>1. /\ link'.sent = Len(log) /\ pc = "ready"
        /\ UNCHANGED <<log, pc, covered, base, queue, prejoin, cap, plan, seen, opened>>
    BY <1>0, <1>2 DEF Attach, Links, joinVars, genVars, historyVars
  <2>2. prejoin
    BY <2>1 DEF FeedInv, FlowInv
  <2> QED
    BY <1>0, <2>1, <2>2, LinkAheadKeeps
<1>3. CASE LoseRecords \/ SendReset
  <2>1. /\ link'.sent = link.sent
        /\ UNCHANGED <<log, pc, covered, base, queue, prejoin, cap, plan, seen, opened>>
    BY <1>0, <1>3 DEF LoseRecords, SendReset, Links, joinVars, genVars, historyVars
  <2> QED
    BY <2>1, FrameKeeps
<1>4. CASE LateReset
  <2>1. /\ link'.sent = link.sent
        /\ UNCHANGED <<log, pc, covered, base, queue, prejoin, cap, plan, seen, opened>>
    BY <1>4 DEF LateReset, OnReset, historyVars
  <2> QED
    BY <2>1, FrameKeeps
<1>5. CASE Publish
  <2>1. PICK e \in PublicBetween(link.sent, Len(log)) :
          /\ IsEarliest(e, PublicBetween(link.sent, Len(log))) /\ AdmitEnduring(e)
          /\ link' = [link EXCEPT !.sent = e.seq, !.run = e.seq]
    BY <1>5 DEF Publish
  <2>2. /\ UNCHANGED <<log, pc, covered, base, prejoin, cap, plan, seen, opened>>
        /\ link'.sent = e.seq
    BY <1>0, <1>5, <2>1 DEF Publish, Links, joinVars, historyVars
  <2>3. PICK s \in Published : e = Event(s) /\ link.sent < s /\ s <= Len(log)
    BY <1>0, <2>1, PublishedOK
  <2>4. e \in Events /\ e.seq = s /\ s \in Nat /\ Genuine(e)
    BY <1>0, <2>3, PublishedOK
  <2>5. \A t \in Published : link.sent < t /\ t <= s => t = s
    <3>1. ASSUME NEW t \in Published, link.sent < t, t <= s PROVE t = s
      <4>1. t \in Nat /\ Event(t).seq = t
        BY <1>0, PublishedOK
      <4>2. Event(t) \in PublicBetween(link.sent, Len(log))
        BY <1>0, <2>3, <2>4, <3>1, <4>1, PublishedOK
      <4> QED
        BY <2>1, <2>4, <3>1, <4>1, <4>2 DEF IsEarliest
    <3> QED
      BY <3>1
  <2>6. CASE prejoin /\ e.seq <= base
    <3>1. queue' = queue
      BY <2>1, <2>6 DEF AdmitEnduring
    <3>2. pc = "walk" => base <= cap.tip
      BY DEF FeedInv, WalkInv, Covers
    <3> QED
      BY <1>0, <2>2, <2>3, <2>4, <2>6, <3>1, <3>2, LinkAheadKeeps
  <2>7. CASE ~(prejoin /\ e.seq <= base)
    <3>1. queue' = Push(queue, Enduring(e))
      BY <2>1, <2>7 DEF AdmitEnduring, Signal
    <3>2. Enduring(e) \in Items
      BY <2>4, ItemsOK
    <3>3. /\ Genuine(Enduring(e)) /\ Enduring(e).seq <= link'.sent
          /\ Enduring(e).kind = "enduring"
      BY <2>2, <2>4 DEF Genuine, Enduring
    <3>4. \A t \in Published : link.sent < t /\ t <= link'.sent => Enduring(e) = Enduring(Event(t))
      BY <2>2, <2>3, <2>4, <2>5
    <3>5. prejoin \/ ~Overflows(queue, Enduring(e))
      BY <1>5, <1>r, <3>2 DEF Publish
    <3>6. link'.sent \in Nat /\ link.sent <= link'.sent
      BY <1>0, <2>2, <2>3, <2>4
    <3> QED
      BY <2>2, <3>1, <3>2, <3>3, <3>4, <3>5, <3>6, SignalKeeps
  <2> QED
    BY <2>6, <2>7
<1>6. CASE Republish
  <2>1. PICK e \in PublicBetween(0, link.sent) :
          queue' = IF prejoin /\ e.seq <= base THEN queue ELSE Push(queue, Enduring(e))
    BY <1>6 DEF Republish
  <2>2. UNCHANGED <<link, log, pc, covered, base, prejoin, cap, plan, seen, opened>>
    BY <1>6 DEF Republish, joinVars, historyVars
  <2>3. PICK s \in Published : e = Event(s) /\ s <= link.sent
    BY <1>0, <2>1, PublishedOK
  <2>4. e \in Events /\ e.seq = s /\ s \in Nat /\ Genuine(e)
    BY <1>0, <2>3, PublishedOK
  <2>6. CASE prejoin /\ e.seq <= base
    BY <2>1, <2>2, <2>6, FrameKeeps
  <2>7. CASE ~(prejoin /\ e.seq <= base)
    <3>1. queue' = Push(queue, Enduring(e)) /\ Enduring(e) \in Items
      BY <2>1, <2>4, <2>7, ItemsOK
    <3>2. /\ Genuine(Enduring(e)) /\ Enduring(e).seq <= link'.sent
          /\ Enduring(e).kind = "enduring"
      BY <2>2, <2>3, <2>4 DEF Genuine, Enduring
    <3>3. \A t \in Published : ~(link.sent < t /\ t <= link'.sent)
      BY <1>0, <2>2, PublishedOK
    <3>4. prejoin \/ ~Overflows(queue, Enduring(e))
      BY <1>6, <1>r, <3>1 DEF Republish
    <3>5. link'.sent \in Nat /\ link.sent <= link'.sent
      BY <1>0, <2>2
    <3> QED
      BY <2>2, <3>1, <3>2, <3>3, <3>4, <3>5, SignalKeeps
  <2> QED
    BY <2>6, <2>7
<1>7. CASE Hint
  <2>1. /\ queue' = Push(queue, HintItem) /\ ~Overflows(queue, HintItem)
        /\ UNCHANGED <<link, log, pc, covered, base, prejoin, cap, plan, seen, opened>>
    BY <1>7 DEF Hint, Signal, joinVars, historyVars
  <2>2. HintItem \in Items /\ HintItem.kind = "hint"
    BY ItemsOK DEF HintItem
  <2>3. \A t \in Published : ~(link.sent < t /\ t <= link'.sent)
    BY <1>0, <2>1, PublishedOK
  <2>5. link'.sent \in Nat /\ link.sent <= link'.sent
    BY <1>0, <2>1
  <2> QED
    BY <2>1, <2>2, <2>3, <2>5, SignalKeeps
<1>8. CASE LinkFault \/ DeliverReset
  <2>1. /\ queue' = Push(queue, RepairItem)
        /\ UNCHANGED <<log, pc, covered, base, prejoin, cap, plan, seen, opened>>
    BY <1>8 DEF LinkFault, DeliverReset, OnReset, joinVars, historyVars
  <2>2. link'.sent \in Nat
    <3>1. CASE LinkFault
      BY <1>0, <3>1 DEF LinkFault, Links
    <3>2. CASE DeliverReset
      BY <1>0, <3>2 DEF DeliverReset, Links, Resets
    <3> QED
      BY <1>8, <3>1, <3>2
  <2>3. RepairItem \in Items /\ RepairItem.kind = "repair"
    BY ItemsOK DEF RepairItem
  <2>4. prejoin \/ ~Overflows(queue, RepairItem)
    BY <1>0, <2>3, OverflowAlike DEF FeedInv, QueueInv
  <2> QED
    BY <2>1, <2>2, <2>3, <2>4, SignalKeeps
<1> QED
  BY <1>1, <1>2, <1>3, <1>4, <1>5, <1>6, <1>7, <1>8 DEF Factory

\* A record leaves the plan as the cursor reaches it.
LEMMA EmitKeeps ==
  ASSUME TypeInv, FeedInv, pc = "emit", seen' \subseteq Events,
         UNCHANGED <<log, link, pc, base, queue, prejoin, cap, opened>>,
         covered' \in Nat, covered <= covered', covered' <= Len(log),
         plan'.target = plan.target, plan'.next = plan.next,
         plan'.todo \subseteq plan.todo, plan'.above \subseteq plan.above,
         \A e \in plan.todo \ plan'.todo : e.seq <= covered',
         \A e \in plan.above \ plan'.above : e.seq <= covered',
         \A e \in seen' : e \in seen \/ e.seq <= covered'
  PROVE  FeedInv'
<1>0. /\ TypeOK /\ log \in Seq(Records) /\ Len(log) <= MaxSeq
      /\ covered \in Nat /\ base \in Nat /\ plan \in Plans /\ plan.target \in Nat
      /\ seen \subseteq Events /\ base <= covered /\ Len(log) \in Nat
  BY JoinTypes DEF FeedInv, CursorInJournal
<1>1. /\ Published' = Published
      /\ \A s : Event(s)' = Event(s)
      /\ \A e : Genuine(e)' <=> Genuine(e)
  BY SameJournal
<1>2. \A s \in Published : s \in Nat /\ Event(s).seq = s
  BY <1>0, PublishedOK
<1>3. CursorInJournal'
  BY <1>0 DEF CursorInJournal
<1>4. QueueInv'
  BY <1>1 DEF QueueInv, FeedInv
<1>5. WalkInv' /\ BufferInv'
  BY <1>1 DEF WalkInv, BufferInv, FeedInv
<1>6. PlanInv'
  <2>1. PlanInv
    BY DEF FeedInv
  <2>2. \A s \in Published : opened < s /\ covered' < s /\ s <= plan.target => Event(s) \in plan'.todo
    <3>1. \A s \in Published : covered' < s => covered < s /\ ~(Event(s).seq <= covered')
      BY <1>0, <1>2
    <3> QED
      BY <2>1, <3>1 DEF PlanInv
  <2> QED
    BY <1>1, <2>1, <2>2 DEF PlanInv
<1>7. FlowInv'
  <2> SUFFICES ASSUME ~prejoin PROVE FlowInv'
    BY DEF FlowInv
  <2>1. FlowInv
    BY DEF FeedInv
  <2>2. Reach \in Nat /\ Reach' \in Nat /\ Reach <= Reach' /\ covered' <= Reach'
    BY <1>0 DEF Reach, Upper
  <2>3. \A e \in seen' : e.seq <= Reach'
    <3>1. \A e \in seen : e.seq \in Nat /\ e.seq <= Reach
      BY <1>0, <2>1 DEF FlowInv, Events
    <3>2. \A e \in seen' : e.seq \in Nat
      BY DEF Events
    <3> QED
      BY <2>2, <3>1, <3>2
  <2>4. \A s \in Published : Reach' < s => Reach < s /\ ~(Event(s).seq <= covered')
    BY <1>2, <2>2
  <2>5. \A s \in Published : Reach' < s /\ Event(s) \in plan.above => Event(s) \in plan'.above
    BY <2>4
  <2>6. \A e \in plan'.above, s \in Published : Reach' < s /\ s < e.seq => Event(s) \in plan'.above
    BY <2>1, <2>4, <2>5 DEF FlowInv
  <2>7. \A n : NoRepairBy(n)' <=> NoRepairBy(n)
    BY DEF NoRepairBy
  <2>8. \A s \in Published : \A n : Reach' < s /\ Meets(s, n) => Meets(s, n)'
    BY <1>1, <2>5 DEF Meets, Enduring
  <2>9. /\ NoRepairBy(Len(Pending(queue)))' <=> NoRepairBy(Len(Pending(queue)))
        /\ \A s \in Published : Reach' < s /\ Meets(s, Len(Pending(queue))) =>
             Meets(s, Len(Pending(queue)))'
    BY <1>1, <2>5 DEF NoRepairBy, Meets, Enduring
  <2> QED
    BY <1>1, <2>1, <2>3, <2>4, <2>6, <2>7, <2>8, <2>9 DEF FlowInv
<1> QED
  BY <1>3, <1>4, <1>5, <1>6, <1>7 DEF FeedInv

FeedRests == UNCHANGED <<log, covered, opened, yielded>>

\* A consumer that has committed nothing has been given nothing.
LEMMA NothingYieldedAtZero ==
  ASSUME TypeOK, Delivered, covered = 0
  PROVE  yielded = <<>>
<1>1. /\ yielded \in Seq(Events) /\ Len(yielded) \in Nat /\ DOMAIN yielded = 1..Len(yielded)
  BY LenProperties DEF TypeOK
<1>2. \A i \in 1..Len(yielded) : yielded[i] \in Events
  BY <1>1, ElementOfSeq
<1>3. \A i \in 1..Len(yielded) : yielded[i].seq \in Nat /\ yielded[i].seq > 0
  BY <1>2 DEF Events
<1>4. \A i \in 1..Len(yielded) : yielded[i].seq <= 0
  BY <1>1 DEF Delivered
<1>5. Len(yielded) = 0
  <2>1. ASSUME NEW n \in Nat, n = Len(yielded), n # 0 PROVE FALSE
    <3>1. 1 \in 1..n
      BY <2>1
    <3> QED
      BY <1>3, <1>4, <2>1, <3>1
  <2> QED
    BY <1>1, <2>1
<1> QED
  BY <1>1, <1>5, EmptySeq

\* The capture is whole: what the join is going to yield and to meet is all
\* there is above its cursor.
LEMMA JoinKeeps ==
  ASSUME TypeInv, Delivered, FeedInv, pc \in {"cold", "walk"},
         NEW c, Sound(c), Covers(c), c.covered = c.tip,
         c.tip = IF pc = "walk" THEN cap.tip ELSE Len(log),
         JoinAt(c), ~Repair
  PROVE  /\ FeedInv' /\ (FeedRests \/ Feed!Open)
         /\ plan'.next = "live" /\ \A e \in seen' : Genuine(e)'
<1> USE JoinAssumption, TailBoundsAssumption
<1> DEFINE buffered == DrainedEvents(queue)
           merged   == c.events \cup {e \in buffered : covered < e.seq /\ e.seq <= c.tip}
           above    == {e \in buffered : e.seq > c.tip}
           todo     == {e \in merged : e.seq > covered}
<1>0. /\ TypeOK /\ log \in Seq(Records) /\ Len(log) <= MaxSeq /\ Len(log) \in Nat
      /\ queue \in Queues /\ base \in Nat /\ covered = base /\ prejoin
      /\ link.sent \in Nat /\ link.sent <= Len(log) /\ opened \in Nat
      /\ c.tip \in Nat /\ c.tip <= Len(log) /\ base <= c.tip /\ c.events \subseteq Events
  BY JoinTypes DEF FeedInv, CursorInJournal, FlowInv, Covers, Sound, Captures
<1>1. /\ ~queue.repair /\ pc' = "emit" /\ queue' = Drained(queue) /\ prejoin' = FALSE
      /\ plan' = IF Conflict(merged) THEN NoPlan
                 ELSE [todo |-> todo, target |-> c.covered, above |-> above, next |-> "live"]
      /\ seen' = merged
      /\ opened' = IF base > 0 THEN opened ELSE Upper(0, c.tip - PageLimit)
      /\ UNCHANGED <<log, link, covered, base, yielded>>
  BY DEF JoinAt
<1>2. queue.hand = <<>> /\ ~queue.waiting
  BY <1>0 DEF FeedInv, QueueInv
<1>3. /\ Published' = Published
      /\ \A s : Event(s)' = Event(s)
      /\ \A e : Genuine(e)' <=> Genuine(e)
  BY <1>1, SameJournal
<1>4. /\ Pending(queue) = queue.items
      /\ \A i \in DOMAIN queue.items : queue.items[i] \in Items
  BY <1>0, <1>2, PendingSeq
<1>5. \A e \in buffered : e \in Events /\ Genuine(e) /\ e.seq <= link.sent
  <2>1. buffered \subseteq Events
    BY <1>0, DrainOK
  <2>2. \A i \in DOMAIN queue.items : queue.items[i].kind = "enduring" =>
          Genuine(queue.items[i]) /\ queue.items[i].seq <= link.sent
    BY <1>0, <1>1, <1>4 DEF FeedInv, QueueInv, BufferInv
  <2> QED
    BY <2>1, <2>2 DEF DrainedEvents, Genuine
<1>6. \A s \in Published : c.tip < s /\ s <= link.sent => Event(s) \in above
  <2> SUFFICES ASSUME NEW s \in Published, c.tip < s, s <= link.sent PROVE Event(s) \in above
    OBVIOUS
  <2>1. s \in Nat /\ s <= Len(log) /\ Event(s) \in Events /\ Event(s).seq = s
    BY <1>0, PublishedOK
  <2>2. pc = "walk" /\ cap.tip < s
    BY <1>0, <2>1
  <2>3. PICK i \in DOMAIN queue.items : queue.items[i] = Enduring(Event(s))
    BY <1>0, <1>1, <1>4, <2>2 DEF FeedInv, BufferInv
  <2>4. Event(s) = [seq |-> queue.items[i].seq, id |-> queue.items[i].id]
        /\ queue.items[i].kind = "enduring"
    BY <2>1, <2>3 DEF Enduring, Events
  <2> QED
    BY <2>1, <2>3, <2>4 DEF DrainedEvents
<1>7. \A e \in merged : e \in Events /\ Genuine(e) /\ e.seq <= c.tip
  BY <1>0, <1>5 DEF Covers
<1>8. ~Conflict(merged)
  BY <1>7 DEF Conflict, Genuine
<1> HIDE DEF buffered, merged, above, todo
<1>9. /\ plan'.todo = todo /\ plan'.target = c.tip /\ plan'.above = above /\ plan'.next = "live"
  BY <1>1, <1>8
<1>10. \A e \in todo : e \in Events /\ Genuine(e) /\ e.seq <= c.tip
  BY <1>7 DEF todo
<1>11. \A e \in above : e \in Events /\ Genuine(e) /\ e.seq <= link.sent
  BY <1>5 DEF above
<1>12. CursorInJournal'
  BY <1>0, <1>1 DEF CursorInJournal, FeedInv
<1>13. Pending(queue') = <<>> /\ queue'.hand = <<>> /\ ~queue'.waiting /\ queue'.items = <<>>
  <2>1. queue'.hand = <<>> /\ ~queue'.waiting /\ queue'.items = <<>>
    BY <1>0, <1>1, <1>2 DEF Drained, Queues
  <2> QED
    BY <2>1 DEF Pending
<1>14. QueueInv'
  <2>1. Publications(<<>>) = {} /\ Cardinality({}) = 0
    BY FS_EmptySet DEF Publications
  <2>a. Len(queue'.hand) = 0
    BY <1>13
  <2>b. Cardinality(Publications(queue'.items)) = 0
    BY <1>13, <2>1
  <2>2. /\ Len(queue'.hand) = 0 /\ Cardinality(Publications(queue'.items)) = 0
        /\ 0 <= MaxBuffered
    BY <2>a, <2>b, BufferAssumption
  <2>3. QueueShape(queue')
    BY <1>13, <2>2 DEF QueueShape
  <2> QED
    BY <1>13, <2>3 DEF QueueInv
<1>15. WalkInv' /\ BufferInv'
  BY <1>1 DEF WalkInv, BufferInv
<1>16. PlanInv'
  <2>1. \A s \in Published : opened' < s /\ covered < s /\ s <= c.tip => Event(s) \in todo
    <3> SUFFICES ASSUME NEW s \in Published, opened' < s, covered < s, s <= c.tip
                 PROVE  Event(s) \in todo
      OBVIOUS
    <3>1. Event(s) \in c.events
      BY <1>0, <1>1 DEF Covers, WindowEdge
    <3>2. Event(s).seq = s
      BY <1>0, PublishedOK
    <3> QED
      BY <3>1, <3>2 DEF todo, merged
  <2> QED
    BY <1>0, <1>1, <1>3, <1>9, <1>10, <1>11, <2>1 DEF PlanInv
<1>17. FlowInv'
  <2>1. Reach' = c.tip
    BY <1>0, <1>1, <1>9 DEF Reach, Upper
  <2>2. \A e \in above, s \in Published : c.tip < s /\ s < e.seq => Event(s) \in above
    <3>1. \A e \in above, s \in Published : s < e.seq => s <= link.sent
      <4>1. \A s \in Published : s \in Nat
        BY <1>0, PublishedOK
      <4>2. \A e \in above : e.seq \in Nat
        BY <1>11 DEF Events
      <4> QED
        BY <1>0, <1>11, <4>1, <4>2
    <3> QED
      BY <1>6, <3>1
  <2>3. \A s \in Published : c.tip < s /\ s <= link.sent => Event(s) \in above
    BY <1>6
  <2>4. \A s \in Published : \A n : Event(s) \in above => Meets(s, n)'
    BY <1>3, <1>9 DEF Meets
  <2>5. \A s \in Published : Event(s) \in above => Meets(s, Len(Pending(queue)))'
    BY <1>3, <1>9 DEF Meets
  <2>6. DOMAIN Pending(queue') = {}
    BY <1>13
  <2>7. \A e \in seen' : e.seq <= c.tip
    BY <1>1, <1>7
  <2> QED
    BY <1>1, <1>3, <1>9, <2>1, <2>2, <2>3, <2>5, <2>6, <2>7 DEF FlowInv
<1>18. FeedRests \/ Feed!Open
  <2>1. CASE base > 0
    BY <1>1, <2>1 DEF FeedRests
  <2>2. CASE base = 0
    <3>1. yielded = <<>> /\ covered = 0
      BY <1>0, <2>2, NothingYieldedAtZero
    <3>2. opened' \in 0..Len(log)
      BY <1>0, <1>1, <2>2 DEF Upper
    <3> QED
      BY <1>1, <3>1, <3>2 DEF Feed!Open
  <2> QED
    BY <1>0, <2>1, <2>2
<1>19. \A e \in seen' : Genuine(e)'
  BY <1>1, <1>3, <1>7
<1> QED
  BY <1>9, <1>12, <1>14, <1>15, <1>16, <1>17, <1>18, <1>19 DEF FeedInv

\* A page has arrived.
LEMMA PageKeeps ==
  ASSUME TypeInv, ~Stopped, Delivered, FeedInv, FirstPage \/ NextPage
  PROVE  FeedInv' /\ (FeedRests \/ Feed!Open)
<1>0. /\ TypeOK /\ log \in Seq(Records) /\ Len(log) <= MaxSeq /\ Len(log) \in Nat
      /\ pc \in {"cold", "walk"} /\ covered = base /\ base \in Nat /\ base <= Len(log)
      /\ prejoin /\ link.sent \in Nat /\ link.sent <= Len(log)
  BY JoinTypes DEF FirstPage, NextPage, FeedInv, CursorInJournal, FlowInv
<1>1. PICK c : /\ Sound(c) /\ Covers(c) /\ Advance(c)
               /\ c.tip = IF pc = "walk" THEN cap.tip ELSE Len(log)
               /\ c.step = "complete" => c.covered = c.tip
  BY <1>0, PageCovers DEF FeedInv
<1>2. /\ c \in Captures /\ c.tip \in Nat /\ c.covered \in Int /\ c.events \subseteq Events
      /\ c.tip <= Len(log) /\ c.covered <= c.tip
  BY <1>1 DEF Sound, Captures, Covers
<1>3. CASE Repair \/ Return
  <2>1. /\ Teardown /\ UNCHANGED <<log, covered, base, opened, yielded>>
        /\ pc' \in {"returned", "threw", "delay"}
    BY <1>3 DEF Repair, Return, historyVars
  <2> QED
    BY <2>1, TeardownKeeps DEF FeedRests
<1>4. CASE c.step = "complete" /\ JoinAt(c) /\ ~Repair
  BY <1>0, <1>1, <1>4, JoinKeeps
<1>5. CASE c.step = "continue" /\ Continue(c) /\ ~Return
  <2>1. /\ pc' = "walk" /\ cap' = c
        /\ UNCHANGED <<log, link, covered, base, queue, prejoin, plan, seen, opened, yielded>>
    BY <1>5 DEF Continue, historyVars
  <2>2. /\ Published' = Published
        /\ \A s : Event(s)' = Event(s)
        /\ \A e : Genuine(e)' <=> Genuine(e)
    BY <2>1, SameJournal
  <2>3. CursorInJournal' /\ QueueInv'
    BY <1>0, <2>1, <2>2 DEF CursorInJournal, QueueInv, FeedInv
  <2>4. WalkInv'
    <3>1. \A x : Covers(x)' <=> Covers(x)
      BY <2>1, <2>2 DEF Covers, WindowEdge
    <3>2. Covers(cap)' <=> Covers(c)'
      BY <2>1 DEF Covers
    <3> QED
      BY <1>1, <1>5, <2>1, <3>1, <3>2 DEF WalkInv
  <2>5. BufferInv'
    <3>1. pc = "cold" => \A s \in Published : ~(c.tip < s /\ s <= link.sent)
      BY <1>0, <1>1, PublishedOK
    <3>2. pc = "walk" => c.tip = cap.tip
      BY <1>1
    <3> QED
      BY <1>0, <2>1, <2>2, <3>1, <3>2 DEF BufferInv, FeedInv, Enduring
  <2>6. PlanInv' /\ FlowInv'
    BY <1>0, <2>1 DEF PlanInv, FlowInv, FeedInv
  <2> QED
    BY <2>1, <2>3, <2>4, <2>5, <2>6 DEF FeedInv, FeedRests
<1>6. CASE c.step \in Refusals /\ Refuse(c) /\ ~Repair
  <2>1. /\ pc' = "emit" /\ base > 0
        /\ plan' = [todo |-> {e \in Attested(c) : e.seq > covered},
                    target |-> c.covered, above |-> {}, next |-> "repair"]
        /\ UNCHANGED <<log, link, covered, base, queue, prejoin, seen, opened, yielded>>
    BY <1>6 DEF Refuse, historyVars
  <2>2. /\ Published' = Published
        /\ \A s : Event(s)' = Event(s)
        /\ \A e : Genuine(e)' <=> Genuine(e)
    BY <2>1, SameJournal
  <2>3. CursorInJournal' /\ QueueInv'
    BY <1>0, <2>1, <2>2 DEF CursorInJournal, QueueInv, FeedInv
  <2>4. WalkInv' /\ BufferInv'
    BY <1>0, <2>1, <2>2 DEF WalkInv, BufferInv, FeedInv
  <2>5. PlanInv'
    <3>1. \A s \in Published : covered < s /\ s <= c.covered => Event(s) \in Attested(c) /\ Event(s).seq > covered
      <4> SUFFICES ASSUME NEW s \in Published, covered < s, s <= c.covered
                   PROVE  Event(s) \in Attested(c) /\ Event(s).seq > covered
        OBVIOUS
      <4>1. s \in Nat /\ Event(s).seq = s
        BY <1>0, PublishedOK
      <4>2. Event(s) \in c.events
        BY <1>0, <1>1, <2>1 DEF Covers, WindowEdge
      <4> QED
        BY <1>0, <4>1, <4>2 DEF Attested
    <3>2. \A e \in Attested(c) : Genuine(e) /\ e.seq <= c.covered
      BY <1>1 DEF Attested, Covers
    <3>3. c.covered <= Len(log)
      BY <1>0, <1>2
    <3> QED
      BY <1>0, <2>1, <2>2, <3>1, <3>2, <3>3 DEF PlanInv
  <2>6. FlowInv'
    BY <1>0, <2>1 DEF FlowInv
  <2> QED
    BY <2>1, <2>3, <2>4, <2>5, <2>6 DEF FeedInv, FeedRests
<1> QED
  BY <1>1, <1>3, <1>4, <1>5, <1>6 DEF Advance

\* The next public record is delivered: none lies between the cursor and it.
LEMMA YieldDelivers ==
  ASSUME TypeInv, NEW e \in Events, Genuine(e), Yield(e), e.seq > covered,
         UNCHANGED <<log, opened>>,
         \A s \in Published : covered < s /\ s < e.seq => ~(opened < s)
  PROVE  Feed!Deliver
<1>0. /\ log \in Seq(Records) /\ Len(log) <= MaxSeq /\ covered \in Nat /\ opened \in Nat
  BY JoinTypes
<1>1. /\ e.seq \in DOMAIN log /\ log[e.seq].public
      /\ [seq |-> e.seq, id |-> log[e.seq].id] = e /\ e.seq \in Nat
  BY DEF Genuine, Published, Events
<1>2. \A s \in DOMAIN log : s > covered /\ s > opened /\ s <= e.seq - 1 => ~log[s].public
  <2>1. DOMAIN log = 1..Len(log) /\ Len(log) \in Nat
    BY <1>0, LenProperties
  <2>2. \A s \in DOMAIN log : log[s].public => s \in Published
    BY DEF Published
  <2> QED
    BY <1>0, <1>1, <2>1, <2>2
<1>3. covered' = e.seq /\ yielded' = Append(yielded, e)
  BY DEF Yield
<1> QED
  BY <1>1, <1>2, <1>3 DEF Feed!Deliver, Feed!NothingPublic

\* The follow loop takes the oldest signal.
LEMMA FollowKeeps ==
  ASSUME TypeInv, FeedInv, Follow, ~Repair
  PROVE  FeedInv' /\ (FeedRests \/ Feed!Deliver)
<1> USE JoinAssumption
<1> DEFINE item == Head(Pending(queue))
           e    == [seq |-> item.seq, id |-> item.id]
<1>0. /\ TypeOK /\ log \in Seq(Records) /\ Len(log) <= MaxSeq /\ Len(log) \in Nat
      /\ queue \in Queues /\ base \in Nat /\ covered \in Nat /\ plan.target \in Nat
      /\ seen \subseteq Events /\ QueueShape(queue) /\ link.sent \in Nat
      /\ covered <= Len(log) /\ base <= covered
  BY JoinTypes DEF FeedInv, QueueInv, CursorInJournal
<1>1. /\ pc = "live" /\ Pending(queue) # <<>> /\ item.kind # "repair"
      /\ ~(item.kind = "enduring" /\ Disposition(e) = "repair")
      /\ queue' = Taken(queue)
      /\ IF item.kind = "enduring" /\ Disposition(e) = "apply"
         THEN Yield(e) /\ seen' = seen \cup {e}
         ELSE UNCHANGED <<covered, yielded, seen>>
      /\ UNCHANGED <<log, link, pc, base, prejoin, cap, plan, opened>>
  BY DEF Follow
<1>2. /\ ~prejoin /\ plan.todo = {} /\ plan.above = {} /\ plan.target <= covered
      /\ Reach = covered
  BY <1>0, <1>1 DEF FeedInv, PlanInv, Reach, Upper
<1>p. PICK P \in Seq(Items), n \in Nat :
        /\ P = Pending(queue) /\ n = Len(Pending(queue)) /\ DOMAIN P = 1..n
        /\ \A i \in 1..n : P[i] \in Items
  <2>1. /\ Pending(queue) \in Seq(Items) /\ Len(Pending(queue)) \in Nat
        /\ DOMAIN Pending(queue) = 1..Len(Pending(queue))
        /\ \A i \in 1..Len(Pending(queue)) : Pending(queue)[i] \in Items
    BY <1>0, PendingSeq
  <2> QED
    BY <2>1
<1>q. PICK Q : Q = Pending(queue') /\ Q = Tail(P)
  BY <1>0, <1>1, <1>p, TakenPending
<1>3. /\ Q \in Seq(Items) /\ Len(Q) = n - 1 /\ n > 0 /\ DOMAIN Q = 1..(n - 1)
      /\ \A i \in 1..(n - 1) : Q[i] = P[i + 1]
      /\ item = P[1]
  <2>1. /\ Tail(P) \in Seq(Items) /\ Len(Tail(P)) = n - 1
        /\ \A i \in 1..Len(Tail(P)) : Tail(P)[i] = P[i + 1]
    BY <1>1, <1>p, HeadTailProperties
  <2>2. n > 0
    BY <1>1, <1>p, EmptySeq
  <2>3. item = P[1]
    BY <1>1, <1>p
  <2> QED
    BY <1>p, <1>q, <2>1, <2>2, <2>3, LenProperties
<1>4. item.kind = "enduring" =>
        /\ e \in Events /\ Genuine(e) /\ item = Enduring(e) /\ item.seq = e.seq
        /\ e = Event(e.seq) /\ e.seq \in Published
  <2>1. item \in Items /\ (item.kind = "enduring" => Genuine(item))
    <3>1. 1 \in 1..n
      BY <1>3, <1>p
    <3> QED
      BY <1>3, <1>p, <3>1 DEF FeedInv, QueueInv
  <2>2. item.kind = "enduring" => e \in Events /\ item = Enduring(e) /\ Genuine(e)
    BY <2>1 DEF Items, Enduring, HintItem, RepairItem, Events, Genuine
  <2> QED
    BY <1>0, <2>2, PublishedOK DEF Genuine
<1> HIDE DEF e, item
<1>5. item.kind = "enduring" /\ Disposition(e) # "apply" => e.seq <= covered
  <2>1. FlowInv
    BY DEF FeedInv
  <2>2. \A f \in seen : f.seq <= covered
    BY <1>2, <2>1 DEF FlowInv
  <2> QED
    BY <1>0, <1>1, <1>4, <2>2 DEF Disposition, Events
<1>6. Disposition(e) = "apply" /\ item.kind = "enduring" => e.seq > covered /\ e.seq <= Len(log)
  <2>1. item.kind = "enduring" => e.seq \in Nat /\ e.seq <= Len(log)
    BY <1>0, <1>4, PublishedOK
  <2> QED
    BY <1>0, <2>1 DEF Disposition
<1>7. /\ covered' \in Nat /\ covered <= covered' /\ covered' <= Len(log)
      /\ item.kind = "enduring" => e.seq <= covered'
      /\ \A f \in seen' : f.seq <= covered'
  <2>1. FlowInv
    BY DEF FeedInv
  <2>2. \A f \in seen : f.seq \in Nat /\ f.seq <= covered
    BY <1>0, <1>2, <2>1 DEF FlowInv, Events
  <2>3. CASE item.kind = "enduring" /\ Disposition(e) = "apply"
    <3>1. covered' = e.seq /\ seen' = seen \cup {e} /\ e.seq \in Nat
      BY <1>1, <1>4, <2>3 DEF Yield, Events
    <3> QED
      BY <1>0, <1>6, <2>2, <2>3, <3>1
  <2>4. CASE ~(item.kind = "enduring" /\ Disposition(e) = "apply")
    BY <1>0, <1>1, <1>5, <2>2, <2>4
  <2> QED
    BY <2>3, <2>4
<1>8. /\ Published' = Published
      /\ \A s : Event(s)' = Event(s)
      /\ \A f : Genuine(f)' <=> Genuine(f)
  BY <1>1, SameJournal
<1>9. CursorInJournal' /\ WalkInv' /\ BufferInv'
  BY <1>0, <1>1, <1>2, <1>7 DEF CursorInJournal, WalkInv, BufferInv
<1>10. QueueInv'
  <2>1. QueueShape(queue')
    BY <1>0, <1>1, TakenPending
  <2>2. \A i \in 1..(n - 1) : i + 1 \in 1..n
    BY <1>p
  <2>3. \A i \in 1..n : P[i].kind = "enduring" => Genuine(P[i])
    BY <1>p DEF FeedInv, QueueInv
  <2>4. \A i \in 1..(n - 1) : Q[i].kind = "enduring" => Genuine(Q[i])
    BY <1>3, <2>2, <2>3
  <2> QED
    BY <1>1, <1>2, <1>3, <1>8, <1>q, <2>1, <2>4 DEF QueueInv
<1>11. PlanInv'
  <2>1. plan.target <= covered'
    BY <1>0, <1>2, <1>7
  <2> QED
    BY <1>1, <1>2, <2>1 DEF PlanInv
<1>12. FlowInv
  BY DEF FeedInv
<1>13. \A k : /\ NoRepairBy(k) <=> \A j \in 1..k : P[j].kind # "repair"
              /\ NoRepairBy(k)' <=> \A j \in 1..k : Q[j].kind # "repair"
  BY <1>p, <1>q DEF NoRepairBy
<1>14. \A s, k : /\ Meets(s, k) <=> \E j \in 1..k : P[j] = Enduring(Event(s))
                 /\ Meets(s, k)' <=> \E j \in 1..k : Q[j] = Enduring(Event(s))
  BY <1>p, <1>q, <1>1, <1>2, <1>8 DEF Meets, Enduring
<1>15. ASSUME NEW k \in 0..(n - 1), NoRepairBy(k)' PROVE NoRepairBy(k + 1)
  <2>1. ASSUME NEW j \in 1..(k + 1) PROVE P[j].kind # "repair"
    <3>1. CASE j = 1
      BY <1>1, <1>3, <3>1
    <3>2. CASE j # 1
      <4>1. j - 1 \in 1..k /\ j - 1 \in 1..(n - 1) /\ (j - 1) + 1 = j
        BY <1>p, <3>2
      <4> QED
        BY <1>3, <1>13, <1>15, <4>1
    <3> QED
      BY <3>1, <3>2
  <2> QED
    BY <1>13, <2>1
<1>16. ASSUME NEW k \in 0..(n - 1), NEW s \in Published, covered' < s, Meets(s, k + 1)
       PROVE  Meets(s, k)'
  <2>1. s \in Nat /\ Event(s).seq = s
    BY <1>0, PublishedOK
  <2>2. PICK j \in 1..(k + 1) : P[j] = Enduring(Event(s))
    BY <1>14, <1>16
  <2>3. j # 1
    <3>1. SUFFICES ASSUME j = 1 PROVE FALSE
      OBVIOUS
    <3>2. item.kind = "enduring" /\ item.seq = s
      BY <1>3, <2>1, <2>2, <3>1 DEF Enduring
    <3> QED
      BY <1>4, <1>7, <1>16, <2>1, <3>2
  <2>4. j - 1 \in 1..k /\ j - 1 \in 1..(n - 1) /\ (j - 1) + 1 = j
    BY <1>p, <2>3
  <2>5. Q[j - 1] = Enduring(Event(s))
    BY <1>3, <2>2, <2>4
  <2> QED
    BY <1>14, <2>4, <2>5
<1>17. FlowInv'
  <2>1. Reach' = covered'
    BY <1>0, <1>1, <1>2, <1>7 DEF Reach, Upper
  <2>2. ASSUME NEW i \in 1..(n - 1), NEW s \in Published, Q[i].kind = "enduring",
               NoRepairBy(i - 1)', covered' < s, s < Q[i].seq
        PROVE  Meets(s, i - 1)'
    <3>1. /\ i - 1 \in 0..(n - 1) /\ (i - 1) + 1 = i /\ i + 1 \in 1..n /\ (i + 1) - 1 = i
          /\ Q[i] = P[i + 1]
      BY <1>3, <1>p
    <3>2. NoRepairBy(i)
      BY <1>15, <2>2, <3>1
    <3>3. covered < s
      BY <1>0, <1>7, <2>2, PublishedOK
    <3>4. Meets(s, i)
      BY <1>12, <1>2, <1>p, <2>2, <3>1, <3>2, <3>3 DEF FlowInv
    <3> QED
      BY <1>16, <2>2, <3>1, <3>4
  <2>3. ASSUME NoRepairBy(n - 1)', NEW s \in Published, covered' < s, s <= link.sent
        PROVE  Meets(s, n - 1)'
    <3>1. n - 1 \in 0..(n - 1) /\ (n - 1) + 1 = n
      BY <1>3, <1>p
    <3>2. NoRepairBy(n)
      BY <1>15, <2>3, <3>1
    <3>3. covered < s
      BY <1>0, <1>7, <2>3, PublishedOK
    <3>4. Meets(s, n)
      BY <1>12, <1>2, <1>p, <2>3, <3>2, <3>3 DEF FlowInv
    <3> QED
      BY <1>16, <2>3, <3>1, <3>4
  <2>4. Pending(queue') = Q /\ Len(Pending(queue')) = n - 1 /\ DOMAIN Pending(queue') = 1..(n - 1)
    BY <1>3, <1>q
  <2>5. ASSUME ~prejoin'
        PROVE  /\ pc' \in {"emit", "live"}
               /\ \A f \in seen' : f.seq <= Reach'
               /\ \A f \in plan'.above, s \in Published' :
                    Reach' < s /\ s < f.seq => Event(s)' \in plan'.above
    BY <1>1, <1>2, <1>7, <1>8, <1>12, <2>1, <2>5 DEF FlowInv
  <2>6. \A i \in DOMAIN Pending(queue'), s \in Published' :
          /\ Pending(queue')[i].kind = "enduring" /\ NoRepairBy(i - 1)'
          /\ Reach' < s /\ s < Pending(queue')[i].seq
          => Meets(s, i - 1)'
    BY <1>8, <2>1, <2>2, <2>4 DEF NoRepairBy, Meets
  <2>7. NoRepairBy(Len(Pending(queue)))' =>
          \A s \in Published' : Reach' < s /\ s <= link'.sent => Meets(s, Len(Pending(queue)))'
    BY <1>1, <1>2, <1>8, <2>1, <2>3, <2>4 DEF NoRepairBy, Meets
  <2> QED
    BY <2>5, <2>6, <2>7 DEF FlowInv, NoRepairBy, Meets
<1>18. FeedRests \/ Feed!Deliver
  <2>1. CASE item.kind = "enduring" /\ Disposition(e) = "apply"
    <3>1. ASSUME NEW s \in Published, covered < s, s < e.seq PROVE FALSE
      <4>1. 1 \in 1..n /\ 1 - 1 = 0 /\ NoRepairBy(0)
        BY <1>3, <1>13, <1>p
      <4>2. Meets(s, 0)
        BY <1>12, <1>2, <1>3, <1>4, <1>p, <2>1, <3>1, <4>1 DEF FlowInv
      <4> QED
        BY <1>14, <4>2
    <3>2. Yield(e)
      BY <1>1, <2>1
    <3> QED
      BY <1>1, <1>4, <1>6, <2>1, <3>1, <3>2, YieldDelivers
  <2>2. CASE ~(item.kind = "enduring" /\ Disposition(e) = "apply")
    BY <1>1, <2>2 DEF FeedRests
  <2> QED
    BY <2>1, <2>2
<1> QED
  BY <1>9, <1>10, <1>11, <1>17, <1>18 DEF FeedInv

\* The plan is yielded, a record at a time.
LEMMA PlanKeeps ==
  ASSUME TypeInv, ~Stopped, OrderInv, FeedInv, EmitEvent \/ EmitCoverage \/ EmitAbove \/ EmitDone,
         ~Repair
  PROVE  FeedInv' /\ (FeedRests \/ Feed!Deliver \/ Feed!Cover)
<1> USE JoinAssumption
<1>0. /\ TypeOK /\ log \in Seq(Records) /\ Len(log) <= MaxSeq /\ Len(log) \in Nat
      /\ base \in Nat /\ covered \in Nat /\ plan \in Plans /\ plan.target \in Nat
      /\ plan.todo \subseteq Events /\ plan.above \subseteq Events /\ opened \in Nat
      /\ seen \subseteq Events /\ covered <= Len(log) /\ base <= covered
      /\ DOMAIN log = 1..Len(log)
  BY JoinTypes DEF FeedInv, CursorInJournal
<1>1. CASE EmitEvent
  <2>1. PICK e \in plan.todo :
          /\ IsEarliest(e, plan.todo) /\ Yield(e)
          /\ plan' = [plan EXCEPT !.todo = plan.todo \ {e}]
    BY <1>1 DEF EmitEvent
  <2>2. /\ pc = "emit" /\ UNCHANGED <<log, link, pc, base, queue, prejoin, cap, seen, opened>>
    BY <1>1 DEF EmitEvent, factoryVars
  <2>3. /\ e \in Events /\ Genuine(e) /\ e.seq <= plan.target /\ e.seq > covered
        /\ e.seq \in Nat /\ e.seq <= Len(log)
    <3>1. Genuine(e) /\ e.seq <= plan.target /\ e.seq > covered
      BY <2>2 DEF FeedInv, PlanInv, OrderInv, Ahead
    <3> QED
      BY <1>0, <3>1, PublishedOK DEF Genuine
  <2>4. /\ plan'.target = plan.target /\ plan'.next = plan.next /\ plan'.above = plan.above
        /\ plan'.todo = plan.todo \ {e}
    BY <1>0, <2>1 DEF Plans
  <2>5. covered' = e.seq
    BY <2>1 DEF Yield
  <2>6. FeedInv'
    <3>1. /\ covered' \in Nat /\ covered <= covered' /\ covered' <= Len(log)
          /\ \A f \in plan.todo \ plan'.todo : f.seq <= covered'
      BY <1>0, <2>3, <2>4, <2>5
    <3> QED
      BY <1>0, <2>2, <2>4, <3>1, EmitKeeps
  <2>7. ASSUME NEW s \in Published, covered < s, s < e.seq, opened < s PROVE FALSE
    <3>1. s \in Nat /\ Event(s).seq = s /\ s <= plan.target
      BY <1>0, <2>3, <2>7, PublishedOK
    <3>2. Event(s) \in plan.todo
      BY <2>2, <2>7, <3>1 DEF FeedInv, PlanInv
    <3> QED
      BY <2>1, <2>3, <2>7, <3>1, <3>2 DEF IsEarliest
  <2>8. Feed!Deliver
    BY <2>1, <2>2, <2>3, <2>7, YieldDelivers
  <2> QED
    BY <2>6, <2>8
<1>2. CASE EmitCoverage
  <2>1. /\ pc = "emit" /\ plan.todo = {} /\ plan.target > covered /\ covered' = plan.target
        /\ UNCHANGED <<log, link, pc, base, queue, prejoin, cap, plan, seen, opened, yielded>>
    BY <1>2 DEF EmitCoverage, factoryVars, genVars, historyVars
  <2>2. plan.target <= Len(log)
    BY <2>1 DEF FeedInv, PlanInv
  <2>3. FeedInv'
    BY <1>0, <2>1, <2>2, EmitKeeps
  <2>4. \A s \in DOMAIN log : s > covered /\ s > opened /\ s <= plan.target => ~log[s].public
    <3>1. \A s \in DOMAIN log : log[s].public => s \in Published
      BY DEF Published
    <3> QED
      BY <1>0, <2>1, <3>1 DEF FeedInv, PlanInv
  <2>5. plan.target \in DOMAIN log
    BY <1>0, <2>1, <2>2
  <2>6. Feed!Cover
    BY <2>1, <2>4, <2>5 DEF Feed!Cover, Feed!NothingPublic
  <2> QED
    BY <2>3, <2>6
<1>3. CASE EmitAbove
  <2>1. PICK e \in plan.above :
          /\ IsEarliest(e, plan.above) /\ Disposition(e) # "repair"
          /\ plan' = [plan EXCEPT !.above = plan.above \ {e}]
          /\ IF Disposition(e) = "apply"
             THEN Yield(e) /\ seen' = seen \cup {e}
             ELSE UNCHANGED <<covered, yielded, seen>>
          /\ UNCHANGED <<log, link, pc, base, queue, prejoin, cap, opened>>
    BY <1>3 DEF EmitAbove
  <2>2. pc = "emit" /\ plan.todo = {} /\ plan.target <= covered /\ Reach = covered
    BY <1>0, <1>3 DEF EmitAbove, Reach, Upper
  <2>3. /\ e \in Events /\ Genuine(e) /\ e.seq \in Nat /\ e.seq <= Len(log)
    <3>1. Genuine(e)
      BY <2>2 DEF FeedInv, PlanInv
    <3> QED
      BY <1>0, <3>1, PublishedOK DEF Genuine
  <2>4. /\ plan'.target = plan.target /\ plan'.next = plan.next /\ plan'.todo = plan.todo
        /\ plan'.above = plan.above \ {e}
    BY <1>0, <2>1 DEF Plans
  <2>5. ~prejoin
    BY <2>2 DEF FeedInv, PlanInv
  <2>6. FlowInv
    BY DEF FeedInv
  <2>7. CASE Disposition(e) = "apply"
    <3>1. Yield(e) /\ seen' = seen \cup {e} /\ covered' = e.seq /\ e.seq > covered
      BY <1>0, <2>1, <2>3, <2>7 DEF Disposition, Yield
    <3>2. FeedInv'
      <4>1. /\ covered' \in Nat /\ covered <= covered' /\ covered' <= Len(log)
            /\ \A f \in plan.above \ plan'.above : f.seq <= covered'
            /\ \A f \in seen' : f \in seen \/ f.seq <= covered'
            /\ seen' \subseteq Events
        BY <1>0, <2>3, <2>4, <3>1
      <4> QED
        BY <1>0, <2>1, <2>2, <2>4, <4>1, EmitKeeps
    <3>3. ASSUME NEW s \in Published, covered < s, s < e.seq PROVE FALSE
      <4>1. s \in Nat /\ Event(s).seq = s
        BY <1>0, PublishedOK
      <4>2. Event(s) \in plan.above
        BY <2>2, <2>5, <2>6, <3>3 DEF FlowInv
      <4> QED
        BY <2>1, <2>3, <3>3, <4>1, <4>2 DEF IsEarliest
    <3>4. Feed!Deliver
      BY <2>1, <2>3, <3>1, <3>3, YieldDelivers
    <3> QED
      BY <3>2, <3>4
  <2>8. CASE Disposition(e) # "apply"
    <3>1. UNCHANGED <<covered, yielded, seen>>
      BY <2>1, <2>8
    <3>2. e.seq <= covered
      <4>1. \A f \in seen : f.seq <= covered
        BY <2>2, <2>5, <2>6 DEF FlowInv
      <4> QED
        BY <1>0, <2>1, <2>3, <2>8, <4>1 DEF Disposition
    <3>3. FeedInv'
      BY <1>0, <2>1, <2>2, <2>4, <3>1, <3>2, EmitKeeps
    <3> QED
      BY <2>1, <3>1, <3>3 DEF FeedRests
  <2> QED
    BY <2>7, <2>8
<1>4. CASE EmitDone
  <2>1. /\ pc = "emit" /\ pc' = "live" /\ plan.todo = {} /\ plan.above = {}
        /\ plan.target <= covered /\ plan.next # "repair"
        /\ UNCHANGED <<log, link, covered, base, queue, prejoin, cap, plan, seen, opened, yielded>>
    BY <1>4 DEF EmitDone, genVars, historyVars
  <2>2. plan.next = "live"
    BY <1>0, <2>1 DEF Plans
  <2> QED
    BY <2>1, <2>2, FrameKeeps DEF FeedRests
<1> QED
  BY <1>1, <1>2, <1>3, <1>4

\* A generation starts: from where the cursor is, or from the floor.
LEMMA StartKeeps ==
  ASSUME TypeInv, FeedInv, StartGeneration
  PROVE  FeedInv' /\ (FeedRests \/ Feed!Rewind)
<1> USE JoinAssumption
<1>0. /\ TypeOK /\ covered \in Nat /\ Len(log) \in Nat /\ floor \in -1..MaxSeq
      /\ covered <= Len(log)
  BY JoinTypes DEF FeedInv, CursorInJournal
<1>1. /\ pc = "delay" /\ pc' = "ready" /\ base' = covered'
      /\ UNCHANGED <<log, link, queue, prejoin, cap, plan, seen>>
      /\ \/ covered' = covered /\ UNCHANGED <<opened, yielded>>
         \/ /\ floor # NoFloor /\ floor < covered /\ covered' = floor
            /\ opened' = covered' /\ yielded' = <<>>
  BY <1>0 DEF StartGeneration, factoryVars, genVars
<1>2. covered' \in Nat /\ covered' <= Len(log)
  BY <1>0, <1>1 DEF NoFloor
<1>3. /\ Published' = Published
      /\ \A s : Event(s)' = Event(s)
      /\ \A e : Genuine(e)' <=> Genuine(e)
  BY <1>1, SameJournal
<1>4. prejoin
  BY <1>1 DEF FeedInv, FlowInv
<1>5. CursorInJournal' /\ QueueInv'
  BY <1>1, <1>2, <1>3 DEF CursorInJournal, QueueInv, FeedInv
<1>6. WalkInv' /\ BufferInv' /\ PlanInv' /\ FlowInv'
  BY <1>1, <1>3, <1>4 DEF WalkInv, BufferInv, PlanInv, FlowInv, FeedInv
<1>7. FeedRests \/ Feed!Rewind
  <2>1. CASE covered' = covered /\ UNCHANGED <<opened, yielded>>
    BY <1>1, <2>1 DEF FeedRests
  <2>2. CASE floor # NoFloor /\ floor < covered /\ covered' = floor
             /\ opened' = covered' /\ yielded' = <<>>
    <3>1. floor \in 0..(covered - 1)
      BY <1>0, <2>2 DEF NoFloor
    <3> QED
      BY <1>1, <2>2, <3>1 DEF Feed!Rewind
  <2> QED
    BY <1>1, <2>1, <2>2
<1> QED
  BY <1>5, <1>6, <1>7 DEF FeedInv

LEMMA JoinKeepsAll ==
  ASSUME TypeInv, OrderInv, ~Stopped, FeedInv,
         Join \/ ReadyFails \/ ReadFails \/ Abort \/ Aborted
  PROVE  FeedInv' /\ [Feed!Next]_(Feed!vars)
<1>0. FeedRests => [Feed!Next]_(Feed!vars)
  BY DEF FeedRests, Feed!vars
<1>1. CASE Repair \/ Return
  <2>1. /\ Teardown /\ UNCHANGED <<log, covered, base, opened, yielded>>
        /\ pc' \in {"returned", "threw", "delay"}
    BY <1>1 DEF Repair, Return, historyVars
  <2> QED
    BY <1>0, <2>1, TeardownKeeps DEF FeedRests
<1>2. CASE StartGeneration
  BY <1>0, <1>2, StartKeeps DEF Feed!Next
<1>3. CASE FirstPage \/ NextPage
  BY <1>0, <1>3, PageKeeps DEF Feed!Next, OrderInv
<1>4. CASE EmitEvent \/ EmitCoverage \/ EmitAbove \/ EmitDone
  BY <1>0, <1>1, <1>4, PlanKeeps DEF Feed!Next
<1>5. CASE Follow
  BY <1>0, <1>1, <1>5, FollowKeeps DEF Feed!Next
<1>6. CASE Ready \/ Abort
  <2>1. /\ UNCHANGED <<log, covered, base, queue, prejoin, cap, plan, seen, opened, yielded>>
        /\ link'.sent = link.sent /\ (UNCHANGED pc \/ (pc = "ready" /\ pc' = "cold"))
    <3>1. CASE Ready
      BY <3>1 DEF Ready, factoryVars, genVars, historyVars
    <3>2. CASE Abort
      <4>1. UNCHANGED <<factoryVars, pc, covered, base, genVars, historyVars>>
        BY <3>2 DEF Abort
      <4> QED
        BY <4>1 DEF factoryVars, genVars, historyVars
    <3> QED
      BY <1>6, <3>1, <3>2
  <2> QED
    BY <1>0, <2>1, FrameKeeps DEF FeedRests
<1>7. CASE Await
  <2>1. /\ UNCHANGED <<log, link, pc, covered, base, prejoin, cap, plan, seen, opened, yielded>>
        /\ Pending(queue) = <<>> /\ queue' = [queue EXCEPT !.waiting = TRUE] /\ pc = "live"
    BY <1>7 DEF Await, factoryVars, joinVars, historyVars
  <2>2. /\ queue'.items = queue.items /\ queue'.hand = queue.hand /\ queue.waiting \in BOOLEAN
    BY <2>1 DEF TypeInv, TypeOK, Queues
  <2>3. Pending(queue') = Pending(queue)
    BY <2>2 DEF Pending
  <2>4. ~prejoin
    BY <2>1 DEF FeedInv, PlanInv
  <2>5. /\ Published' = Published
        /\ \A s : Event(s)' = Event(s)
        /\ \A e : Genuine(e)' <=> Genuine(e)
    BY <2>1, SameJournal
  <2>6. CursorInJournal' /\ QueueInv'
    BY <2>1, <2>2, <2>3, <2>4, <2>5 DEF CursorInJournal, QueueInv, QueueShape, FeedInv
  <2>7. WalkInv' /\ BufferInv' /\ PlanInv'
    BY <2>1, <2>4, <2>5 DEF WalkInv, BufferInv, PlanInv, FeedInv
  <2>8. FlowInv'
    BY <2>1, <2>3, <2>5 DEF FlowInv, FeedInv, Reach, NoRepairBy, Meets, Enduring
  <2> QED
    BY <1>0, <2>1, <2>6, <2>7, <2>8 DEF FeedInv, FeedRests
<1>8. CASE Woken \/ ReadyFails \/ ReadFails \/ Aborted
  BY <1>1, <1>8 DEF Woken, ReadyFails, ReadFails, Aborted
<1> QED
  BY <1>2, <1>3, <1>4, <1>5, <1>6, <1>7, <1>8 DEF Join

\* The invariant speaks of a journal that has not been cut.
HoleFree == cuts = 0 => FeedInv

LEMMA CutsOnlyGrow ==
  ASSUME TypeInv, [Next]_vars, cuts' = 0
  PROVE  cuts = 0 /\ ~Truncate
<1>0. cuts \in Nat
  BY JoinTypes
<1>1. ~Truncate
  BY <1>0 DEF Truncate
<1>2. CASE UNCHANGED vars
  BY <1>1, <1>2 DEF vars, factoryVars
<1>r. CASE Repair \/ Return
  BY <1>1, <1>r DEF Repair, Return
<1>3. CASE Factory
  BY <1>1, <1>3 DEF Factory, Commit, Attach, LoseRecords, SendReset, Publish, Republish, Hint,
                    LinkFault, DeliverReset, LateReset
<1>4. CASE FirstPage \/ NextPage
  <2>1. PICK c : Advance(c)
    BY <1>4 DEF FirstPage, NextPage
  <2> QED
    BY <1>1, <1>r, <2>1 DEF Advance, Continue, JoinAt, Refuse
<1>5. CASE Join \/ ReadyFails \/ ReadFails \/ Abort \/ Aborted
  BY <1>1, <1>4, <1>5, <1>r DEF Join, StartGeneration, Ready, Woken, EmitEvent, EmitCoverage,
     EmitAbove, EmitDone, Await, Follow, ReadyFails, ReadFails, Abort, Aborted, factoryVars
<1> QED
  BY <1>2, <1>3, <1>5 DEF Next, Terminated

LEMMA FeedStep ==
  ConsumerKeepsUp /\ TypeInv /\ OrderInv /\ HoleFree /\ [Next]_vars
    => HoleFree' /\ (cuts' = 0 => [Feed!Next]_(Feed!vars))
<1> SUFFICES ASSUME ConsumerKeepsUp, TypeInv, OrderInv, HoleFree, [Next]_vars, cuts' = 0
             PROVE  FeedInv' /\ [Feed!Next]_(Feed!vars)
  BY DEF HoleFree
<1>1. cuts = 0 /\ ~Truncate /\ FeedInv
  BY CutsOnlyGrow DEF HoleFree
<1>2. CASE UNCHANGED vars
  <2>1. /\ UNCHANGED <<log, covered, base, queue, prejoin, cap, plan, seen, opened, yielded, pc>>
        /\ link'.sent = link.sent
    BY <1>2 DEF vars, factoryVars, joinVars, genVars, historyVars
  <2> QED
    BY <1>1, <2>1, FrameKeeps DEF Feed!vars
<1>3. CASE ~Stopped /\ Factory
  <2>1. FeedInv'
    BY <1>1, <1>3, FactoryKeeps
  <2>2. CASE Commit
    <3>1. PICK public \in BOOLEAN : log' = Append(log, [public |-> public, id |-> cuts])
      BY <2>2 DEF Commit
    <3>2. UNCHANGED <<covered, opened, yielded>>
      BY <2>2 DEF Commit, joinVars, historyVars
    <3> QED
      BY <1>1, <2>1, <3>1, <3>2 DEF Feed!Next, Feed!Grow
  <2>3. CASE ~Commit
    <3>1. UNCHANGED <<log, covered, opened, yielded>>
      BY <1>1, <1>3, <2>3 DEF Factory, Attach, LoseRecords, SendReset, Publish, Republish, Hint,
         LinkFault, DeliverReset, LateReset, joinVars, historyVars
    <3> QED
      BY <2>1, <3>1 DEF Feed!vars
  <2> QED
    BY <2>2, <2>3
<1>4. CASE ~Stopped /\ (Join \/ ReadyFails \/ ReadFails \/ Abort \/ Aborted)
  BY <1>1, <1>4, JoinKeepsAll
<1> QED
  BY <1>2, <1>3, <1>4 DEF Next, Terminated

LEMMA FeedInit == Init => HoleFree /\ Feed!Init
<1> SUFFICES ASSUME Init PROVE FeedInv /\ Feed!Init
  BY DEF HoleFree
<1>1. TypeInv
  BY InitOK
<1>2. /\ covered \in 0..Len(log) /\ Len(log) \in Nat /\ base = covered /\ pc = "delay"
      /\ queue = NewQueue /\ prejoin = TRUE /\ plan = NoPlan /\ opened = covered
      /\ yielded = <<>>
  BY <1>1, LenProperties DEF Init, TypeInv, TypeOK
<1>3. Pending(NewQueue) = <<>> /\ DOMAIN Pending(NewQueue) = {}
  BY DEF Pending, NewQueue
<1>4. QueueShape(NewQueue)
  BY NewQueueShape
<1>5. CursorInJournal
  BY <1>2 DEF CursorInJournal
<1>6. QueueInv
  BY <1>2, <1>3, <1>4 DEF QueueInv, NewQueue
<1>7. WalkInv /\ BufferInv /\ PlanInv /\ FlowInv
  BY <1>2, <1>3 DEF WalkInv, BufferInv, PlanInv, FlowInv, NoPlan
<1> QED
  BY <1>2, <1>5, <1>6, <1>7 DEF FeedInv, Feed!Init

\* A consumer that keeps up with the link is given a feed without holes ...
THEOREM HoleFreeFeed ==
  ASSUME ConsumerKeepsUp, MaxTruncations = 0
  PROVE  Spec => ImplementsFeed
<1>1. TypeInv => cuts = 0 
  BY JoinAssumption DEF TypeInv, TypeOK
<1>2. Init => TypeInv /\ OrderInv /\ HoleFree /\ Feed!Init
  BY FeedInit, InitOK DEF Init, OrderInv, Delivered, InOrderOnce, Ahead, NoPlan, Conflict
<1>3. TypeInv /\ OrderInv /\ HoleFree /\ [Next]_vars
        => TypeInv' /\ OrderInv' /\ HoleFree' /\ [Feed!Next]_(Feed!vars)
  <2>1. TypeInv' => cuts' = 0
    BY JoinAssumption DEF TypeInv, TypeOK
  <2> QED
    BY <2>1, TypeStep, OrderStep, FeedStep
<1> QED
  BY <1>2, <1>3, PTL DEF Spec, ImplementsFeed, Feed!Spec

LEMMA NoHoleStep ==
  ASSUME TypeInv, TypeInv', NoHole, cuts = 0, cuts' = 0, [Feed!Next]_(Feed!vars),
         covered <= Len(log)
  PROVE  NoHole'
<1>0. /\ log \in Seq(Records) /\ Len(log) \in Nat /\ DOMAIN log = 1..Len(log)
      /\ covered \in Nat /\ opened \in Nat /\ yielded \in Seq(Events)
      /\ Len(yielded) \in Nat /\ DOMAIN yielded = 1..Len(yielded)
      /\ covered' \in Nat /\ opened' \in Nat
  <2>1. covered' \in Nat /\ opened' \in Nat
    BY DEF TypeInv, TypeOK
  <2> QED
    BY <2>1, JoinTypes
<1>1. \A s \in (opened + 1)..covered :
        log[s].public => \E i \in DOMAIN yielded : yielded[i] = [seq |-> s, id |-> log[s].id]
  BY DEF NoHole, Event
<1> SUFFICES ASSUME NEW s \in (opened' + 1)..covered', log'[s].public
             PROVE  \E i \in DOMAIN yielded' : yielded'[i] = [seq |-> s, id |-> log'[s].id]
  BY DEF NoHole, Event
<1>2. CASE UNCHANGED Feed!vars
  BY <1>1, <1>2 DEF Feed!vars
<1>3. CASE Feed!Grow
  <2>1. PICK r \in [public : BOOLEAN, id : {0}] : log' = Append(log, r)
    BY <1>3 DEF Feed!Grow
  <2>2. r \in Records
    BY <2>1, JoinAssumption DEF Records
  <2>3. \A x \in 1..Len(log) : log'[x] = log[x]
    BY <1>0, <2>1, <2>2, AppendProperties
  <2>4. s \in 1..Len(log) /\ s \in (opened + 1)..covered /\ yielded' = yielded
    BY <1>0, <1>3 DEF Feed!Grow
  <2> QED
    BY <1>1, <2>3, <2>4
<1>4. CASE Feed!Open
  <2>1. covered' = 0
    BY <1>0, <1>4 DEF Feed!Open
  <2>2. \A o \in Nat : (o + 1)..0 = {}
    OBVIOUS
  <2>3. (opened' + 1)..covered' = {}
    BY <1>0, <2>1, <2>2, Zenon
  <2> QED
    BY <2>3, Zenon
<1>5. CASE Feed!Deliver
  <2>1. PICK n \in DOMAIN log :
          /\ n > covered /\ Feed!NothingPublic(n - 1) /\ covered' = n
          /\ yielded' = Append(yielded, [seq |-> n, id |-> log[n].id])
          /\ log' = log /\ opened' = opened
    BY <1>5 DEF Feed!Deliver
  <2>2. [seq |-> n, id |-> log[n].id] \in Events
    <3>1. log[n] \in Records /\ n \in 1..MaxSeq
      <4>1. n \in 1..Len(log) /\ Len(log) <= MaxSeq /\ MaxSeq \in Nat
        BY <1>0, JoinTypes, JoinAssumption
      <4>2. log[n] \in Records
        BY <1>0, <4>1, ElementOfSeq
      <4> QED
        BY <1>0, <4>1, <4>2
    <3> QED
      BY <3>1 DEF Records, Events
  <2>3. /\ DOMAIN yielded' = 1..(Len(yielded) + 1)
        /\ \A i \in 1..Len(yielded) : yielded'[i] = yielded[i]
        /\ yielded'[Len(yielded) + 1] = [seq |-> n, id |-> log[n].id]
    <3> DEFINE e == [seq |-> n, id |-> log[n].id]
    <3>1. yielded \in Seq(Events) /\ e \in Events /\ yielded' = Append(yielded, e)
      BY <1>0, <2>1, <2>2
    <3> HIDE DEF e
    <3>2. /\ Append(yielded, e) \in Seq(Events) /\ Len(Append(yielded, e)) = Len(yielded) + 1
          /\ \A i \in 1..Len(yielded) : Append(yielded, e)[i] = yielded[i]
          /\ Append(yielded, e)[Len(yielded) + 1] = e
      BY <3>1, AppendProperties
    <3>3. DOMAIN Append(yielded, e) = 1..(Len(yielded) + 1)
      BY <3>2, LenProperties
    <3> QED
      BY <3>1, <3>2, <3>3 DEF e
  <2>4. CASE s = n
    <3>1. Len(yielded) + 1 \in DOMAIN yielded'
      BY <1>0, <2>3
    <3> QED
      BY <2>1, <2>3, <2>4, <3>1
  <2>5. CASE s <= covered
    <3>1. PICK i \in 1..Len(yielded) : yielded[i] = [seq |-> s, id |-> log[s].id]
      BY <1>0, <1>1, <2>1, <2>5
    <3>2. i \in 1..(Len(yielded) + 1)
      BY <1>0
    <3>3. i \in DOMAIN yielded' /\ yielded'[i] = yielded[i]
      BY <2>3, <3>2
    <3> QED
      BY <2>1, <3>1, <3>3
  <2>6. CASE covered < s /\ s < n
    <3>1. s \in DOMAIN log /\ s > covered /\ s > opened /\ s <= n - 1
      BY <1>0, <2>1, <2>6
    <3>2. log[s].public
      BY <2>1
    <3> QED
      BY <2>1, <3>1, <3>2 DEF Feed!NothingPublic
  <2>7. s \in Int /\ s <= n /\ n \in Nat
    BY <1>0, <2>1
  <2>8. s = n \/ s <= covered \/ (covered < s /\ s < n)
    BY <1>0, <2>7
  <2> QED
    BY <2>4, <2>5, <2>6, <2>8, Zenon
<1>6. CASE Feed!Cover
  <2>1. PICK n \in DOMAIN log :
          /\ n > covered /\ Feed!NothingPublic(n) /\ covered' = n
          /\ UNCHANGED <<log, opened, yielded>>
    BY <1>6 DEF Feed!Cover
  <2>2. s \in Int /\ s > opened /\ s <= n /\ n <= Len(log) /\ log[s].public
    BY <1>0, <2>1
  <2>3. s <= covered
    <3>1. s > covered => s \in DOMAIN log
      BY <1>0, <2>2
    <3> QED
      BY <1>0, <2>1, <2>2, <3>1 DEF Feed!NothingPublic
  <2>4. s \in (opened + 1)..covered
    BY <1>0, <2>2, <2>3
  <2> QED
    BY <1>1, <2>1, <2>2, <2>4
<1>7. CASE Feed!Rewind
  BY <1>0, <1>7 DEF Feed!Rewind
<1> QED
  BY <1>2, <1>3, <1>4, <1>5, <1>6, <1>7 DEF Feed!Next

\* ... so that the cursor never passes a public record it was not given.
THEOREM NothingSkipped ==
  ASSUME ConsumerKeepsUp
  PROVE  Spec => []NoHole
<1>1. Init => TypeInv /\ OrderInv /\ HoleFree /\ NoHole
  <2>1. ASSUME Init PROVE NoHole
    <3>1. covered \in Nat /\ opened = covered
      BY <2>1, InitOK DEF Init, TypeInv, TypeOK
    <3> QED
      BY <3>1 DEF NoHole
  <2>2. Init => OrderInv
    BY InitOK DEF Init, OrderInv, Delivered, InOrderOnce, Ahead, NoPlan, Conflict
  <2> QED
    BY <2>1, <2>2, FeedInit, InitOK
<1>2. TypeInv /\ OrderInv /\ HoleFree /\ NoHole /\ [Next]_vars
        => TypeInv' /\ OrderInv' /\ HoleFree' /\ NoHole'
  <2> SUFFICES ASSUME TypeInv, OrderInv, HoleFree, NoHole, [Next]_vars
               PROVE  TypeInv' /\ OrderInv' /\ HoleFree' /\ NoHole'
    OBVIOUS
  <2>1. TypeInv' /\ OrderInv' /\ HoleFree' /\ (cuts' = 0 => [Feed!Next]_(Feed!vars))
    BY TypeStep, OrderStep, FeedStep
  <2>2. ASSUME cuts' = 0 PROVE NoHole'
    <3>1. cuts = 0
      BY <2>2, CutsOnlyGrow
    <3>2. covered <= Len(log)
      BY <3>1 DEF HoleFree, FeedInv, CursorInJournal
    <3> QED
      BY <2>1, <2>2, <3>1, <3>2, NoHoleStep
  <2>3. cuts' # 0 => NoHole'
    BY DEF NoHole
  <2> QED
    BY <2>1, <2>2, <2>3
<1> QED
  BY <1>1, <1>2, PTL DEF Spec

----
\* The join gives up only on faults.

\* The generation is going to be repaired, whatever it does next.
Marked ==
  \/ link.lost \/ link.reset # NoReset \/ queue.repair
  \/ \E i \in DOMAIN Pending(queue) : Pending(queue)[i].kind = "repair"

\* A fault that no repair has been counted for.
Owed == repairs < setbacks

\* What the generation has to read at once fits in a capture.
Counted == PagesFit /\ (base > 0 \/ WindowsFit)

\* A capture that met no fault is above where it started, and within the
\* budgets of a window.
WithinBudget(c) ==
  /\ c.covered > base
  /\ \A k \in c.cursors : k <= c.covered
  /\ base = 0 => /\ c.pages <= c.covered - WindowEdge(c.tip)
                 /\ c.count <= c.covered - WindowEdge(c.tip)
                 /\ c.bytes <= 2 * c.pages + Cardinality(BytesOf(c.events))
                 /\ \A e \in c.events : e.seq > WindowEdge(c.tip)

\* Repairs without progress never outnumber the faults, and what is bound to
\* be repaired without progress has met one more.
GiveInv ==
  /\ Counted => repairs <= setbacks
  /\ Counted /\ covered = base /\ Marked => Owed
  /\ pc = "delay" => ~Marked /\ ~link.attached /\ (covered > base => repairs = 0)
  /\ pc = "walk" => cap.covered < cap.tip /\ (Counted => Owed \/ WithinBudget(cap))
  /\ pc = "emit" /\ plan.next = "repair" => plan.target > base
  /\ pc = "threw" => repairs > MaxRepairAttempts
  /\ \A e \in seen : Genuine(e)

LEMMA CountersOK ==
  ASSUME TypeInv
  PROVE  /\ setbacks \in Nat /\ repairs \in Nat /\ covered \in Nat /\ base \in Nat
         /\ setbacks + 1 \in Nat /\ setbacks + 1 > setbacks
<1>1. setbacks \in Nat /\ repairs \in Nat /\ covered \in Nat /\ base \in Nat
  BY JoinAssumption DEF TypeInv, TypeOK
<1> QED
  BY <1>1

LEMMA CountedSame ==
  ASSUME log' = log, base' = base
  PROVE  Counted' <=> Counted
BY DEF Counted, PagesFit, WindowsFit, PublicBetween, Event

\* What is read above a later start, or of a shorter journal, fits where more does.
LEMMA CountedLess ==
  ASSUME TypeInv, log' = log \/ Commit, base' \in Nat, base' <= base
  PROVE  Counted' => Counted
<1>0. log \in Seq(Records) /\ Len(log) \in Nat /\ DOMAIN log = 1..Len(log) /\ base \in Nat
  BY JoinTypes
<1>1. Len(log') \in Nat /\ Len(log') >= Len(log) /\ \A s \in 1..Len(log) : log'[s] = log[s]
  <2>1. CASE log' = log
    BY <1>0, <2>1
  <2>2. CASE Commit
    <3>1. PICK r \in Records : log' = Append(log, r)
      <4>1. PICK public \in BOOLEAN : log' = Append(log, [public |-> public, id |-> cuts])
        BY <2>2 DEF Commit
      <4>2. [public |-> public, id |-> cuts] \in Records
        BY DEF TypeInv, TypeOK, Records
      <4> QED
        BY <4>1, <4>2
    <3>2. /\ Len(Append(log, r)) = Len(log) + 1
          /\ \A s \in 1..Len(log) : Append(log, r)[s] = log[s]
      BY <1>0, AppendProperties
    <3>3. Len(log') = Len(log) + 1
      BY <3>1, <3>2
    <3>4. \A s \in 1..Len(log) : log'[s] = log[s]
      BY <3>1, <3>2
    <3> QED
      BY <1>0, <3>3, <3>4
  <2> QED
    BY <2>1, <2>2
<1>2. \A low, high \in 0..Len(log) : PublicBetween(low, high)' = PublicBetween(low, high)
  <2> SUFFICES ASSUME NEW low \in 0..Len(log), NEW high \in 0..Len(log)
               PROVE  PublicBetween(low, high)' = PublicBetween(low, high)
    OBVIOUS
  <2>1. \A x \in (low + 1)..high : log'[x] = log[x]
    BY <1>0, <1>1
  <2> QED
    BY <2>1 DEF PublicBetween, Event
<1>3. PagesFit' => PagesFit
  <2>1. base..Len(log) \subseteq base'..Len(log') /\ base..Len(log) \subseteq 0..Len(log)
    BY <1>0, <1>1
  <2> QED
    BY <1>2, <2>1 DEF PagesFit
<1>4. WindowsFit' => WindowsFit
  <2>1. 0..Len(log) \subseteq 0..Len(log')
    BY <1>0, <1>1
  <2>2. \A tip \in 0..Len(log) : Upper(0, tip - PageLimit) \in 0..Len(log)
    BY <1>0, TailBoundsAssumption DEF Upper
  <2> QED
    BY <1>2, <2>1, <2>2 DEF WindowsFit
<1> QED
  BY <1>0, <1>3, <1>4 DEF Counted

\* Nothing is committed to and nothing is met that was not there.
LEMMA GiveFrame ==
  ASSUME TypeInv, FeedInv, GiveInv, UNCHANGED <<base, repairs>>, log' = log \/ Commit,
         covered' \in Nat, covered' >= covered, setbacks' \in Nat, setbacks' >= setbacks,
         Marked' => Marked \/ setbacks' > setbacks,
         pc' # "threw",
         pc' = "delay" => pc = "delay" /\ UNCHANGED <<link, queue, covered>>,
         pc' = "walk" => pc = "walk" /\ cap' = cap,
         pc' = "emit" => pc = "emit" /\ plan'.next = plan.next /\ plan'.target = plan.target,
         \A e \in seen' : Genuine(e)'
  PROVE  GiveInv'
<1>0. /\ setbacks \in Nat /\ repairs \in Nat /\ covered \in Nat /\ base \in Nat
      /\ base <= covered
  BY CountersOK DEF FeedInv, CursorInJournal
<1>1. Counted' => Counted
  BY <1>0, CountedLess
<1>2. Owed => Owed'
  BY <1>0 DEF Owed
<1>3. Counted => repairs' <= setbacks'
  BY <1>0 DEF GiveInv
<1>4. Counted /\ covered' = base' /\ Marked' => Owed'
  <2> SUFFICES ASSUME Counted, covered' = base, Marked' PROVE Owed'
    OBVIOUS
  <2>1. covered = base
    BY <1>0
  <2>2. CASE Marked
    BY <1>2, <2>1, <2>2 DEF GiveInv
  <2>3. CASE setbacks' > setbacks
    BY <1>0, <2>3 DEF GiveInv, Owed
  <2> QED
    BY <2>2, <2>3
<1>5. pc' = "delay" => ~Marked' /\ ~link'.attached /\ (covered' > base' => repairs' = 0)
  BY DEF GiveInv, Marked
<1>6. pc' = "walk" => cap'.covered < cap'.tip /\ (Counted => Owed' \/ WithinBudget(cap)')
  <2>1. cap' = cap => (WithinBudget(cap)' <=> WithinBudget(cap))
    BY DEF WithinBudget, WindowEdge
  <2> QED
    BY <1>2, <2>1 DEF GiveInv
<1> QED
  BY <1>1, <1>3, <1>4, <1>5, <1>6 DEF GiveInv

LEMMA NewQueueUnmarked == ~NewQueue.repair /\ Pending(NewQueue) = <<>> /\ DOMAIN Pending(NewQueue) = {}
BY DEF Pending, NewQueue

\* A repair is counted against a fault, or forgiven.
LEMMA RepairGives ==
  ASSUME TypeInv, FeedInv, GiveInv, Repair, setbacks' \in Nat, setbacks' >= setbacks,
         Counted /\ covered = base => repairs < setbacks'
  PROVE  GiveInv'
<1>0. /\ setbacks \in Nat /\ repairs \in Nat /\ covered \in Nat /\ base \in Nat
      /\ base <= covered /\ MaxRepairAttempts \in Nat
  BY CountersOK, JoinAssumption DEF FeedInv, CursorInJournal
<1>1. /\ link' = NoLink /\ queue' = NewQueue /\ seen' = {}
      /\ covered' = covered /\ base' = base
  BY DEF Repair, Teardown
<1>2. ~Marked' /\ ~link'.attached
  BY <1>1, NewQueueUnmarked DEF Marked, NoLink
<1>3. Counted' <=> Counted
  <2>1. log' = log
    BY DEF Repair, Teardown
  <2> QED
    BY <1>1, <2>1, CountedSame
<1>4. \/ pc' = "returned" /\ repairs' = repairs
      \/ /\ repairs' = IF covered > base THEN 0 ELSE repairs + 1
         /\ pc' = "delay" \/ (pc' = "threw" /\ repairs' > MaxRepairAttempts)
  BY DEF Repair
<1>5. Counted => repairs' <= setbacks'
  <2>1. CASE covered > base
    BY <1>0, <1>4, <2>1 DEF GiveInv
  <2>2. CASE covered = base
    BY <1>0, <1>4, <2>2
  <2> QED
    BY <1>0, <2>1, <2>2
<1>6. pc' = "delay" => (covered' > base' => repairs' = 0)
  BY <1>1, <1>4
<1>7. pc' \notin {"walk", "emit"} /\ (pc' = "threw" => repairs' > MaxRepairAttempts)
  BY <1>4
<1> QED
  BY <1>1, <1>2, <1>3, <1>5, <1>6, <1>7 DEF GiveInv

LEMMA ReturnGives ==
  ASSUME TypeInv, GiveInv, Return, setbacks' \in Nat, setbacks' >= setbacks
  PROVE  GiveInv'
<1>0. setbacks \in Nat /\ repairs \in Nat
  BY CountersOK
<1>1. /\ link' = NoLink /\ queue' = NewQueue /\ seen' = {} /\ pc' = "returned"
      /\ covered' = covered /\ base' = base /\ repairs' = repairs
  BY DEF Return, Teardown
<1>2. ~Marked' /\ (Counted' <=> Counted)
  <2>1. log' = log
    BY DEF Return, Teardown
  <2> QED
    BY <1>1, <2>1, CountedSame, NewQueueUnmarked DEF Marked, NoLink
<1>3. Counted => repairs' <= setbacks'
  BY <1>0, <1>1 DEF GiveInv
<1> QED
  BY <1>1, <1>2, <1>3 DEF GiveInv

LEMMA StartGives ==
  ASSUME TypeInv, FeedInv, GiveInv, StartGeneration
  PROVE  GiveInv'
<1>0. /\ setbacks \in Nat /\ repairs \in Nat /\ covered \in Nat /\ base \in Nat
      /\ base <= covered /\ floor \in -1..MaxSeq /\ MaxSeq \in Nat
  BY CountersOK, JoinTypes, JoinAssumption DEF FeedInv, CursorInJournal
<1>1. /\ pc = "delay" /\ pc' = "ready" /\ base' = covered'
      /\ UNCHANGED <<log, link, setbacks, repairs, queue, seen>>
      /\ covered' = covered \/ (floor < covered /\ covered' = floor /\ floor # NoFloor)
  BY <1>0 DEF StartGeneration, factoryVars, genVars
<1>2. ~Marked'
  BY <1>1 DEF GiveInv, Marked
<1>3. Counted' => repairs <= setbacks
  <2>1. base' \in Nat /\ base' <= covered
    BY <1>0, <1>1 DEF NoFloor
  <2>2. CASE covered > base
    BY <1>0, <1>1, <2>2 DEF GiveInv
  <2>3. CASE covered = base
    BY <1>0, <1>1, <2>1, <2>3, CountedLess DEF GiveInv
  <2> QED
    BY <1>0, <2>2, <2>3
<1>4. \A e \in seen' : Genuine(e)'
  BY <1>1, SameJournal DEF GiveInv
<1> QED
  BY <1>1, <1>2, <1>3, <1>4 DEF GiveInv

\* What asks for no repair and does not overflow leaves no mark.
LEMMA PushUnmarked ==
  ASSUME TypeInv, FeedInv, NEW item \in Items, item.kind # "repair", ~Overflows(queue, item),
         queue' = Push(queue, item), link'.lost = link.lost, link'.reset = link.reset
  PROVE  Marked' => Marked
<1>1. /\ queue \in Queues /\ QueueShape(queue)
  BY JoinTypes DEF FeedInv, QueueInv
<1>2. Pending(queue') = Append(Pending(queue), item) /\ (queue'.repair <=> queue.repair)
  BY <1>1, PushPending
<1>3. Pending(queue) \in Seq(Items)
  BY <1>1, PendingSeq
<1>4. \A i \in DOMAIN Append(Pending(queue), item) :
        \/ Append(Pending(queue), item)[i] = item
        \/ i \in DOMAIN Pending(queue) /\ Append(Pending(queue), item)[i] = Pending(queue)[i]
  BY <1>3, AppendProperties, LenProperties
<1> QED
  BY <1>2, <1>4 DEF Marked

LEMMA GenuineGrows ==
  ASSUME TypeInv, Commit
  PROVE  \A e \in Events : Genuine(e) => Genuine(e)'
<1>1. log \in Seq(Records) /\ Len(log) \in Nat /\ DOMAIN log = 1..Len(log)
  BY JoinTypes
<1>2. PICK r \in Records : log' = Append(log, r)
  <2>1. PICK public \in BOOLEAN : log' = Append(log, [public |-> public, id |-> cuts])
    BY DEF Commit
  <2>2. [public |-> public, id |-> cuts] \in Records
    BY DEF TypeInv, TypeOK, Records
  <2> QED
    BY <2>1, <2>2
<1>3. \A s \in 1..Len(log) : s \in DOMAIN log' /\ log'[s] = log[s]
  BY <1>1, <1>2, AppendProperties, LenProperties
<1> QED
  BY <1>1, <1>3 DEF Genuine, Published

LEMMA FactoryGives ==
  ASSUME TypeInv, ~Stopped, FeedInv, GiveInv, Factory, ~Truncate
  PROVE  GiveInv'
<1> USE JoinAssumption
<1>0. /\ setbacks \in Nat /\ repairs \in Nat /\ covered \in Nat /\ base \in Nat
      /\ log \in Seq(Records) /\ Len(log) <= MaxSeq /\ Len(log) \in Nat
      /\ link \in Links /\ queue \in Queues /\ link.sent \in Nat /\ pc # "threw"
      /\ seen \subseteq Events /\ setbacks + 1 \in Nat /\ setbacks + 1 > setbacks
  <2>1. pc # "threw"
    BY DEF Stopped
  <2> QED
    BY <2>1, CountersOK, JoinTypes, Zenon
<1>a. link.attached \/ Marked => pc # "delay"
  BY DEF GiveInv
<1>g. log' = log /\ seen' = seen => \A e \in seen' : Genuine(e)'
  BY SameJournal DEF GiveInv
<1>f. ASSUME UNCHANGED <<log, pc, covered, base, repairs, cap, plan, seen>>, pc # "delay",
             \/ setbacks' = setbacks + 1
             \/ setbacks' = setbacks /\ (Marked' => Marked)
      PROVE  GiveInv'
  BY <1>0, <1>g, <1>f, GiveFrame
<1>1. CASE Commit
  <2>1. UNCHANGED <<link, setbacks, pc, covered, base, repairs, queue, cap, plan, seen>>
    BY <1>1 DEF Commit, joinVars, genVars
  <2>2. Marked' <=> Marked
    BY <2>1 DEF Marked
  <2>3. \A e \in seen' : Genuine(e)'
    BY <1>0, <1>1, <2>1, GenuineGrows DEF GiveInv
  <2> QED
    BY <1>0, <1>1, <2>1, <2>2, <2>3, GiveFrame
<1>2. CASE Attach \/ LateReset
  <2>1. /\ UNCHANGED <<log, setbacks, pc, covered, base, repairs, queue, cap, plan, seen>>
        /\ link'.lost = link.lost /\ link'.reset = link.reset
        /\ pc = "ready" \/ link' = link
    BY <1>0, <1>2 DEF Attach, LateReset, OnReset, Links, joinVars, genVars
  <2>2. Marked' <=> Marked
    BY <2>1 DEF Marked
  <2>3. \A e \in seen' : Genuine(e)'
    BY <1>g, <2>1
  <2> QED
    BY <1>0, <2>1, <2>2, <2>3, GiveFrame
<1>3. CASE LoseRecords \/ Republish \/ LinkFault
  <2>1. /\ UNCHANGED <<log, pc, covered, base, repairs, cap, plan, seen>>
        /\ setbacks' = setbacks + 1 /\ link.attached
    BY <1>3 DEF LoseRecords, Republish, LinkFault, joinVars, genVars
  <2> QED
    BY <1>a, <1>f, <2>1
<1>4. CASE SendReset \/ DeliverReset
  <2>1. /\ UNCHANGED <<log, setbacks, pc, covered, base, repairs, cap, plan, seen>>
        /\ link.lost \/ link.reset # NoReset
    BY <1>4 DEF SendReset, DeliverReset, joinVars, genVars
  <2>2. Marked
    BY <2>1 DEF Marked
  <2> QED
    BY <1>a, <1>f, <2>1, <2>2
<1>5. CASE Publish
  <2>1. PICK e \in PublicBetween(link.sent, Len(log)) :
          /\ AdmitEnduring(e)
          /\ link' = [link EXCEPT !.sent = e.seq, !.run = e.seq]
    BY <1>5 DEF Publish
  <2>2. /\ UNCHANGED <<log, pc, covered, base, repairs, cap, plan, seen>>
        /\ link'.lost = link.lost /\ link'.reset = link.reset /\ link.attached
    BY <1>0, <1>5, <2>1 DEF Publish, Links, joinVars
  <2>3. Enduring(e) \in Items /\ Enduring(e).kind # "repair"
    <3>1. e \in Events
      BY <1>0, <2>1, PublicBetweenOK
    <3> QED
      BY <3>1, ItemsOK DEF Enduring
  <2>4. CASE UNCHANGED <<queue, setbacks>>
    <3>1. Marked' <=> Marked
      BY <2>2, <2>4 DEF Marked
    <3> QED
      BY <1>a, <1>f, <2>2, <2>4, <3>1
  <2>5. CASE Signal(Enduring(e))
    <3>1. CASE Overflows(queue, Enduring(e))
      BY <1>a, <1>f, <2>2, <2>5, <3>1 DEF Signal
    <3>2. CASE ~Overflows(queue, Enduring(e))
      <4>1. queue' = Push(queue, Enduring(e)) /\ setbacks' = setbacks
        BY <2>5, <3>2 DEF Signal
      <4>2. Marked' => Marked
        BY <2>2, <2>3, <3>2, <4>1, PushUnmarked
      <4> QED
        BY <1>a, <1>f, <2>2, <4>1, <4>2
    <3> QED
      BY <3>1, <3>2
  <2> QED
    BY <2>1, <2>4, <2>5 DEF AdmitEnduring
<1>6. CASE Hint
  <2>1. /\ UNCHANGED <<log, link, pc, covered, base, repairs, cap, plan, seen>> /\ link.attached
        /\ queue' = Push(queue, HintItem) /\ ~Overflows(queue, HintItem) /\ setbacks' = setbacks
    BY <1>6 DEF Hint, Signal, joinVars
  <2>2. HintItem \in Items /\ HintItem.kind # "repair"
    BY ItemsOK DEF HintItem
  <2>3. Marked' => Marked
    BY <2>1, <2>2, PushUnmarked
  <2> QED
    BY <1>a, <1>f, <2>1, <2>3
<1> QED
  BY <1>1, <1>2, <1>3, <1>4, <1>5, <1>6 DEF Factory

\* A page of the journal names no more records than it spans.
LEMMA PublicBetweenCount ==
  ASSUME log \in Seq(Records), NEW low \in Nat, NEW high \in Nat, low <= high
  PROVE  /\ Cardinality(PublicBetween(low, high)) \in Nat
         /\ Cardinality(PublicBetween(low, high)) <= high - low
<1> DEFINE S == {x \in (low + 1)..high : log[x].public}
           T == {Event(x) : x \in S}
           f == [x \in S |-> Event(x)]
<1>1. /\ IsFiniteSet((low + 1)..high)
      /\ Cardinality((low + 1)..high) = high - low
  <2>1. low + 1 \in Int /\ high \in Int
    OBVIOUS
  <2>2. Cardinality((low + 1)..high) = IF low + 1 > high THEN 0 ELSE high - (low + 1) + 1
    BY <2>1, FS_Interval
  <2>3. IsFiniteSet((low + 1)..high)
    BY <2>1, FS_Interval
  <2>4. (IF low + 1 > high THEN 0 ELSE high - (low + 1) + 1) = high - low
    OBVIOUS
  <2> QED
    BY <2>2, <2>3, <2>4
<1>2. S \in SUBSET ((low + 1)..high)
  OBVIOUS
<1>3. IsFiniteSet(S) /\ Cardinality(S) <= Cardinality((low + 1)..high)
  BY <1>1, <1>2, FS_Subset
<1>4. f \in Surjection(S, T)
  BY DEF Surjection
<1>5. IsFiniteSet(T) /\ Cardinality(T) <= Cardinality(S)
  BY <1>3, <1>4, FS_Surjection
<1>6. Cardinality(S) \in Nat /\ Cardinality(T) \in Nat
  BY <1>3, <1>5, FS_CardinalityType
<1>7. PublicBetween(low, high) = T
  BY DEF PublicBetween
<1> HIDE DEF S, T, f
<1> QED
  BY <1>1, <1>3, <1>5, <1>6, <1>7

\* What a window has spent up to a page, and the page, stay within its span.
LEMMA SpentInWindow ==
  ASSUME NEW window \in Int, NEW start \in Int, NEW to \in Int, NEW tip \in Int,
         NEW spent \in Int, NEW more \in Int, NEW limit \in Int,
         spent <= start - window, more <= to - start, to <= tip, tip - window <= limit
  PROVE  /\ spent + more <= to - window /\ spent + more <= limit
         /\ to < tip => spent + more < limit
<1>1. spent + more <= to - window
  OBVIOUS
<1>2. to - window <= limit /\ (to < tip => to - window < limit)
  OBVIOUS
<1> QED
  BY <1>1, <1>2

\* An honest page either completes the capture, or leaves it within its
\* budgets, or is one too many for a capture that has a prefix to commit.
LEMMA AdmitGives ==
  ASSUME TypeInv, NEW c \in Captures, Covers(c), c.covered < c.tip, Counted,
         NEW start \in Nat, start <= c.tip, WindowEdge(c.tip) <= start, c.covered <= start,
         NEW page \in Pages, page \in HonestPages(start + 1, c.tip),
         \A k \in c.cursors : k <= start,
         base = 0 => /\ c.pages <= start - WindowEdge(c.tip)
                     /\ c.count <= start - WindowEdge(c.tip)
                     /\ c.bytes <= 2 * c.pages + Cardinality(BytesOf(c.events))
                     /\ \A e \in c.events : e.seq > WindowEdge(c.tip)
                     /\ c.pages = 0 \/ start < c.tip,
         base > 0 => c.covered > base \/ (c.count = 0 /\ c.bytes = 0),
         NEW n, n = Admit(c, page)
  PROVE  \/ n.step = "complete"
         \/ n.step = "continue" /\ WithinBudget(n) /\ n.covered < n.tip
         \/ n.step \in BudgetRefusals /\ base > 0 /\ n.covered > base
<1> USE JoinAssumption, TailBoundsAssumption
<1> DEFINE size == Cardinality(page.events)
<1>0. /\ log \in Seq(Records) /\ Len(log) \in Nat /\ base \in Nat
      /\ c.covered \in Int /\ c.tip \in Nat /\ c.tip <= Len(log) /\ Len(log) <= MaxSeq
      /\ c.pages \in Nat /\ c.count \in Nat /\ c.bytes \in Nat
  <2>1. /\ c.covered \in Int /\ c.tip \in Nat
        /\ c.pages \in Nat /\ c.count \in Nat /\ c.bytes \in Nat
    BY DEF Captures
  <2>2. c.tip <= Len(log)
    BY DEF Covers
  <2>3. log \in Seq(Records) /\ Len(log) \in Nat /\ base \in Nat /\ Len(log) <= MaxSeq
    BY JoinTypes
  <2> QED
    BY <2>1, <2>2, <2>3
<1>1. /\ WindowEdge(c.tip) \in Nat
      /\ base > 0 => WindowEdge(c.tip) = base
      /\ base = 0 => c.tip - WindowEdge(c.tip) <= PageLimit
  <2>1. c.tip \in Nat /\ base \in Nat /\ PageLimit \in Nat
    BY <1>0
  <2> QED
    BY <2>1 DEF WindowEdge, Upper
<1>2. PICK to \in IF start + 1 > c.tip THEN {c.tip} ELSE (start + 1)..c.tip :
        page = Page(start + 1, c.tip, to) /\ size <= PageLimit
  BY DEF HonestPages
<1>3. /\ to \in Nat /\ start <= to /\ to <= c.tip /\ to > c.covered
      /\ to < c.tip => to > start
  BY <1>0, <1>2
<1>4. /\ page.covered = to /\ page.events = PublicBetween(start, to)
      /\ page.cursor = IF to < c.tip THEN to ELSE NoCursor
  <2>1. start + 1 - 1 = start
    OBVIOUS
  <2> QED
    BY <1>2, <2>1 DEF Page
<1>5. size \in Nat /\ size <= to - start
  BY <1>0, <1>3, <1>4, PublicBetweenCount
<1> HIDE DEF size
<1>6. PageFault(c, page) \in {"none", "event_budget", "byte_budget"}
  <2>1. ~Conflict(c.events \cup page.events)
    <3>1. \A e \in c.events \cup page.events : Genuine(e)
      <4>1. \A e \in page.events : Genuine(e)
        BY <1>0, <1>3, <1>4, PublishedOK
      <4> QED
        BY <4>1 DEF Covers
    <3> QED
      BY <3>1 DEF Conflict, Genuine
  <2>2. ~(Cardinality(page.events) > PageLimit)
    BY <1>2, <1>5 DEF size
  <2>3. ~(page.covered <= c.covered) /\ ~(page.covered > c.tip)
    <3>1. c.covered \in Int /\ c.tip \in Nat /\ to \in Nat /\ to <= c.tip /\ to > c.covered
      BY <1>0, <1>3
    <3>2. ~(to <= c.covered) /\ ~(to > c.tip)
      BY <3>1
    <3> QED
      BY <1>4, <3>2
  <2> QED
    BY <2>1, <2>2, <2>3 DEF PageFault
<1>i. /\ start \in Int /\ to \in Int /\ c.tip \in Int /\ WindowEdge(c.tip) \in Int /\ size \in Int
      /\ c.pages \in Int /\ c.count \in Int /\ c.bytes \in Int /\ 1 \in Int /\ PageLimit \in Int
  <2>1. \A k \in Nat : k \in Int
    OBVIOUS
  <2>2. PageLimit \in Nat /\ 1 \in Nat
    OBVIOUS
  <2> QED
    BY <1>0, <1>1, <1>3, <1>5, <2>1, <2>2, Zenon
<1>w. PageBytes(page) \in Nat /\ PageBytes(page) <= 2 + Cardinality(BytesOf(page.events))
  BY PageWeighs
<1>v. /\ page.events \in SUBSET Events /\ IsFiniteSet(page.events)
      /\ Cardinality(BytesOf(page.events)) \in Nat
  BY BytesAre DEF Pages
<1>s. base = 0 => c.count + size <= to - WindowEdge(c.tip) /\ c.count + size <= PageLimit
  <2> SUFFICES ASSUME base = 0
               PROVE  c.count + size <= to - WindowEdge(c.tip) /\ c.count + size <= PageLimit
    OBVIOUS
  <2>1. c.count <= start - WindowEdge(c.tip) /\ c.tip - WindowEdge(c.tip) <= PageLimit
    BY <1>1
  <2>e. to <= c.tip /\ size <= to - start
    BY <1>3, <1>5
  <2> DEFINE spent == c.count  window == WindowEdge(c.tip)  tip == c.tip
  <2>2. /\ window \in Int /\ tip \in Int /\ spent \in Int /\ spent <= start - window
        /\ to <= tip /\ tip - window <= PageLimit
    BY <1>i, <2>1, <2>e
  <2> HIDE DEF spent, window, tip
  <2>3. spent + size <= to - window /\ spent + size <= PageLimit
    BY <1>i, <2>e, <2>2
  <2> QED
    BY <2>3 DEF spent, window, tip
<1>t. base = 0 =>
        /\ c.bytes + PageBytes(page)
             <= 2 * (c.pages + 1) + Cardinality(BytesOf(c.events \cup page.events))
        /\ c.bytes + PageBytes(page) <= MaxBytes
        /\ \A e \in c.events \cup page.events : e.seq > WindowEdge(c.tip)
  <2> SUFFICES ASSUME base = 0
               PROVE  /\ c.bytes + PageBytes(page)
                           <= 2 * (c.pages + 1) + Cardinality(BytesOf(c.events \cup page.events))
                      /\ c.bytes + PageBytes(page) <= MaxBytes
                      /\ \A e \in c.events \cup page.events : e.seq > WindowEdge(c.tip)
    OBVIOUS
  <2> DEFINE window == PublicBetween(WindowEdge(c.tip), c.tip)
  <2>1. /\ c.tip \in 0..Len(log) /\ WindowEdge(c.tip) \in Nat /\ WindowEdge(c.tip) \in Int
        /\ 0 <= WindowEdge(c.tip) /\ c.tip \in Int /\ c.tip <= Len(log)
    BY <1>0, <1>1
  <2>2. window \in SUBSET Events /\ IsFiniteSet(window)
    BY <1>0, <2>1, PublicBetweenOK
  <2>3. \A e \in page.events : e \in window /\ e.seq > start /\ e.seq > WindowEdge(c.tip)
    <3> SUFFICES ASSUME NEW e \in page.events
                 PROVE  e \in window /\ e.seq > start /\ e.seq > WindowEdge(c.tip)
      OBVIOUS
    <3>1. start \in Int /\ to \in Int /\ 0 <= start /\ to <= Len(log)
      BY <1>0, <1>3
    <3>2. PICK s \in Published : e = Event(s) /\ start < s /\ s <= to
      BY <1>0, <1>4, <3>1, PublishedOK
    <3>3. s \in Int /\ e.seq = s
      BY <1>0, <3>2, PublishedOK
    <3>4. WindowEdge(c.tip) < s /\ s <= c.tip
      BY <1>3, <2>1, <3>1, <3>2, <3>3
    <3>5. e \in window
      BY <1>0, <2>1, <3>2, <3>4, PublishedOK
    <3> QED
      BY <3>2, <3>3, <3>4, <3>5
  <2>4. \A e \in c.events : e \in window /\ e.seq <= start /\ e.seq \in Int
    <3> SUFFICES ASSUME NEW e \in c.events
                 PROVE  e \in window /\ e.seq <= start /\ e.seq \in Int
      OBVIOUS
    <3>1. Genuine(e) /\ e.seq <= c.covered /\ e.seq > WindowEdge(c.tip) /\ e \in Events
      BY DEF Covers, Captures
    <3>2. e.seq \in Int /\ e = Event(e.seq) /\ e.seq \in Published
      BY <1>0, <3>1, PublishedOK DEF Genuine, Events
    <3>3. e.seq <= start /\ e.seq <= c.tip
      <4>1. c.covered <= start /\ start <= c.tip /\ start \in Int /\ c.covered \in Int /\ c.tip \in Int
        BY <1>0
      <4> QED
        BY <3>1, <3>2, <4>1
    <3>4. e \in window
      BY <1>0, <2>1, <3>1, <3>2, <3>3, PublishedOK
    <3> QED
      BY <3>2, <3>3, <3>4
  <2>5. c.events \in SUBSET window /\ page.events \in SUBSET window /\ c.events \cap page.events = {}
    BY <2>3, <2>4
  <2>6. c.events \in SUBSET Events /\ IsFiniteSet(c.events)
    BY <2>2, <2>5, FS_Subset
  <2>7. c.events \cup page.events \in SUBSET window
    BY <2>5
  <2> DEFINE had == Cardinality(BytesOf(c.events))
             more == Cardinality(BytesOf(page.events))
             both == Cardinality(BytesOf(c.events \cup page.events))
             whole == Cardinality(BytesOf(window))
             bytes == c.bytes
             pages == c.pages
             weight == PageBytes(page)
  <2>8. had \in Nat /\ more \in Nat /\ whole \in Nat /\ bytes \in Nat /\ pages \in Nat /\ weight \in Nat
    BY <1>0, <1>v, <1>w, <2>2, <2>6, BytesAre
  <2>9. both = had + more
    BY <1>v, <2>5, <2>6, BytesOfBoth
  <2>10. both <= whole
    BY <2>2, <2>7, BytesOfMore
  <2>11. bytes <= 2 * pages + had /\ weight <= 2 + more
    BY <1>w
  <2>12. 2 * PageLimit + whole <= MaxBytes
    <3>1. WindowEdge(c.tip) = Upper(0, c.tip - PageLimit)
      BY DEF WindowEdge
    <3> QED
      BY <2>1, <3>1 DEF Counted, WindowsFit
  <2>13. pages + 1 <= PageLimit
    <3>1. CASE c.pages = 0
      BY <3>1
    <3>2. CASE start < c.tip
      <4>1. c.pages <= start - WindowEdge(c.tip) /\ c.tip - WindowEdge(c.tip) <= PageLimit
        BY <1>1
      <4> DEFINE edge == WindowEdge(c.tip)  tip == c.tip
      <4>2. edge \in Int /\ tip \in Int /\ pages <= start - edge /\ tip - edge <= PageLimit /\ start < tip
        BY <1>i, <3>2, <4>1
      <4> HIDE DEF edge, tip, pages
      <4> QED
        BY <2>8, <4>2
    <3> QED
      BY <3>1, <3>2
  <2> HIDE DEF had, more, both, whole, bytes, pages, weight
  <2>14. bytes + weight <= 2 * (pages + 1) + both /\ bytes + weight <= MaxBytes
    BY <2>8, <2>9, <2>10, <2>11, <2>12, <2>13
  <2> QED
    BY <2>3, <2>14 DEF both, bytes, pages, weight
<1>b. c.count + size <= PageLimit /\ c.bytes + PageBytes(page) <= MaxBytes => PageFault(c, page) = "none"
  <2>1. ASSUME c.count + size <= PageLimit, c.bytes + PageBytes(page) <= MaxBytes
        PROVE  /\ ~(c.count + Cardinality(page.events) > MaxEvents)
               /\ ~(c.bytes + PageBytes(page) > MaxBytes)
    <3>1. PageLimit <= MaxEvents
      BY DEF Counted, PagesFit
    <3> QED
      BY <1>i, <1>w, <2>1, <3>1 DEF size
  <2> QED
    BY <1>6, <2>1 DEF PageFault
<1>7. PageFault(c, page) # "none" => base > 0 /\ c.covered > base
  <2>1. CASE base = 0
    BY <1>b, <1>s, <1>t, <2>1
  <2>2. CASE base > 0 /\ c.count = 0 /\ c.bytes = 0
    <3>1. c.count + size <= PageLimit
      BY <1>2, <1>5, <2>2
    <3>2. start \in base..Len(log) /\ to \in base..Len(log)
      BY <1>0, <1>1, <1>3, <2>2
    <3>3. 2 + Cardinality(BytesOf(page.events)) <= MaxBytes
      BY <1>2, <1>4, <3>2 DEF Counted, PagesFit, size
    <3>4. c.bytes + PageBytes(page) <= MaxBytes
      BY <1>v, <1>w, <2>2, <3>3
    <3> QED
      BY <1>b, <3>1, <3>4
  <2> QED
    BY <1>0, <2>1, <2>2
<1>8. CASE PageFault(c, page) # "none"
  <2>1. n.step = PageFault(c, page) /\ n.covered = c.covered
    BY <1>8 DEF Admit, Captures
  <2> QED
    BY <1>6, <1>7, <1>8, <2>1 DEF BudgetRefusals
<1>9. CASE PageFault(c, page) = "none"
  <2>1. /\ n.tip = c.tip /\ n.covered = to /\ n.cursors = c.cursors \cup {page.cursor}
        /\ n.pages = c.pages + 1 /\ n.count = c.count + size
        /\ n.bytes = c.bytes + PageBytes(page) /\ n.events = c.events \cup page.events
        /\ n.step = NextStep(c, page)
    BY <1>4, <1>9 DEF Admit, size
  <2>2. CASE to = c.tip
    BY <1>4, <2>1, <2>2 DEF NextStep
  <2>3. CASE to < c.tip
    <3>1. page.cursor = to /\ to # NoCursor /\ to \notin c.cursors /\ to > start
      BY <1>3, <1>4, <2>3 DEF NoCursor
    <3>2. n.step = IF c.pages + 1 >= MaxPages THEN "page_budget" ELSE "continue"
      BY <1>3, <1>4, <2>1, <2>3, <3>1 DEF NextStep
    <3>3. to > base
      BY <1>0, <1>1, <3>1
    <3>4. base = 0 => /\ c.pages + 1 <= to - WindowEdge(c.tip) /\ c.pages + 1 < PageLimit
      <4> SUFFICES ASSUME base = 0
                   PROVE  c.pages + 1 <= to - WindowEdge(c.tip) /\ c.pages + 1 < PageLimit
        OBVIOUS
      <4>1. 1 <= to - start
        BY <1>i, <3>1
      <4>2. c.pages <= start - WindowEdge(c.tip) /\ c.tip - WindowEdge(c.tip) <= PageLimit
        BY <1>1
      <4> QED
        BY <1>3, <1>i, <2>3, <4>1, <4>2, SpentInWindow, Zenon
    <3>5. base = 0 => c.pages + 1 < MaxPages
      <4>1. base = 0 => PageLimit <= MaxPages
        BY DEF Counted, WindowsFit
      <4> QED
        BY <1>i, <3>4, <4>1
    <3>6. \A k \in n.cursors : k <= to
      <4>1. \A k \in c.cursors : k \in Nat
        BY DEF Captures
      <4>2. \A k \in c.cursors : k <= to
        BY <1>3, <4>1
      <4> QED
        BY <1>3, <2>1, <3>1, <4>2
    <3>7. WithinBudget(n)
      BY <1>s, <1>t, <2>1, <3>3, <3>4, <3>6 DEF WithinBudget
    <3>8. CASE c.pages + 1 >= MaxPages
      BY <1>0, <2>1, <3>2, <3>3, <3>5, <3>8 DEF BudgetRefusals
    <3>9. CASE ~(c.pages + 1 >= MaxPages)
      BY <2>1, <2>3, <3>2, <3>7, <3>9
    <3> QED
      BY <3>8, <3>9
  <2> QED
    BY <1>0, <1>3, <2>2, <2>3
<1> QED
  BY <1>8, <1>9

\* The page in hand completes the capture, takes it on within its budgets, or
\* refuses it over a prefix it has to commit -- unless a fault is owed for.
LEMMA PageGives ==
  ASSUME TypeInv, FeedInv, GiveInv, covered = base,
         FirstPage \/ NextPage
  PROVE  /\ setbacks' \in Nat /\ setbacks' >= setbacks
         /\ \E c : /\ Sound(c) /\ Covers(c) /\ Advance(c)
                   /\ c.tip = IF pc = "walk" THEN cap.tip ELSE Len(log)
                   /\ c.step = "complete" => c.covered = c.tip
                   /\ c.step = "continue" => c.covered < c.tip
                   /\ Counted => \/ repairs < setbacks'
                                 \/ c.step = "complete"
                                 \/ c.step = "continue" /\ WithinBudget(c)
                                 \/ c.step \in BudgetRefusals /\ base > 0 /\ c.covered > base
<1> USE JoinAssumption, TailBoundsAssumption
<1>0. /\ setbacks \in Nat /\ repairs \in Nat /\ base \in Nat /\ Len(log) \in Nat
      /\ base <= Len(log) /\ WalkInv
  BY CountersOK, JoinTypes DEF FeedInv, CursorInJournal
<1>1. PICK read, start, page : Reads(read, start, page)
  BY <1>0, PageReads
<1>2. /\ read \in Captures /\ Covers(read) /\ read.step = "continue"
      /\ start \in Nat /\ start <= read.tip /\ page \in Pages
      /\ IF pc = "walk" THEN read = cap /\ start = cap.covered
         ELSE read = Unread(Len(log)) /\ start = WindowEdge(Len(log))
      /\ Arrives(page, start + 1, read.tip)
  BY <1>1 DEF Reads
<1>3. PICK c : c = Admit(read, page)
  OBVIOUS
<1>4. /\ Sound(c) /\ Covers(c) /\ Advance(c) /\ c.tip = read.tip
      /\ c.step = "complete" => c.covered = c.tip
  BY <1>1, <1>3 DEF Reads
<1>5. read.tip = IF pc = "walk" THEN cap.tip ELSE Len(log)
  BY <1>2 DEF Unread
<1>6. /\ c.covered \in Int /\ c.tip \in Nat /\ c.covered <= c.tip
      /\ read.covered \in Int /\ read.tip \in Nat /\ read.pages \in Nat
  BY <1>2, <1>4 DEF Sound, Captures, Covers
<1>7. c.step = "continue" => c.covered < c.tip
  <2>1. CASE PageFault(read, page) # "none"
    <3>1. c.step = PageFault(read, page)
      BY <1>2, <1>3, <2>1 DEF Admit, Captures
    <3>2. PageFault(read, page) # "continue"
      BY DEF PageFault
    <3> QED
      BY <3>1, <3>2
  <2>2. CASE PageFault(read, page) = "none"
    <3>1. c.step = NextStep(read, page) /\ c.covered = page.covered
      BY <1>3, <2>2 DEF Admit
    <3>2. NextStep(read, page) = "continue" => page.covered # read.tip
      BY DEF NextStep
    <3> QED
      BY <1>4, <1>6, <3>1, <3>2
  <2> QED
    BY <2>1, <2>2
<1>8. /\ setbacks' \in Nat /\ setbacks' >= setbacks
      /\ \/ page \in HonestPages(start + 1, read.tip)
         \/ setbacks' = setbacks + 1
  BY <1>0, <1>2 DEF Arrives
<1>9. ASSUME Counted, ~(repairs < setbacks')
      PROVE  \/ c.step = "complete"
             \/ c.step = "continue" /\ WithinBudget(c)
             \/ c.step \in BudgetRefusals /\ base > 0 /\ c.covered > base
  <2>1. repairs <= setbacks /\ ~Owed
    BY <1>0, <1>8, <1>9 DEF GiveInv, Owed
  <2>2. page \in HonestPages(start + 1, read.tip)
    BY <1>0, <1>8, <1>9, <2>1
  <2>3. WindowEdge(read.tip) \in Nat /\ (base > 0 => WindowEdge(read.tip) = base)
    BY <1>0, <1>6 DEF WindowEdge, Upper
  <2>4. CASE pc = "walk"
    <3>1. read = cap /\ start = cap.covered /\ cap.covered < cap.tip /\ WithinBudget(cap)
      BY <1>2, <1>9, <2>1, <2>4 DEF GiveInv
    <3>2. WindowEdge(read.tip) <= start
      BY <1>0, <1>2, <1>6, <2>3, <3>1 DEF WithinBudget
    <3>3. /\ \A k \in read.cursors : k <= start
          /\ base = 0 => /\ read.pages <= start - WindowEdge(read.tip)
                         /\ read.count <= start - WindowEdge(read.tip)
                         /\ read.bytes <= 2 * read.pages + Cardinality(BytesOf(read.events))
                         /\ \A e \in read.events : e.seq > WindowEdge(read.tip)
          /\ read.covered > base /\ start < read.tip
      BY <3>1 DEF WithinBudget
    <3>4. read.covered <= start
      BY <1>6, <3>1
    <3> QED
      BY <1>2, <1>3, <1>4, <1>9, <2>2, <3>1, <3>2, <3>3, <3>4, AdmitGives
  <2>5. CASE pc # "walk"
    <3>1. /\ read.covered = -1 /\ read.cursors = {} /\ read.pages = 0 /\ read.count = 0
          /\ read.bytes = 0 /\ read.events = {} /\ read.tip = Len(log) /\ start = WindowEdge(read.tip)
      BY <1>2, <2>5 DEF Unread
    <3>2. start - WindowEdge(read.tip) = 0 /\ read.covered < read.tip
      BY <1>2, <1>6, <2>3, <3>1
    <3>3. /\ \A k \in read.cursors : k <= start
          /\ base = 0 => /\ read.pages <= start - WindowEdge(read.tip)
                         /\ read.count <= start - WindowEdge(read.tip)
                         /\ read.bytes <= 2 * read.pages + Cardinality(BytesOf(read.events))
                         /\ \A e \in read.events : e.seq > WindowEdge(read.tip)
          /\ read.covered <= start /\ WindowEdge(read.tip) <= start
      <4>1. BytesOf({}) = {} /\ Cardinality(BytesOf({})) = 0
        BY FS_EmptySet DEF BytesOf
      <4> QED
        BY <1>2, <3>1, <3>2, <4>1
    <3>4. base > 0 => read.covered > base \/ (read.count = 0 /\ read.bytes = 0)
      BY <3>1
    <3> QED
      BY <1>2, <1>3, <1>4, <1>9, <2>2, <3>1, <3>2, <3>3, <3>4, AdmitGives
  <2> QED
    BY <2>4, <2>5
<1>10. c.tip = IF pc = "walk" THEN cap.tip ELSE Len(log)
  BY <1>4, <1>5
<1> QED
  BY <1>4, <1>7, <1>8, <1>9, <1>10

\* The page in hand leads to a repair only for a fault.
LEMMA ReadGives ==
  ASSUME TypeInv, Delivered, FeedInv, GiveInv,
         FirstPage \/ NextPage
  PROVE  GiveInv'
<1> USE JoinAssumption, TailBoundsAssumption
<1>0. /\ setbacks \in Nat /\ repairs \in Nat /\ base \in Nat /\ covered = base
      /\ queue \in Queues /\ pc \in {"cold", "walk"} /\ prejoin
  BY CountersOK, JoinTypes DEF FirstPage, NextPage, FeedInv, CursorInJournal, FlowInv
<1>1. setbacks' \in Nat /\ setbacks' >= setbacks
  BY <1>0, PageGives
<1>2. PICK c : /\ Sound(c) /\ Covers(c) /\ Advance(c)
               /\ c.tip = IF pc = "walk" THEN cap.tip ELSE Len(log)
               /\ c.step = "complete" => c.covered = c.tip
               /\ c.step = "continue" => c.covered < c.tip
               /\ Counted => \/ repairs < setbacks'
                             \/ c.step = "complete"
                             \/ c.step = "continue" /\ WithinBudget(c)
                             \/ c.step \in BudgetRefusals /\ base > 0 /\ c.covered > base
  BY <1>0, PageGives
<1>3. c.covered \in Int /\ c.tip \in Nat /\ base <= c.tip
  BY <1>2 DEF Sound, Captures, Covers
<1>4. /\ Counted => repairs <= setbacks'
      /\ Counted /\ Marked => repairs < setbacks'
  BY <1>0, <1>1 DEF GiveInv, Owed
<1>5. CASE Return
  BY <1>1, <1>5, ReturnGives
<1>6. CASE c.step = "continue" /\ Continue(c) /\ ~Return
  <2>1. /\ pc' = "walk" /\ cap' = c
        /\ UNCHANGED <<log, link, covered, base, repairs, queue, plan, seen>>
    BY <1>6 DEF Continue
  <2>2. /\ Marked' <=> Marked
        /\ Counted' <=> Counted
        /\ WithinBudget(cap)' <=> WithinBudget(c)
    BY <2>1, CountedSame DEF Marked, WithinBudget, WindowEdge
  <2>3. Counted => repairs < setbacks' \/ WithinBudget(c)
    BY <1>2, <1>6 DEF BudgetRefusals
  <2>4. \A e \in seen' : Genuine(e)'
    BY <2>1, SameJournal DEF GiveInv
  <2> QED
    BY <1>2, <1>4, <1>6, <2>1, <2>2, <2>3, <2>4 DEF GiveInv, Owed
<1>7. CASE c.step = "complete" /\ JoinAt(c) /\ Repair
  <2>1. CASE queue.repair
    <3>1. Marked
      BY <2>1 DEF Marked
    <3> QED
      BY <1>1, <1>4, <1>7, <3>1, RepairGives
  <2>2. CASE ~queue.repair
    <3>1. pc' = "emit"
      BY <1>0, <1>2, <1>3, <1>7, <2>2 DEF JoinAt
    <3>2. pc' # "emit"
      BY <1>7 DEF Repair
    <3> QED
      BY <3>1, <3>2
  <2> QED
    BY <2>1, <2>2
<1>8. CASE c.step = "complete" /\ JoinAt(c) /\ ~Repair
  <2>1. /\ pc' = "emit" /\ queue' = Drained(queue)
        /\ UNCHANGED <<log, link, covered, base, repairs>> /\ ~queue.repair
    BY <1>8 DEF JoinAt
  <2>2. plan'.next = "live" /\ \A e \in seen' : Genuine(e)'
    BY <1>0, <1>2, <1>8, JoinKeeps
  <2>3. queue.hand = <<>> /\ Pending(queue) = queue.items
    <3>1. queue.hand = <<>>
      BY <1>0 DEF FeedInv, QueueInv
    <3> QED
      BY <1>0, <3>1, PendingSeq
  <2>4. Marked' => Marked
    <3>1. queue'.hand = <<>> /\ queue'.items = <<>>
          /\ queue'.repair = (queue.repair \/ \E i \in DOMAIN queue.items : queue.items[i].kind = "repair")
      BY <1>0, <2>1, <2>3 DEF Drained, Queues
    <3>2. DOMAIN Pending(queue') = {}
      BY <3>1 DEF Pending
    <3> QED
      BY <2>1, <2>3, <3>1, <3>2 DEF Marked
  <2>5. Counted' <=> Counted
    BY <2>1, CountedSame
  <2> QED
    BY <1>0, <1>4, <2>1, <2>2, <2>4, <2>5 DEF GiveInv, Owed
<1>9. CASE c.step \in Refusals /\ Refuse(c) /\ ~Repair
  <2>1. /\ pc' = "emit" /\ c.covered > covered /\ plan'.target = c.covered
        /\ UNCHANGED <<log, link, covered, base, repairs, queue, seen>>
    BY <1>9 DEF Refuse
  <2>2. (Marked' <=> Marked) /\ (Counted' <=> Counted)
    BY <2>1, CountedSame DEF Marked
  <2>3. \A e \in seen' : Genuine(e)'
    BY <2>1, SameJournal DEF GiveInv
  <2> QED
    BY <1>0, <1>4, <2>1, <2>2, <2>3 DEF GiveInv, Owed
<1>10. CASE c.step \in Refusals /\ Refuse(c) /\ Repair
  <2>1. c.step \notin {"complete", "continue"}
    BY <1>10 DEF Refusals, BudgetRefusals
  <2>2. ~(base > 0 /\ c.step \in BudgetRefusals /\ HasAttested(c) /\ c.covered > covered)
    <3>1. pc' # "emit"
      BY <1>10 DEF Repair
    <3> QED
      BY <1>10, <3>1 DEF Refuse
  <2>3. ~(c.step \in BudgetRefusals /\ base > 0 /\ c.covered > base)
    BY <1>0, <1>3, <2>2 DEF HasAttested
  <2>4. Counted => repairs < setbacks'
    BY <1>2, <2>1, <2>3
  <2> QED
    BY <1>1, <1>10, <2>4, RepairGives
<1> QED
  BY <1>2, <1>5, <1>6, <1>7, <1>8, <1>9, <1>10 DEF Advance

\* A genuine record is a reason to repair only above where the generation
\* started, and so after progress.
LEMMA GenuineNeverStuck ==
  ASSUME TypeInv, FeedInv, GiveInv, NEW e \in Events, Genuine(e), Disposition(e) = "repair"
  PROVE  covered > base
<1>0. /\ log \in Seq(Records) /\ Len(log) <= MaxSeq /\ seen \subseteq Events
      /\ covered \in Nat /\ base \in Nat
  BY JoinTypes
<1>1. \A f \in seen : f.seq = e.seq => f = e
  BY <1>0, PublishedOK DEF GiveInv
<1> QED
  BY <1>0, <1>1 DEF Disposition, Events

LEMMA FollowGives ==
  ASSUME TypeInv, FeedInv, GiveInv, Follow
  PROVE  GiveInv'
<1> DEFINE item == Head(Pending(queue))
           e    == [seq |-> item.seq, id |-> item.id]
<1>0. /\ setbacks \in Nat /\ repairs \in Nat /\ base \in Nat /\ covered \in Nat
      /\ queue \in Queues /\ QueueShape(queue) /\ seen \subseteq Events
  BY CountersOK, JoinTypes DEF FeedInv, QueueInv
<1>1. /\ pc = "live" /\ Pending(queue) # <<>> /\ setbacks' = setbacks
      /\ IF item.kind = "repair" \/ (item.kind = "enduring" /\ Disposition(e) = "repair")
         THEN Repair
         ELSE /\ queue' = Taken(queue)
              /\ IF item.kind = "enduring" /\ Disposition(e) = "apply"
                 THEN Yield(e) /\ seen' = seen \cup {e}
                 ELSE UNCHANGED <<covered, yielded, seen>>
              /\ UNCHANGED <<log, link, pc, base, repairs, plan>>
  BY DEF Follow
<1>2. /\ Pending(queue) \in Seq(Items) /\ 1 \in DOMAIN Pending(queue)
      /\ item = Pending(queue)[1] /\ item \in Items
      /\ Len(Pending(queue)) \in Nat /\ DOMAIN Pending(queue) = 1..Len(Pending(queue))
  <2>1. /\ Pending(queue) \in Seq(Items) /\ Len(Pending(queue)) \in Nat
        /\ DOMAIN Pending(queue) = 1..Len(Pending(queue))
    BY <1>0, PendingSeq
  <2>2. Len(Pending(queue)) > 0
    BY <1>1, <2>1, EmptySeq
  <2> QED
    BY <2>1, <2>2, ElementOfSeq
<1>3. item.kind = "enduring" => e \in Events /\ Genuine(e)
  <2>1. item.kind = "enduring" => Genuine(item)
    BY <1>2 DEF FeedInv, QueueInv
  <2> QED
    BY <1>2, <2>1 DEF Items, Enduring, HintItem, RepairItem, Events, Genuine
<1>4. item.kind = "repair" => Marked
  BY <1>2 DEF Marked
<1> HIDE DEF item
<1>5. CASE Repair
  <2>1. item.kind = "repair" \/ (item.kind = "enduring" /\ Disposition(e) = "repair")
    BY <1>1, <1>5 DEF Repair
  <2>2. Counted /\ covered = base => repairs < setbacks
    BY <1>0, <1>3, <1>4, <2>1, GenuineNeverStuck DEF GiveInv, Owed
  <2> QED
    BY <1>0, <1>1, <1>5, <2>2, RepairGives
<1>6. CASE ~Repair
  <2>1. /\ queue' = Taken(queue)
        /\ UNCHANGED <<log, link, pc, base, repairs, plan, setbacks>>
        /\ IF item.kind = "enduring" /\ Disposition(e) = "apply"
           THEN Yield(e) /\ seen' = seen \cup {e}
           ELSE UNCHANGED <<covered, yielded, seen>>
    BY <1>1, <1>6
  <2>2. covered' \in Nat /\ covered' >= covered
    <3>1. CASE item.kind = "enduring" /\ Disposition(e) = "apply"
      <4>1. covered' = e.seq /\ e.seq \in Nat /\ ~(e.seq <= covered)
        BY <1>3, <2>1, <3>1 DEF Yield, Events, Disposition
      <4> QED
        BY <1>0, <4>1
    <3>2. CASE ~(item.kind = "enduring" /\ Disposition(e) = "apply")
      BY <1>0, <2>1, <3>2
    <3> QED
      BY <3>1, <3>2
  <2>3. \A f \in seen' : Genuine(f)'
    BY <1>3, <2>1, SameJournal DEF GiveInv
  <2>4. Marked' => Marked
    <3>1. Pending(queue') = Tail(Pending(queue)) /\ queue'.repair = queue.repair
      BY <1>0, <1>1, <2>1, TakenPending DEF Taken, Queues
    <3>2. \A i \in DOMAIN Tail(Pending(queue)) :
            i + 1 \in DOMAIN Pending(queue) /\ Tail(Pending(queue))[i] = Pending(queue)[i + 1]
      BY <1>1, <1>2, HeadTailProperties, LenProperties
    <3> QED
      BY <2>1, <3>1, <3>2 DEF Marked
  <2> QED
    BY <1>0, <1>1, <2>1, <2>2, <2>3, <2>4, GiveFrame
<1> QED
  BY <1>5, <1>6

LEMMA EmitGives ==
  ASSUME TypeInv, ~Stopped, OrderInv, FeedInv, GiveInv,
         EmitEvent \/ EmitCoverage \/ EmitAbove \/ EmitDone
  PROVE  GiveInv'
<1>0. /\ setbacks \in Nat /\ repairs \in Nat /\ base \in Nat /\ covered \in Nat
      /\ plan \in Plans /\ plan.target \in Nat /\ seen \subseteq Events
      /\ plan.todo \subseteq Events /\ plan.above \subseteq Events
  BY CountersOK, JoinTypes
<1>1. pc = "emit" /\ plan.next \in {"live", "repair"}
  BY <1>0 DEF EmitEvent, EmitCoverage, EmitAbove, EmitDone, Plans
<1>2. CASE EmitEvent
  <2>1. PICK e \in plan.todo : Yield(e) /\ plan' = [plan EXCEPT !.todo = plan.todo \ {e}]
    BY <1>2 DEF EmitEvent
  <2>2. UNCHANGED <<log, link, setbacks, pc, base, repairs, queue, cap, seen>>
    BY <1>2 DEF EmitEvent, factoryVars
  <2>3. covered' \in Nat /\ covered' >= covered
    <3>1. e.seq > covered /\ e.seq \in Nat
      BY <1>0, <1>1 DEF OrderInv, Ahead, Events
    <3> QED
      BY <1>0, <2>1, <3>1 DEF Yield
  <2>4. plan'.next = plan.next /\ plan'.target = plan.target
    BY <1>0, <2>1 DEF Plans
  <2>5. (Marked' => Marked) /\ \A f \in seen' : Genuine(f)'
    BY <2>2, SameJournal DEF Marked, GiveInv
  <2> QED
    BY <1>0, <1>1, <2>2, <2>3, <2>4, <2>5, GiveFrame
<1>3. CASE EmitCoverage
  <2>1. /\ UNCHANGED <<log, link, setbacks, pc, base, repairs, queue, cap, plan, seen>>
        /\ covered' = plan.target /\ plan.target > covered
    BY <1>3 DEF EmitCoverage, factoryVars, genVars
  <2>2. (Marked' => Marked) /\ \A f \in seen' : Genuine(f)'
    BY <2>1, SameJournal DEF Marked, GiveInv
  <2> QED
    BY <1>0, <1>1, <2>1, <2>2, GiveFrame
<1>4. CASE EmitAbove
  <2>1. PICK e \in plan.above :
          IF Disposition(e) = "repair" THEN Repair
          ELSE /\ plan' = [plan EXCEPT !.above = plan.above \ {e}]
               /\ IF Disposition(e) = "apply"
                  THEN Yield(e) /\ seen' = seen \cup {e}
                  ELSE UNCHANGED <<covered, yielded, seen>>
               /\ UNCHANGED <<log, link, pc, base, repairs, queue, cap>>
    BY <1>4 DEF EmitAbove
  <2>2. setbacks' = setbacks
    BY <1>4 DEF EmitAbove
  <2>3. e \in Events /\ Genuine(e)
    BY <1>0, <1>1 DEF FeedInv, PlanInv
  <2>4. CASE Disposition(e) = "repair"
    BY <1>0, <2>1, <2>2, <2>3, <2>4, GenuineNeverStuck, RepairGives
  <2>5. CASE Disposition(e) # "repair"
    <3>1. covered' \in Nat /\ covered' >= covered /\ \A f \in seen' : f \in seen \/ f = e
      <4>1. CASE Disposition(e) = "apply"
        <5>1. covered' = e.seq /\ e.seq \in Nat /\ ~(e.seq <= covered)
          BY <2>1, <2>3, <4>1 DEF Yield, Events, Disposition
        <5> QED
          BY <1>0, <2>1, <4>1, <5>1
      <4>2. CASE Disposition(e) # "apply"
        BY <1>0, <2>1, <2>5, <4>2
      <4> QED
        BY <4>1, <4>2
    <3>2. plan'.next = plan.next /\ plan'.target = plan.target
      BY <1>0, <2>1, <2>5 DEF Plans
    <3>3. (Marked' => Marked) /\ \A f \in seen' : Genuine(f)'
      BY <2>1, <2>3, <2>5, <3>1, SameJournal DEF Marked, GiveInv
    <3> QED
      BY <1>0, <1>1, <2>1, <2>2, <2>5, <3>1, <3>2, <3>3, GiveFrame
  <2> QED
    BY <2>4, <2>5
<1>5. CASE EmitDone
  <2>1. /\ plan.target <= covered /\ setbacks' = setbacks
        /\ IF plan.next = "repair" THEN Repair
           ELSE pc' = "live" /\ UNCHANGED <<log, link, covered, base, repairs, queue, seen>>
    BY <1>5 DEF EmitDone, genVars
  <2>2. CASE plan.next = "repair"
    <3>1. covered > base
      BY <1>0, <1>1, <2>1, <2>2 DEF GiveInv
    <3> QED
      BY <1>0, <2>1, <2>2, <3>1, RepairGives
  <2>3. CASE plan.next # "repair"
    <3>1. (Marked' => Marked) /\ \A f \in seen' : Genuine(f)'
      BY <2>1, <2>3, SameJournal DEF Marked, GiveInv
    <3> QED
      BY <1>0, <2>1, <2>3, <3>1, GiveFrame
  <2> QED
    BY <2>2, <2>3
<1> QED
  BY <1>2, <1>3, <1>4, <1>5

LEMMA JoinGives ==
  ASSUME TypeInv, ~Stopped, OrderInv, FeedInv, GiveInv,
         Join \/ ReadyFails \/ ReadFails \/ Abort \/ Aborted
  PROVE  GiveInv'
<1>0. /\ setbacks \in Nat /\ repairs \in Nat /\ base \in Nat /\ covered \in Nat
      /\ setbacks + 1 \in Nat /\ setbacks + 1 > setbacks
      /\ pc \in {"ready", "cold", "walk"} => covered = base
      /\ queue \in Queues
  <2>1. pc \in {"ready", "cold", "walk"} => covered = base
    BY DEF FeedInv, CursorInJournal
  <2> QED
    BY <2>1, CountersOK, JoinTypes, Zenon
<1>1. CASE StartGeneration
  BY <1>1, StartGives
<1>2. CASE FirstPage \/ NextPage
  BY <1>2, ReadGives DEF OrderInv
<1>3. CASE EmitEvent \/ EmitCoverage \/ EmitAbove \/ EmitDone
  BY <1>3, EmitGives
<1>4. CASE Follow
  BY <1>4, FollowGives
<1>5. CASE Ready \/ Abort
  <2>1. /\ UNCHANGED <<log, link, setbacks, covered, base, repairs, queue, cap, plan, seen>>
        /\ UNCHANGED pc \/ (pc = "ready" /\ pc' = "cold")
    <3>1. CASE Ready
      BY <3>1 DEF Ready, factoryVars, genVars
    <3>2. CASE Abort
      BY <3>2 DEF Abort, factoryVars, genVars
    <3> QED
      BY <1>5, <3>1, <3>2
  <2>2. (Marked' => Marked) /\ \A f \in seen' : Genuine(f)'
    BY <2>1, SameJournal DEF Marked, GiveInv
  <2> QED
    BY <1>0, <2>1, <2>2, GiveFrame DEF Stopped
<1>6. CASE Await
  <2>1. /\ UNCHANGED <<log, link, setbacks, pc, covered, base, repairs, cap, plan, seen>>
        /\ queue' = [queue EXCEPT !.waiting = TRUE] /\ pc = "live"
    BY <1>6 DEF Await, factoryVars, joinVars
  <2>2. Pending(queue') = Pending(queue) /\ queue'.repair = queue.repair
    BY <1>0, <2>1 DEF Queues, Pending
  <2>3. (Marked' => Marked) /\ \A f \in seen' : Genuine(f)'
    BY <2>1, <2>2, SameJournal DEF Marked, GiveInv
  <2> QED
    BY <1>0, <2>1, <2>3, GiveFrame
<1>7. CASE Woken
  <2>1. Marked /\ Repair /\ setbacks' = setbacks /\ pc \in {"ready", "cold", "walk"}
    BY <1>7 DEF Woken, Marked
  <2>2. Counted /\ covered = base => repairs < setbacks'
    BY <2>1 DEF GiveInv, Owed
  <2> QED
    BY <1>0, <2>1, <2>2, RepairGives
<1>8. CASE ReadyFails \/ ReadFails
  <2>1. Repair /\ setbacks' = setbacks + 1
    <3>1. pc = "walk" => ~(cap.tip > Len(log))
      BY JoinTypes DEF FeedInv, WalkInv, Covers
    <3> QED
      BY <1>8, <3>1 DEF ReadyFails, ReadFails
  <2>2. Counted => repairs < setbacks'
    BY <1>0, <2>1 DEF GiveInv
  <2> QED
    BY <1>0, <2>1, <2>2, RepairGives
<1>9. CASE Aborted
  <2>1. Return /\ setbacks' = setbacks
    BY <1>9 DEF Aborted
  <2> QED
    BY <1>0, <2>1, ReturnGives
<1> QED
  BY <1>1, <1>2, <1>3, <1>4, <1>5, <1>6, <1>7, <1>8, <1>9 DEF Join

\* The invariant speaks of a journal that has not been cut.
Uncut == cuts = 0 => GiveInv

LEMMA GiveStep ==
  ASSUME ConsumerKeepsUp, TypeInv, OrderInv, HoleFree, Uncut, [Next]_vars
  PROVE  Uncut'
<1> SUFFICES ASSUME cuts' = 0 PROVE GiveInv'
  BY DEF Uncut
<1>1. cuts = 0 /\ ~Truncate /\ FeedInv /\ GiveInv
  BY CutsOnlyGrow DEF HoleFree, Uncut
<1>2. CASE UNCHANGED vars
  <2>1. UNCHANGED <<log, link, setbacks, pc, covered, base, repairs, queue, cap, plan, seen>>
    BY <1>2 DEF vars, factoryVars, joinVars, genVars
  <2>2. \A e \in seen' : Genuine(e)'
    BY <1>1, <2>1, SameJournal DEF GiveInv
  <2> QED
    BY <1>1, <2>1, <2>2, CountedSame DEF GiveInv, Marked, Owed, WithinBudget, WindowEdge
<1>3. CASE ~Stopped /\ Factory
  BY <1>1, <1>3, FactoryGives
<1>4. CASE ~Stopped /\ (Join \/ ReadyFails \/ ReadFails \/ Abort \/ Aborted)
  BY <1>1, <1>4, JoinGives
<1> QED
  BY <1>2, <1>3, <1>4 DEF Next, Terminated

LEMMA GiveInit == Init => Uncut
<1> SUFFICES ASSUME Init PROVE GiveInv
  BY DEF Uncut
<1>1. /\ pc = "delay" /\ base = covered /\ repairs = 0 /\ setbacks = 0 /\ queue = NewQueue
      /\ link = NoLink /\ seen = {}
  BY DEF Init
<1>2. ~Marked
  BY <1>1, NewQueueUnmarked DEF Marked, NoLink
<1>3. covered \in Nat
  BY InitOK DEF TypeInv, TypeOK
<1> QED
  BY <1>1, <1>2, <1>3 DEF GiveInv, NoLink

\* Where a page above the cursor, or the tail window of a join that has none,
\* fits the budgets of a capture in events, pages and bytes, the join gives up
\* only on as many faults as it has attempts (join.ts:443-475, 829).
THEOREM GivesUpFairly ==
  ASSUME ConsumerKeepsUp
  PROVE  Spec => []GivesUpOnlyOnFaults
<1>1. Init => TypeInv /\ OrderInv /\ HoleFree /\ Uncut
  BY FeedInit, GiveInit, InitOK DEF Init, OrderInv, Delivered, InOrderOnce, Ahead, NoPlan, Conflict
<1>2. TypeInv /\ OrderInv /\ HoleFree /\ Uncut /\ [Next]_vars
        => TypeInv' /\ OrderInv' /\ HoleFree' /\ Uncut'
  BY TypeStep, OrderStep, FeedStep, GiveStep
<1>3. TypeInv /\ Uncut => GivesUpOnlyOnFaults
  <2> SUFFICES ASSUME TypeInv, Uncut, pc = "threw", cuts = 0, Counted
               PROVE  setbacks > MaxRepairAttempts
    BY DEF GivesUpOnlyOnFaults, Counted
  <2>1. repairs > MaxRepairAttempts /\ repairs <= setbacks
    BY DEF Uncut, GiveInv
  <2> QED
    BY <2>1, CountersOK, JoinAssumption
<1> QED
  BY <1>1, <1>2, <1>3, PTL DEF Spec
====
