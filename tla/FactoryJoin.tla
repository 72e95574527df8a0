---- MODULE FactoryJoin ----
(***************************************************************************)
(* joinFactorySessionView (packages/protocol/src/join.ts): the             *)
(* subscribe-first join of a session's durable journal and its live link.  *)
(*                                                                         *)
(* The join runs generations.  A generation subscribes, reads the journal  *)
(* (a forward read above the committed cursor, or the bounded tail when    *)
(* nothing is committed), yields what it captured and then follows the     *)
(* link; whatever goes wrong ends it in a repair, and the next generation  *)
(* starts from the committed cursor.  JavaScript runs one callback at a    *)
(* time, so an action here is the code between two points where the join   *)
(* awaits or has yielded to its consumer.                                  *)
(*                                                                         *)
(* The Factory is external.  It appends journal records, public or private,*)
(* publishes the public ones in order on a subscription, answers reads     *)
(* with pages of the journal it has at that moment, and follows whatever a *)
(* link lost with a session.reset or an interruption.                      *)
(***************************************************************************)
EXTENDS CapturedTail, SignalQueue

CONSTANTS
  MaxRepairAttempts,  \* maxRepairAttempts
  MaxSeq,             \* bound: journal length
  InitialLengths,     \* lengths the journal may have when the join starts
  MaxSetbacks,        \* bound: faults of links, reads and pages
  MaxTruncations,     \* bound: times the journal shrinks
  ConsumerKeepsUp     \* assumption on pace: a joined buffer never overflows

Events == [seq : 1..MaxSeq, id : 0..MaxTruncations]

ASSUME WeightAssumption == EventBytes \in [Events -> Nat \ {0}]

ASSUME JoinAssumption ==
  /\ MaxRepairAttempts \in Nat \ {0}
  /\ MaxSeq \in Nat
  /\ InitialLengths \subseteq 0..MaxSeq
  /\ MaxSetbacks \in Nat
  /\ MaxTruncations \in Nat
  /\ ConsumerKeepsUp \in BOOLEAN

VARIABLES
  \* The Factory.
  log,       \* the journal: [public, id] per sequence
  cuts,      \* truncations so far; a record's identity is the count at its birth
  link,      \* the current subscription as the Factory sees it
  late,      \* resets in flight on superseded subscriptions
  setbacks,  \* faults so far
  \* The join.
  pc,        \* where the generator is suspended
  covered,   \* coveredThrough
  base,      \* generationBase (previousBase once the generation has ended)
  repairs,   \* consecutiveRepairs
  floor,     \* resetFloor
  aborted,   \* options.signal
  \* Its generation.
  queue,     \* FactorySignalQueue
  prejoin,   \* prejoinOpen
  cap,       \* the CapturedTail being read
  plan,      \* what the capture still has to yield
  seen,      \* seen: the events this generation has accounted for
  \* History.
  told,      \* the lowest reset this generation's own link delivered
  opened,    \* the cursor or window edge the yielded run starts above
  yielded    \* the public events yielded above it

factoryVars == <<log, cuts, link, late, setbacks>>
joinVars    == <<pc, covered, base, repairs, floor, aborted>>
genVars     == <<queue, prejoin, cap, plan, seen>>
historyVars == <<told, opened, yielded>>
vars        == <<factoryVars, joinVars, genVars, historyVars>>

----
\* The journal.

Event(s) == [seq |-> s, id |-> log[s].id]
PublicBetween(low, high) ==
  {Event(s) : s \in {x \in (low + 1)..high : log[x].public}}
Lower(m, n) == IF m < n THEN m ELSE n
Upper(m, n) == IF m < n THEN n ELSE m
IsEarliest(e, events) == \A f \in events : e.seq <= f.seq

\* What a subscription, a capture or a plan is when there is none.
NoReset   == [tip |-> -1, last |-> 0, cut |-> FALSE]
NoLink    == [attached |-> FALSE, sent |-> 0, run |-> 0, lost |-> FALSE,
              cut |-> FALSE, reset |-> NoReset]
NoCapture == [tip |-> 0, covered |-> -1, events |-> {}, cursors |-> {},
              pages |-> 0, count |-> 0, bytes |-> 0, step |-> "continue"]
NoPlan    == [todo |-> {}, target |-> 0, above |-> {}, next |-> "repair"]
NoFloor   == -1

Init ==
  /\ \E n \in InitialLengths : log \in [1..n -> [public : BOOLEAN, id : {0}]]
  /\ covered \in 0..Len(log)
  /\ cuts = 0 /\ setbacks = 0
  /\ link = NoLink /\ late = {}
  /\ pc = "delay" /\ base = covered /\ repairs = 0 /\ floor = NoFloor
  /\ aborted = FALSE
  /\ queue = NewQueue /\ prejoin = TRUE
  /\ cap = NoCapture /\ plan = NoPlan /\ seen = {}
  /\ told = NoReset /\ opened = covered /\ yielded = <<>>

----
\* The Factory's steps.

Commit ==
  /\ Len(log) < MaxSeq
  /\ \E public \in BOOLEAN : log' = Append(log, [public |-> public, id |-> cuts])
  /\ UNCHANGED <<cuts, link, late, setbacks, joinVars, genVars, historyVars>>

\* The Factory starts publishing to the subscription, from its tip on.
Attach ==
  /\ pc = "ready" /\ ~link.attached
  /\ link' = [link EXCEPT !.attached = TRUE, !.sent = Len(log)]
  /\ UNCHANGED <<log, cuts, late, setbacks, joinVars, genVars, historyVars>>

\* The journal shrinks; an attached link is owed a reset that says so.
Truncate ==
  /\ cuts < MaxTruncations
  /\ \E tip \in 0..(Len(log) - 1) :
       /\ log' = SubSeq(log, 1, tip)
       /\ link' = IF link.attached
                  THEN [attached |-> TRUE, sent |-> Lower(link.sent, tip),
                        run |-> Lower(link.run, tip), lost |-> TRUE, cut |-> TRUE,
                        reset |-> NoReset]
                  ELSE link
  /\ cuts' = cuts + 1
  /\ UNCHANGED <<late, setbacks, joinVars, genVars, historyVars>>

\* The link stops carrying records: it owes a reset.
LoseRecords ==
  /\ link.attached /\ ~link.lost /\ setbacks < MaxSetbacks
  /\ link' = [link EXCEPT !.lost = TRUE]
  /\ setbacks' = setbacks + 1
  /\ UNCHANGED <<log, cuts, late, joinVars, genVars, historyVars>>

\* The Factory puts the reset on the wire.  last is the greatest sequence it
\* published on this link in an unbroken run, 0 when there is none.
SendReset ==
  /\ link.lost /\ link.reset = NoReset
  /\ \E last \in {0, link.run} :
       link' = [link EXCEPT !.reset = [tip |-> Len(log), last |-> last,
                                       cut |-> link.cut]]
  /\ UNCHANGED <<log, cuts, late, setbacks, joinVars, genVars, historyVars>>

----
\* The generation's callbacks.

\* push: a signal of the current generation reaches its queue.
Signal(item) ==
  /\ queue' = Push(queue, item)
  /\ setbacks' = IF Overflows(queue, item) THEN setbacks + 1 ELSE setbacks

\* admitPublication of a validated enduring publication.
AdmitEnduring(e) ==
  IF prejoin /\ e.seq <= base
  THEN UNCHANGED <<queue, setbacks>>
  ELSE Signal(Enduring(e))

\* The pace the run assumes of the consumer (see ConsumerKeepsUp).
Paced == ConsumerKeepsUp => prejoin \/ ~Overflows(queue, HintItem)

\* The next public record above what the link carried is published.
Publish ==
  /\ link.attached /\ ~link.lost /\ Paced
  /\ \E e \in PublicBetween(link.sent, Len(log)) :
       /\ IsEarliest(e, PublicBetween(link.sent, Len(log)))
       /\ AdmitEnduring(e)
       /\ link' = [link EXCEPT !.sent = e.seq, !.run = e.seq]
  /\ UNCHANGED <<log, cuts, late, joinVars, prejoin, cap, plan, seen, historyVars>>

\* A record the link already carried, or never had to, is published again.
Republish ==
  /\ link.attached /\ ~link.lost /\ Paced /\ setbacks < MaxSetbacks
  /\ \E e \in PublicBetween(0, link.sent) :
       /\ queue' = IF prejoin /\ e.seq <= base THEN queue
                   ELSE Push(queue, Enduring(e))
       /\ setbacks' = setbacks + 1
  /\ UNCHANGED <<log, cuts, link, late, joinVars, prejoin, cap, plan, seen, historyVars>>

\* An ephemeral publication or a journal_tip: dropped before the join, and
\* buffered after it.  At most one at a time, never the one that overflows.
Hint ==
  /\ link.attached /\ ~prejoin
  /\ \A i \in DOMAIN queue.items : queue.items[i].kind # "hint"
  /\ ~Overflows(queue, HintItem)
  /\ Signal(HintItem)
  /\ UNCHANGED <<log, cuts, link, late, joinVars, prejoin, cap, plan, seen, historyVars>>

\* onError, an invalid frame or one for another session: the generation is
\* told to repair, and the records the link carried meanwhile are gone.
LinkFault ==
  /\ link.attached /\ setbacks < MaxSetbacks
  /\ queue' = Push(queue, RepairItem)
  /\ \E carried \in link.sent..Len(log) :
       link' = [link EXCEPT !.sent = carried, !.run = 0]
  /\ setbacks' = setbacks + 1
  /\ UNCHANGED <<log, cuts, late, joinVars, prejoin, cap, plan, seen, historyVars>>

\* onReset.  Only the active generation's own reset, naming a tip below what
\* is committed, may lower the floor; every reset asks for a repair, which a
\* superseded subscription's push drops.
OnReset(active, reset) ==
  /\ floor' = IF active /\ reset.tip < covered
              THEN IF floor = NoFloor THEN reset.last ELSE Lower(floor, reset.last)
              ELSE floor
  /\ queue' = IF active THEN Push(queue, RepairItem) ELSE queue

DeliverReset ==
  /\ link.reset # NoReset
  /\ OnReset(TRUE, link.reset)
  /\ told' = IF told = NoReset \/ link.reset.tip < told.tip THEN link.reset ELSE told
  /\ link' = [attached |-> link.attached, sent |-> link.reset.tip, run |-> 0,
              lost |-> FALSE, cut |-> FALSE, reset |-> NoReset]
  /\ UNCHANGED <<log, cuts, late, setbacks, pc, covered, base, repairs, aborted,
                 prejoin, cap, plan, seen, opened, yielded>>

\* A reset of a subscription that was already superseded arrives.
LateReset ==
  /\ \E reset \in late : late' = late \ {reset} /\ OnReset(FALSE, reset)
  /\ UNCHANGED <<log, cuts, link, setbacks, pc, covered, base, repairs, aborted,
                 prejoin, cap, plan, seen, historyVars>>

----
\* The join's own steps.

\* finally: callbacks go inert, the subscription is released.
Teardown ==
  /\ link' = NoLink
  /\ late' = late \cup ({link.reset} \ {NoReset})
  /\ queue' = NewQueue /\ prejoin' = TRUE
  /\ cap' = NoCapture /\ plan' = NoPlan /\ seen' = {}

\* The generation ends in a repair: the loop counts it against the cap, unless
\* coverage moved past where the generation started.
Repair ==
  LET stuck == IF covered > base THEN 0 ELSE repairs + 1
  IN  /\ Teardown
      /\ IF aborted
         THEN pc' = "returned" /\ UNCHANGED repairs
         ELSE /\ repairs' = stuck
              /\ pc' = IF stuck > MaxRepairAttempts THEN "threw" ELSE "delay"
      /\ UNCHANGED <<log, cuts, covered, base, floor, aborted, historyVars>>

Return ==
  /\ Teardown
  /\ pc' = "returned"
  /\ UNCHANGED <<log, cuts, covered, base, repairs, floor, aborted, historyVars>>

\* The caller's signal.
Abort ==
  /\ ~aborted /\ pc \notin {"returned", "threw"}
  /\ aborted' = TRUE
  /\ UNCHANGED <<factoryVars, pc, covered, base, repairs, floor, genVars, historyVars>>

\* Seeded fault: the floor outlives the generation it was applied to.
StartGenerationKeepingFloor ==
  /\ pc = "delay" /\ ~aborted
  /\ covered' = IF floor = NoFloor THEN covered ELSE Lower(floor, covered)
  /\ base' = covered'
  /\ IF covered' < covered THEN opened' = covered' /\ yielded' = <<>>
     ELSE UNCHANGED <<opened, yielded>>
  /\ pc' = "ready" /\ told' = NoReset
  /\ UNCHANGED <<factoryVars, repairs, floor, aborted, genVars>>

\* The repair delay is over: the floor is applied and a generation starts.
StartGeneration ==
  /\ pc = "delay" /\ ~aborted
  /\ LET start == IF floor # NoFloor /\ floor < covered THEN floor ELSE covered
     IN  /\ covered' = start /\ base' = start
         /\ IF start < covered
            THEN opened' = start /\ yielded' = <<>>
            ELSE UNCHANGED <<opened, yielded>>
  /\ floor' = NoFloor
  /\ pc' = "ready"
  /\ told' = NoReset
  /\ UNCHANGED <<factoryVars, repairs, aborted, genVars>>

\* The subscription is authorized; an overflow or error that came first wins.
Ready ==
  /\ pc = "ready" /\ link.attached /\ ~queue.repair
  /\ pc' = "cold"
  /\ UNCHANGED <<factoryVars, covered, base, repairs, floor, aborted, genVars, historyVars>>

\* The subscription is refused, or speaks another version of the wire.
ReadyFails ==
  /\ pc = "ready" /\ setbacks < MaxSetbacks
  /\ setbacks' = setbacks + 1
  /\ Repair

\* A read rejects or its answer is not a projection of this session.
ReadFails ==
  /\ pc \in {"cold", "walk"}
  /\ \/ setbacks < MaxSetbacks /\ setbacks' = setbacks + 1
     \/ pc = "walk" /\ cap.tip > Len(log) /\ UNCHANGED setbacks
  /\ Repair

\* raceGeneration: a repair signal ends the generation's wait.
Woken ==
  /\ pc \in {"ready", "cold", "walk"} /\ queue.repair
  /\ Repair /\ UNCHANGED setbacks

\* The caller's abort ends a wait; the follow loop drains its buffer first.
Aborted ==
  /\ aborted
  /\ \/ pc \in {"delay", "ready", "cold", "walk"}
     \/ pc = "live" /\ Pending(queue) = <<>>
  /\ Return /\ UNCHANGED setbacks

\* The page a Factory answers with when it reads (from, tip] as far as c.
Page(from, tip, c) ==
  [tip |-> tip, covered |-> c, events |-> PublicBetween(from - 1, c),
   cursor |-> IF c < tip THEN c ELSE NoCursor]

\* It advances as far as its own budget lets it; past its tip there is
\* nothing to read and the tip is covered.
HonestPages(from, tip) ==
  {p \in {Page(from, tip, c) : c \in IF from > tip THEN {tip} ELSE from..tip} :
     Cardinality(p.events) <= PageLimit}

\* A page no capture may be built from: coverage stops short and offers no way
\* to continue, or does not advance.
InconsistentPages(from, tip) ==
  {[tip |-> tip, covered |-> from - 1, events |-> {}, cursor |-> c] :
     c \in {c \in {NoCursor, from} : from <= tip}}

\* The capture asks for its next page.
Continue(c) ==
  IF aborted THEN Return
  ELSE /\ pc' = "walk" /\ cap' = c
       /\ UNCHANGED <<log, cuts, link, late, covered, base, repairs, floor, aborted,
                      queue, prejoin, plan, seen, historyVars>>

\* The capture was refused.  A forward capture that was only too big commits
\* the prefix it attested; the generation is repaired either way.
Refuse(c) ==
  IF base > 0 /\ c.step \in BudgetRefusals /\ HasAttested(c) /\ c.covered > covered
  THEN /\ pc' = "emit" /\ cap' = NoCapture
       /\ plan' = [todo |-> {e \in Attested(c) : e.seq > covered},
                   target |-> c.covered, above |-> {}, next |-> "repair"]
       /\ UNCHANGED <<log, cuts, link, late, covered, base, repairs, floor, aborted,
                      queue, prejoin, seen, historyVars>>
  ELSE Repair

\* Seeded fault: an overflow of the pre-join buffer is not looked at.
JoinAtDespiteOverflow(c) ==
  LET overlap == {e \in DrainedEvents(queue) : covered < e.seq /\ e.seq <= c.tip}
      merged  == c.events \cup overlap
  IN  /\ c.covered >= covered
      /\ pc' = "emit" /\ cap' = NoCapture
      /\ queue' = Drained(queue) /\ prejoin' = FALSE
      /\ plan' = [todo |-> {e \in merged : e.seq > covered}, target |-> c.covered,
                  above |-> {e \in DrainedEvents(queue) : e.seq > c.tip},
                  next |-> "live"]
      /\ seen' = merged
      /\ opened' = IF base > 0 THEN opened ELSE Upper(0, c.tip - PageLimit)
      /\ UNCHANGED <<log, cuts, link, late, covered, base, repairs, floor, aborted,
                     told, yielded>>

\* The capture is whole: the buffer is drained, the join opens, and the
\* projection is yielded.  Buffered records up to the tip are merged with the
\* page's; those above it follow in order.
JoinAt(c) ==
  LET buffered == DrainedEvents(queue)
      overlap  == {e \in buffered : covered < e.seq /\ e.seq <= c.tip}
      merged   == c.events \cup overlap
  IN  IF c.covered < covered \/ queue.repair THEN Repair
      ELSE /\ pc' = "emit" /\ cap' = NoCapture
           /\ queue' = Drained(queue) /\ prejoin' = FALSE
           /\ plan' = IF Conflict(merged)
                      THEN NoPlan
                      ELSE [todo |-> {e \in merged : e.seq > covered},
                            target |-> c.covered,
                            above |-> {e \in buffered : e.seq > c.tip},
                            next |-> "live"]
           /\ seen' = merged
           /\ opened' = IF base > 0 THEN opened ELSE Upper(0, c.tip - PageLimit)
           /\ UNCHANGED <<log, cuts, link, late, covered, base, repairs, floor, aborted,
                          told, yielded>>

Advance(c) ==
  \/ c.step = "continue" /\ Continue(c)
  \/ c.step = "complete" /\ JoinAt(c)
  \/ c.step \in Refusals /\ Refuse(c)

\* Pages read from `from` up to `tip`; an inconsistent one is a fault.
Answers(from, tip) == HonestPages(from, tip) \cup InconsistentPages(from, tip)

Arrives(page, from, tip) ==
  \/ page \in HonestPages(from, tip) /\ UNCHANGED setbacks
  \/ /\ page \in InconsistentPages(from, tip)
     /\ setbacks < MaxSetbacks /\ setbacks' = setbacks + 1

\* Seeded fault: every generation reads the tail, whatever is committed.
FirstSeqOfTail == Upper(1, Len(log) - PageLimit + 1)

\* Where a capture starts.
FirstSeq == IF base > 0 THEN base + 1 ELSE Upper(1, Len(log) - PageLimit + 1)

\* The status and the first page arrive: a forward read above the committed
\* cursor, or the newest PageLimit records of a session never opened before.
FirstPage ==
  /\ pc = "cold"
  /\ \E page \in Answers(FirstSeq, Len(log)) :
       Arrives(page, FirstSeq, Len(log)) /\ Advance(Captured(page))

\* The page the capture's cursor names arrives; it stays within the capture.
NextPage ==
  /\ pc = "walk" /\ cap.tip <= Len(log)
  /\ \E page \in Answers(cap.covered + 1, cap.tip) :
       Arrives(page, cap.covered + 1, cap.tip) /\ Advance(Accept(cap, page))

\* A public event is yielded and the cursor moves to it.
Yield(e) ==
  /\ covered' = e.seq
  /\ yielded' = Append(yielded, e)

\* What the join makes of a live record, against what it has accounted for.
Disposition(e) ==
  IF \E f \in seen : f.seq = e.seq
  THEN IF e \in seen THEN "skip" ELSE "repair"
  ELSE IF e.seq <= base THEN "skip"
  ELSE IF e.seq <= covered THEN "repair"
  ELSE "apply"

\* Seeded fault: page events and buffered records are not merged in order.
EmitEventUnsorted ==
  /\ pc = "emit"
  /\ \E e \in plan.todo : Yield(e) /\ plan' = [plan EXCEPT !.todo = @ \ {e}]
  /\ UNCHANGED <<factoryVars, pc, base, repairs, floor, aborted,
                 queue, prejoin, cap, seen, told, opened>>

EmitEvent ==
  /\ pc = "emit"
  /\ \E e \in plan.todo :
       /\ IsEarliest(e, plan.todo)
       /\ Yield(e)
       /\ plan' = [plan EXCEPT !.todo = @ \ {e}]
  /\ UNCHANGED <<factoryVars, pc, base, repairs, floor, aborted,
                 queue, prejoin, cap, seen, told, opened>>

\* Coverage past the last public event: private records hold the rest.
EmitCoverage ==
  /\ pc = "emit" /\ plan.todo = {} /\ plan.target > covered
  /\ covered' = plan.target
  /\ UNCHANGED <<factoryVars, pc, base, repairs, floor, aborted, genVars, historyVars>>

EmitAbove ==
  /\ pc = "emit" /\ plan.todo = {} /\ plan.target <= covered
  /\ \E e \in plan.above :
       /\ IsEarliest(e, plan.above)
       /\ IF Disposition(e) = "repair" THEN Repair
          ELSE /\ plan' = [plan EXCEPT !.above = @ \ {e}]
               /\ IF Disposition(e) = "apply"
                  THEN Yield(e) /\ seen' = seen \cup {e}
                  ELSE UNCHANGED <<covered, yielded, seen>>
               /\ UNCHANGED <<log, cuts, link, late, pc, base, repairs, floor,
                              aborted, queue, prejoin, cap, told, opened>>
  /\ UNCHANGED setbacks

\* The plan is exhausted: the join follows the link, or repairs.
EmitDone ==
  /\ pc = "emit" /\ plan.todo = {} /\ plan.target <= covered /\ plan.above = {}
  /\ IF plan.next = "repair" THEN Repair
     ELSE /\ pc' = "live"
          /\ UNCHANGED <<log, cuts, link, late, covered, base, repairs, floor, aborted,
                         genVars, historyVars>>
  /\ UNCHANGED setbacks

\* The follow loop waits on an empty buffer.
Await ==
  /\ pc = "live" /\ Pending(queue) = <<>> /\ ~queue.waiting /\ ~aborted
  /\ queue' = [queue EXCEPT !.waiting = TRUE]
  /\ UNCHANGED <<factoryVars, joinVars, prejoin, cap, plan, seen, historyVars>>

\* Seeded fault: the follow loop passes over a repair signal.
FollowPastRepair ==
  /\ pc = "live" /\ Pending(queue) # <<>>
  /\ queue' = Taken(queue)
  /\ LET item == Head(Pending(queue))
         e    == [seq |-> item.seq, id |-> item.id]
     IN  IF item.kind = "enduring" /\ Disposition(e) = "apply"
         THEN Yield(e) /\ seen' = seen \cup {e}
         ELSE UNCHANGED <<covered, yielded, seen>>
  /\ UNCHANGED <<factoryVars, pc, base, repairs, floor, aborted,
                 prejoin, cap, plan, told, opened>>

\* The follow loop takes the oldest signal.  It never asks requiresRepair.
Follow ==
  /\ pc = "live" /\ Pending(queue) # <<>>
  /\ LET item == Head(Pending(queue))
         e    == [seq |-> item.seq, id |-> item.id]
     IN  IF item.kind = "repair" \/ (item.kind = "enduring" /\ Disposition(e) = "repair")
         THEN Repair
         ELSE /\ queue' = Taken(queue)
              /\ IF item.kind = "enduring" /\ Disposition(e) = "apply"
                 THEN Yield(e) /\ seen' = seen \cup {e}
                 ELSE UNCHANGED <<covered, yielded, seen>>
              /\ UNCHANGED <<log, cuts, link, late, pc, base, repairs, floor, aborted,
                             prejoin, cap, plan, told, opened>>
  /\ UNCHANGED setbacks

----
Factory ==
  \/ Commit \/ Attach \/ Truncate \/ LoseRecords \/ SendReset
  \/ Publish \/ Republish \/ Hint \/ LinkFault \/ DeliverReset \/ LateReset

Join ==
  \/ StartGeneration \/ Ready \/ Woken \/ FirstPage \/ NextPage
  \/ EmitEvent \/ EmitCoverage \/ EmitAbove \/ EmitDone \/ Await \/ Follow

Stopped == pc \in {"returned", "threw"}

Terminated == Stopped /\ UNCHANGED vars

Next ==
  \/ ~Stopped /\ (Factory \/ Join \/ ReadyFails \/ ReadFails \/ Abort \/ Aborted)
  \/ Terminated

Spec == Init /\ [][Next]_vars

\* Scheduling.  The event loop runs every continuation that is ready, the
\* consumer keeps asking for the next update, and the Factory answers reads,
\* authorizes subscriptions, publishes what it has and sends the resets it
\* owes.  Publish is strong: the pace assumption switches it off for as long
\* as the buffer is full.
Fairness ==
  /\ WF_vars(Join) /\ SF_vars(Aborted)
  /\ WF_vars(Attach) /\ WF_vars(SendReset) /\ WF_vars(DeliverReset)
  /\ WF_vars(pc = "walk" /\ cap.tip > Len(log) /\ ReadFails)
  /\ SF_vars(Publish)

FairSpec == Spec /\ Fairness

----
\* Properties.

Records == [public : BOOLEAN, id : 0..MaxTruncations]
Items  == {Enduring(e) : e \in Events} \cup {HintItem, RepairItem}
Resets == {NoReset} \cup [tip : 0..MaxSeq, last : 0..MaxSeq, cut : BOOLEAN]
Links  == [attached : BOOLEAN, sent : 0..MaxSeq, run : 0..MaxSeq,
           lost : BOOLEAN, cut : BOOLEAN, reset : Resets]
Queues == [items : Seq(Items), hand : Seq(Items),
           waiting : BOOLEAN, repair : BOOLEAN]
Captures == [tip : 0..MaxSeq, covered : -1..MaxSeq, events : SUBSET Events,
             cursors : SUBSET (0..MaxSeq), pages : Nat, count : Nat,
             bytes : Nat, step : Steps]
Plans  == [todo : SUBSET Events, target : 0..MaxSeq,
           above : SUBSET Events, next : {"live", "repair"}]

TypeOK ==
  /\ log \in Seq(Records) /\ Len(log) <= MaxSeq
  /\ cuts \in 0..MaxTruncations
  /\ link \in Links
  /\ late \subseteq Resets
  /\ setbacks \in Nat
  /\ pc \in {"delay", "ready", "cold", "walk", "emit", "live", "returned", "threw"}
  /\ covered \in 0..MaxSeq /\ base \in 0..MaxSeq
  /\ repairs \in 0..(MaxRepairAttempts + 1)
  /\ floor \in -1..MaxSeq
  /\ aborted \in BOOLEAN
  /\ queue \in Queues /\ prejoin \in BOOLEAN
  /\ cap \in Captures /\ plan \in Plans
  /\ seen \subseteq Events
  /\ told \in Resets
  /\ opened \in 0..MaxSeq
  /\ yielded \in Seq(Events)

\* The cursor never asserts coverage of a public record the consumer was not
\* given: everything public between the edge of the opened window and the
\* cursor has been yielded.  A cursor that steps over a record loses it for
\* good, for the next generation reads above the cursor.
NoHole ==
  cuts = 0 =>
    \A s \in (opened + 1)..covered :
      log[s].public => \E i \in DOMAIN yielded : yielded[i] = Event(s)

\* The join, seen through its journal, its cursor and what it yields, is the
\* contiguous feed of ContiguousFeed.tla: every step of it delivers the next
\* public record, steps over private ones, opens a window or rewinds.
Feed == INSTANCE ContiguousFeed WITH cursor <- covered
ImplementsFeed == Feed!Spec

\* Public records are yielded in journal order and each once, whichever of
\* the page, the pre-join buffer and the live link brought them.
InOrderOnce ==
  \A i, j \in DOMAIN yielded : i < j => yielded[i].seq < yielded[j].seq

\* The cursor goes back only to honour a reset this generation's own link
\* delivered: never for a superseded subscription, nor twice for one reset.
LoweredOnlyWhenTold ==
  [][covered' < covered => told # NoReset /\ told.tip < covered]_vars

\* A page read above where the generation started fits in one capture.
PagesFit ==
  /\ PageLimit <= MaxEvents
  /\ \A low, high \in base..Len(log) :
       Cardinality(PublicBetween(low, high)) <= PageLimit
         => 2 + Cardinality(BytesOf(PublicBetween(low, high))) <= MaxBytes

\* The tail window fits in one capture, whatever the tip and however it is paged.
WindowsFit ==
  /\ PageLimit <= MaxPages
  /\ \A tip \in 0..Len(log) :
       2 * PageLimit + Cardinality(BytesOf(PublicBetween(Upper(0, tip - PageLimit), tip)))
         <= MaxBytes

\* The join gives up only on faults that outnumber the attempts allowed, where
\* what it has to read at once fits its budgets: one page, when it resumes above
\* a cursor, for captures over a budget commit what they attested and go on; the
\* whole window, when it has none.  A window over the byte ceiling is refused in
\* each generation, and the join gives up on it with no fault (join.ts:317, 829).
GivesUpOnlyOnFaults ==
  pc = "threw" /\ cuts = 0 /\ PagesFit /\ (base > 0 \/ WindowsFit)
    => setbacks > MaxRepairAttempts

\* An overflow is never treated as successful application: once the buffer of
\* a joined generation was discarded, nothing more is yielded before the repair.
Overflowed ==
  /\ pc = "live" /\ queue.repair
  /\ \A i \in DOMAIN Pending(queue) : Pending(queue)[i].kind # "repair"
OverflowRepairs == [][Overflowed => yielded' = yielded]_vars

\* Every public record the journal holds is eventually in the consumer's
\* hands, unless the join ended.
CaughtUp == pc = "live" /\ PublicBetween(covered, Len(log)) = {}
CatchesUp == <>[](CaughtUp \/ Stopped)

\* An abort ends the join, wherever it is suspended.
AbortStops == aborted ~> Stopped

\* A join comes to something, whatever it met on the way: it hands over all the
\* journal holds or ends, and ends when it is aborted.
ComesToRest == CatchesUp /\ AbortStops
====
