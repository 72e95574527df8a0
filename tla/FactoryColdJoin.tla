-------------------------- MODULE FactoryColdJoin ---------------------------
(***************************************************************************)
(* The machine behind useFactorySessionView                                *)
(* (packages/react/src/use-session-view.ts).  It publishes one snapshot    *)
(* from four sources that answer in any order: the cold REST capture, the  *)
(* authorized join, re-reads of the gate page, and pages of earlier        *)
(* history the user asks for.  Every read is sampled by Factory at some    *)
(* moment between its start and its answer, and an aborted read may still  *)
(* answer: `reads` is the application's.                                   *)
(*                                                                         *)
(* The join is FactoryJoin's contract (ContiguousFeed): records in order,  *)
(* each once, and a lower cursor when the journal was truncated.  Record 1 *)
(* of the journal is the GateOpened of the one gate.  The live preview is  *)
(* FactoryLiveText's; the delays of timers are left out.                   *)
(***************************************************************************)
EXTENDS Naturals, Sequences, FiniteSets, SequencesExt

CONSTANTS
    Initial,        \* initialCoveredThrough
    TailLimit,      \* records of a captured tail, and of an earlier page
    MaxSeq,         \* bound: the journal's length
    MaxTruncations, \* bound: truncations of the journal
    Allowances      \* bounds: what one behaviour may do of each thing

Spendable == {"commits", "truncations", "gates", "revocations", "generations", "clicks",
              "repairs", "failures", "strays"}

ASSUME BoundAssumption ==
    /\ TailLimit \in Nat \ {0} /\ MaxSeq \in Nat /\ Initial \in 0..MaxSeq /\ MaxTruncations \in Nat
    /\ \A a \in Allowances : /\ a \in [Spendable -> Nat]
                            /\ a.truncations <= MaxTruncations /\ Initial + a.commits <= MaxSeq

VARIABLES
    journal,    \* Factory: the epoch each record was written in, by sequence
    lowest,     \* Factory: the lowest tip it was cut to since the join's last capture, or MaxSeq
    gate,       \* Factory: what a page says of the gate, and how often it changed
    access,     \* Factory: whether this caller may read the session
    budget,     \* what is left of each bound
    generation, running,
    snapshot,
    currentEvents, earlierEvents,
    cold,       \* the cold read in flight, {} or one
    gates,
    gateTickets, \* the gate-page reads an answer of which is still adopted: which took its ticket no later than which
    gateTimer, gateController,
    refreshes,  \* the gate re-reads in flight
    earlier,    \* #earlierCursor and #earlierStarted
    earlierRead, \* the read of #earlierInFlight, {} or one
    join,       \* the follow loop of this generation
    revoked,    \* history: #rejectAccess was the last thing to stop the machine
    gateFloor,  \* history: the newest version at which an adopted page's read began
    hushed      \* history: a superseded re-read answered, and nothing was published since

factoryVars == <<journal, lowest, gate, access>>
gateVars == <<gates, gateTickets, gateFloor>>
refreshVars == <<gateTimer, gateController, refreshes, hushed>>
earlierVars == <<earlierEvents, earlier, earlierRead>>
vars == <<factoryVars, budget, generation, running, snapshot, currentEvents, cold, gateVars,
          refreshVars, earlierVars, join, revoked>>

None == [answer |-> "none", version |-> 0]      \* no page
Pages == [answer : {"none", "unlisted", "unavailable", "resident"}, version : Nat]
Rows == [seq : 1..MaxSeq, epoch : 0..MaxTruncations]
Unread == [read |-> FALSE, rows |-> {}, tip |-> 0]
NoJoin == [phase |-> "none", tail |-> <<>>, from |-> 1, covered |-> 0, projected |-> FALSE,
           ticket |-> 0, since |-> 0, page |-> None]

\* The first sequence of a page of the newest records.
TailStart == 1 + (IF Len(journal) > TailLimit THEN Len(journal) - TailLimit ELSE 0)

RowsOf(log, first, last) == {[seq |-> s, epoch |-> log[s]] : s \in first..last}
Least(a, b) == IF a < b THEN a ELSE b
Greatest(a, b) == IF a > b THEN a ELSE b

\* #ordered(): an earlier row gives way to a current one of its sequence.
Ordered(now, past) == now \union {r \in past : \A q \in now : q.seq # r.seq}

TypeOK ==
    /\ journal \in Seq(0..MaxTruncations) /\ Len(journal) <= MaxSeq
    /\ lowest \in 0..MaxSeq
    /\ gate \in Pages /\ gates \in Pages
    /\ {access, running, gateTimer, gateController, revoked, hushed} \subseteq BOOLEAN
    /\ budget \in [Spendable -> Nat] /\ generation \in Nat
    /\ snapshot.state \in {"joining", "reading", "ready", "failed"}
    /\ snapshot.liveState \in {"joining", "repairing", "live", "failed"}
    /\ snapshot.status \in BOOLEAN
    /\ snapshot.gates \in Pages
    /\ snapshot.covered \in 0..MaxSeq
    /\ snapshot.earlierState \in {"idle", "loading", "available", "complete", "failed"}
    /\ {snapshot.events, currentEvents, earlierEvents} \subseteq SUBSET Rows
    /\ Cardinality(cold) <= 1 /\ Cardinality(earlierRead) <= 1
    /\ earlier \in [cursor : 0..MaxSeq, started : BOOLEAN]
    /\ join.phase \in {"none", "subscribing", "reading", "capturing", "following"}
    /\ gateTickets \subseteq Nat \X Nat
    /\ gateFloor \in 0..gate.version
    \* Only a machine that runs has a cold read, a join or a timer.
    /\ ~running => cold = {} /\ join = NoJoin /\ ~gateTimer

Init ==
    /\ journal = [s \in 1..Initial |-> MaxTruncations] /\ lowest = MaxSeq
    /\ gate = [answer |-> "unlisted", version |-> 0] /\ access = TRUE
    /\ budget \in Allowances
    /\ generation = 0 /\ running = FALSE
    /\ snapshot = [state |-> "joining", liveState |-> "joining", status |-> FALSE, gates |-> None,
                   events |-> {}, covered |-> Initial, earlierState |-> "idle"]
    /\ currentEvents = {} /\ cold = {}
    /\ gates = None /\ gateTickets = {} /\ gateFloor = 0
    /\ gateTimer = FALSE /\ gateController = FALSE /\ refreshes = {} /\ hushed = FALSE
    /\ earlierEvents = {} /\ earlier = [cursor |-> 0, started |-> FALSE] /\ earlierRead = {}
    /\ join = NoJoin /\ revoked = FALSE

-----------------------------------------------------------------------------
(* Factory.                                                                *)

viewVars == <<generation, running, snapshot, currentEvents, cold, gateVars, refreshVars,
              earlierVars, join, revoked>>

Spend(what) == budget[what] > 0 /\ budget' = [budget EXCEPT ![what] = @ - 1]

\* The epoch of a record tells two records of one sequence apart.
Commit ==
    /\ Spend("commits")
    /\ journal' = Append(journal, budget.truncations)
    /\ UNCHANGED <<lowest, gate, access, viewVars>>

Truncate ==
    /\ Spend("truncations")
    /\ \E tip \in 0..(Len(journal) - 1) :
         /\ journal' = SubSeq(journal, 1, tip)
         /\ lowest' = Least(lowest, tip)
    /\ UNCHANGED <<gate, access, viewVars>>

GateMoves ==
    /\ journal # <<>> /\ Spend("gates")
    /\ \E answer \in {"unavailable", "resident"} :
         /\ answer # gate.answer
         /\ gate' = [answer |-> answer, version |-> gate.version + 1]
    /\ UNCHANGED <<journal, lowest, access, viewVars>>

Revoke ==
    /\ access /\ Spend("revocations")
    /\ access' = FALSE
    /\ UNCHANGED <<journal, lowest, gate, viewVars>>

MayFail == Spend("failures")

-----------------------------------------------------------------------------
(* Publishing, and the gate re-read it schedules.                          *)

\* Seeded fault: a gate without a live owner is taken as it is.
OnlyWhenUnlisted(s) == s.gates.answer = "unlisted" /\ \E r \in s.events : r.seq = 1

\* gatePageNeedsRefresh: a transient answer, or an open gate the page omits.
GatePageNeedsRefresh(s) ==
    \/ s.gates.answer = "unavailable"
    \/ s.gates.answer = "unlisted" /\ \E r \in s.events : r.seq = 1

\* #scheduleGateRefresh, in the state the step leaves.
ScheduleGateRefresh(s) ==
    gateTimer' = (gateTimer \/ /\ ~gateController'
                               /\ s.state # "failed" \/ s.status
                               /\ GatePageNeedsRefresh(s)
                               /\ running')

Publish(s) == snapshot' = s /\ ScheduleGateRefresh(s) /\ hushed' = FALSE

\* The reads of the gate page in flight; a ticket names one of them.
InFlight == {r.ticket : r \in cold \union refreshes} \union {join.ticket}
NewTicket == CHOOSE t \in 1..(Cardinality(InFlight) + 1) : t \notin InFlight

\* ++gateTickets: the read that starts now is newer than every other.
TakeTicket ==
    LET kept == gateTickets \cap (InFlight \X InFlight)
    IN  gateTickets' = kept \union (({p[1] : p \in kept} \union {NewTicket}) \X {NewTicket})

Adoptable(ticket) == <<ticket, ticket>> \in gateTickets

\* #adoptGates: unless a read that started later was already adopted.  No read
\* older than the adopted one is adopted after it.
AdoptGates(ticket, page, since) ==
    IF Adoptable(ticket)
    THEN LET newer == {p[2] : p \in {q \in gateTickets : q[1] = ticket}} \ {ticket}
         IN  /\ gates' = page
             /\ gateFloor' = Greatest(since, gateFloor)
             /\ gateTickets' = gateTickets \cap (newer \X newer)
    ELSE UNCHANGED gateVars

-----------------------------------------------------------------------------
(* start() and stop().                                                     *)

Start ==
    /\ ~running /\ Spend("generations")
    /\ generation' = generation + 1 /\ lowest' = MaxSeq
    /\ running' = TRUE
    /\ TakeTicket
    /\ cold' = {[ticket |-> NewTicket, since |-> gate.version, page |-> None,
                 tail |-> Unread, restarted |-> FALSE]}
    /\ join' = [NoJoin EXCEPT !.phase = "subscribing", !.covered = Initial]
    /\ revoked' = FALSE
    /\ UNCHANGED gateController
    /\ Publish([snapshot EXCEPT !.state = "reading", !.liveState = "joining"])
    /\ UNCHANGED <<journal, gate, access, currentEvents, gates, gateFloor,
                   refreshes, earlierVars>>

\* What stop() does beside the generation: every read in flight is aborted.
Abort ==
    /\ running' = FALSE
    /\ cold' = {}
    /\ join' = NoJoin
    /\ gateTimer' = FALSE
    /\ hushed' = FALSE

Stop ==
    /\ running /\ Spend("generations")
    /\ generation' = generation + 1
    /\ Abort
    /\ UNCHANGED <<factoryVars, snapshot, currentEvents, gateVars, gateController,
                   refreshes, earlierVars, revoked>>

\* #current: the generation, and a signal nobody aborted.
Current(read) == running /\ read.of = generation

\* #rejectAccess: Factory revoked the scope, so nothing of it is kept.
RejectAccess ==
    /\ generation' = generation + 1
    /\ Abort
    /\ currentEvents' = {}
    /\ earlierEvents' = {}
    /\ earlier' = [cursor |-> 0, started |-> FALSE]
    /\ gates' = None
    /\ snapshot' = [state |-> "failed", liveState |-> "failed", status |-> FALSE,
                    gates |-> None, events |-> {}, covered |-> 0, earlierState |-> "idle"]
    /\ revoked' = TRUE
    /\ UNCHANGED <<gateTickets, gateFloor>>

-----------------------------------------------------------------------------
(* #readCold.                                                              *)

ColdGates(c) ==
    /\ access /\ c.page = None
    /\ cold' = {[c EXCEPT !.page = gate]}
    /\ UNCHANGED <<factoryVars, budget, generation, running, snapshot, currentEvents, gateVars,
                   refreshVars, earlierVars, join, revoked>>

\* The captured tail, walked to the tip its first page named.
ColdTail(c) ==
    LET tip == Len(journal)
    IN  /\ access /\ ~c.tail.read
        /\ cold' = {[c EXCEPT !.tail = [read |-> TRUE, tip |-> tip,
                rows |-> RowsOf(journal, TailStart, tip)]]}
        /\ UNCHANGED <<factoryVars, budget, generation, running, snapshot, currentEvents, gateVars,
                       refreshVars, earlierVars, join, revoked>>

\* A refused continuation cursor: recapture from a fresh tail, once.
ColdRecapture(c) ==
    /\ c.page # None /\ c.tail.read /\ ~c.restarted
    /\ MayFail
    /\ cold' = {[c EXCEPT !.tail = Unread, !.restarted = TRUE]}
    /\ UNCHANGED <<factoryVars, generation, running, snapshot, currentEvents, gateVars,
                   refreshVars, earlierVars, join, revoked>>

\* The rows `more` over the rows `held`, by sequence.
SetRows(held, more) == more \union {r \in held : \A q \in more : q.seq # r.seq}

ColdReady(c) ==
    /\ c.page # None /\ c.tail.read
    /\ cold' = {}
    /\ currentEvents' = SetRows(currentEvents, c.tail.rows)
    /\ AdoptGates(c.ticket, c.page, c.since)
    /\ UNCHANGED <<running, gateController>>
    /\ Publish([snapshot EXCEPT !.state = "ready", !.status = TRUE, !.gates = gates',
                  !.events = Ordered(currentEvents', earlierEvents),
                  !.covered = Greatest(Initial, c.tail.tip)])
    /\ UNCHANGED <<factoryVars, budget, generation, refreshes, earlierVars, join,
                   revoked>>

ColdFails(c) ==
    /\ MayFail
    /\ cold' = {}
    /\ UNCHANGED <<running, gateController>>
    /\ Publish([snapshot EXCEPT !.state = "failed"])
    /\ UNCHANGED <<factoryVars, generation, currentEvents, gateVars, refreshes, earlierVars, join,
                   revoked>>

ColdDenied(c) ==
    /\ ~access /\ (c.page = None \/ ~c.tail.read)
    /\ RejectAccess
    /\ UNCHANGED <<factoryVars, budget, gateController, refreshes, earlierRead>>

ReadCold ==
    \E c \in cold :
      \/ ColdGates(c) \/ ColdTail(c) \/ ColdRecapture(c)
      \/ ColdReady(c) \/ ColdFails(c) \/ ColdDenied(c)

-----------------------------------------------------------------------------
(* #follow: the join's reads and events.                                   *)

\* Seeded fault: the cold read is left to answer.
KeepCold == UNCHANGED cold

CancelCold == cold' = {}

\* Authorized: readStatus cancels the cold read and reads the gates beside.
Authorize ==
    /\ join.phase = "subscribing"
    /\ CancelCold
    /\ TakeTicket
    /\ join' = [join EXCEPT !.phase = "reading", !.page = None,
                  !.ticket = NewTicket, !.since = gate.version]
    /\ UNCHANGED <<factoryVars, budget, generation, running, snapshot, currentEvents, gates,
                   gateFloor, refreshVars, earlierVars, revoked>>

JoinGates ==
    /\ join.phase = "reading" /\ join.page = None /\ access
    /\ join' = [join EXCEPT !.page = gate]
    /\ UNCHANGED <<factoryVars, budget, generation, running, snapshot, currentEvents, cold,
                   gateVars, refreshVars, earlierVars, revoked>>

StatusRead ==
    /\ join.phase = "reading" /\ join.page # None
    /\ AdoptGates(join.ticket, join.page, join.since)
    /\ join' = [join EXCEPT !.phase = "capturing", !.ticket = 0, !.since = 0, !.page = None]
    /\ UNCHANGED <<factoryVars, budget, generation, running, snapshot, currentEvents, cold,
                   refreshVars, earlierVars, revoked>>

LiveState(covered, tip) == IF covered >= tip THEN "live" ELSE "repairing"

\* Rows the server no longer holds go before the new tail comes.
Pruned(ceiling) == {r \in currentEvents : r.seq <= ceiling}

\* Seeded fault: the aborted page keeps the view loading.
AfterSilentReset(lowered, state) == state

\* The publication of a reset also withdraws the page asked for.
AfterReset(lowered, state) == IF lowered THEN "idle" ELSE state

\* Where the join's rows begin once it has captured: a committed cursor is
\* resumed from, and without one only the tail is read.
JoinStart(covered) ==
    IF covered = 0 THEN TailStart
    ELSE IF join.projected THEN Least(join.from, covered + 1) ELSE covered + 1

\* Where the join may go on from: its cursor, or what the link had delivered in a row when it told of a truncation
\* below that.  One from before the first capture may not have been told.
Cursors ==
    LET told == Least(Len(journal), lowest) IN
    {c \in 0..Least(join.covered, Len(journal)) :
        IF c = join.covered THEN join.projected => told >= c ELSE told < join.covered /\ c <= told}

\* The projection of a new capture.  The view compares its cursor with what it
\* covered, or, on its first projection, the tip with what the cold capture covered.
Projection ==
    /\ join.phase = "capturing" /\ access
    /\ \E covered \in Cursors :
         LET tip == Len(journal)
             lowered == IF join.projected THEN covered < join.covered ELSE tip < snapshot.covered
         IN  /\ join' = [join EXCEPT !.phase = "following", !.tail = journal, !.covered = covered,
                           !.from = JoinStart(covered), !.projected = TRUE]
             /\ currentEvents' = Pruned(IF join.projected /\ lowered THEN covered ELSE tip)
             /\ IF lowered
                THEN /\ earlierEvents' = {}
                     /\ earlier' = [cursor |-> 0, started |-> FALSE]
                     /\ earlierRead' = {[e EXCEPT !.aborted = TRUE] : e \in earlierRead}
                ELSE UNCHANGED earlierVars
             /\ UNCHANGED <<running, gateController>>
             /\ Publish([snapshot EXCEPT !.state = "ready", !.status = TRUE, !.gates = gates,
                           !.liveState = LiveState(covered, tip),
                           !.events = Ordered(currentEvents', earlierEvents'), !.covered = covered,
                           !.earlierState = AfterReset(lowered, @)])
    /\ lowest' = MaxSeq
    /\ UNCHANGED <<journal, gate, access, budget, generation, cold, gateVars, refreshes,
                   revoked>>

\* A public record: the next of the captured tail, or the next one committed.
Public ==
    LET next == Greatest(join.covered, join.from - 1) + 1
        live == IsPrefix(join.tail, journal)
        tail == IF next <= Len(join.tail) \/ ~live THEN join.tail
                ELSE SubSeq(journal, 1, Least(next, Len(journal)))
    IN  /\ join.phase = "following" /\ next <= Len(tail)
        /\ join' = [join EXCEPT !.tail = tail, !.covered = next]
        /\ currentEvents' = SetRows(currentEvents, RowsOf(tail, next, next))
        /\ UNCHANGED <<running, gateController>>
        /\ Publish([snapshot EXCEPT !.state = "ready", !.status = TRUE, !.gates = gates,
                      !.liveState = LiveState(next, Len(tail)),
                      !.events = Ordered(currentEvents', earlierEvents), !.covered = next])
        /\ UNCHANGED <<factoryVars, budget, generation, cold, gateVars, refreshes, earlierVars,
                       revoked>>

\* A repair: the join subscribes again, and reads again once authorized.
Repair ==
    /\ join.phase = "following" /\ Spend("repairs")
    /\ join' = [join EXCEPT !.phase = "subscribing"]
    /\ UNCHANGED <<running, gateController>>
    /\ Publish([snapshot EXCEPT !.liveState = "repairing"])
    /\ UNCHANGED <<factoryVars, generation, currentEvents, cold, gateVars, refreshes, earlierVars,
                   revoked>>

\* The join gave up: a durable snapshot stays useful.
JoinFails ==
    /\ join.phase # "none"
    /\ MayFail
    /\ join' = NoJoin
    /\ UNCHANGED <<running, gateController>>
    /\ Publish([snapshot EXCEPT !.state = IF snapshot.status THEN "ready" ELSE "failed",
                  !.liveState = "failed"])
    /\ UNCHANGED <<factoryVars, generation, currentEvents, cold, gateVars, refreshes, earlierVars,
                   revoked>>

JoinDenied ==
    /\ join.phase \in {"reading", "capturing"}
    /\ ~access
    /\ RejectAccess
    /\ UNCHANGED <<factoryVars, budget, gateController, refreshes, earlierRead>>

Follow ==
    \/ Authorize \/ JoinGates \/ StatusRead \/ Projection \/ Public
    \/ Repair \/ JoinFails \/ JoinDenied

-----------------------------------------------------------------------------
(* #refreshGates.                                                          *)

GateTimer ==
    /\ gateTimer
    /\ gateTimer' = FALSE
    /\ TakeTicket
    /\ gateController' = TRUE
    /\ refreshes' = refreshes \union {[ticket |-> NewTicket, since |-> gate.version,
                                       of |-> generation, page |-> None]}
    /\ UNCHANGED <<factoryVars, budget, generation, running, snapshot, currentEvents, cold, gates,
                   gateFloor, hushed, earlierVars, join, revoked>>

RefreshSampled(r) ==
    /\ r.page = None /\ access /\ Current(r)
    /\ refreshes' = (refreshes \ {r}) \union {[r EXCEPT !.page = gate]}
    /\ UNCHANGED <<factoryVars, budget, generation, running, snapshot, currentEvents, cold,
                   gateVars, gateTimer, gateController, hushed, earlierVars, join, revoked>>

\* A page is published when it is adopted and says something new; otherwise
\* the next re-read is scheduled from what is published already.
Refreshed(r) ==
    /\ r.page # None /\ Current(r)
    /\ refreshes' = refreshes \ {r}
    /\ gateController' = FALSE
    /\ UNCHANGED running
    /\ AdoptGates(r.ticket, r.page, r.since)
    /\ Publish(IF Adoptable(r.ticket) THEN [snapshot EXCEPT !.gates = r.page]
               ELSE snapshot)
    /\ UNCHANGED <<factoryVars, budget, generation, currentEvents, cold, earlierVars,
                   join, revoked>>

\* An aborted read that answers all the same: only the finally runs, and what the
\* read kept from being scheduled meanwhile is not scheduled now.
RefreshSuperseded(r) ==
    /\ ~Current(r) /\ Spend("strays")
    /\ refreshes' = refreshes \ {r}
    /\ gateController' = FALSE
    /\ hushed' = TRUE
    /\ UNCHANGED <<factoryVars, generation, running, snapshot, currentEvents, cold,
                   gateVars, gateTimer, earlierVars, join, revoked>>

\* A transient failure, or the abort of a superseded generation.
RefreshFails(r) ==
    /\ r.page = None \/ ~Current(r)
    /\ IF Current(r) THEN MayFail ELSE UNCHANGED budget
    /\ refreshes' = refreshes \ {r}
    /\ gateController' = FALSE
    /\ UNCHANGED running
    /\ Publish(snapshot)
    /\ UNCHANGED <<factoryVars, generation, currentEvents, cold, gateVars, earlierVars, join,
                   revoked>>

RefreshDenied(r) ==
    /\ r.page = None /\ Current(r)
    /\ ~access
    /\ refreshes' = refreshes \ {r}
    /\ gateController' = FALSE
    /\ RejectAccess
    /\ UNCHANGED <<factoryVars, budget, earlierRead>>

RefreshGates ==
    \/ GateTimer
    \/ \E r \in refreshes :
         \/ RefreshSampled(r) \/ Refreshed(r) \/ RefreshSuperseded(r)
         \/ RefreshFails(r) \/ RefreshDenied(r)

-----------------------------------------------------------------------------
(* browseEarlier() and #readEarlier.                                       *)

\* A click while a read is in flight only joins it, and is left out.
BrowseEarlier ==
    /\ running \/ revoked
    /\ earlierRead = {} /\ snapshot.earlierState # "complete" /\ Spend("clicks")
    /\ earlierRead' = {[of |-> generation, aborted |-> FALSE, page |-> Unread,
                        from |-> IF earlier.started THEN earlier.cursor ELSE 0]}
    /\ UNCHANGED <<running, gateController>>
    /\ Publish([snapshot EXCEPT !.earlierState = "loading"])
    /\ UNCHANGED <<factoryVars, generation, currentEvents, cold, gateVars, refreshes,
                   earlierEvents, earlier, join, revoked>>

EarlierCurrent(e) == e.of = generation /\ ~e.aborted

EarlierSampled(e) ==
    LET last == Least(e.from + TailLimit, Len(journal))
    IN  /\ access /\ ~e.page.read
        /\ earlierRead' = {[e EXCEPT !.page = [read |-> TRUE, tip |-> Len(journal),
                                                rows |-> RowsOf(journal, e.from + 1, last)]]}
        /\ UNCHANGED <<factoryVars, budget, generation, running, snapshot, currentEvents, cold,
                       gateVars, refreshVars, earlierEvents, earlier, join, revoked>>

\* A refused cursor restarts the walk, once, in the same request.
EarlierRestarts(e) ==
    /\ ~e.page.read /\ e.from > 0 /\ EarlierCurrent(e)
    /\ MayFail
    /\ earlierRead' = {[e EXCEPT !.from = 0]}
    /\ earlierEvents' = {}
    /\ earlier' = [cursor |-> 0, started |-> FALSE]
    /\ UNCHANGED <<factoryVars, generation, running, snapshot, currentEvents, cold, gateVars,
                   refreshVars, join, revoked>>

\* One page replaces the one before; the current rows are kept apart.
EarlierShown(e) ==
    LET last == e.from + Cardinality(e.page.rows)
    IN  /\ e.page.read /\ EarlierCurrent(e)
        /\ earlierRead' = {}
        /\ earlierEvents' = e.page.rows
        /\ earlier' = [cursor |-> last, started |-> TRUE]
        /\ UNCHANGED <<running, gateController>>
        /\ Publish([snapshot EXCEPT !.events = Ordered(currentEvents, e.page.rows),
                      !.earlierState = IF last = e.page.tip THEN "complete" ELSE "available"])
        /\ UNCHANGED <<factoryVars, budget, generation, currentEvents, cold, gateVars, refreshes,
                       join, revoked>>

\* An aborted or superseded read settles without a word.
EarlierDropped(e) ==
    /\ ~EarlierCurrent(e)
    /\ earlierRead' = {}
    /\ UNCHANGED <<factoryVars, budget, generation, running, snapshot, currentEvents, cold,
                   gateVars, refreshVars, earlierEvents, earlier, join, revoked>>

EarlierFails(e) ==
    /\ EarlierCurrent(e)
    /\ MayFail
    /\ earlierRead' = {}
    /\ UNCHANGED <<running, gateController>>
    /\ Publish([snapshot EXCEPT !.earlierState = "failed"])
    /\ UNCHANGED <<factoryVars, generation, currentEvents, cold, gateVars, refreshes,
                   earlierEvents, earlier, join, revoked>>

EarlierDenied(e) ==
    /\ ~access /\ ~e.page.read /\ EarlierCurrent(e)
    /\ earlierRead' = {}
    /\ RejectAccess
    /\ UNCHANGED <<factoryVars, budget, gateController, refreshes>>

ReadEarlier ==
    \/ BrowseEarlier
    \/ \E e \in earlierRead :
         \/ EarlierSampled(e) \/ EarlierRestarts(e) \/ EarlierShown(e)
         \/ EarlierDropped(e) \/ EarlierFails(e) \/ EarlierDenied(e)

-----------------------------------------------------------------------------

Next ==
    \/ Commit \/ Truncate \/ GateMoves \/ Revoke
    \/ Start \/ Stop
    \/ ReadCold \/ Follow \/ RefreshGates \/ ReadEarlier

Spec == Init /\ [][Next]_vars

\* A timer fires, a read is answered one way or another, and the join, once it
\* is subscribed, reads and delivers; the user and Factory owe nothing.
GateProgress ==
    \/ GateTimer
    \/ \E r \in refreshes :
         RefreshSampled(r) \/ Refreshed(r) \/ RefreshDenied(r) \/ (~Current(r) /\ RefreshFails(r))

EarlierProgress ==
    \E e \in earlierRead :
      EarlierSampled(e) \/ EarlierShown(e) \/ EarlierDropped(e) \/ EarlierDenied(e)

JoinProgress == Authorize \/ JoinGates \/ StatusRead \/ Projection \/ Public \/ JoinDenied

Fairness == WF_vars(GateProgress) /\ WF_vars(EarlierProgress) /\ WF_vars(JoinProgress)

FairSpec == Spec /\ Fairness

-----------------------------------------------------------------------------
(* Properties.                                                             *)

\* Once the view says it is live it shows, of the records from where the join
\* began, exactly those the journal holds: none missing between the cold
\* capture and the join, none left of a truncated journal, none twice --
\* whichever of the cold read, the join and the earlier pages came last.
\* (Above the cursor only a page of earlier history may hold a row.)
RowsMatchJournal ==
    /\ running /\ snapshot.liveState = "live"
    /\ join.phase = "following" /\ IsPrefix(join.tail, journal)
    => /\ {r \in snapshot.events : r.seq \in join.from..join.covered}
             = RowsOf(journal, join.from, join.covered)
       /\ \A r \in snapshot.events : r.seq <= join.covered \/ r \notin currentEvents

\* Nothing of a session the caller may no longer read is shown, by whichever
\* read the refusal came and whatever other reads were in flight.
RevokedShowsNothing ==
    revoked => /\ snapshot.events = {} /\ snapshot.gates = None
               /\ ~snapshot.status /\ snapshot.covered = 0

\* The adopted gate page is at least as new as any adopted page's read was when
\* it began, though three paths read the page and answer in any order.
NewestGates == gates # None => gates.version >= gateFloor

\* A gate shown unavailable is shown answerable once it is, while it stays so, the
\* machine runs and the join has not given up: re-reads may overlap, fail, or be
\* aborted by a restart, and no late page undoes what a newer one said.  One case
\* is excepted, and the code has it: a re-read of an earlier run that answers
\* although it was aborted schedules nothing, and while it was in flight nothing
\* else could (#refreshGates, #scheduleGateRefresh).  From then on the gate keeps
\* the last page's answer, until something is published.
GateConverges ==
    (running /\ snapshot.gates.answer = "unavailable" /\ gate.answer = "resident")
      ~> \/ snapshot.gates.answer = "resident" \/ gate.answer # "resident"
         \/ ~running \/ ~access \/ snapshot.liveState = "failed"
         \/ hushed

\* A page of earlier history asked for in the first run is shown, refused, or
\* withdrawn by a reset: the view does not stay loading while that run lasts.
\* (A later run may start with the word of a read that stop() aborted.)
EarlierSettles ==
    (generation = 1 /\ snapshot.earlierState = "loading")
      ~> (snapshot.earlierState # "loading" \/ generation # 1)

\* What is shown is what the caller may read, as the journal holds it, and the
\* gate page never goes back.
ShownIsTrue == RowsMatchJournal /\ RevokedShowsNothing /\ NewestGates
=============================================================================
