-------------------------- MODULE FactoryViewStore --------------------------
(***************************************************************************)
(* FactorySessionViewStore (packages/protocol/src/store.ts): it runs one   *)
(* Factory join at a time, publishes each update and keeps the cursor the  *)
(* next join starts from.  A start makes a run; stop() aborts its join and *)
(* moves the lifecycle token on, but the join may still yield, and the run *)
(* is known by its token when it does.                                     *)
(*                                                                         *)
(* A join is what ContiguousFeed promises, seen through one run's cursor:  *)
(* it offers an update and waits until the pump has taken it.  Listeners   *)
(* are called at the end of a step, and may start or stop the store before *)
(* anything else happens; error listeners are called in the middle of one, *)
(* with the failed run still held.  The journal is external.               *)
(***************************************************************************)
EXTENDS Naturals, Sequences

CONSTANTS
    MaxSeq,          \* bound: journal length
    MaxStarts,       \* bound: runs
    MaxTruncations   \* bound: times the journal shrinks

ASSUME FactoryBoundAssumption == {MaxSeq, MaxStarts, MaxTruncations} \subseteq Nat

VARIABLES
    log,             \* the journal: [public, id] per sequence
    cuts,            \* truncations so far
    controller,      \* the run it aborts, 0 when undefined
    lifecycleToken,
    coveredThrough,  \* where the next join starts, persisted as it moves
    iterators,       \* the runs so far; the last one's number is `generation`
    edge,            \* history: where the consumer's window starts
    shown            \* history: the public records `published` held while
                     \* the journal had only grown

journalVars == <<log, cuts>>
toldVars == <<coveredThrough, shown>>
factoryVars == <<journalVars, controller, lifecycleToken, iterators, toldVars, edge>>

\* What a join has yielded and its pump has not taken yet.
NoOffer == [covered |-> 0, event |-> 0, made |-> FALSE]
Offer(covered, event) == [covered |-> covered, event |-> event, made |-> TRUE]

Iterators == [token : Nat, cursor : 0..MaxSeq, opened : 0..MaxSeq,
              offer : [covered : 0..MaxSeq, event : 0..MaxSeq, made : BOOLEAN],
              aborted : BOOLEAN, at : {"waiting", "failing", "left"}]
Records == [public : BOOLEAN, id : {0}]
Shown == [seq : 1..MaxSeq, id : {0}]

FactoryTypeOK ==
    /\ log \in Seq(Records) /\ Len(log) <= MaxSeq
    /\ cuts \in 0..MaxTruncations
    /\ iterators \in Seq(Iterators) /\ Len(iterators) <= MaxStarts
    /\ controller \in 0..Len(iterators)
    /\ lifecycleToken \in Nat
    /\ coveredThrough \in 0..MaxSeq /\ edge \in 0..MaxSeq
    /\ shown \in Seq(Shown)

FactoryInit ==
    /\ log \in UNION {[1..n -> Records] : n \in 0..MaxSeq}
    /\ cuts = 0
    /\ controller = 0 /\ lifecycleToken = 0
    /\ coveredThrough \in 0..Len(log)
    /\ iterators = <<>>
    /\ edge = coveredThrough /\ shown = <<>>

-----------------------------------------------------------------------------
(* The store.                                                              *)

\* Error listeners are being called; nothing runs but what they call.
Telling == \E r \in DOMAIN iterators : iterators[r].at = "failing"

Current(it) == it.token = lifecycleToken

\* A run that is over: nothing is left of its join.
Gone(it) == [it EXCEPT !.cursor = 0, !.opened = 0, !.offer = NoOffer, !.at = "left"]

FactoryStart ==
    /\ controller = 0 /\ Len(iterators) < MaxStarts
    /\ controller' = Len(iterators) + 1
    /\ lifecycleToken' = lifecycleToken + 1
    /\ iterators' = Append(iterators,
           [token |-> lifecycleToken', cursor |-> coveredThrough, opened |-> coveredThrough,
            offer |-> NoOffer, aborted |-> FALSE, at |-> "waiting"])
    /\ edge' = IF coveredThrough = 0 THEN 0 ELSE edge
    /\ UNCHANGED <<journalVars, toldVars>>

FactoryStop ==
    /\ controller # 0
    /\ lifecycleToken' = lifecycleToken + 1
    /\ iterators' = [iterators EXCEPT ![controller].aborted = TRUE]
    /\ controller' = 0
    /\ UNCHANGED <<journalVars, toldVars, edge>>

\* What an update does before the listeners are told: it is published, and the
\* cursor moves up to it, never down.
Publishes(offer) ==
    /\ coveredThrough' = IF offer.covered > coveredThrough THEN offer.covered ELSE coveredThrough
    /\ shown' = IF offer.event = 0 \/ cuts > 0 THEN shown
                ELSE Append(shown, [seq |-> offer.event, id |-> 0])

\* Seeded fault: the pump does not look at the token.
TakeUnchecked(r) ==
    LET it == iterators[r]
    IN  /\ it.offer.made /\ it.at = "waiting"
        /\ Publishes(it.offer)
        /\ iterators' = [iterators EXCEPT ![r].offer = NoOffer]
        /\ UNCHANGED <<journalVars, controller, lifecycleToken, edge>>

\* The pump takes an update.  A run whose token was superseded leaves instead.
Take(r) ==
    LET it == iterators[r]
    IN  /\ it.offer.made /\ it.at = "waiting"
        /\ IF Current(it)
           THEN /\ Publishes(it.offer)
                /\ iterators' = [iterators EXCEPT ![r].offer = NoOffer]
           ELSE /\ iterators' = [iterators EXCEPT ![r] = Gone(it)]
                /\ UNCHANGED toldVars
        /\ UNCHANGED <<journalVars, controller, lifecycleToken, edge>>

\* The application could not persist the cursor, which has moved already: the
\* run fails, with the update published but no listener told.
PersistThrows(r) ==
    LET it == iterators[r]
    IN  /\ it.offer.made /\ it.at = "waiting" /\ Current(it)
        /\ it.offer.covered > coveredThrough
        /\ Publishes(it.offer)
        /\ iterators' = [iterators EXCEPT ![r].offer = NoOffer, ![r].at = "failing"]
        /\ UNCHANGED <<journalVars, controller, lifecycleToken, edge>>

\* The join throws.  Only the current run's failure is told.
PumpThrows(r) ==
    LET it == iterators[r]
    IN  /\ it.at = "waiting" /\ ~it.offer.made
        /\ iterators' = [iterators EXCEPT ![r] =
               IF Current(it) THEN [it EXCEPT !.at = "failing"] ELSE Gone(it)]
        /\ UNCHANGED <<journalVars, controller, lifecycleToken, toldVars, edge>>

\* The finally after a failure that was told: a listener may have stopped the
\* store, and started it again.
SettleFailed(r) ==
    /\ iterators[r].at = "failing"
    /\ iterators' = [iterators EXCEPT ![r] = Gone(iterators[r])]
    /\ controller' = IF Current(iterators[r]) THEN 0 ELSE controller
    /\ UNCHANGED <<journalVars, lifecycleToken, toldVars, edge>>

-----------------------------------------------------------------------------
(* The joins and the journal: external.                                    *)

Yields(r, covered, event) ==
    /\ iterators[r].at = "waiting" /\ ~iterators[r].offer.made
    /\ iterators' = [iterators EXCEPT ![r].cursor = covered,
                                      ![r].offer = Offer(covered, event)]
    /\ UNCHANGED <<journalVars, controller, lifecycleToken, toldVars, edge>>

NothingPublicTo(it, high) ==
    \A s \in DOMAIN log : s > it.cursor /\ s > it.opened /\ s <= high => ~log[s].public

\* The next public record; coverage alone; the status, or an ephemeral frame.
YieldsPublic(r) ==
    \E s \in DOMAIN log :
      /\ s > iterators[r].cursor /\ log[s].public
      /\ NothingPublicTo(iterators[r], s - 1)
      /\ Yields(r, s, s)
YieldsCoverage(r) ==
    \E s \in DOMAIN log :
      /\ s > iterators[r].cursor /\ NothingPublicTo(iterators[r], s)
      /\ Yields(r, s, 0)
YieldsStatus(r) == Yields(r, iterators[r].cursor, 0)

\* A join with nothing committed opens at the journal's newest window.
OpensWindow(r) ==
    LET it == iterators[r]
    IN  /\ it.at = "waiting" /\ ~it.offer.made /\ it.cursor = 0
        /\ \E s \in 0..Len(log) :
             /\ iterators' = [iterators EXCEPT ![r].opened = s]
             /\ edge' = IF Current(it) /\ coveredThrough = 0 /\ cuts = 0 THEN s ELSE edge
        /\ UNCHANGED <<journalVars, controller, lifecycleToken, toldVars>>

\* A join told of a truncation goes back.
GoesBack(r) ==
    LET it == iterators[r]
    IN  /\ it.at = "waiting" /\ ~it.offer.made /\ cuts > 0
        /\ \E s \in 0..Len(log) :
             /\ s < it.cursor
             /\ iterators' = [iterators EXCEPT ![r].cursor = s, ![r].opened = s]
        /\ UNCHANGED <<journalVars, controller, lifecycleToken, toldVars, edge>>

\* An aborted join returns.
JoinReturns(r) ==
    /\ iterators[r].aborted /\ iterators[r].at = "waiting" /\ ~iterators[r].offer.made
    /\ iterators' = [iterators EXCEPT ![r] = Gone(iterators[r])]
    /\ UNCHANGED <<journalVars, controller, lifecycleToken, toldVars, edge>>

JournalGrows ==
    /\ Len(log) < MaxSeq
    /\ \E record \in Records : log' = Append(log, record)
    /\ UNCHANGED <<cuts, controller, lifecycleToken, iterators, toldVars, edge>>

JournalShrinks ==
    /\ cuts < MaxTruncations
    /\ \E tip \in 0..Len(log) : tip < Len(log) /\ log' = SubSeq(log, 1, tip)
    /\ cuts' = cuts + 1
    /\ shown' = <<>> /\ edge' = 0
    /\ UNCHANGED <<controller, lifecycleToken, iterators, coveredThrough>>

-----------------------------------------------------------------------------

FactoryNext ==
    \/ FactoryStart \/ FactoryStop
    \/ \E r \in DOMAIN iterators : SettleFailed(r)
    \/ /\ ~Telling
       /\ \/ JournalGrows \/ JournalShrinks
          \/ \E r \in DOMAIN iterators :
               \/ Take(r) \/ PersistThrows(r) \/ PumpThrows(r)
               \/ YieldsPublic(r) \/ YieldsCoverage(r) \/ YieldsStatus(r)
               \/ OpensWindow(r) \/ GoesBack(r) \/ JoinReturns(r)

FactorySpec == FactoryInit /\ [][FactoryNext]_factoryVars

-----------------------------------------------------------------------------
(* Properties.                                                             *)

\* However often the store is stopped and started, from its listeners too, and
\* whatever a superseded join still yields, and whether or not the cursor could
\* be persisted: while the journal only grows, the store publishes every public
\* record between the window's edge and the cursor the next join starts from,
\* in order and each once.  A record below that cursor is never read again.
NothingLost ==
    cuts = 0 =>
      /\ \A i, j \in DOMAIN shown : i < j => shown[i].seq < shown[j].seq
      /\ \A i \in DOMAIN shown : shown[i].seq <= coveredThrough
      /\ \A s \in DOMAIN log :
           edge < s /\ s <= coveredThrough /\ log[s].public =>
             \E i \in DOMAIN shown : shown[i].seq = s

\* The store is active exactly while it has a run to hear from, and no join it
\* has given up keeps its subscription: all but that run were aborted or left.
RunsAsAsked ==
    ~Telling =>
      /\ controller # 0 =>
           /\ iterators[controller].at = "waiting" /\ ~iterators[controller].aborted
           /\ Current(iterators[controller])
      /\ \A r \in DOMAIN iterators :
           r # controller => iterators[r].aborted \/ iterators[r].at = "left"

\* Until the journal shrinks, what the store publishes, over all runs, is one
\* contiguous feed: the store keeps the promise its joins make.
StoreFeed == INSTANCE ContiguousFeed
               WITH cursor <- coveredThrough, opened <- edge, yielded <- shown
KeepsThePromise ==
    StoreFeed!Init /\ [][cuts = 0 /\ cuts' = 0 => StoreFeed!Next]_(StoreFeed!vars)

\* The store loses nothing, hears the run that was asked for and no other, and
\* publishes one contiguous feed.
StoreFaithful == [](NothingLost /\ RunsAsAsked) /\ KeepsThePromise
=============================================================================
