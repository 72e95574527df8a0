-------------------------- MODULE FactoryLinkStore --------------------------
(***************************************************************************)
(* FactoryLinkStore (packages/react/src/stores/connection.ts): the owner   *)
(* of the one ClientLink, which hands every session view a binding over    *)
(* it.  A binding survives connections: the store counts established       *)
(* connections in `generation`, subscribes each binding at most once per   *)
(* generation, and coalesces everybody's wish to reconnect into one        *)
(* attempt.                                                                *)
(*                                                                         *)
(* JavaScript runs a callback to completion, so each action is one whole   *)
(* synchronous run: a call into the store, one reaction of a settled       *)
(* promise (`jobs`), or one event of the transport with the handlers it    *)
(* calls.  Transport events wait until no reaction is queued; the views'   *)
(* own calls may come between two reactions.  Reactions queued together    *)
(* run in any order here, which covers the order the code runs them in.    *)
(* A view's callback is taken not to call back into the store at once.     *)
(***************************************************************************)
EXTENDS ClientLink, FiniteSets

CONSTANTS
    MaxEpoch,   \* bound: no open() or close() at this many epochs
    MaxLosses   \* bound: established connections that are lost

ASSUME BoundsAssumption == MaxEpoch \in Nat /\ MaxLosses \in Nat

VARIABLES
    bindings,   \* #bindings: the records that are bound
    rec,        \* the BindingRecord of each binding
    generation, \* #generation
    epoch,      \* #epoch, the RefreshGuard's counter
    connecting, \* the epoch of the attempt #connecting holds; 0: undefined
    waiting,    \* the #join calls that await that attempt
    status,     \* snapshot().state
    jobs,       \* queued reactions of settled promises
    losses,     \* history: how many connections were lost
    closed,     \* history: nothing was asked of the store since close()
    heard,      \* history of each binding: the subscriptions it `opens`, the
                \* `joins` and the `rejoins` it is told
    told,       \* history: the bindings told of an error since they were bound
                \* or last opened a subscription
    lost        \* history of each binding: the errors it was told that ended
                \* an authorized subscription

storeVars == <<bindings, rec, generation, epoch, connecting, waiting, status>>
history == <<losses, closed, heard, told, lost>>
vars == <<linkVars, storeVars, jobs, history>>

\* The reactions: of link.connect()'s promise, of the attempt a #join awaits,
\* and of a subscription's `ready`.
Connected(e, ok) == [kind |-> "connect", epoch |-> e, ok |-> ok]
Joins(bs, ok) == {[kind |-> "join", binding |-> b, ok |-> ok] : b \in bs}
Ready(s, ok) == [kind |-> "ready", binding |-> s.owner,
                 generation |-> s.generation, rejoin |-> s.rejoin, ok |-> ok]

Jobs == [kind : {"connect"}, epoch : Nat \ {0}, ok : BOOLEAN]
          \union [kind : {"join"}, binding : Binding, ok : BOOLEAN]
          \union [kind : {"ready"}, binding : Binding, generation : Nat \ {0},
                  rejoin : BOOLEAN, ok : BOOLEAN]

\* `release` is the generation of the subscription the record would release,
\* 0 for undefined; `ready` is the binding's own promise.
Records == [phase : {"unbound", "bound", "cancelled"}, attempted : Nat,
            release : Nat, joined : BOOLEAN,
            ready : {"pending", "authorized", "rejected"}]

TypeOK ==
    /\ LinkTypeOK
    /\ bindings \in SUBSET Binding
    /\ rec \in [Binding -> Records]
    /\ generation \in Nat
    /\ epoch \in Nat
    /\ connecting \in Nat
    /\ waiting \in SUBSET Binding
    /\ status \in {"idle", "connecting", "connected", "failed"}
    /\ jobs \in SUBSET Jobs
    /\ losses \in Nat
    /\ closed \in BOOLEAN
    /\ heard \in [Binding -> [opens : Nat, joins : Nat, rejoins : Nat]]
    /\ told \in SUBSET Binding
    /\ lost \in [Binding -> Nat]

Init ==
    /\ LinkInit
    /\ bindings = {}
    /\ rec = [b \in Binding |-> [phase |-> "unbound", attempted |-> 0, release |-> 0,
                                 joined |-> FALSE, ready |-> "pending"]]
    /\ generation = 0
    /\ epoch = 0
    /\ connecting = 0
    /\ waiting = {}
    /\ status = "idle"
    /\ jobs = {}
    /\ losses = 0
    /\ closed = FALSE
    /\ heard = [b \in Binding |-> [opens |-> 0, joins |-> 0, rejoins |-> 0]]
    /\ told = {}
    /\ lost = [b \in Binding |-> 0]

-----------------------------------------------------------------------------
(* The private methods, as they act within one synchronous run.            *)

\* A promise settles once.
Settle(ready, as) == IF ready = "pending" THEN as ELSE ready

\* Seeded fault: only a superseded subscription is not listened to.
CurrentGeneration(b, g) == rec[b].attempted = g

\* The guard of every callback a subscription was opened with.
Current(b, g) == rec[b].phase # "cancelled" /\ rec[b].attempted = g

\* Seeded fault: unsubscribing keeps the channel in the registry.
ReleasedNothing(b) == {}

\* What #release(b) takes out of the registry: Centrifuge removes by channel.
Released(b) == IF rec[b].release = 0 THEN {} ELSE Holders(ChannelOf[b])

\* Removing a subscription that was never authorized rejects its `ready`.
Unready(subs) == {Ready(s, FALSE) : s \in {t \in subs : t.state = "subscribing"}}

\* The peers #redriveChannelPeers(b) drives: they never held a subscription.
Losers(b) == {x \in bindings \ {b} : ChannelOf[x] = ChannelOf[b] /\ ~rec[x].joined}

\* What a #release(b) that freed the channel drives.
Peers(b) == IF rec[b].release = 0 THEN {} ELSE Losers(b)

\* A peer that is driven again has made no attempt on any generation.
Redriven(r) == [r EXCEPT !.attempted = 0]

\* #ensureConnected(), and the wait of every `#join` in `who` on its result.
\* `conn`, `gen` and `st` are #connecting, #generation and the state when it is
\* called; `queued` are the reactions and `wait` the waits queued before it.
EnsureConnected(who, conn, gen, st, queued, wait) ==
    \/ /\ conn # 0
       /\ connecting' = conn
       /\ status' = st
       /\ waiting' = wait \union who
       /\ jobs' = queued
       /\ UNCHANGED <<connectVars, epoch>>
    \/ /\ conn = 0
       /\ LinkState = "connected" /\ gen > 0
       /\ connecting' = 0
       /\ status' = st
       /\ waiting' = wait
       /\ jobs' = queued \union Joins(who, TRUE)
       /\ UNCHANGED <<connectVars, epoch>>
    \/ /\ conn = 0
       /\ ~(LinkState = "connected" /\ gen > 0)
       /\ epoch' = epoch + 1
       /\ connecting' = epoch + 1
       /\ status' = "connecting"
       /\ waiting' = wait \union who
       /\ \/ /\ ResolvesAtOnce
             /\ jobs' = queued \union {Connected(epoch + 1, TRUE)}
             /\ UNCHANGED connectVars
          \/ /\ ~ResolvesAtOnce
             /\ jobs' = queued
             /\ Connect(epoch + 1)

\* `void this.#join(record)` for every record of `who`; nothing for none.
Drive(who, conn, gen, st, queued, wait) ==
    IF who # {}
    THEN EnsureConnected(who, conn, gen, st, queued, wait)
    ELSE /\ connecting' = conn
         /\ status' = st
         /\ waiting' = wait
         /\ jobs' = queued
         /\ UNCHANGED <<connectVars, epoch>>

\* #onBindingError, for the subscription s that reports it.  A report from a
\* cancelled record or a superseded subscription returns at once; OpenIsHeard
\* says that no registered subscription is either.
OnBindingError(s) ==
    LET b == s.owner
        peers == Peers(b)
    IN  /\ Current(b, s.generation)
        /\ registry' = registry \ Released(b)
        /\ rec' = [x \in Binding |->
                     IF x = b
                     THEN [rec[x] EXCEPT !.release = 0, !.ready = Settle(@, "rejected")]
                     ELSE IF x \in peers THEN Redriven(rec[x]) ELSE rec[x]]
        /\ told' = told \union {b}
        /\ lost' = [lost EXCEPT ![b] = @ + (IF s.state = "subscribed" THEN 1 ELSE 0)]
        /\ Drive(peers \union {b}, connecting, generation, status,
                 jobs \union Unready(Released(b)), waiting)
        /\ UNCHANGED <<bindings, generation, losses, closed, heard>>

-----------------------------------------------------------------------------
(* The calls of the provider and of the views.                             *)

Open ==
    /\ dropping = "no"
    /\ epoch < MaxEpoch
    /\ EnsureConnected({}, connecting, generation, status, jobs, waiting)
    /\ closed' = FALSE
    /\ UNCHANGED <<registry, dropping, bindings, rec, generation, losses, heard, told, lost>>

Bind(b) ==
    /\ dropping = "no"
    /\ rec[b].phase = "unbound"
    /\ bindings' = bindings \union {b}
    /\ rec' = [rec EXCEPT ![b].phase = "bound"]
    /\ Drive({b}, connecting, generation, status, jobs, waiting)
    /\ closed' = FALSE
    /\ UNCHANGED <<registry, dropping, generation, losses, heard, told, lost>>

\* A view cancels its binding: only the first call does anything.
Cancel(b) ==
    LET peers == Peers(b)
    IN  /\ dropping = "no"
        /\ rec[b].phase = "bound"
        /\ bindings' = bindings \ {b}
        /\ registry' = registry \ Released(b)
        /\ rec' = [x \in Binding |->
                     IF x = b
                     THEN [rec[x] EXCEPT !.phase = "cancelled", !.release = 0,
                                         !.ready = Settle(@, "rejected")]
                     ELSE IF x \in peers THEN Redriven(rec[x]) ELSE rec[x]]
        /\ Drive(peers, connecting, generation, status,
                 jobs \union Unready(Released(b)), waiting)
        /\ UNCHANGED <<dropping, generation, history>>

\* close() cancels every binding with the set already empty, so no peer is
\* re-driven, and then disconnects.  The waits it abandons find their records
\* cancelled, whatever their attempt comes to, and are forgotten here.
Close ==
    LET freed == UNION {Released(b) : b \in bindings}
    IN  /\ dropping = "no"
        /\ epoch < MaxEpoch
        /\ epoch' = epoch + 1
        /\ connecting' = 0
        /\ bindings' = {}
        /\ rec' = [x \in Binding |->
                     IF x \in bindings
                     THEN [rec[x] EXCEPT !.phase = "cancelled", !.release = 0,
                                         !.ready = Settle(@, "rejected")]
                     ELSE rec[x]]
        /\ registry' = registry \ freed
        /\ jobs' = jobs \union Unready(freed)
                        \union {Connected(e, FALSE) : e \in pendingConnect}
        /\ waiting' = {}
        /\ Disconnect
        /\ status' = "idle"
        /\ closed' = TRUE
        /\ UNCHANGED <<dropping, generation, losses, heard, told, lost>>

-----------------------------------------------------------------------------
(* The reactions.                                                          *)

\* The reaction of link.connect()'s promise, and the settling of the attempt.
\* One that a later epoch has overtaken returns; nobody awaits it any more.
Overtaken(j) ==
    /\ j.epoch # epoch
    /\ jobs' = jobs \ {j}
    /\ UNCHANGED <<connectVars, storeVars>>

Established(j) ==
    /\ j.epoch = epoch /\ j.ok
    /\ generation' = generation + 1
    /\ Drive(bindings, 0, generation + 1, "connected",
             (jobs \ {j}) \union Joins(waiting, TRUE), {})
    /\ UNCHANGED <<bindings, rec>>

Failed(j) ==
    /\ j.epoch = epoch /\ ~j.ok
    /\ connecting' = 0
    /\ status' = "failed"
    /\ jobs' = (jobs \ {j}) \union Joins(waiting, FALSE)
    /\ waiting' = {}
    /\ UNCHANGED <<connectVars, bindings, rec, generation, epoch>>

ConnectReaction ==
    /\ dropping = "no"
    /\ \E j \in jobs : /\ j.kind = "connect"
                       /\ Overtaken(j) \/ Established(j) \/ Failed(j)
    /\ UNCHANGED <<registry, dropping, history>>

\* The rest of #join(b), once the attempt it awaited is settled.
Abandoned(b) == rec[b].phase = "cancelled" \/ rec[b].attempted = generation

Unavailable(b) ==
    /\ rec' = [rec EXCEPT ![b].ready = Settle(@, "rejected")]
    /\ told' = told \union {b}
    /\ UNCHANGED <<registry, heard>>

\* The previous subscription goes before the next one is opened.
Subscribes(b) ==
    LET left == registry \ Released(b)
    IN  \/ /\ \E s \in left : ChannelOf[s.owner] = ChannelOf[b]
           /\ rec' = [rec EXCEPT ![b].attempted = generation, ![b].release = 0,
                                 ![b].ready = Settle(@, "rejected")]
           /\ registry' = left
           /\ told' = told \union {b}
           /\ UNCHANGED heard
        \/ /\ ~\E s \in left : ChannelOf[s.owner] = ChannelOf[b]
           /\ rec' = [rec EXCEPT ![b].attempted = generation, ![b].release = generation,
                                 ![b].joined = TRUE]
           /\ registry' = Subscribe(b, generation, rec[b].joined, left)
           /\ heard' = [heard EXCEPT ![b].opens = @ + 1]
           /\ told' = told \ {b}

JoinReaction ==
    /\ dropping = "no"
    /\ \E j \in jobs :
         LET b == j.binding
         IN  /\ j.kind = "join"
             /\ \/ /\ IF j.ok THEN Abandoned(b) ELSE rec[b].phase = "cancelled"
                   /\ jobs' = jobs \ {j}
                   /\ UNCHANGED <<rec, registry, heard, told>>
                \/ /\ ~j.ok /\ rec[b].phase # "cancelled"
                   /\ Unavailable(b)
                   /\ jobs' = jobs \ {j}
                \/ /\ j.ok /\ ~Abandoned(b)
                   /\ Subscribes(b)
                   /\ jobs' = (jobs \ {j}) \union Unready(Released(b))
    /\ UNCHANGED <<connectVars, dropping, bindings, generation, epoch, connecting,
                   waiting, status, losses, closed, lost>>

\* The reaction of a subscription's `ready`: onJoin or onRejoin.  A rejection
\* rejects the binding's own promise, whichever subscription it comes from.
ReadyReaction ==
    /\ dropping = "no"
    /\ \E j \in jobs :
         LET b == j.binding
         IN  /\ j.kind = "ready"
             /\ jobs' = jobs \ {j}
             /\ \/ /\ j.ok /\ Current(b, j.generation)
                   /\ rec' = [rec EXCEPT ![b].ready = Settle(@, "authorized")]
                   /\ heard' = IF j.rejoin
                               THEN [heard EXCEPT ![b].rejoins = @ + 1]
                               ELSE [heard EXCEPT ![b].joins = @ + 1]
                \/ /\ j.ok /\ ~Current(b, j.generation)
                   /\ UNCHANGED <<rec, heard>>
                \/ /\ ~j.ok
                   /\ rec' = [rec EXCEPT ![b].ready = Settle(@, "rejected")]
                   /\ UNCHANGED heard
    /\ UNCHANGED <<linkVars, bindings, generation, epoch, connecting, waiting, status,
                   losses, closed, told, lost>>

-----------------------------------------------------------------------------
(* The transport's events.                                                 *)

Idle == dropping = "no" /\ jobs = {}

ConnectOpens ==
    /\ Idle
    /\ Opens
    /\ jobs' = {Connected(e, TRUE) : e \in pendingConnect}
    /\ UNCHANGED <<registry, dropping, storeVars, history>>

ConnectFails ==
    /\ Idle
    /\ transport = "connecting"
    /\ Disconnect
    /\ jobs' = {Connected(e, FALSE) : e \in pendingConnect}
    /\ UNCHANGED <<registry, dropping, storeVars, history>>

ConnectionDrops ==
    /\ Idle
    /\ losses < MaxLosses
    /\ losses' = losses + 1
    /\ \E next \in {"connecting", "disconnected"} : Drop(next)
    /\ UNCHANGED <<storeVars, jobs, closed, heard, told, lost>>

\* Seeded fault: a drop is left to the library, which asks for the subscription
\* again by itself and replays nothing.
SubscriptionResumes ==
    /\ dropping # "no"
    /\ \E s \in registry : /\ s.state = "subscribed"
                           /\ registry' = (registry \ {s})
                                            \union {[s EXCEPT !.state = "subscribing"]}
    /\ UNCHANGED <<connectVars, dropping, storeVars, jobs, history>>

\* A drop moves a subscribed subscription to "subscribing", which the link
\* reports as an error.
SubscriptionDrops ==
    /\ dropping # "no"
    /\ \E s \in registry : s.state = "subscribed" /\ OnBindingError(s)
    /\ UNCHANGED dropping

ClientDrops ==
    /\ DropEnds
    /\ jobs' = IF dropping = "disconnected"
               THEN jobs \union {Connected(e, FALSE) : e \in pendingConnect}
               ELSE jobs
    /\ UNCHANGED <<storeVars, history>>

SubscriptionOpens(b) ==
    /\ Idle
    /\ \E s \in registry : /\ s.owner = b
                           /\ Authorizes(s)
                           /\ jobs' = {Ready(s, TRUE)}
    /\ UNCHANGED <<storeVars, history>>

\* Any other way a subscription reports an error: declined or ended by the
\* server, a token that cannot be had, a publication that cannot be handled.
SubscriptionFails(b) ==
    /\ Idle
    /\ \E s \in registry : s.owner = b /\ OnBindingError(s)
    /\ UNCHANGED dropping

\* What a server owes: an answer to a subscription that asks, on a connection.
SubscriptionAnswered(b) ==
    /\ transport = "connected"
    /\ \E s \in registry : s.owner = b /\ s.state = "subscribing"
    /\ SubscriptionOpens(b) \/ SubscriptionFails(b)

Calls == Open \/ Close \/ \E b \in Binding : Bind(b) \/ Cancel(b)
Reactions == ConnectReaction \/ JoinReaction \/ ReadyReaction
Events == \/ ConnectOpens \/ ConnectFails \/ ConnectionDrops \/ SubscriptionDrops
          \/ ClientDrops
          \/ \E b \in Binding : SubscriptionOpens(b) \/ SubscriptionFails(b)

Next == Calls \/ Reactions \/ Events

Spec == Init /\ [][Next]_vars

\* Queued reactions run, a synchronous run of callbacks ends, an attempt to
\* connect comes to an answer, and while there is a connection the server
\* answers a subscription, however often other callbacks come in between.
Fairness ==
    /\ WF_vars(ConnectReaction) /\ WF_vars(JoinReaction) /\ WF_vars(ReadyReaction)
    /\ WF_vars(SubscriptionDrops) /\ WF_vars(ClientDrops)
    /\ SF_vars(ConnectOpens \/ ConnectFails)
    /\ \A b \in Binding : SF_vars(SubscriptionAnswered(b))

FairSpec == Spec /\ Fairness

-----------------------------------------------------------------------------
(* Properties.                                                             *)

\* The subscription that holds a channel is the one its binding would release
\* and the one whose reports it listens to, and a binding that would release a
\* subscription really holds one: no live subscription is out of reach of the
\* record it delivers to (#release, #join).
OpenIsHeard ==
    /\ \A s \in registry : LET b == s.owner
                           IN  /\ b \in bindings
                               /\ rec[b].release = s.generation
                               /\ rec[b].attempted = s.generation
    /\ \A b \in Binding : rec[b].release # 0 =>
         \E s \in registry : s.owner = b /\ s.generation = rec[b].release

\* Everything queued has run and no attempt is in flight.
Quiet == Idle /\ connecting = 0

\* A binding that lost the race for its channel is never left behind while the
\* channel is free: once the store is at rest, somebody holds it
\* (#redriveChannelPeers).
LoserReachable ==
    Quiet /\ status = "connected" =>
      \A b \in bindings : rec[b].joined \/ Holders(ChannelOf[b]) # {}

\* Every binding got its chance on the last connection the store counted, one
\* that was down before it, arrived while it was being made, or lost its channel
\* included (the loop of #ensureConnected, #join, bind).  The store counts the
\* connections it asked for.  One the library makes by itself after a loss gives
\* nobody a chance unless somebody asks meanwhile: the loss is told while the
\* link still believes in its connection, the fast path takes it for one that
\* is up, and no attempt is started.  DownIsTold says what is left of the
\* promise then.
EveryGenerationTried ==
    Quiet /\ status = "connected" => \A b \in bindings : rec[b].attempted = generation

\* No binding is down in silence.  At rest one that holds no subscription has
\* been told an error since it was bound or last opened one: it lost its
\* subscription, was refused its channel, or found no connection, however the
\* loss, the reconnection and the race for the channel fell together (the
\* callers of onError in #join and #onBindingError).
DownIsTold ==
    Quiet => \A b \in bindings : rec[b].release # 0 \/ b \in told

Live(b) == \E s \in registry : s.owner = b /\ s.state = "subscribed"

\* A bound view can pair what it is told: every authorization had its onJoin or
\* onRejoin, and every authorized subscription that is gone had exactly one
\* onError.  None is replaced, resumed or dropped untold (the interruption of
\* `subscribing` in clientlink.ts, #onBindingError, #join).
EachLossTold ==
    jobs = {} => \A b \in bindings :
      heard[b].joins + heard[b].rejoins = lost[b] + (IF Live(b) THEN 1 ELSE 0)

\* A session the server keeps declining is not reopened in a loop on one
\* connection, whoever else competes for its channel: a binding opens at most
\* one subscription per generation.
OncePerGeneration == \A b \in Binding : heard[b].opens <= generation

\* A join that waits, waits for something that will be answered: the attempt is
\* the current one, the link holds it or its reaction is queued, and an attempt
\* the link holds has a transport at work behind it (#ensureConnected, connect).
NoOrphanedWait ==
    /\ waiting # {} => connecting # 0
    /\ connecting # 0 =>
         /\ connecting = epoch
         /\ epoch \in pendingConnect \/ \E j \in jobs : j.kind = "connect" /\ j.epoch = epoch
    /\ pendingConnect # {} => transport = "connecting"

\* After close() the store stays idle over a disconnected link, whichever
\* attempt, join or readiness settles late, until it is opened or bound again.
ClosedStaysIdle ==
    closed => /\ status = "idle"
              /\ LinkState = "disconnected"
              /\ registry = {}

\* A binding is told of at most one join, and of no more joins and rejoins
\* than it opened subscriptions (onJoin and onRejoin partition them).
ToldOncePerSubscription ==
    \A b \in Binding : /\ heard[b].joins <= 1
                       /\ heard[b].joins + heard[b].rejoins <= heard[b].opens

\* A cancelled binding is told nothing more, opens nothing more and its promise
\* is settled, however late a reaction of its own comes.
CancelledIsSilent ==
    [][\A b \in Binding : rec[b].phase = "cancelled" =>
         /\ rec'[b] = rec[b]
         /\ \A f \in {"opens", "joins", "rejoins"} : heard'[b][f] = heard[b][f]]_vars

\* A view that waits for its binding's `ready` is answered, unless the link is
\* left without a connection: authorized, or told that it was not.
ReadySettles ==
    \A b \in Binding :
      rec[b].phase = "bound" /\ rec[b].ready = "pending"
        ~> rec[b].ready # "pending" \/ transport = "disconnected"

\* At rest every binding is up, or was told that it is down; those that compete
\* for a channel and those the store's own connections reach got their chance;
\* nothing is told twice or reopened in a loop, and what is closed rests,
\* whichever connection, promise or loss comes late.  That a binding told of its
\* loss comes back with the connection is not said: the fast path may leave it
\* down (EveryGenerationTried).
NobodyDownUntold ==
    /\ [](LoserReachable /\ EveryGenerationTried /\ DownIsTold /\ EachLossTold)
    /\ [](NoOrphanedWait /\ ToldOncePerSubscription)
    /\ [](OncePerGeneration /\ ClosedStaysIdle)
    /\ ReadySettles
=============================================================================
