----------------------------- MODULE ClientLink -----------------------------
(***************************************************************************)
(* The application's one ClientLink (packages/protocol/src/clientlink.ts)  *)
(* over the Centrifuge client it wraps, for the callers of its `connect`,  *)
(* `disconnect` and `subscribe`.  FactoryLinkStore extends this module and *)
(* composes its operators into whole handlers, because every callback of   *)
(* the link runs synchronously inside the event that raises it.            *)
(*                                                                         *)
(* Two copies of "is there a connection" live here, and they are the       *)
(* module's subject: Centrifuge's own `transport` state, and the link's    *)
(* `currentState`, which only Centrifuge's client events move.  The library*)
(* (centrifuge 5.7.2, the version package.json pins, built into            *)
(* dist/assets/index-*.js) sets its own state first, then moves every      *)
(* subscribed subscription to "subscribing", and only then emits its       *)
(* client event: see Drop and DropEnds.                                    *)
(***************************************************************************)
EXTENDS Naturals

CONSTANTS
    Binding,    \* the owners a subscription can have (see FactoryLinkStore)
    Channel,    \* session channels: one per (tenantId, sessionId)
    ChannelOf   \* the channel an owner subscribes to

ASSUME ChannelAssumption == ChannelOf \in [Binding -> Channel]

VARIABLES
    transport,      \* Centrifuge's client.state
    currentState,   \* the link's own currentState
    negotiated,     \* whether `negotiated` is defined
    pendingConnect, \* the attempts waiting on pendingConnect.promise; {}: none
    registry,       \* Centrifuge's _subs: the subscriptions that hold a channel
    dropping        \* "no", or the state a transport loss is moving the client
                    \* to while it still tells the subscriptions

connectVars == <<transport, currentState, negotiated, pendingConnect>>
linkVars == <<connectVars, registry, dropping>>

LinkStates == {"disconnected", "connecting", "connected"}

(***************************************************************************)
(* A subscription object.  `readySettled` and `authorized` of the source   *)
(* are its state: whatever else settles readiness also reports an error,   *)
(* and the store releases the subscription in that same step (OpenIsHeard  *)
(* of FactoryLinkStore is what makes this so).  For the same reason an     *)
(* interruption is reported at most once per object without `interrupted`. *)
(***************************************************************************)
Subscriptions == [owner : Binding, generation : Nat \ {0},
                  rejoin : BOOLEAN, state : {"subscribing", "subscribed"}]

LinkTypeOK ==
    /\ transport \in LinkStates
    /\ currentState \in LinkStates
    /\ negotiated \in BOOLEAN
    /\ pendingConnect \in SUBSET (Nat \ {0})
    /\ registry \in SUBSET Subscriptions
    /\ dropping \in {"no", "connecting", "disconnected"}

LinkInit ==
    /\ transport = "disconnected"
    /\ currentState = "disconnected"
    /\ negotiated = FALSE
    /\ pendingConnect = {}
    /\ registry = {}
    /\ dropping = "no"

LinkState == IF currentState = "disconnected" THEN transport ELSE currentState

Holders(c) == {s \in registry : ChannelOf[s.owner] = c}

-----------------------------------------------------------------------------
(* The calls.                                                              *)

ResolvesAtOnce == currentState = "connected" /\ negotiated

\* connect(), for attempt e: a second caller shares the pending promise.
\* Centrifuge ignores a connect while it is connecting or connected.
Connect(e) ==
    IF pendingConnect = {}
    THEN /\ currentState' = "connecting"
         /\ transport' = IF transport = "disconnected" THEN "connecting" ELSE transport
         /\ pendingConnect' = {e}
         /\ UNCHANGED negotiated
    ELSE /\ pendingConnect' = pendingConnect \union {e}
         /\ UNCHANGED <<transport, currentState, negotiated>>

\* disconnect(), and every way a connect ends without a connection: a reply
\* naming another protocol, a refused connect, a terminal transport error.
\* The caller rejects the attempts of pendingConnect.
Disconnect ==
    /\ transport' = "disconnected"
    /\ currentState' = "disconnected"
    /\ negotiated' = FALSE
    /\ pendingConnect' = {}

\* subscribe(): newSubscription throws while the channel has an entry.
Subscribe(owner, generation, rejoin, held) ==
    held \union {[owner |-> owner, generation |-> generation,
                  rejoin |-> rejoin, state |-> "subscribing"]}

-----------------------------------------------------------------------------
(* Centrifuge's events.                                                    *)

\* "connected" with a reply this client can read.
Opens ==
    /\ transport = "connecting"
    /\ transport' = "connected"
    /\ currentState' = "connected"
    /\ negotiated' = TRUE
    /\ pendingConnect' = {}

\* The socket is lost or the server closes it.  With `reconnect` the client
\* goes on by itself; without, it stays disconnected until connect().
Drop(next) ==
    /\ transport = "connected"
    /\ transport' = next
    /\ dropping' = next
    /\ UNCHANGED <<currentState, negotiated, pendingConnect, registry>>

\* The client event that ends a drop, after every subscription was told.
DropEnds ==
    /\ dropping # "no"
    /\ \A s \in registry : s.state # "subscribed"
    /\ dropping' = "no"
    /\ currentState' = dropping
    /\ IF dropping = "disconnected"
       THEN negotiated' = FALSE /\ pendingConnect' = {}
       ELSE UNCHANGED <<negotiated, pendingConnect>>
    /\ UNCHANGED <<transport, registry>>

\* "subscribed": the server authorized and opened the subscription.
Authorizes(s) ==
    /\ transport = "connected"
    /\ s.state = "subscribing"
    /\ registry' = (registry \ {s}) \union {[s EXCEPT !.state = "subscribed"]}
    /\ UNCHANGED <<connectVars, dropping>>

=============================================================================
