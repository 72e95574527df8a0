---- MODULE FactoryLinkStore_proofs ----
(***************************************************************************)
(* Proofs about FactoryLinkStore, for any number of views and channels,    *)
(* opens, closes and lost connections: type correctness, and who holds     *)
(* what.  A live subscription is the one its bound record would release,   *)
(* alone on its channel; a view that was cancelled is left alone; a closed *)
(* store stays idle; no binding is opened twice on one connection; and     *)
(* none is left behind, told twice, or made to wait for nothing.           *)
(***************************************************************************)
EXTENDS FactoryLinkStore, TLAPS

----
(* Records, updated.                                                       *)

\* Settling keeps a promise's type, and settles it.
LEMMA SettleType ==
  ASSUME NEW ready \in {"pending", "authorized", "rejected"},
         NEW as \in {"authorized", "rejected"}
  PROVE  Settle(ready, as) \in {"authorized", "rejected"}
BY DEF Settle

\* A record that lets its subscription go and rejects its promise.
LEMMA RejectedRecord ==
  ASSUME NEW r \in Records, NEW n,
         n = [r EXCEPT !.release = 0, !.ready = Settle(@, "rejected")]
  PROVE  /\ n \in Records
         /\ n.phase = r.phase /\ n.attempted = r.attempted
         /\ n.release = 0 /\ n.joined = r.joined /\ n.ready # "pending"
<1>1. r.ready \in {"pending", "authorized", "rejected"}
  BY DEF Records
<1> DEFINE settled == Settle(r.ready, "rejected")
<1>2. settled \in {"authorized", "rejected"}
  BY <1>1, SettleType
<1>3. n = [r EXCEPT !.release = 0, !.ready = settled]
  OBVIOUS
<1> HIDE DEF settled
<1>4. n \in Records
  BY ONLY <1>2, <1>3, r \in Records DEF Records
<1>5. /\ n.phase = r.phase /\ n.attempted = r.attempted
      /\ n.release = 0 /\ n.joined = r.joined /\ n.ready = settled
  BY ONLY <1>3, r \in Records DEF Records
<1> QED
  BY <1>2, <1>4, <1>5

\* A record that is cancelled.
LEMMA CancelledRecord ==
  ASSUME NEW r \in Records, NEW n,
         n = [r EXCEPT !.phase = "cancelled", !.release = 0,
                       !.ready = Settle(@, "rejected")]
  PROVE  /\ n \in Records
         /\ n.phase = "cancelled" /\ n.attempted = r.attempted
         /\ n.release = 0 /\ n.joined = r.joined /\ n.ready # "pending"
<1>1. r.ready \in {"pending", "authorized", "rejected"}
  BY DEF Records
<1> DEFINE settled == Settle(r.ready, "rejected")
<1>2. settled \in {"authorized", "rejected"}
  BY <1>1, SettleType
<1>3. n = [r EXCEPT !.phase = "cancelled", !.release = 0, !.ready = settled]
  OBVIOUS
<1> HIDE DEF settled
<1>4. n \in Records
  BY ONLY <1>2, <1>3, r \in Records DEF Records
<1>5. /\ n.phase = "cancelled" /\ n.attempted = r.attempted
      /\ n.release = 0 /\ n.joined = r.joined /\ n.ready = settled
  BY ONLY <1>3, r \in Records DEF Records
<1> QED
  BY <1>2, <1>4, <1>5

\* What a join does to the record of a binding whose channel is held, or free.
LEMMA RefusedBinding ==
  ASSUME rec \in [Binding -> Records], generation \in Nat, NEW b \in Binding,
         rec' = [rec EXCEPT ![b].attempted = generation, ![b].release = 0,
                            ![b].ready = Settle(@, "rejected")]
  PROVE  /\ rec' \in [Binding -> Records]
         /\ \A x \in Binding : x # b => rec'[x] = rec[x]
         /\ rec'[b].phase = rec[b].phase /\ rec'[b].attempted = generation
         /\ rec'[b].release = 0 /\ rec'[b].joined = rec[b].joined
         /\ rec'[b].ready # "pending"
<1>1. PICK r \in Records, g \in Nat : r = rec[b] /\ g = generation
  OBVIOUS
<1>2. PICK x \in {"authorized", "rejected"} : x = Settle(r.ready, "rejected")
  BY SettleType DEF Records
<1>3. PICK n : n = [r EXCEPT !.attempted = g, !.release = 0, !.ready = x]
  OBVIOUS
<1>4. rec' = [rec EXCEPT ![b] = n]
  BY <1>1, <1>2, <1>3
<1>5. /\ n \in Records
      /\ n.phase = r.phase /\ n.attempted = g
      /\ n.release = 0 /\ n.joined = r.joined /\ n.ready = x
  <2>1. n \in Records
    BY ONLY <1>3, r \in Records, g \in Nat, x \in {"authorized", "rejected"} DEF Records
  <2>2. /\ n.phase = r.phase /\ n.attempted = g
        /\ n.release = 0 /\ n.joined = r.joined /\ n.ready = x
    BY ONLY <1>3, r \in Records DEF Records
  <2> QED
    BY <2>1, <2>2
<1>6. rec'[b] = n /\ \A y \in Binding : y # b => rec'[y] = rec[y]
  BY <1>4
<1>7. rec' \in [Binding -> Records]
  BY <1>4, <1>5
<1> QED
  BY <1>1, <1>5, <1>6, <1>7

LEMMA SubscribedBinding ==
  ASSUME rec \in [Binding -> Records], generation \in Nat, NEW b \in Binding,
         rec' = [rec EXCEPT ![b].attempted = generation, ![b].release = generation,
                            ![b].joined = TRUE]
  PROVE  /\ rec' \in [Binding -> Records]
         /\ \A x \in Binding : x # b => rec'[x] = rec[x]
         /\ rec'[b].phase = rec[b].phase /\ rec'[b].attempted = generation
         /\ rec'[b].release = generation /\ rec'[b].joined = TRUE
         /\ rec'[b].ready = rec[b].ready
<1>1. PICK r \in Records, g \in Nat : r = rec[b] /\ g = generation
  OBVIOUS
<1>2. PICK n : n = [r EXCEPT !.attempted = g, !.release = g, !.joined = TRUE]
  OBVIOUS
<1>3. rec' = [rec EXCEPT ![b] = n]
  BY <1>1, <1>2
<1>4. /\ n \in Records
      /\ n.phase = r.phase /\ n.attempted = g
      /\ n.release = g /\ n.joined = TRUE /\ n.ready = r.ready
  <2>1. n \in Records
    BY ONLY <1>2, r \in Records, g \in Nat DEF Records
  <2>2. /\ n.phase = r.phase /\ n.attempted = g
        /\ n.release = g /\ n.joined = TRUE /\ n.ready = r.ready
    BY ONLY <1>2, r \in Records DEF Records
  <2> QED
    BY <2>1, <2>2
<1>5. rec'[b] = n /\ \A y \in Binding : y # b => rec'[y] = rec[y]
  BY <1>3
<1>6. rec' \in [Binding -> Records]
  BY <1>3, <1>4
<1> QED
  BY <1>1, <1>4, <1>5, <1>6

\* A peer that is driven again.
LEMMA RedrivenRecord ==
  ASSUME NEW r \in Records
  PROVE  /\ Redriven(r) \in Records
         /\ Redriven(r).phase = r.phase /\ Redriven(r).attempted = 0
         /\ Redriven(r).release = r.release /\ Redriven(r).joined = r.joined
         /\ Redriven(r).ready = r.ready
BY DEF Records, Redriven

\* The reactions of joins are jobs.
LEMMA JoinsTyped ==
  ASSUME NEW who \in SUBSET Binding, NEW ok \in BOOLEAN
  PROVE  Joins(who, ok) \in SUBSET Jobs
<1> SUFFICES ASSUME NEW b \in who
             PROVE  [kind |-> "join", binding |-> b, ok |-> ok] \in Jobs
  BY DEF Joins
<1>1. [kind |-> "join", binding |-> b, ok |-> ok]
        \in [kind : {"join"}, binding : Binding, ok : BOOLEAN]
  OBVIOUS
<1> QED
  BY <1>1 DEF Jobs

----
(* What driving bindings at the connection does.                           *)

Statuses == {"idle", "connecting", "connected", "failed"}

\* Types are kept by the call of #ensureConnected and the waits on it.
LEMMA DriveTypes ==
  ASSUME TypeOK,
         NEW who \in SUBSET Binding, NEW conn \in Nat, NEW gen \in Nat,
         NEW st \in Statuses, NEW queued \in SUBSET Jobs, NEW wait \in SUBSET Binding,
         \/ Drive(who, conn, gen, st, queued, wait)
         \/ EnsureConnected(who, conn, gen, st, queued, wait)
  PROVE  /\ transport' \in LinkStates /\ currentState' \in LinkStates
         /\ negotiated' \in BOOLEAN
         /\ pendingConnect' \in SUBSET (Nat \ {0})
         /\ epoch' \in Nat /\ connecting' \in Nat
         /\ status' \in Statuses
         /\ waiting' \in SUBSET Binding
         /\ jobs' \in SUBSET Jobs
<1> USE DEF TypeOK, LinkTypeOK, Statuses
<1>1. Joins(who, TRUE) \in SUBSET Jobs
  BY JoinsTyped
<1>2. Connected(epoch + 1, TRUE) \in Jobs /\ epoch + 1 \in Nat \ {0}
  BY DEF Connected, Jobs
<1>3. CASE /\ connecting' = conn /\ status' = st /\ jobs' = queued
           /\ waiting' = wait \union who \/ waiting' = wait
           /\ UNCHANGED <<connectVars, epoch>>
  BY <1>3 DEF connectVars
<1>4. CASE EnsureConnected(who, conn, gen, st, queued, wait)
  <2>1. CASE conn # 0
    BY <1>3, <1>4, <2>1 DEF EnsureConnected
  <2>2. CASE conn = 0 /\ LinkState = "connected" /\ gen > 0
    BY <1>1, <1>4, <2>2 DEF EnsureConnected, connectVars
  <2>3. CASE conn = 0 /\ ~(LinkState = "connected" /\ gen > 0)
    <3>1. /\ epoch' = epoch + 1 /\ connecting' = epoch + 1
          /\ status' = "connecting" /\ waiting' = wait \union who
      BY <1>4, <2>3 DEF EnsureConnected
    <3>2. CASE ResolvesAtOnce
      BY <1>2, <1>4, <2>3, <3>1, <3>2 DEF EnsureConnected, connectVars
    <3>3. CASE ~ResolvesAtOnce
      <4>1. jobs' = queued /\ Connect(epoch + 1)
        BY <1>4, <2>3, <3>3 DEF EnsureConnected
      <4>2. /\ transport' \in LinkStates /\ currentState' \in LinkStates
            /\ negotiated' \in BOOLEAN
            /\ pendingConnect' \in SUBSET (Nat \ {0})
        BY <1>2, <4>1 DEF Connect, LinkStates
      <4> QED
        BY <1>2, <3>1, <4>1, <4>2
    <3> QED
      BY <3>2, <3>3
  <2> QED
    BY <2>1, <2>2, <2>3
<1>5. CASE who = {} /\ Drive(who, conn, gen, st, queued, wait)
  BY <1>3, <1>5 DEF Drive
<1> QED
  BY <1>4, <1>5 DEF Drive

----
(* Type correctness.                                                       *)

Heards == [opens : Nat, joins : Nat, rejoins : Nat]

\* No binding has attempted a generation that is yet to come; this is why a
\* binding that has still to attempt one never subscribes at generation 0.
TypeInv ==
    /\ TypeOK
    /\ \A b \in Binding : rec[b].attempted <= generation

\* The reactions of readiness are jobs.
LEMMA ReadyTyped ==
  ASSUME NEW s \in Subscriptions, NEW ok \in BOOLEAN
  PROVE  Ready(s, ok) \in Jobs
<1>1. s.owner \in Binding /\ s.generation \in Nat \ {0} /\ s.rejoin \in BOOLEAN
  BY DEF Subscriptions
<1>2. Ready(s, ok) \in [kind : {"ready"}, binding : Binding, generation : Nat \ {0},
                        rejoin : BOOLEAN, ok : BOOLEAN]
  BY <1>1 DEF Ready
<1> QED
  BY <1>2 DEF Jobs

LEMMA UnreadyTyped ==
  ASSUME NEW S \in SUBSET Subscriptions
  PROVE  Unready(S) \in SUBSET Jobs
BY ReadyTyped DEF Unready

\* The reactions of attempts are jobs.
LEMMA ConnectedTyped ==
  ASSUME NEW E \in SUBSET (Nat \ {0}), NEW ok \in BOOLEAN
  PROVE  {Connected(e, ok) : e \in E} \in SUBSET Jobs
<1> SUFFICES ASSUME NEW e \in E
             PROVE  Connected(e, ok) \in Jobs
  OBVIOUS
<1>1. Connected(e, ok) \in [kind : {"connect"}, epoch : Nat \ {0}, ok : BOOLEAN]
  BY DEF Connected
<1> QED
  BY <1>1 DEF Jobs

LEMMA PeersTyped ==
  ASSUME TypeOK, NEW b \in Binding
  PROVE  /\ Peers(b) \in SUBSET Binding
         /\ Released(b) \in SUBSET registry
         /\ Unready(Released(b)) \in SUBSET Jobs
<1>1. Peers(b) \in SUBSET Binding
  BY DEF TypeOK, Peers, Losers
<1>2. Released(b) \in SUBSET registry
  BY DEF Released, Holders
<1>3. Unready(Released(b)) \in SUBSET Jobs
  BY <1>2, UnreadyTyped DEF TypeOK, LinkTypeOK
<1> QED
  BY <1>1, <1>2, <1>3

\* The initial state.
LEMMA TypeInit == Init => TypeInv
<1> SUFFICES ASSUME Init PROVE TypeInv
  OBVIOUS
<1>1. LinkTypeOK
  BY DEF Init, LinkInit, LinkTypeOK, LinkStates
<1>2. rec \in [Binding -> Records]
  <2>1. [phase |-> "unbound", attempted |-> 0, release |-> 0,
         joined |-> FALSE, ready |-> "pending"] \in Records
    BY DEF Records
  <2> QED
    BY <2>1 DEF Init
<1>3. heard \in [Binding -> Heards]
  <2>1. [opens |-> 0, joins |-> 0, rejoins |-> 0] \in Heards
    BY DEF Heards
  <2> QED
    BY <2>1 DEF Init
<1>4. \A b \in Binding : rec[b].attempted <= generation
  <2>1. \A b \in Binding : rec[b].attempted = 0
    BY DEF Init
  <2>2. generation = 0 /\ 0 <= 0
    BY DEF Init
  <2>3. ASSUME NEW b \in Binding PROVE rec[b].attempted <= generation
    <3>1. rec[b].attempted = 0
      BY <2>1
    <3> QED
      BY <2>2, <3>1
  <2> QED
    BY <2>3
<1> QED
  BY <1>1, <1>2, <1>3, <1>4 DEF Init, TypeInv, TypeOK, Heards

\* A subscription that reports an error.
LEMMA OnBindingErrorTypes ==
  ASSUME TypeInv, NEW s \in registry, OnBindingError(s),
         dropping' \in {"no", "connecting", "disconnected"}
  PROVE  TypeInv'
<1> DEFINE b == s.owner
           peers == Peers(b)
<1>0. s \in Subscriptions /\ b \in Binding
  BY DEF TypeInv, TypeOK, LinkTypeOK, Subscriptions
<1>1. /\ peers \in SUBSET Binding
      /\ Released(b) \in SUBSET registry
      /\ Unready(Released(b)) \in SUBSET Jobs
  BY <1>0, PeersTyped DEF TypeInv
<1>2. /\ transport' \in LinkStates /\ currentState' \in LinkStates
      /\ negotiated' \in BOOLEAN
      /\ pendingConnect' \in SUBSET (Nat \ {0})
      /\ epoch' \in Nat /\ connecting' \in Nat
      /\ status' \in Statuses
      /\ waiting' \in SUBSET Binding
      /\ jobs' \in SUBSET Jobs
  <2>1. Drive(peers \union {b}, connecting, generation, status,
              jobs \union Unready(Released(b)), waiting)
    BY DEF OnBindingError
  <2>2. /\ peers \union {b} \in SUBSET Binding
        /\ connecting \in Nat /\ generation \in Nat /\ status \in Statuses
        /\ jobs \union Unready(Released(b)) \in SUBSET Jobs
        /\ waiting \in SUBSET Binding
    BY <1>0, <1>1 DEF TypeInv, TypeOK, Statuses
  <2> HIDE DEF peers, b
  <2> QED
    BY <2>1, <2>2, DriveTypes DEF TypeInv
<1>3. /\ rec' \in [Binding -> Records]
      /\ \A x \in Binding : rec'[x].attempted <= generation
  <2>1. /\ rec' = [x \in Binding |-> rec'[x]]
        /\ \A x \in Binding :
             rec'[x] = IF x = b
                       THEN [rec[x] EXCEPT !.release = 0, !.ready = Settle(@, "rejected")]
                       ELSE IF x \in peers THEN Redriven(rec[x]) ELSE rec[x]
    BY DEF OnBindingError
  <2>2. ASSUME NEW x \in Binding
        PROVE  rec'[x] \in Records /\ rec'[x].attempted <= generation
    <3>0. /\ rec[x] \in Records /\ rec[x].attempted <= generation
          /\ generation \in Nat
      BY DEF TypeInv, TypeOK
    <3>1. CASE x = b
      <4>1. rec'[x] = [rec[x] EXCEPT !.release = 0, !.ready = Settle(@, "rejected")]
        BY <2>1, <3>1
      <4>2. rec'[x] \in Records /\ rec'[x].attempted = rec[x].attempted
        BY <3>0, <4>1, RejectedRecord
      <4> QED
        BY <3>0, <4>2
    <3>2. CASE x # b /\ x \in peers
      <4>1. rec'[x] = Redriven(rec[x])
        BY <2>1, <3>2
      <4>2. rec'[x] \in Records /\ rec'[x].attempted = 0
        BY <3>0, <4>1, RedrivenRecord
      <4> QED
        BY <3>0, <4>2
    <3>3. CASE x # b /\ x \notin peers
      BY <2>1, <3>0, <3>3
    <3> QED
      BY <3>1, <3>2, <3>3
  <2> QED
    BY <2>1, <2>2
<1>4. told' \in SUBSET Binding /\ lost' \in [Binding -> Nat]
  <2>1. /\ told \in SUBSET Binding /\ lost \in [Binding -> Nat]
        /\ told' = told \union {b}
        /\ lost' = [lost EXCEPT ![b] = @ + (IF s.state = "subscribed" THEN 1 ELSE 0)]
    BY DEF OnBindingError, TypeInv, TypeOK
  <2>2. lost[b] + (IF s.state = "subscribed" THEN 1 ELSE 0) \in Nat
    BY <1>0, <2>1
  <2> QED
    BY <1>0, <2>1, <2>2
<1>5. registry' \in SUBSET Subscriptions
  BY DEF OnBindingError, TypeInv, TypeOK, LinkTypeOK
<1>6. UNCHANGED <<bindings, generation, losses, closed, heard>>
  BY DEF OnBindingError
<1> QED
  BY <1>2, <1>3, <1>4, <1>5, <1>6 DEF TypeInv, TypeOK, LinkTypeOK, Statuses, Heards

LEMMA OpenTypes == ASSUME TypeInv, Open PROVE TypeInv'
<1>1. /\ transport' \in LinkStates /\ currentState' \in LinkStates
      /\ negotiated' \in BOOLEAN
      /\ pendingConnect' \in SUBSET (Nat \ {0})
      /\ epoch' \in Nat /\ connecting' \in Nat
      /\ status' \in Statuses
      /\ waiting' \in SUBSET Binding
      /\ jobs' \in SUBSET Jobs
  <2>1. EnsureConnected({}, connecting, generation, status, jobs, waiting)
    BY DEF Open
  <2>2. /\ connecting \in Nat /\ generation \in Nat /\ status \in Statuses
        /\ jobs \in SUBSET Jobs /\ waiting \in SUBSET Binding
    BY DEF TypeInv, TypeOK, Statuses
  <2> QED
    BY <2>1, <2>2, DriveTypes DEF TypeInv
<1>2. closed' \in BOOLEAN
      /\ UNCHANGED <<registry, dropping, bindings, rec, generation, losses, heard, told, lost>>
  BY DEF Open
<1> QED
  BY <1>1, <1>2 DEF TypeInv, TypeOK, LinkTypeOK, Statuses

\* A record that is bound.
LEMMA BoundRecord ==
  ASSUME rec \in [Binding -> Records], NEW b \in Binding,
         rec' = [rec EXCEPT ![b].phase = "bound"]
  PROVE  /\ rec' \in [Binding -> Records]
         /\ \A x \in Binding : /\ rec'[x].attempted = rec[x].attempted
                               /\ rec'[x].release = rec[x].release
                               /\ rec'[x].joined = rec[x].joined
                               /\ rec'[x].phase = IF x = b THEN "bound" ELSE rec[x].phase
<1>1. PICK r \in Records : r = rec[b]
  OBVIOUS
<1>2. PICK n : n = [r EXCEPT !.phase = "bound"]
  OBVIOUS
<1>3. n \in Records
  BY ONLY <1>2, r \in Records DEF Records
<1>4. /\ n.phase = "bound" /\ n.attempted = r.attempted
      /\ n.release = r.release /\ n.joined = r.joined
  BY ONLY <1>2, r \in Records DEF Records
<1>5. rec' = [rec EXCEPT ![b] = n]
  BY <1>1, <1>2
<1>6. rec'[b] = n /\ \A x \in Binding : x # b => rec'[x] = rec[x]
  BY <1>5
<1>7. rec' \in [Binding -> Records]
  BY <1>3, <1>5
<1> QED
  BY <1>1, <1>4, <1>6, <1>7

LEMMA BindTypes == ASSUME TypeInv, NEW b \in Binding, Bind(b) PROVE TypeInv'
<1>1. /\ transport' \in LinkStates /\ currentState' \in LinkStates
      /\ negotiated' \in BOOLEAN
      /\ pendingConnect' \in SUBSET (Nat \ {0})
      /\ epoch' \in Nat /\ connecting' \in Nat
      /\ status' \in Statuses
      /\ waiting' \in SUBSET Binding
      /\ jobs' \in SUBSET Jobs
  <2>1. Drive({b}, connecting, generation, status, jobs, waiting)
    BY DEF Bind
  <2>2. /\ connecting \in Nat /\ generation \in Nat /\ status \in Statuses
        /\ jobs \in SUBSET Jobs /\ waiting \in SUBSET Binding
        /\ {b} \in SUBSET Binding
    BY DEF TypeInv, TypeOK, Statuses
  <2> QED
    BY <2>1, <2>2, DriveTypes DEF TypeInv
<1>2. /\ closed' \in BOOLEAN
      /\ UNCHANGED <<registry, dropping, generation, losses, heard, told, lost>>
      /\ bindings' \in SUBSET Binding
  BY DEF Bind, TypeInv, TypeOK
<1>3. /\ rec' \in [Binding -> Records]
      /\ \A x \in Binding : rec'[x].attempted = rec[x].attempted
  <2>1. rec' = [rec EXCEPT ![b].phase = "bound"] /\ rec \in [Binding -> Records]
    BY DEF Bind, TypeInv, TypeOK
  <2> QED
    BY <2>1, BoundRecord
<1> QED
  BY <1>1, <1>2, <1>3 DEF TypeInv, TypeOK, LinkTypeOK, Statuses

LEMMA CancelTypes == ASSUME TypeInv, NEW b \in Binding, Cancel(b) PROVE TypeInv'
<1> DEFINE peers == Peers(b)
<1>1. /\ peers \in SUBSET Binding
      /\ Released(b) \in SUBSET registry
      /\ Unready(Released(b)) \in SUBSET Jobs
  BY PeersTyped DEF TypeInv
<1>2. /\ transport' \in LinkStates /\ currentState' \in LinkStates
      /\ negotiated' \in BOOLEAN
      /\ pendingConnect' \in SUBSET (Nat \ {0})
      /\ epoch' \in Nat /\ connecting' \in Nat
      /\ status' \in Statuses
      /\ waiting' \in SUBSET Binding
      /\ jobs' \in SUBSET Jobs
  <2>1. Drive(peers, connecting, generation, status,
              jobs \union Unready(Released(b)), waiting)
    BY DEF Cancel
  <2>2. /\ connecting \in Nat /\ generation \in Nat /\ status \in Statuses
        /\ jobs \union Unready(Released(b)) \in SUBSET Jobs
        /\ waiting \in SUBSET Binding
    BY <1>1 DEF TypeInv, TypeOK, Statuses
  <2> HIDE DEF peers
  <2> QED
    BY <1>1, <2>1, <2>2, DriveTypes DEF TypeInv
<1>3. /\ rec' \in [Binding -> Records]
      /\ \A x \in Binding : rec'[x].attempted <= generation
  <2>1. /\ rec' = [x \in Binding |-> rec'[x]]
        /\ \A x \in Binding :
             rec'[x] = IF x = b
                       THEN [rec[x] EXCEPT !.phase = "cancelled", !.release = 0,
                                           !.ready = Settle(@, "rejected")]
                       ELSE IF x \in peers THEN Redriven(rec[x]) ELSE rec[x]
    BY DEF Cancel
  <2>2. ASSUME NEW x \in Binding
        PROVE  rec'[x] \in Records /\ rec'[x].attempted <= generation
    <3>0. /\ rec[x] \in Records /\ rec[x].attempted <= generation
          /\ generation \in Nat
      BY DEF TypeInv, TypeOK
    <3>1. CASE x = b
      BY <2>1, <3>0, <3>1, CancelledRecord
    <3>2. CASE x # b /\ x \in peers
      <4>1. rec'[x] = Redriven(rec[x])
        BY <2>1, <3>2
      <4>2. rec'[x] \in Records /\ rec'[x].attempted = 0
        BY <3>0, <4>1, RedrivenRecord
      <4> QED
        BY <3>0, <4>2
    <3>3. CASE x # b /\ x \notin peers
      BY <2>1, <3>0, <3>3
    <3> QED
      BY <3>1, <3>2, <3>3
  <2> QED
    BY <2>1, <2>2
<1>4. /\ registry' \in SUBSET Subscriptions
      /\ bindings' \in SUBSET Binding
      /\ UNCHANGED <<dropping, generation, losses, closed, heard, told, lost>>
  BY DEF Cancel, TypeInv, TypeOK, LinkTypeOK, history
<1> QED
  BY <1>2, <1>3, <1>4 DEF TypeInv, TypeOK, LinkTypeOK, Statuses

LEMMA CloseTypes == ASSUME TypeInv, Close PROVE TypeInv'
<1> DEFINE freed == UNION {Released(b) : b \in bindings}
<1>1. freed \in SUBSET registry
  BY PeersTyped DEF TypeInv, TypeOK
<1>2. /\ Unready(freed) \in SUBSET Jobs
      /\ {Connected(e, FALSE) : e \in pendingConnect} \in SUBSET Jobs
  <2>1. freed \in SUBSET Subscriptions /\ pendingConnect \in SUBSET (Nat \ {0})
    BY <1>1 DEF TypeInv, TypeOK, LinkTypeOK
  <2> HIDE DEF freed
  <2> QED
    BY <2>1, UnreadyTyped, ConnectedTyped
<1>3. jobs' \in SUBSET Jobs
  <2>1. jobs' = jobs \union Unready(freed)
                       \union {Connected(e, FALSE) : e \in pendingConnect}
    BY DEF Close
  <2> QED
    BY <1>2, <2>1 DEF TypeInv, TypeOK
<1>4. /\ rec' \in [Binding -> Records]
      /\ \A x \in Binding : rec'[x].attempted <= generation
  <2>1. /\ rec' = [x \in Binding |-> rec'[x]]
        /\ \A x \in Binding :
             rec'[x] = IF x \in bindings
                       THEN [rec[x] EXCEPT !.phase = "cancelled", !.release = 0,
                                           !.ready = Settle(@, "rejected")]
                       ELSE rec[x]
    BY DEF Close
  <2>2. ASSUME NEW x \in Binding
        PROVE  rec'[x] \in Records /\ rec'[x].attempted <= generation
    <3>0. rec[x] \in Records /\ rec[x].attempted <= generation
      BY DEF TypeInv, TypeOK
    <3>1. CASE x \in bindings
      BY <2>1, <3>0, <3>1, CancelledRecord
    <3>2. CASE x \notin bindings
      BY <2>1, <3>0, <3>2
    <3> QED
      BY <3>1, <3>2
  <2> QED
    BY <2>1, <2>2
<1>5. /\ epoch' \in Nat /\ connecting' \in Nat
      /\ bindings' \in SUBSET Binding
      /\ registry' \in SUBSET Subscriptions
      /\ waiting' \in SUBSET Binding
      /\ status' \in Statuses
      /\ closed' \in BOOLEAN
      /\ UNCHANGED <<dropping, generation, losses, heard, told, lost>>
  <2>1. /\ epoch' = epoch + 1 /\ connecting' = 0 /\ bindings' = {}
        /\ registry' = registry \ freed /\ waiting' = {}
        /\ status' = "idle" /\ closed' = TRUE
        /\ UNCHANGED <<dropping, generation, losses, heard, told, lost>>
    BY DEF Close
  <2>2. epoch \in Nat /\ registry \in SUBSET Subscriptions
    BY DEF TypeInv, TypeOK, LinkTypeOK
  <2> HIDE DEF freed
  <2> QED
    BY <2>1, <2>2 DEF Statuses
<1>6. /\ transport' \in LinkStates /\ currentState' \in LinkStates
      /\ negotiated' \in BOOLEAN
      /\ pendingConnect' \in SUBSET (Nat \ {0})
  BY DEF Close, Disconnect, LinkStates
<1> QED
  BY <1>3, <1>4, <1>5, <1>6 DEF TypeInv, TypeOK, LinkTypeOK, Statuses

LEMMA ConnectReactionTypes == ASSUME TypeInv, ConnectReaction PROVE TypeInv'
<1>1. PICK j \in jobs : Overtaken(j) \/ Established(j) \/ Failed(j)
  BY DEF ConnectReaction
<1>2. UNCHANGED <<registry, dropping, losses, closed, heard, told, lost>>
  BY DEF ConnectReaction, history
<1>3. CASE Overtaken(j)
  BY <1>2, <1>3 DEF Overtaken, connectVars, storeVars, TypeInv, TypeOK, LinkTypeOK
<1>4. CASE Established(j)
  <2> DEFINE queued == (jobs \ {j}) \union Joins(waiting, TRUE)
  <2>1. /\ generation' = generation + 1
        /\ Drive(bindings, 0, generation + 1, "connected", queued, {})
        /\ UNCHANGED <<bindings, rec>>
    BY <1>4 DEF Established
  <2>2. /\ bindings \in SUBSET Binding /\ generation + 1 \in Nat
        /\ "connected" \in Statuses /\ queued \in SUBSET Jobs
        /\ {} \in SUBSET Binding /\ 0 \in Nat
    <3>1. /\ bindings \in SUBSET Binding /\ generation \in Nat
          /\ waiting \in SUBSET Binding /\ jobs \in SUBSET Jobs
      BY DEF TypeInv, TypeOK
    <3>2. queued \in SUBSET Jobs
      <4>1. Joins(waiting, TRUE) \in SUBSET Jobs
        BY <3>1, JoinsTyped
      <4> QED
        BY <3>1, <4>1
    <3> HIDE DEF queued
    <3> QED
      BY <3>1, <3>2 DEF Statuses
  <2>3. /\ transport' \in LinkStates /\ currentState' \in LinkStates
        /\ negotiated' \in BOOLEAN
        /\ pendingConnect' \in SUBSET (Nat \ {0})
        /\ epoch' \in Nat /\ connecting' \in Nat
        /\ status' \in Statuses
        /\ waiting' \in SUBSET Binding
        /\ jobs' \in SUBSET Jobs
    <3> HIDE DEF queued
    <3> QED
      BY <2>1, <2>2, DriveTypes DEF TypeInv
  <2>4. \A x \in Binding : rec'[x].attempted <= generation'
    <3> SUFFICES ASSUME NEW x \in Binding
                 PROVE  rec[x].attempted <= generation + 1
      BY <2>1
    <3>1. rec[x].attempted \in Nat /\ rec[x].attempted <= generation /\ generation \in Nat
      BY DEF TypeInv, TypeOK, Records
    <3> QED
      BY <3>1
  <2> QED
    BY <1>2, <2>1, <2>2, <2>3, <2>4 DEF TypeInv, TypeOK, LinkTypeOK, Statuses
<1>5. CASE Failed(j)
  <2>1. jobs' \in SUBSET Jobs
    BY <1>5, JoinsTyped DEF Failed, TypeInv, TypeOK
  <2>2. /\ connecting' \in Nat /\ status' \in Statuses
        /\ waiting' \in SUBSET Binding
        /\ UNCHANGED <<connectVars, bindings, rec, generation, epoch>>
    BY <1>5 DEF Failed, Statuses
  <2> QED
    BY <1>2, <2>1, <2>2 DEF connectVars, TypeInv, TypeOK, LinkTypeOK, Statuses
<1> QED
  BY <1>1, <1>3, <1>4, <1>5

\* What a join that subscribes does to its record, its subscription included.
LEMMA SubscribesTypes ==
  ASSUME TypeInv, NEW b \in Binding, Subscribes(b), ~Abandoned(b)
  PROVE  /\ rec' \in [Binding -> Records]
         /\ \A x \in Binding : rec'[x].attempted <= generation
         /\ registry' \in SUBSET Subscriptions
         /\ heard' \in [Binding -> Heards] /\ told' \in SUBSET Binding
<1> DEFINE left == registry \ Released(b)
<1>0. told' \in SUBSET Binding
  BY DEF Subscribes, TypeInv, TypeOK
<1>1. /\ rec \in [Binding -> Records] /\ heard \in [Binding -> Heards]
      /\ generation \in Nat /\ left \in SUBSET Subscriptions
      /\ \A x \in Binding : rec[x].attempted <= generation
  BY DEF TypeInv, TypeOK, LinkTypeOK, Heards
<1>2. rec[b] \in Records
  BY <1>1
<1>3. generation \in Nat \ {0}
  <2>1. rec[b].attempted \in Nat /\ rec[b].attempted # generation
    BY <1>2 DEF Abandoned, Records
  <2> QED
    BY <1>1, <2>1
<1>4. CASE \E s \in left : ChannelOf[s.owner] = ChannelOf[b]
  <2>1. /\ rec' = [rec EXCEPT ![b].attempted = generation, ![b].release = 0,
                              ![b].ready = Settle(@, "rejected")]
        /\ registry' = left /\ heard' = heard
    BY <1>4 DEF Subscribes
  <2> HIDE DEF left
  <2>2. /\ rec' \in [Binding -> Records]
        /\ \A x \in Binding : rec'[x] = rec[x] \/ rec'[x].attempted = generation
    BY <1>1, <2>1, RefusedBinding
  <2>3. \A x \in Binding : rec'[x].attempted <= generation
    BY <1>1, <2>2
  <2> QED
    BY <1>0, <1>1, <2>1, <2>2, <2>3
<1>5. CASE ~\E s \in left : ChannelOf[s.owner] = ChannelOf[b]
  <2>1. /\ rec' = [rec EXCEPT ![b].attempted = generation, ![b].release = generation,
                              ![b].joined = TRUE]
        /\ registry' = Subscribe(b, generation, rec[b].joined, left)
        /\ heard' = [heard EXCEPT ![b].opens = @ + 1]
    BY <1>5 DEF Subscribes
  <2> HIDE DEF left
  <2>2. registry' \in SUBSET Subscriptions
    BY <1>1, <1>2, <1>3, <2>1 DEF Subscribe, Subscriptions, Records
  <2>3. heard' \in [Binding -> Heards]
    <3>1. heard[b].opens + 1 \in Nat
      BY <1>1 DEF Heards
    <3> QED
      BY <1>1, <2>1, <3>1 DEF Heards
  <2>4. /\ rec' \in [Binding -> Records]
        /\ \A x \in Binding : rec'[x] = rec[x] \/ rec'[x].attempted = generation
    BY <1>1, <2>1, SubscribedBinding
  <2>5. \A x \in Binding : rec'[x].attempted <= generation
    BY <1>1, <2>4
  <2> QED
    BY <1>0, <2>2, <2>3, <2>4, <2>5
<1> QED
  BY <1>4, <1>5

\* A record whose promise settles otherwise stays as it is.
LEMMA ReadyUpdate ==
  ASSUME rec \in [Binding -> Records], NEW b \in Binding,
         NEW as \in {"authorized", "rejected"},
         rec' = [rec EXCEPT ![b].ready = Settle(@, as)]
  PROVE  /\ rec' \in [Binding -> Records]
         /\ \A x \in Binding : /\ rec'[x].phase = rec[x].phase
                               /\ rec'[x].attempted = rec[x].attempted
                               /\ rec'[x].release = rec[x].release
                               /\ rec'[x].joined = rec[x].joined
                               /\ rec[x].ready # "pending" => rec'[x] = rec[x]
                               /\ x # b => rec'[x] = rec[x]
<1> DEFINE settled == Settle(rec[b].ready, as)
<1>0. PICK r \in Records : r = rec[b]
  OBVIOUS
<1>1. settled \in {"authorized", "rejected"}
  <2>1. r.ready \in {"pending", "authorized", "rejected"}
    BY DEF Records
  <2> QED
    BY <1>0, <2>1, SettleType
<1>2. rec' = [rec EXCEPT ![b].ready = settled]
  OBVIOUS
<1>3. rec[b].ready # "pending" => settled = rec[b].ready
  BY DEF Settle
<1> HIDE DEF settled
<1>4. rec' \in [Binding -> Records]
  <2>1. PICK n : n = [r EXCEPT !.ready = settled]
    OBVIOUS
  <2>2. n \in Records
    BY ONLY <1>1, <2>1, r \in Records DEF Records
  <2>3. rec' = [rec EXCEPT ![b] = n]
    BY <1>0, <1>2, <2>1
  <2> QED
    BY <2>2, <2>3
<1>5. ASSUME NEW x \in Binding
      PROVE  /\ rec'[x].phase = rec[x].phase
             /\ rec'[x].attempted = rec[x].attempted
             /\ rec'[x].release = rec[x].release
             /\ rec'[x].joined = rec[x].joined
             /\ rec[x].ready # "pending" => rec'[x] = rec[x]
             /\ x # b => rec'[x] = rec[x]
  <2>1. CASE x = b
    <3>1. rec'[x] = [rec[x] EXCEPT !.ready = settled] /\ rec[x] \in Records
      BY <1>2, <2>1
    <3>2. /\ rec'[x].phase = rec[x].phase
          /\ rec'[x].attempted = rec[x].attempted
          /\ rec'[x].release = rec[x].release
          /\ rec'[x].joined = rec[x].joined
          /\ settled = rec[x].ready => rec'[x] = rec[x]
      <4>0. PICK q \in Records : q = rec[x]
        BY <3>1
      <4>1. PICK n : n = [q EXCEPT !.ready = settled]
        OBVIOUS
      <4>2. /\ n.phase = q.phase /\ n.attempted = q.attempted
            /\ n.release = q.release /\ n.joined = q.joined
        BY ONLY <4>1, q \in Records DEF Records
      <4>3. settled = q.ready => n = q
        BY ONLY <4>1, q \in Records DEF Records
      <4> QED
        BY <3>1, <4>0, <4>1, <4>2, <4>3
    <3> QED
      BY <1>3, <2>1, <3>2
  <2>2. CASE x # b
    BY <1>2, <2>2
  <2> QED
    BY <2>1, <2>2
<1> QED
  BY <1>4, <1>5

\* A job's binding is a binding.
LEMMA JobBinding ==
  ASSUME NEW j \in Jobs, j.kind \in {"join", "ready"}
  PROVE  j.binding \in Binding
BY DEF Jobs

LEMMA JoinReactionTypes == ASSUME TypeInv, JoinReaction PROVE TypeInv'
<1>1. PICK j \in jobs :
        LET b == j.binding
        IN  /\ j.kind = "join"
            /\ \/ /\ IF j.ok THEN Abandoned(b) ELSE rec[b].phase = "cancelled"
                  /\ jobs' = jobs \ {j}
                  /\ UNCHANGED <<rec, registry, heard, told>>
               \/ /\ ~j.ok /\ rec[b].phase # "cancelled"
                  /\ Unavailable(b)
                  /\ jobs' = jobs \ {j}
               \/ /\ j.ok /\ ~Abandoned(b)
                  /\ Subscribes(b)
                  /\ jobs' = (jobs \ {j}) \union Unready(Released(b))
  BY DEF JoinReaction
<1> DEFINE b == j.binding
<1>2. b \in Binding
  BY <1>1, JobBinding DEF TypeInv, TypeOK
<1>3. UNCHANGED <<connectVars, dropping, bindings, generation, epoch, connecting,
                  waiting, status, losses, closed, lost>>
  BY DEF JoinReaction
<1>4. jobs' \in SUBSET Jobs
  BY <1>1, <1>2, PeersTyped DEF TypeInv, TypeOK
<1>5. /\ rec' \in [Binding -> Records]
      /\ \A x \in Binding : rec'[x].attempted <= generation
      /\ registry' \in SUBSET Subscriptions
      /\ heard' \in [Binding -> Heards] /\ told' \in SUBSET Binding
  <2>0. /\ rec \in [Binding -> Records] /\ heard \in [Binding -> Heards]
        /\ registry \in SUBSET Subscriptions /\ told \in SUBSET Binding
        /\ \A x \in Binding : rec[x].attempted <= generation
    BY DEF TypeInv, TypeOK, LinkTypeOK, Heards
  <2>1. CASE UNCHANGED <<rec, registry, heard, told>>
    BY <2>0, <2>1
  <2>2. CASE Unavailable(b)
    <3>1. rec' = [rec EXCEPT ![b].ready = Settle(@, "rejected")]
          /\ UNCHANGED <<registry, heard>> /\ told' = told \union {b}
      BY <2>2 DEF Unavailable
    <3> HIDE DEF b
    <3>2. /\ rec' \in [Binding -> Records]
          /\ \A x \in Binding : rec'[x].attempted = rec[x].attempted
      BY <1>2, <2>0, <3>1, ReadyUpdate
    <3> QED
      BY <1>2, <2>0, <3>1, <3>2
  <2>3. CASE Subscribes(b) /\ ~Abandoned(b)
    BY <1>2, <2>3, SubscribesTypes
  <2> QED
    BY <1>1, <2>1, <2>2, <2>3
<1> QED
  BY <1>3, <1>4, <1>5 DEF connectVars, TypeInv, TypeOK, LinkTypeOK, Heards

LEMMA ReadyReactionTypes == ASSUME TypeInv, ReadyReaction PROVE TypeInv'
<1>1. PICK j \in jobs :
        LET b == j.binding
        IN  /\ j.kind = "ready"
            /\ jobs' = jobs \ {j}
            /\ \/ /\ j.ok /\ Current(b, j.generation)
                  /\ rec' = [rec EXCEPT ![b].ready = Settle(@, "authorized")]
                  /\ heard' = IF j.rejoin
                              THEN [heard EXCEPT ![b].rejoins = @ + 1]
                              ELSE [heard EXCEPT ![b].joins = @ + 1]
               \/ /\ j.ok /\ ~Current(b, j.generation)
                  /\ UNCHANGED <<rec, heard>>
               \/ /\ ~j.ok
                  /\ rec' = [rec EXCEPT ![b].ready = Settle(@, "rejected")]
                  /\ UNCHANGED heard
  BY DEF ReadyReaction
<1>2. PICK b \in Binding : b = j.binding
  BY <1>1, JobBinding DEF TypeInv, TypeOK
<1>3. UNCHANGED <<linkVars, bindings, generation, epoch, connecting, waiting, status,
                  losses, closed, told, lost>>
  BY DEF ReadyReaction
<1>4. /\ rec \in [Binding -> Records] /\ heard \in [Binding -> Heards]
      /\ \A x \in Binding : rec[x].attempted <= generation
  BY DEF TypeInv, TypeOK, Heards
<1>5. heard' \in [Binding -> Heards]
  <2>1. \/ heard' = heard
        \/ heard' = [heard EXCEPT ![b].rejoins = @ + 1]
        \/ heard' = [heard EXCEPT ![b].joins = @ + 1]
    BY <1>1, <1>2
  <2>2. heard[b].rejoins + 1 \in Nat /\ heard[b].joins + 1 \in Nat
    BY <1>4 DEF Heards
  <2> QED
    BY <1>4, <2>1, <2>2 DEF Heards
<1>6. /\ rec' \in [Binding -> Records]
      /\ \A x \in Binding : rec'[x].attempted = rec[x].attempted
  <2>1. \/ rec' = rec
        \/ rec' = [rec EXCEPT ![b].ready = Settle(@, "authorized")]
        \/ rec' = [rec EXCEPT ![b].ready = Settle(@, "rejected")]
    BY <1>1, <1>2
  <2> QED
    BY <1>4, <2>1, ReadyUpdate
<1> QED
  BY <1>1, <1>3, <1>4, <1>5, <1>6
     DEF linkVars, connectVars, TypeInv, TypeOK, LinkTypeOK, Heards

LEMMA EventTypes ==
  ASSUME TypeInv,
         ConnectOpens \/ ConnectFails \/ ConnectionDrops \/ ClientDrops
  PROVE  TypeInv'
<1>1. CASE ConnectOpens
  <2>1. jobs' \in SUBSET Jobs
    BY <1>1, ConnectedTyped DEF ConnectOpens, TypeInv, TypeOK, LinkTypeOK
  <2>3. /\ transport' \in LinkStates /\ currentState' \in LinkStates
        /\ negotiated' \in BOOLEAN
        /\ pendingConnect' \in SUBSET (Nat \ {0})
    BY <1>1 DEF ConnectOpens, Opens, LinkStates
  <2>4. UNCHANGED <<registry, dropping, storeVars, history>>
    BY <1>1 DEF ConnectOpens
  <2> QED
    BY <2>1, <2>3, <2>4 DEF storeVars, history, connectVars, TypeInv, TypeOK, LinkTypeOK
<1>2. CASE ConnectFails
  <2>1. jobs' \in SUBSET Jobs
    BY <1>2, ConnectedTyped DEF ConnectFails, TypeInv, TypeOK, LinkTypeOK
  <2>2. /\ transport' \in LinkStates /\ currentState' \in LinkStates
        /\ negotiated' \in BOOLEAN
        /\ pendingConnect' \in SUBSET (Nat \ {0})
    BY <1>2 DEF ConnectFails, Disconnect, LinkStates
  <2>3. UNCHANGED <<registry, dropping, storeVars, history>>
    BY <1>2 DEF ConnectFails
  <2> QED
    BY <2>1, <2>2, <2>3 DEF storeVars, history, TypeInv, TypeOK, LinkTypeOK
<1>3. CASE ConnectionDrops
  <2>1. PICK next \in {"connecting", "disconnected"} : Drop(next)
    BY <1>3 DEF ConnectionDrops
  <2>2. losses' \in Nat
    BY <1>3 DEF ConnectionDrops, TypeInv, TypeOK
  <2>3. /\ transport' \in LinkStates /\ dropping' \in {"no", "connecting", "disconnected"}
        /\ UNCHANGED <<currentState, negotiated, pendingConnect, registry>>
    BY <2>1 DEF Drop, LinkStates
  <2>4. UNCHANGED <<storeVars, jobs, closed, heard, told, lost>>
    BY <1>3 DEF ConnectionDrops
  <2> QED
    BY <2>2, <2>3, <2>4 DEF storeVars, TypeInv, TypeOK, LinkTypeOK
<1>4. CASE ClientDrops
  <2>1. jobs' \in SUBSET Jobs
    BY <1>4, ConnectedTyped DEF ClientDrops, TypeInv, TypeOK, LinkTypeOK
  <2>2. /\ dropping' = "no" /\ currentState' = dropping /\ dropping # "no"
        /\ \/ negotiated' = FALSE /\ pendingConnect' = {}
           \/ UNCHANGED <<negotiated, pendingConnect>>
        /\ UNCHANGED <<transport, registry, storeVars, history>>
    BY <1>4 DEF ClientDrops, DropEnds
  <2>3. currentState' \in LinkStates /\ negotiated' \in BOOLEAN
        /\ pendingConnect' \in SUBSET (Nat \ {0})
    BY <2>2 DEF TypeInv, TypeOK, LinkTypeOK, LinkStates
  <2> QED
    BY <2>1, <2>2, <2>3 DEF storeVars, history, TypeInv, TypeOK, LinkTypeOK
<1> QED
  BY <1>1, <1>2, <1>3, <1>4

LEMMA SubscriptionOpensTypes ==
  ASSUME TypeInv, NEW b \in Binding, SubscriptionOpens(b)
  PROVE  TypeInv'
<1>1. PICK s \in registry : Authorizes(s) /\ jobs' = {Ready(s, TRUE)}
  BY DEF SubscriptionOpens
<1>2. s \in Subscriptions /\ registry \in SUBSET Subscriptions
  BY DEF TypeInv, TypeOK, LinkTypeOK
<1>3. [s EXCEPT !.state = "subscribed"] \in Subscriptions
  BY <1>2 DEF Subscriptions
<1>4. registry' \in SUBSET Subscriptions
  BY <1>1, <1>2, <1>3 DEF Authorizes
<1>5. jobs' \in SUBSET Jobs
  BY <1>1, <1>2, ReadyTyped
<1>6. UNCHANGED <<connectVars, dropping, storeVars, history>>
  BY <1>1 DEF Authorizes, SubscriptionOpens
<1> QED
  BY <1>4, <1>5, <1>6 DEF connectVars, storeVars, history, TypeInv, TypeOK, LinkTypeOK

\* Every step keeps the types, and what was attempted at or below the generation.
LEMMA TypeStep == TypeInv /\ [Next]_vars => TypeInv'
<1> SUFFICES ASSUME TypeInv, [Next]_vars
             PROVE  TypeInv'
  OBVIOUS
<1>1. CASE Open
  BY <1>1, OpenTypes
<1>2. CASE Close
  BY <1>2, CloseTypes
<1>3. ASSUME NEW b \in Binding, Bind(b) \/ Cancel(b)
      PROVE  TypeInv'
  BY <1>3, BindTypes, CancelTypes
<1>4. CASE ConnectReaction
  BY <1>4, ConnectReactionTypes
<1>5. CASE JoinReaction
  BY <1>5, JoinReactionTypes
<1>6. CASE ReadyReaction
  BY <1>6, ReadyReactionTypes
<1>7. CASE ConnectOpens \/ ConnectFails \/ ConnectionDrops \/ ClientDrops
  BY <1>7, EventTypes
<1>8. CASE SubscriptionDrops
  <2>1. PICK s \in registry : OnBindingError(s)
    BY <1>8 DEF SubscriptionDrops
  <2>2. dropping' \in {"no", "connecting", "disconnected"}
    BY <1>8 DEF SubscriptionDrops, TypeInv, TypeOK, LinkTypeOK
  <2> QED
    BY <2>1, <2>2, OnBindingErrorTypes
<1>9. ASSUME NEW b \in Binding, SubscriptionOpens(b)
      PROVE  TypeInv'
  BY <1>9, SubscriptionOpensTypes
<1>10. ASSUME NEW b \in Binding, SubscriptionFails(b)
       PROVE  TypeInv'
  <2>1. PICK s \in registry : OnBindingError(s)
    BY <1>10 DEF SubscriptionFails
  <2>2. dropping' \in {"no", "connecting", "disconnected"}
    BY <1>10 DEF SubscriptionFails, TypeInv, TypeOK, LinkTypeOK
  <2> QED
    BY <2>1, <2>2, OnBindingErrorTypes
<1>11. CASE UNCHANGED vars
  BY <1>11 DEF vars, linkVars, connectVars, storeVars, history, TypeInv, TypeOK, LinkTypeOK
<1> QED
  BY <1>1, <1>2, <1>3, <1>4, <1>5, <1>6, <1>7, <1>8, <1>9, <1>10, <1>11
     DEF Next, Calls, Reactions, Events

\* Every variable of the store and its link keeps its type, whatever is bound,
\* opened, closed, lost or declined, and in whatever order.
THEOREM TypeCorrect == Spec => []TypeOK
<1>1. TypeInv => TypeOK
  BY DEF TypeInv
<1> QED
  BY <1>1, TypeInit, TypeStep, PTL DEF Spec

----
(* Ownership.                                                              *)

BoundAreBindings == \A b \in Binding : rec[b].phase = "bound" <=> b \in bindings

OnePerChannel ==
    \A s, t \in registry : ChannelOf[s.owner] = ChannelOf[t.owner] => s = t

HoldersJoined == \A b \in Binding : rec[b].release # 0 => rec[b].joined

\* Whoever waits for a connection, or is about to join on one, was bound.
AskedWereBound ==
    /\ \A b \in waiting : rec[b].phase # "unbound"
    /\ \A j \in jobs : j.kind = "join" => rec[j.binding].phase # "unbound"

\* OpenIsHeard alone is not inductive: releasing takes whatever holds the
\* channel, so that must be the subscription the record stands for
\* (OnePerChannel); a peer driven again forgets its attempt, so it must hold
\* nothing (HoldersJoined); and a join must not subscribe for a record that is
\* not bound (AskedWereBound, BoundAreBindings).
OwnInv ==
    /\ TypeInv
    /\ OpenIsHeard
    /\ OnePerChannel
    /\ HoldersJoined
    /\ BoundAreBindings
    /\ AskedWereBound

----
(* How the parts of a step move ownership.                                 *)

\* The jobs and waits that driving bindings at the connection adds.
LEMMA DriveFrame ==
  ASSUME NEW who \in SUBSET Binding, NEW conn, NEW gen, NEW st, NEW queued, NEW wait,
         epoch \in Nat,
         \/ Drive(who, conn, gen, st, queued, wait)
         \/ EnsureConnected(who, conn, gen, st, queued, wait)
  PROVE  /\ epoch' = epoch \/ epoch' = epoch + 1
         /\ \A x \in waiting' : x \in wait \/ x \in who
         /\ \A j \in jobs' : \/ j \in queued
                             \/ j.kind = "join" /\ j.binding \in who
                             \/ j.kind = "connect" /\ j.epoch = epoch'
         /\ \A e \in pendingConnect' : e \in pendingConnect \/ e = epoch'
<1>1. CASE /\ connecting' = conn /\ status' = st /\ jobs' = queued
           /\ waiting' = wait \union who \/ waiting' = wait
           /\ UNCHANGED <<connectVars, epoch>>
  BY <1>1 DEF connectVars
<1>2. CASE EnsureConnected(who, conn, gen, st, queued, wait)
  <2>1. CASE conn # 0
    BY <1>1, <1>2, <2>1 DEF EnsureConnected
  <2>2. CASE conn = 0 /\ LinkState = "connected" /\ gen > 0
    <3>1. /\ jobs' = queued \union Joins(who, TRUE) /\ waiting' = wait
          /\ UNCHANGED <<connectVars, epoch>>
      BY <1>2, <2>2 DEF EnsureConnected
    <3>2. \A j \in Joins(who, TRUE) : j.kind = "join" /\ j.binding \in who
      BY DEF Joins
    <3> QED
      BY <3>1, <3>2 DEF connectVars
  <2>3. CASE conn = 0 /\ ~(LinkState = "connected" /\ gen > 0)
    <3>1. epoch' = epoch + 1 /\ waiting' = wait \union who
      BY <1>2, <2>3 DEF EnsureConnected
    <3>2. CASE ResolvesAtOnce
      <4>1. /\ jobs' = queued \union {Connected(epoch + 1, TRUE)}
            /\ UNCHANGED connectVars
        BY <1>2, <2>3, <3>2 DEF EnsureConnected
      <4>2. /\ Connected(epoch + 1, TRUE).kind = "connect"
            /\ Connected(epoch + 1, TRUE).epoch = epoch + 1
        BY DEF Connected
      <4> QED
        BY <3>1, <4>1, <4>2 DEF connectVars
    <3>3. CASE ~ResolvesAtOnce
      <4>1. jobs' = queued /\ Connect(epoch + 1)
        BY <1>2, <2>3, <3>3 DEF EnsureConnected
      <4>2. \A e \in pendingConnect' : e \in pendingConnect \/ e = epoch + 1
        BY <4>1 DEF Connect
      <4> QED
        BY <3>1, <4>1, <4>2
    <3> QED
      BY <3>2, <3>3
  <2> QED
    BY <2>1, <2>2, <2>3
<1>3. CASE who = {} /\ Drive(who, conn, gen, st, queued, wait)
  BY <1>1, <1>3 DEF Drive
<1> QED
  BY <1>2, <1>3 DEF Drive

Owners == OpenIsHeard /\ OnePerChannel /\ HoldersJoined

\* Nothing of ownership moves while the subscriptions and what the records
\* hold stay.
LEMMA SameOwners ==
  ASSUME Owners, registry' = registry, bindings \subseteq bindings',
         registry \in SUBSET Subscriptions,
         \A x \in Binding : /\ rec'[x].attempted = rec[x].attempted
                            /\ rec'[x].release = rec[x].release
                            /\ rec'[x].joined = rec[x].joined
  PROVE  Owners'
<1>1. \A s \in registry : s.owner \in Binding
  BY DEF Subscriptions
<1> QED
  BY <1>1 DEF Owners, OpenIsHeard, OnePerChannel, HoldersJoined

\* What is left once b let go of its channel is none of b's, and all that the
\* other records hold.
LEMMA WhatIsLeft ==
  ASSUME TypeInv, Owners, NEW b \in Binding
  PROVE  /\ \A s \in registry \ Released(b) : s.owner # b
         /\ \A x \in Binding \ {b} : rec[x].release # 0 =>
              \E s \in registry \ Released(b) : /\ s.owner = x
                                                /\ s.generation = rec[x].release
<1>0. \A s \in registry : s.owner \in Binding /\ s.generation # 0
  BY DEF TypeInv, TypeOK, LinkTypeOK, Subscriptions
<1>1. ASSUME NEW s \in registry, s.owner = b
      PROVE  s \in Released(b)
  <2>1. rec[b].release # 0
    BY <1>0, <1>1 DEF Owners, OpenIsHeard
  <2> QED
    BY <1>1, <2>1 DEF Released, Holders
<1>2. ASSUME NEW x \in Binding \ {b}, rec[x].release # 0
      PROVE  \E s \in registry \ Released(b) : /\ s.owner = x
                                               /\ s.generation = rec[x].release
  <2>1. PICK s \in registry : s.owner = x /\ s.generation = rec[x].release
    BY <1>2 DEF Owners, OpenIsHeard
  <2>2. s \notin Released(b)
    <3> SUFFICES ASSUME s \in Released(b) PROVE FALSE
      OBVIOUS
    <3>1. rec[b].release # 0 /\ ChannelOf[s.owner] = ChannelOf[b]
      BY DEF Released, Holders
    <3>2. PICK t \in registry : t.owner = b
      BY <3>1 DEF Owners, OpenIsHeard
    <3>3. s = t
      BY <3>1, <3>2 DEF Owners, OnePerChannel
    <3> QED
      BY <1>2, <2>1, <3>2, <3>3
  <2> QED
    BY <2>1, <2>2
<1> QED
  BY <1>1, <1>2

\* Letting go of b's channel, while peers of it that hold nothing may forget
\* their attempt.
LEMMA LettingGo ==
  ASSUME TypeInv, Owners, NEW b \in Binding,
         registry' = registry \ Released(b),
         bindings \ {b} \subseteq bindings',
         rec'[b].release = 0,
         \A x \in Binding \ {b} :
            /\ rec'[x].release = rec[x].release
            /\ rec'[x].joined = rec[x].joined
            /\ rec'[x].attempted = rec[x].attempted \/ ~rec[x].joined
  PROVE  Owners'
<1>0. \A s \in registry : s.owner \in Binding /\ s.generation # 0
  BY DEF TypeInv, TypeOK, LinkTypeOK, Subscriptions
<1>1. /\ \A s \in registry' : s.owner # b
      /\ \A x \in Binding \ {b} : rec[x].release # 0 =>
           \E s \in registry' : s.owner = x /\ s.generation = rec[x].release
  BY WhatIsLeft
<1>2. OnePerChannel'
  BY DEF Owners, OnePerChannel
<1>3. HoldersJoined'
  BY DEF Owners, HoldersJoined
<1>4. ASSUME NEW s \in registry'
      PROVE  /\ s.owner \in bindings'
             /\ rec'[s.owner].release = s.generation
             /\ rec'[s.owner].attempted = s.generation
  <2>1. s \in registry /\ s.owner \in Binding \ {b} /\ s.generation # 0
    BY <1>0, <1>1
  <2>2. /\ s.owner \in bindings
        /\ rec[s.owner].release = s.generation
        /\ rec[s.owner].attempted = s.generation
    BY <2>1 DEF Owners, OpenIsHeard
  <2>3. rec[s.owner].joined
    BY <2>1, <2>2 DEF Owners, HoldersJoined
  <2> QED
    BY <2>1, <2>2, <2>3
<1>5. ASSUME NEW x \in Binding, rec'[x].release # 0
      PROVE  \E s \in registry' : s.owner = x /\ s.generation = rec'[x].release
  BY <1>1, <1>5
<1>6. OpenIsHeard'
  BY <1>4, <1>5 DEF OpenIsHeard
<1> QED
  BY <1>2, <1>3, <1>6 DEF Owners

\* Subscribing b at a channel nobody holds.
LEMMA TakingOver ==
  ASSUME TypeInv, Owners, NEW b \in Binding, b \in bindings, generation # 0,
         ~\E s \in registry \ Released(b) : ChannelOf[s.owner] = ChannelOf[b],
         registry' = Subscribe(b, generation, rec[b].joined, registry \ Released(b)),
         bindings' = bindings,
         rec'[b].release = generation, rec'[b].attempted = generation, rec'[b].joined,
         \A x \in Binding : x # b => rec'[x] = rec[x]
  PROVE  Owners'
<1> DEFINE left == registry \ Released(b)
<1>1. PICK new : /\ registry' = left \union {new}
                 /\ new.owner = b /\ new.generation = generation
  <2> DEFINE opened == [owner |-> b, generation |-> generation,
                        rejoin |-> rec[b].joined, state |-> "subscribing"]
  <2>1. registry' = left \union {opened}
    BY DEF Subscribe
  <2>2. opened.owner = b /\ opened.generation = generation
    OBVIOUS
  <2> HIDE DEF opened, left
  <2> QED
    BY <2>1, <2>2
<1>2. /\ \A s \in left : s.owner # b /\ s.owner \in Binding
      /\ \A x \in Binding \ {b} : rec[x].release # 0 =>
           \E s \in left : s.owner = x /\ s.generation = rec[x].release
  BY WhatIsLeft DEF TypeInv, TypeOK, LinkTypeOK, Subscriptions
<1>3. OnePerChannel'
  BY <1>1 DEF Owners, OnePerChannel
<1>4. HoldersJoined'
  BY DEF Owners, HoldersJoined
<1>5. ASSUME NEW s \in registry'
      PROVE  /\ s.owner \in bindings'
             /\ rec'[s.owner].release = s.generation
             /\ rec'[s.owner].attempted = s.generation
  <2>1. CASE s = new
    BY <1>1, <2>1
  <2>2. CASE s \in left
    BY <1>2, <2>2 DEF Owners, OpenIsHeard
  <2> QED
    BY <1>1, <2>1, <2>2
<1>6. ASSUME NEW x \in Binding, rec'[x].release # 0
      PROVE  \E s \in registry' : s.owner = x /\ s.generation = rec'[x].release
  <2>1. CASE x = b
    BY <1>1, <2>1
  <2>2. CASE x # b
    <3>1. x \in Binding \ {b} /\ rec'[x] = rec[x] /\ rec[x].release # 0
      BY <1>6, <2>2
    <3>2. PICK s \in left : s.owner = x /\ s.generation = rec[x].release
      BY <1>2, <3>1
    <3>3. s \in registry'
      BY <1>1, <3>2
    <3> QED
      BY <3>1, <3>2, <3>3
  <2> QED
    BY <2>1, <2>2
<1>7. OpenIsHeard'
  BY <1>5, <1>6 DEF OpenIsHeard
<1> QED
  BY <1>3, <1>4, <1>7 DEF Owners

----
(* What each handler does to the records.                                  *)

\* A subscription reports an error.
LEMMA ReportFields ==
  ASSUME TypeInv, NEW s \in registry, OnBindingError(s), NEW b \in Binding, b = s.owner
  PROVE  /\ rec'[b].phase = rec[b].phase /\ rec'[b].release = 0
         /\ rec'[b].joined = rec[b].joined /\ rec'[b].attempted = rec[b].attempted
         /\ rec'[b].ready # "pending"
         /\ \A x \in Binding \ {b} :
              /\ rec'[x].phase = rec[x].phase
              /\ rec'[x].release = rec[x].release
              /\ rec'[x].joined = rec[x].joined
              /\ rec'[x].ready = rec[x].ready
              /\ rec'[x] = rec[x] \/ (~rec[x].joined /\ rec'[x].attempted = 0 /\ x \in bindings)
<1>0. rec \in [Binding -> Records]
  BY DEF TypeInv, TypeOK
<1>1. \A x \in Binding :
        rec'[x] = IF x = b
                  THEN [rec[x] EXCEPT !.release = 0, !.ready = Settle(@, "rejected")]
                  ELSE IF x \in Peers(b) THEN Redriven(rec[x]) ELSE rec[x]
  BY DEF OnBindingError
<1>2. /\ rec'[b].phase = rec[b].phase /\ rec'[b].release = 0
      /\ rec'[b].joined = rec[b].joined /\ rec'[b].attempted = rec[b].attempted
      /\ rec'[b].ready # "pending"
  <2>1. rec'[b] = [rec[b] EXCEPT !.release = 0, !.ready = Settle(@, "rejected")] /\ rec[b] \in Records
    BY <1>0, <1>1
  <2> QED
    BY <2>1, RejectedRecord
<1>3. ASSUME NEW x \in Binding \ {b}
      PROVE  /\ rec'[x].phase = rec[x].phase
             /\ rec'[x].release = rec[x].release
             /\ rec'[x].joined = rec[x].joined
             /\ rec'[x].ready = rec[x].ready
             /\ rec'[x] = rec[x] \/ (~rec[x].joined /\ rec'[x].attempted = 0 /\ x \in bindings)
  <2>1. CASE x \in Peers(b)
    <3>1. rec'[x] = Redriven(rec[x]) /\ rec[x] \in Records
      BY <1>0, <1>1, <2>1
    <3>2. ~rec[x].joined /\ x \in bindings
      BY <2>1 DEF Peers, Losers
    <3> QED
      BY <3>1, <3>2, RedrivenRecord
  <2>2. CASE x \notin Peers(b)
    BY <1>1, <2>2
  <2> QED
    BY <2>1, <2>2
<1> QED
  BY <1>2, <1>3

\* A view cancels.
LEMMA CancelFields ==
  ASSUME TypeInv, NEW b \in Binding, Cancel(b)
  PROVE  /\ rec'[b].phase = "cancelled" /\ rec'[b].release = 0
         /\ rec'[b].joined = rec[b].joined /\ rec'[b].attempted = rec[b].attempted
         /\ rec'[b].ready # "pending"
         /\ \A x \in Binding \ {b} :
              /\ rec'[x].phase = rec[x].phase
              /\ rec'[x].release = rec[x].release
              /\ rec'[x].joined = rec[x].joined
              /\ rec'[x].ready = rec[x].ready
              /\ rec'[x] = rec[x] \/ (~rec[x].joined /\ rec'[x].attempted = 0 /\ x \in bindings)
<1>0. rec \in [Binding -> Records]
  BY DEF TypeInv, TypeOK
<1>1. \A x \in Binding :
        rec'[x] = IF x = b
                  THEN [rec[x] EXCEPT !.phase = "cancelled", !.release = 0,
                                      !.ready = Settle(@, "rejected")]
                  ELSE IF x \in Peers(b) THEN Redriven(rec[x]) ELSE rec[x]
  BY DEF Cancel
<1>2. /\ rec'[b].phase = "cancelled" /\ rec'[b].release = 0
      /\ rec'[b].joined = rec[b].joined /\ rec'[b].attempted = rec[b].attempted
      /\ rec'[b].ready # "pending"
  <2>1. rec'[b] = [rec[b] EXCEPT !.phase = "cancelled", !.release = 0,
                                      !.ready = Settle(@, "rejected")] /\ rec[b] \in Records
    BY <1>0, <1>1
  <2> QED
    BY <2>1, CancelledRecord
<1>3. ASSUME NEW x \in Binding \ {b}
      PROVE  /\ rec'[x].phase = rec[x].phase
             /\ rec'[x].release = rec[x].release
             /\ rec'[x].joined = rec[x].joined
             /\ rec'[x].ready = rec[x].ready
             /\ rec'[x] = rec[x] \/ (~rec[x].joined /\ rec'[x].attempted = 0 /\ x \in bindings)
  <2>1. CASE x \in Peers(b)
    <3>1. rec'[x] = Redriven(rec[x]) /\ rec[x] \in Records
      BY <1>0, <1>1, <2>1
    <3>2. ~rec[x].joined /\ x \in bindings
      BY <2>1 DEF Peers, Losers
    <3> QED
      BY <3>1, <3>2, RedrivenRecord
  <2>2. CASE x \notin Peers(b)
    BY <1>1, <2>2
  <2> QED
    BY <2>1, <2>2
<1> QED
  BY <1>2, <1>3

\* The store closes.
LEMMA CloseFields ==
  ASSUME TypeInv, Close
  PROVE  /\ \A x \in bindings : /\ rec'[x].phase = "cancelled" /\ rec'[x].release = 0
                                /\ rec'[x].ready # "pending"
                                /\ rec'[x].joined = rec[x].joined
                                /\ rec'[x].attempted = rec[x].attempted
         /\ \A x \in Binding \ bindings : rec'[x] = rec[x]
<1>0. rec \in [Binding -> Records] /\ bindings \in SUBSET Binding
  BY DEF TypeInv, TypeOK
<1>1. \A x \in Binding :
        rec'[x] = IF x \in bindings
                  THEN [rec[x] EXCEPT !.phase = "cancelled", !.release = 0,
                                      !.ready = Settle(@, "rejected")]
                  ELSE rec[x]
  BY DEF Close
<1>2. ASSUME NEW x \in bindings
      PROVE  /\ rec'[x].phase = "cancelled" /\ rec'[x].release = 0
             /\ rec'[x].ready # "pending"
             /\ rec'[x].joined = rec[x].joined
             /\ rec'[x].attempted = rec[x].attempted
  <2>1. /\ rec'[x] = [rec[x] EXCEPT !.phase = "cancelled", !.release = 0,
                                    !.ready = Settle(@, "rejected")]
        /\ rec[x] \in Records
    BY <1>0, <1>1
  <2> QED
    BY <2>1, CancelledRecord
<1> QED
  BY <1>1, <1>2

\* A join runs: it returns, it fails, it finds its channel held, or it takes it.
LEMMA JoinFields ==
  ASSUME TypeInv, JoinReaction
  PROVE  \E j \in jobs, b \in Binding :
           /\ j.kind = "join" /\ b = j.binding
           /\ \A k \in jobs' : k \in jobs \/ k.kind = "ready"
           /\ \A x \in Binding : x # b => rec'[x] = rec[x]
           /\ \/ rec' = rec /\ UNCHANGED <<registry, heard>>
              \/ /\ rec[b].phase # "cancelled"
                 /\ rec' = [rec EXCEPT ![b].ready = Settle(@, "rejected")]
                 /\ UNCHANGED <<registry, heard>>
              \/ /\ rec[b].phase # "cancelled" /\ rec[b].attempted # generation
                 /\ rec'[b].phase = rec[b].phase
                 /\ rec'[b].release = 0
                 /\ rec'[b].joined = rec[b].joined
                 /\ rec'[b].attempted = generation
                 /\ registry' = registry \ Released(b)
                 /\ UNCHANGED heard
              \/ /\ rec[b].phase # "cancelled" /\ rec[b].attempted # generation
                 /\ rec'[b].phase = rec[b].phase
                 /\ rec'[b].release = generation
                 /\ rec'[b].joined
                 /\ rec'[b].attempted = generation
                 /\ ~\E s \in registry \ Released(b) : ChannelOf[s.owner] = ChannelOf[b]
                 /\ registry' = Subscribe(b, generation, rec[b].joined,
                                          registry \ Released(b))
                 /\ heard' = [heard EXCEPT ![b].opens = @ + 1]
<1>0. rec \in [Binding -> Records] /\ generation \in Nat /\ jobs \in SUBSET Jobs
  BY DEF TypeInv, TypeOK
<1>1. PICK j \in jobs :
        LET b == j.binding
        IN  /\ j.kind = "join"
            /\ \/ /\ IF j.ok THEN Abandoned(b) ELSE rec[b].phase = "cancelled"
                  /\ jobs' = jobs \ {j}
                  /\ UNCHANGED <<rec, registry, heard>>
               \/ /\ ~j.ok /\ rec[b].phase # "cancelled"
                  /\ Unavailable(b)
                  /\ jobs' = jobs \ {j}
               \/ /\ j.ok /\ ~Abandoned(b)
                  /\ Subscribes(b)
                  /\ jobs' = (jobs \ {j}) \union Unready(Released(b))
  BY DEF JoinReaction
<1>2. PICK b \in Binding : b = j.binding
  BY <1>0, <1>1, JobBinding
<1>3. \A k \in jobs' : k \in jobs \/ k.kind = "ready"
  <2>1. \A k \in Unready(Released(b)) : k.kind = "ready"
    BY DEF Unready, Ready
  <2> QED
    BY <1>1, <1>2, <2>1
<1>4. CASE UNCHANGED <<rec, registry, heard>>
  BY <1>1, <1>2, <1>3, <1>4
<1>5. CASE rec[b].phase # "cancelled" /\ Unavailable(b)
  <2>1. rec' = [rec EXCEPT ![b].ready = Settle(@, "rejected")] /\ UNCHANGED <<registry, heard>>
    BY <1>5 DEF Unavailable
  <2>2. \A x \in Binding : x # b => rec'[x] = rec[x]
    BY <1>0, <2>1, ReadyUpdate
  <2> QED
    BY <1>1, <1>2, <1>3, <1>5, <2>1, <2>2
<1>6. CASE ~Abandoned(b) /\ Subscribes(b)
  <2>0. rec[b].phase # "cancelled" /\ rec[b].attempted # generation
    BY <1>6 DEF Abandoned
  <2> DEFINE left == registry \ Released(b)
  <2>1. CASE \E s \in left : ChannelOf[s.owner] = ChannelOf[b]
    <3>1. /\ rec' = [rec EXCEPT ![b].attempted = generation, ![b].release = 0,
                                ![b].ready = Settle(@, "rejected")]
          /\ registry' = left /\ heard' = heard
      BY <1>6, <2>1 DEF Subscribes
    <3>2. /\ \A x \in Binding : x # b => rec'[x] = rec[x]
          /\ rec'[b].phase = rec[b].phase /\ rec'[b].attempted = generation
          /\ rec'[b].release = 0 /\ rec'[b].joined = rec[b].joined
      BY <1>0, <3>1, RefusedBinding
    <3> QED
      BY <1>1, <1>2, <1>3, <2>0, <3>1, <3>2
  <2>2. CASE ~\E s \in left : ChannelOf[s.owner] = ChannelOf[b]
    <3>1. /\ rec' = [rec EXCEPT ![b].attempted = generation, ![b].release = generation,
                                ![b].joined = TRUE]
          /\ registry' = Subscribe(b, generation, rec[b].joined, left)
          /\ heard' = [heard EXCEPT ![b].opens = @ + 1]
      BY <1>6, <2>2 DEF Subscribes
    <3>2. /\ \A x \in Binding : x # b => rec'[x] = rec[x]
          /\ rec'[b].phase = rec[b].phase /\ rec'[b].attempted = generation
          /\ rec'[b].release = generation /\ rec'[b].joined = TRUE
      BY <1>0, <3>1, SubscribedBinding
    <3>3. /\ rec[b].phase # "cancelled" /\ rec[b].attempted # generation
          /\ rec'[b].phase = rec[b].phase
          /\ rec'[b].release = generation
          /\ rec'[b].joined
          /\ rec'[b].attempted = generation
          /\ ~\E s \in registry \ Released(b) : ChannelOf[s.owner] = ChannelOf[b]
          /\ registry' = Subscribe(b, generation, rec[b].joined, registry \ Released(b))
          /\ heard' = [heard EXCEPT ![b].opens = @ + 1]
      BY <2>0, <2>2, <3>1, <3>2
    <3>4. j.kind = "join" /\ b = j.binding /\ \A x \in Binding : x # b => rec'[x] = rec[x]
      BY <1>1, <1>2, <3>2
    <3> QED
      BY <1>3, <3>3, <3>4
  <2> QED
    BY <2>1, <2>2
<1> QED
  BY <1>1, <1>2, <1>4, <1>5, <1>6

\* A subscription's readiness settles: at most a pending promise changes.
LEMMA ReadyFields ==
  ASSUME TypeInv, ReadyReaction
  PROVE  /\ \A k \in jobs' : k \in jobs
         /\ \A x \in Binding :
              /\ rec'[x].phase = rec[x].phase
              /\ rec'[x].attempted = rec[x].attempted
              /\ rec'[x].release = rec[x].release
              /\ rec'[x].joined = rec[x].joined
              /\ rec[x].ready # "pending" => rec'[x] = rec[x]
              /\ heard'[x].opens = heard[x].opens
              /\ rec[x].phase = "cancelled" => heard'[x] = heard[x]
<1>0. rec \in [Binding -> Records] /\ heard \in [Binding -> Heards] /\ jobs \in SUBSET Jobs
  BY DEF TypeInv, TypeOK, Heards
<1>1. PICK j \in jobs :
        LET b == j.binding
        IN  /\ j.kind = "ready"
            /\ jobs' = jobs \ {j}
            /\ \/ /\ j.ok /\ Current(b, j.generation)
                  /\ rec' = [rec EXCEPT ![b].ready = Settle(@, "authorized")]
                  /\ heard' = IF j.rejoin
                              THEN [heard EXCEPT ![b].rejoins = @ + 1]
                              ELSE [heard EXCEPT ![b].joins = @ + 1]
               \/ /\ j.ok /\ ~Current(b, j.generation)
                  /\ UNCHANGED <<rec, heard>>
               \/ /\ ~j.ok
                  /\ rec' = [rec EXCEPT ![b].ready = Settle(@, "rejected")]
                  /\ UNCHANGED heard
  BY DEF ReadyReaction
<1>2. PICK b \in Binding : b = j.binding
  BY <1>0, <1>1, JobBinding
<1>3. \A x \in Binding :
        /\ rec'[x].phase = rec[x].phase
        /\ rec'[x].attempted = rec[x].attempted
        /\ rec'[x].release = rec[x].release
        /\ rec'[x].joined = rec[x].joined
        /\ rec[x].ready # "pending" => rec'[x] = rec[x]
  <2>1. \/ rec' = rec
        \/ rec' = [rec EXCEPT ![b].ready = Settle(@, "authorized")]
        \/ rec' = [rec EXCEPT ![b].ready = Settle(@, "rejected")]
    BY <1>1, <1>2
  <2> QED
    BY <1>0, <2>1, ReadyUpdate
<1>4. ASSUME NEW x \in Binding
      PROVE  /\ heard'[x].opens = heard[x].opens
             /\ rec[x].phase = "cancelled" => heard'[x] = heard[x]
  <2>1. \/ heard' = heard
        \/ /\ rec[b].phase # "cancelled"
           /\ \/ heard' = [heard EXCEPT ![b].rejoins = @ + 1]
              \/ heard' = [heard EXCEPT ![b].joins = @ + 1]
    BY <1>1, <1>2 DEF Current
  <2>2. heard[x] \in Heards
    BY <1>0
  <2> QED
    BY <1>0, <2>1, <2>2 DEF Heards
<1> QED
  BY <1>1, <1>3, <1>4

----
(* Ownership is kept.                                                      *)

\* The steps that touch neither a record nor the subscriptions.
Untouched == UNCHANGED <<registry, rec, bindings>>

LEMMA UntouchedOwn ==
  ASSUME OwnInv, Untouched,
         \A x \in waiting' : x \in waiting \/ x \in bindings,
         \A j \in jobs' : j.kind = "join" =>
            j \in jobs \/ j.binding \in waiting \/ j.binding \in bindings
  PROVE  Owners' /\ BoundAreBindings' /\ AskedWereBound'
<1>1. bindings \in SUBSET Binding
  BY DEF OwnInv, TypeInv, TypeOK
<1>2. \A x \in bindings : rec[x].phase # "unbound"
  BY <1>1 DEF OwnInv, BoundAreBindings
<1> QED
  BY <1>2 DEF OwnInv, Owners, OpenIsHeard, OnePerChannel, HoldersJoined,
              BoundAreBindings, AskedWereBound, Untouched

LEMMA OwnInit == Init => OwnInv
<1> SUFFICES ASSUME Init PROVE OwnInv
  OBVIOUS
<1>1. /\ registry = {} /\ bindings = {} /\ waiting = {} /\ jobs = {}
      /\ \A b \in Binding : rec[b].release = 0 /\ rec[b].phase = "unbound"
  BY DEF Init, LinkInit
<1> QED
  BY <1>1, TypeInit DEF OwnInv, OpenIsHeard, OnePerChannel, HoldersJoined,
                        BoundAreBindings, AskedWereBound

LEMMA OwnReport ==
  ASSUME OwnInv, NEW s \in registry, OnBindingError(s)
  PROVE  Owners' /\ BoundAreBindings' /\ AskedWereBound'
<1>1. PICK b \in Binding : b = s.owner
  BY DEF OwnInv, TypeInv, TypeOK, LinkTypeOK, Subscriptions
<1>2. /\ rec'[b].phase = rec[b].phase /\ rec'[b].release = 0
      /\ rec'[b].joined = rec[b].joined /\ rec'[b].attempted = rec[b].attempted
      /\ rec'[b].ready # "pending"
      /\ \A x \in Binding \ {b} :
           /\ rec'[x].phase = rec[x].phase
           /\ rec'[x].release = rec[x].release
           /\ rec'[x].joined = rec[x].joined
           /\ rec'[x].ready = rec[x].ready
           /\ rec'[x] = rec[x] \/ (~rec[x].joined /\ rec'[x].attempted = 0 /\ x \in bindings)
  BY <1>1, ReportFields DEF OwnInv
<1>3. /\ registry' = registry \ Released(b) /\ bindings' = bindings
      /\ Drive(Peers(b) \union {b}, connecting, generation, status,
               jobs \union Unready(Released(b)), waiting)
  BY <1>1 DEF OnBindingError
<1>4. Owners'
  <2>1. /\ TypeInv /\ Owners
        /\ bindings \ {b} \subseteq bindings'
        /\ \A x \in Binding \ {b} :
             /\ rec'[x].release = rec[x].release
             /\ rec'[x].joined = rec[x].joined
             /\ rec'[x].attempted = rec[x].attempted \/ ~rec[x].joined
    BY <1>2, <1>3 DEF OwnInv, Owners
  <2> QED
    BY <1>2, <1>3, <2>1, LettingGo
<1>5. \A x \in Binding : rec'[x].phase = rec[x].phase
  BY <1>2
<1>6. BoundAreBindings'
  BY <1>3, <1>5 DEF OwnInv, BoundAreBindings
<1>7. /\ \A x \in waiting' : x \in waiting \/ x \in Peers(b) \union {b}
      /\ \A j \in jobs' : j.kind = "join" => j \in jobs \/ j.binding \in Peers(b) \union {b}
  <2>1. /\ Peers(b) \union {b} \in SUBSET Binding /\ epoch \in Nat
    BY PeersTyped DEF OwnInv, TypeInv, TypeOK
  <2>2. \A j \in Unready(Released(b)) : j.kind = "ready"
    BY DEF Unready, Ready
  <2>3. /\ \A x \in waiting' : x \in waiting \/ x \in Peers(b) \union {b}
        /\ \A j \in jobs' : \/ j \in jobs \union Unready(Released(b))
                            \/ j.kind = "join" /\ j.binding \in Peers(b) \union {b}
                            \/ j.kind = "connect" /\ j.epoch = epoch'
    BY <1>3, <2>1, DriveFrame
  <2> QED
    BY <2>2, <2>3
<1>8. b \in bindings /\ Peers(b) \subseteq bindings
  BY <1>1 DEF OwnInv, OpenIsHeard, Peers, Losers
<1>9. \A x \in bindings : x \in Binding /\ rec'[x].phase # "unbound"
  BY <1>5 DEF OwnInv, BoundAreBindings, TypeInv, TypeOK
<1>10. AskedWereBound'
  <2>1. \A x \in waiting : x \in Binding /\ rec'[x].phase # "unbound"
    BY <1>5 DEF OwnInv, AskedWereBound, TypeInv, TypeOK
  <2>2. ASSUME NEW j \in jobs, j.kind = "join" PROVE rec'[j.binding].phase # "unbound"
    <3>1. j.binding \in Binding
      BY <2>2, JobBinding DEF OwnInv, TypeInv, TypeOK
    <3> QED
      BY <1>5, <2>2, <3>1 DEF OwnInv, AskedWereBound
  <2> QED
    BY <1>7, <1>8, <1>9, <2>1, <2>2 DEF AskedWereBound
<1> QED
  BY <1>4, <1>6, <1>10

LEMMA OwnCancel ==
  ASSUME OwnInv, NEW b \in Binding, Cancel(b)
  PROVE  Owners' /\ BoundAreBindings' /\ AskedWereBound'
<1>2. /\ rec'[b].phase = "cancelled" /\ rec'[b].release = 0
      /\ rec'[b].joined = rec[b].joined /\ rec'[b].attempted = rec[b].attempted
      /\ rec'[b].ready # "pending"
      /\ \A x \in Binding \ {b} :
           /\ rec'[x].phase = rec[x].phase
           /\ rec'[x].release = rec[x].release
           /\ rec'[x].joined = rec[x].joined
           /\ rec'[x].ready = rec[x].ready
           /\ rec'[x] = rec[x] \/ (~rec[x].joined /\ rec'[x].attempted = 0 /\ x \in bindings)
  BY CancelFields DEF OwnInv
<1>3. /\ registry' = registry \ Released(b) /\ bindings' = bindings \ {b}
      /\ Drive(Peers(b), connecting, generation, status,
               jobs \union Unready(Released(b)), waiting)
  BY DEF Cancel
<1>4. Owners'
  <2>1. /\ TypeInv /\ Owners
        /\ bindings \ {b} \subseteq bindings'
        /\ \A x \in Binding \ {b} :
             /\ rec'[x].release = rec[x].release
             /\ rec'[x].joined = rec[x].joined
             /\ rec'[x].attempted = rec[x].attempted \/ ~rec[x].joined
    BY <1>2, <1>3 DEF OwnInv, Owners
  <2> QED
    BY <1>2, <1>3, <2>1, LettingGo
<1>5. BoundAreBindings'
  BY <1>2, <1>3 DEF OwnInv, BoundAreBindings
<1>6. \A x \in Binding : rec[x].phase # "unbound" => rec'[x].phase # "unbound"
  BY <1>2
<1>7. /\ \A x \in waiting' : x \in waiting \/ x \in Peers(b)
      /\ \A j \in jobs' : j.kind = "join" => j \in jobs \/ j.binding \in Peers(b)
  <2>1. Peers(b) \in SUBSET Binding /\ epoch \in Nat
    BY PeersTyped DEF OwnInv, TypeInv, TypeOK
  <2>2. \A j \in Unready(Released(b)) : j.kind = "ready"
    BY DEF Unready, Ready
  <2>3. /\ \A x \in waiting' : x \in waiting \/ x \in Peers(b)
        /\ \A j \in jobs' : \/ j \in jobs \union Unready(Released(b))
                            \/ j.kind = "join" /\ j.binding \in Peers(b)
                            \/ j.kind = "connect" /\ j.epoch = epoch'
    BY <1>3, <2>1, DriveFrame
  <2> QED
    BY <2>2, <2>3
<1>8. \A x \in Peers(b) : x \in Binding /\ rec'[x].phase # "unbound"
  <2>1. \A x \in Peers(b) : x \in bindings /\ x \in Binding
    BY DEF OwnInv, TypeInv, TypeOK, Peers, Losers
  <2>2. \A x \in Binding : x \in bindings => rec[x].phase = "bound"
    BY DEF OwnInv, BoundAreBindings
  <2> QED
    BY <1>6, <2>1, <2>2
<1>9. AskedWereBound'
  <2>1. \A x \in waiting : x \in Binding /\ rec'[x].phase # "unbound"
    BY <1>6 DEF OwnInv, AskedWereBound, TypeInv, TypeOK
  <2>2. ASSUME NEW j \in jobs, j.kind = "join" PROVE rec'[j.binding].phase # "unbound"
    <3>1. j.binding \in Binding
      BY <2>2, JobBinding DEF OwnInv, TypeInv, TypeOK
    <3> QED
      BY <1>6, <2>2, <3>1 DEF OwnInv, AskedWereBound
  <2> QED
    BY <1>7, <1>8, <2>1, <2>2 DEF AskedWereBound
<1> QED
  BY <1>4, <1>5, <1>9

\* close() lets every channel go, for every holder is bound.
LEMMA OwnClose ==
  ASSUME OwnInv, Close
  PROVE  Owners' /\ BoundAreBindings' /\ AskedWereBound' /\ registry' = {}
<1>1. /\ \A x \in bindings : rec'[x].phase = "cancelled" /\ rec'[x].release = 0
      /\ \A x \in Binding \ bindings : rec'[x] = rec[x]
      /\ bindings \in SUBSET Binding
  BY CloseFields DEF OwnInv, TypeInv, TypeOK
<1>2. /\ registry' = registry \ UNION {Released(b) : b \in bindings}
      /\ bindings' = {} /\ waiting' = {}
      /\ jobs' = jobs \union Unready(UNION {Released(b) : b \in bindings})
                      \union {Connected(e, FALSE) : e \in pendingConnect}
  BY DEF Close
<1>3. ASSUME NEW s \in registry
      PROVE  s.owner \in bindings /\ s \in Released(s.owner)
  <2>1. s.owner \in bindings /\ rec[s.owner].release = s.generation /\ s.generation # 0
    BY DEF OwnInv, OpenIsHeard, TypeInv, TypeOK, LinkTypeOK, Subscriptions
  <2> QED
    BY <2>1 DEF Released, Holders
<1>4. registry' = {}
  BY <1>2, <1>3
<1>5. \A x \in Binding : rec'[x].release = 0
  <2>1. \A x \in Binding \ bindings : rec[x].release = 0
    BY <1>3 DEF OwnInv, OpenIsHeard
  <2> QED
    BY <1>1, <2>1
<1>6. Owners'
  BY <1>4, <1>5 DEF Owners, OpenIsHeard, OnePerChannel, HoldersJoined
<1>7. BoundAreBindings'
  BY <1>1, <1>2 DEF OwnInv, BoundAreBindings
<1>8. AskedWereBound'
  <2>1. \A x \in Binding : rec[x].phase # "unbound" => rec'[x].phase # "unbound"
    BY <1>1
  <2>2. ASSUME NEW j \in jobs', j.kind = "join" PROVE rec'[j.binding].phase # "unbound"
    <3>1. j \in jobs
      <4>1. \A k \in Unready(UNION {Released(b) : b \in bindings}) : k.kind = "ready"
        BY DEF Unready, Ready
      <4>2. \A k \in {Connected(e, FALSE) : e \in pendingConnect} : k.kind = "connect"
        BY DEF Connected
      <4> QED
        BY <1>2, <2>2, <4>1, <4>2
    <3>2. j.binding \in Binding
      BY <2>2, <3>1, JobBinding DEF OwnInv, TypeInv, TypeOK
    <3> QED
      BY <2>1, <2>2, <3>1, <3>2 DEF OwnInv, AskedWereBound
  <2> QED
    BY <1>2, <2>2 DEF AskedWereBound
<1> QED
  BY <1>4, <1>6, <1>7, <1>8

LEMMA OwnBind ==
  ASSUME OwnInv, NEW b \in Binding, Bind(b)
  PROVE  Owners' /\ BoundAreBindings' /\ AskedWereBound'
<1>1. /\ registry' = registry /\ bindings' = bindings \union {b}
      /\ rec' = [rec EXCEPT ![b].phase = "bound"]
      /\ Drive({b}, connecting, generation, status, jobs, waiting)
      /\ rec \in [Binding -> Records] /\ epoch \in Nat
  BY DEF Bind, OwnInv, TypeInv, TypeOK
<1>2. \A x \in Binding : /\ rec'[x].attempted = rec[x].attempted
                         /\ rec'[x].release = rec[x].release
                         /\ rec'[x].joined = rec[x].joined
                         /\ rec'[x].phase = IF x = b THEN "bound" ELSE rec[x].phase
  BY <1>1, BoundRecord
<1>3. Owners'
  <2>1. Owners /\ bindings \subseteq bindings' /\ registry \in SUBSET Subscriptions
    BY <1>1 DEF OwnInv, Owners, TypeInv, TypeOK, LinkTypeOK
  <2> QED
    BY <1>1, <1>2, <2>1, SameOwners
<1>4. BoundAreBindings'
  BY <1>1, <1>2 DEF OwnInv, BoundAreBindings
<1>5. /\ \A x \in waiting' : x \in waiting \/ x = b
      /\ \A j \in jobs' : j.kind = "join" => j \in jobs \/ j.binding = b
  <2> DEFINE who == {b}
  <2>1. Drive(who, connecting, generation, status, jobs, waiting) /\ who \in SUBSET Binding
    BY <1>1
  <2>2. \A x \in who : x = b
    OBVIOUS
  <2> HIDE DEF who
  <2>3. /\ \A x \in waiting' : x \in waiting \/ x \in who
        /\ \A j \in jobs' : \/ j \in jobs
                            \/ j.kind = "join" /\ j.binding \in who
                            \/ j.kind = "connect" /\ j.epoch = epoch'
    BY <1>1, <2>1, DriveFrame
  <2> QED
    BY <2>2, <2>3
<1>6. AskedWereBound'
  <2>1. \A x \in waiting : x \in Binding /\ rec'[x].phase # "unbound"
    BY <1>2 DEF OwnInv, AskedWereBound, TypeInv, TypeOK
  <2>2. ASSUME NEW j \in jobs, j.kind = "join" PROVE rec'[j.binding].phase # "unbound"
    <3>1. j.binding \in Binding
      BY <2>2, JobBinding DEF OwnInv, TypeInv, TypeOK
    <3> QED
      BY <1>2, <2>2, <3>1 DEF OwnInv, AskedWereBound
  <2>3. rec'[b].phase # "unbound"
    BY <1>2
  <2> QED
    BY <1>5, <2>1, <2>2, <2>3 DEF AskedWereBound
<1> QED
  BY <1>3, <1>4, <1>6

LEMMA OwnConnect ==
  ASSUME OwnInv, Open \/ ConnectReaction
  PROVE  Owners' /\ BoundAreBindings' /\ AskedWereBound'
<1>0. epoch \in Nat /\ bindings \in SUBSET Binding
  BY DEF OwnInv, TypeInv, TypeOK
<1>1. CASE Open
  <2> DEFINE nobody == {}
  <2>1. /\ Untouched
        /\ EnsureConnected(nobody, connecting, generation, status, jobs, waiting)
    BY <1>1 DEF Open, Untouched
  <2>2. \A x : x \notin nobody
    OBVIOUS
  <2> HIDE DEF nobody
  <2>3. nobody \in SUBSET Binding
    BY <2>2
  <2>4. /\ \A x \in waiting' : x \in waiting \/ x \in nobody
        /\ \A j \in jobs' : \/ j \in jobs
                            \/ j.kind = "join" /\ j.binding \in nobody
                            \/ j.kind = "connect" /\ j.epoch = epoch'
    BY <1>0, <2>1, <2>3, DriveFrame
  <2> QED
    BY <2>1, <2>2, <2>4, UntouchedOwn
<1>2. CASE ConnectReaction
  <2>1. PICK j \in jobs : Overtaken(j) \/ Established(j) \/ Failed(j)
    BY <1>2 DEF ConnectReaction
  <2>2. registry' = registry
    BY <1>2 DEF ConnectReaction
  <2>3. CASE Overtaken(j)
    <3>1. Untouched /\ waiting' = waiting /\ jobs' = jobs \ {j}
      BY <2>2, <2>3 DEF Overtaken, storeVars, Untouched
    <3> QED
      BY <3>1, UntouchedOwn
  <2>4. CASE Established(j)
    <3> DEFINE queued == (jobs \ {j}) \union Joins(waiting, TRUE)
    <3> DEFINE nobody == {}
    <3>1. Untouched /\ Drive(bindings, 0, generation + 1, "connected", queued, nobody)
      BY <2>2, <2>4 DEF Established, Untouched
    <3>2. \A k \in queued : k.kind = "join" => k \in jobs \/ k.binding \in waiting
      BY DEF Joins
    <3>0. \A x : x \notin nobody
      OBVIOUS
    <3> HIDE DEF queued, nobody
    <3>3. /\ \A x \in waiting' : x \in nobody \/ x \in bindings
          /\ \A k \in jobs' : \/ k \in queued
                              \/ k.kind = "join" /\ k.binding \in bindings
                              \/ k.kind = "connect" /\ k.epoch = epoch'
      BY <1>0, <3>1, DriveFrame
    <3> QED
      BY <3>0, <3>1, <3>2, <3>3, UntouchedOwn
  <2>5. CASE Failed(j)
    <3>1. Untouched /\ waiting' = {} /\ jobs' = (jobs \ {j}) \union Joins(waiting, FALSE)
      BY <2>2, <2>5 DEF Failed, Untouched
    <3>2. \A k \in jobs' : k.kind = "join" => k \in jobs \/ k.binding \in waiting
      BY <3>1 DEF Joins
    <3> QED
      BY <3>1, <3>2, UntouchedOwn
  <2> QED
    BY <2>1, <2>3, <2>4, <2>5
<1> QED
  BY <1>1, <1>2

\* A join or a readiness: whoever may still subscribe is bound.
LEMMA OwnJoin ==
  ASSUME OwnInv, JoinReaction
  PROVE  Owners' /\ BoundAreBindings' /\ AskedWereBound'
<1>1. PICK j \in jobs, b \in Binding :
        /\ j.kind = "join" /\ b = j.binding
        /\ \A k \in jobs' : k \in jobs \/ k.kind = "ready"
        /\ \A x \in Binding : x # b => rec'[x] = rec[x]
        /\ \/ rec' = rec /\ UNCHANGED <<registry, heard>>
           \/ /\ rec[b].phase # "cancelled"
              /\ rec' = [rec EXCEPT ![b].ready = Settle(@, "rejected")]
              /\ UNCHANGED <<registry, heard>>
           \/ /\ rec[b].phase # "cancelled" /\ rec[b].attempted # generation
              /\ rec'[b].phase = rec[b].phase
              /\ rec'[b].release = 0
              /\ rec'[b].joined = rec[b].joined
              /\ rec'[b].attempted = generation
              /\ registry' = registry \ Released(b)
              /\ UNCHANGED heard
           \/ /\ rec[b].phase # "cancelled" /\ rec[b].attempted # generation
              /\ rec'[b].phase = rec[b].phase
              /\ rec'[b].release = generation
              /\ rec'[b].joined
              /\ rec'[b].attempted = generation
              /\ ~\E s \in registry \ Released(b) : ChannelOf[s.owner] = ChannelOf[b]
              /\ registry' = Subscribe(b, generation, rec[b].joined,
                                       registry \ Released(b))
              /\ heard' = [heard EXCEPT ![b].opens = @ + 1]
  BY JoinFields DEF OwnInv
<1>2. bindings' = bindings /\ waiting' = waiting
  BY DEF JoinReaction
<1>3. /\ TypeInv /\ Owners /\ rec \in [Binding -> Records] /\ generation \in Nat
      /\ rec[b].attempted \in Nat /\ rec[b].attempted <= generation
      /\ registry \in SUBSET Subscriptions
  BY DEF OwnInv, Owners, TypeInv, TypeOK, LinkTypeOK, Records
<1>4. rec[b].phase # "cancelled" => b \in bindings
  <2>1. rec[b].phase \in {"unbound", "bound", "cancelled"}
    BY <1>3 DEF Records
  <2>2. rec[b].phase # "unbound"
    BY <1>1 DEF OwnInv, AskedWereBound
  <2> QED
    BY <2>1, <2>2 DEF OwnInv, BoundAreBindings
<1>5. Owners' /\ \A x \in Binding : rec'[x].phase = rec[x].phase
  <2>1. CASE rec' = rec /\ registry' = registry
    BY <1>2, <1>3, <2>1, SameOwners
  <2>2. CASE rec' = [rec EXCEPT ![b].ready = Settle(@, "rejected")] /\ registry' = registry
    <3>1. \A x \in Binding : /\ rec'[x].phase = rec[x].phase
                             /\ rec'[x].attempted = rec[x].attempted
                             /\ rec'[x].release = rec[x].release
                             /\ rec'[x].joined = rec[x].joined
      BY <1>3, <2>2, ReadyUpdate
    <3> QED
      BY <1>2, <1>3, <2>2, <3>1, SameOwners
  <2>3. CASE /\ rec'[b].phase = rec[b].phase
             /\ rec'[b].release = 0
             /\ registry' = registry \ Released(b)
    <3>1. /\ bindings \ {b} \subseteq bindings'
          /\ \A x \in Binding \ {b} :
               /\ rec'[x].release = rec[x].release
               /\ rec'[x].joined = rec[x].joined
               /\ rec'[x].attempted = rec[x].attempted \/ ~rec[x].joined
      BY <1>1, <1>2
    <3>2. Owners'
      BY <1>3, <2>3, <3>1, LettingGo
    <3> QED
      BY <1>1, <2>3, <3>2
  <2>4. CASE /\ rec[b].phase # "cancelled" /\ rec[b].attempted # generation
             /\ rec'[b].phase = rec[b].phase
             /\ rec'[b].release = generation
             /\ rec'[b].joined
             /\ rec'[b].attempted = generation
             /\ ~\E s \in registry \ Released(b) : ChannelOf[s.owner] = ChannelOf[b]
             /\ registry' = Subscribe(b, generation, rec[b].joined,
                                      registry \ Released(b))
    <3>1. generation # 0 /\ b \in bindings
      BY <1>3, <1>4, <2>4
    <3>2. Owners'
      BY <1>1, <1>2, <1>3, <2>4, <3>1, TakingOver
    <3> QED
      BY <1>1, <2>4, <3>2
  <2> QED
    BY <1>1, <2>1, <2>2, <2>3, <2>4
<1>6. BoundAreBindings'
  BY <1>2, <1>5 DEF OwnInv, BoundAreBindings
<1>7. AskedWereBound'
  <2>1. \A x \in waiting : x \in Binding /\ rec'[x].phase # "unbound"
    BY <1>5 DEF OwnInv, AskedWereBound, TypeInv, TypeOK
  <2>2. ASSUME NEW k \in jobs, k.kind = "join" PROVE rec'[k.binding].phase # "unbound"
    <3>1. k.binding \in Binding
      BY <2>2, JobBinding DEF OwnInv, TypeInv, TypeOK
    <3> QED
      BY <1>5, <2>2, <3>1 DEF OwnInv, AskedWereBound
  <2> QED
    BY <1>1, <1>2, <2>1, <2>2 DEF AskedWereBound
<1> QED
  BY <1>5, <1>6, <1>7

LEMMA OwnReady ==
  ASSUME OwnInv, ReadyReaction
  PROVE  Owners' /\ BoundAreBindings' /\ AskedWereBound'
<1>1. /\ \A k \in jobs' : k \in jobs
      /\ \A x \in Binding : /\ rec'[x].phase = rec[x].phase
                            /\ rec'[x].attempted = rec[x].attempted
                            /\ rec'[x].release = rec[x].release
                            /\ rec'[x].joined = rec[x].joined
  BY ReadyFields DEF OwnInv
<1>2. bindings' = bindings /\ waiting' = waiting /\ registry' = registry
  BY DEF ReadyReaction, linkVars
<1>3. Owners'
  <2>1. Owners /\ registry \in SUBSET Subscriptions
    BY DEF OwnInv, Owners, TypeInv, TypeOK, LinkTypeOK
  <2> QED
    BY <1>1, <1>2, <2>1, SameOwners
<1>4. BoundAreBindings'
  BY <1>1, <1>2 DEF OwnInv, BoundAreBindings
<1>5. AskedWereBound'
  <2>1. \A x \in waiting : x \in Binding /\ rec'[x].phase # "unbound"
    BY <1>1 DEF OwnInv, AskedWereBound, TypeInv, TypeOK
  <2>2. ASSUME NEW k \in jobs, k.kind = "join" PROVE rec'[k.binding].phase # "unbound"
    <3>1. k.binding \in Binding
      BY <2>2, JobBinding DEF OwnInv, TypeInv, TypeOK
    <3> QED
      BY <1>1, <2>2, <3>1 DEF OwnInv, AskedWereBound
  <2> QED
    BY <1>1, <1>2, <2>1, <2>2 DEF AskedWereBound
<1> QED
  BY <1>3, <1>4, <1>5

LEMMA OwnEvents ==
  ASSUME OwnInv,
         ConnectOpens \/ ConnectFails \/ ConnectionDrops \/ ClientDrops \/ UNCHANGED vars
  PROVE  Owners' /\ BoundAreBindings' /\ AskedWereBound'
<1>1. Untouched /\ waiting' = waiting
  BY DEF ConnectOpens, ConnectFails, ConnectionDrops, Drop, ClientDrops, DropEnds,
         storeVars, vars, linkVars, Untouched
<1>2. \A j \in jobs' : j \in jobs \/ j.kind = "connect"
  <2>1. \A e \in pendingConnect : /\ Connected(e, TRUE).kind = "connect"
                                 /\ Connected(e, FALSE).kind = "connect"
    BY DEF Connected
  <2>2. CASE ConnectOpens
    BY <2>1, <2>2 DEF ConnectOpens
  <2>3. CASE ConnectFails
    BY <2>1, <2>3 DEF ConnectFails
  <2>4. CASE ConnectionDrops \/ UNCHANGED vars
    BY <2>4 DEF ConnectionDrops, vars
  <2>5. CASE ClientDrops
    BY <2>1, <2>5 DEF ClientDrops
  <2> QED
    BY <2>2, <2>3, <2>4, <2>5
<1> QED
  BY <1>1, <1>2, UntouchedOwn

\* An authorized subscription takes the place of the one that asked.
LEMMA OwnOpens ==
  ASSUME OwnInv, NEW b \in Binding, SubscriptionOpens(b)
  PROVE  Owners' /\ BoundAreBindings' /\ AskedWereBound'
<1>1. PICK s \in registry : Authorizes(s) /\ jobs' = {Ready(s, TRUE)}
  BY DEF SubscriptionOpens
<1>2. UNCHANGED <<bindings, rec, waiting>>
  BY DEF SubscriptionOpens, storeVars
<1>3. PICK t : /\ t = [s EXCEPT !.state = "subscribed"]
               /\ registry' = (registry \ {s}) \union {t}
  BY <1>1 DEF Authorizes
<1>4. t.owner = s.owner /\ t.generation = s.generation
  BY <1>3 DEF OwnInv, TypeInv, TypeOK, LinkTypeOK, Subscriptions
<1>5. OnePerChannel'
  <2>1. SUFFICES ASSUME NEW p \in registry', NEW q \in registry',
                        ChannelOf[p.owner] = ChannelOf[q.owner]
                 PROVE  p = q
    BY DEF OnePerChannel
  <2>2. p = t \/ (p \in registry /\ p # s)
    BY <1>3, <2>1
  <2>3. q = t \/ (q \in registry /\ q # s)
    BY <1>3, <2>1
  <2>4. \A x \in registry, y \in registry :
          ChannelOf[x.owner] = ChannelOf[y.owner] => x = y
    BY DEF OwnInv, OnePerChannel
  <2> QED
    BY <1>4, <2>1, <2>2, <2>3, <2>4
<1>6. OpenIsHeard'
  <2>1. ASSUME NEW p \in registry'
        PROVE  /\ p.owner \in bindings
               /\ rec[p.owner].release = p.generation
               /\ rec[p.owner].attempted = p.generation
    <3>1. PICK q \in registry : p.owner = q.owner /\ p.generation = q.generation
      BY <1>3, <1>4, <2>1
    <3> QED
      BY <3>1 DEF OwnInv, OpenIsHeard
  <2>2. ASSUME NEW x \in Binding, rec[x].release # 0
        PROVE  \E p \in registry' : p.owner = x /\ p.generation = rec[x].release
    <3>1. PICK q \in registry : q.owner = x /\ q.generation = rec[x].release
      BY <2>2 DEF OwnInv, OpenIsHeard
    <3>2. CASE q = s
      BY <1>3, <1>4, <3>1, <3>2
    <3>3. CASE q # s
      BY <1>3, <3>1, <3>3
    <3> QED
      BY <3>2, <3>3
  <2> QED
    BY <1>2, <2>1, <2>2 DEF OpenIsHeard
<1>7. HoldersJoined' /\ BoundAreBindings'
  BY <1>2 DEF OwnInv, HoldersJoined, BoundAreBindings
<1>8. AskedWereBound'
  <2>1. Ready(s, TRUE).kind = "ready"
    BY DEF Ready
  <2> QED
    BY <1>1, <1>2, <2>1 DEF OwnInv, AskedWereBound
<1> QED
  BY <1>5, <1>6, <1>7, <1>8 DEF Owners

LEMMA OwnStep == OwnInv /\ [Next]_vars => OwnInv'
<1> SUFFICES ASSUME OwnInv, [Next]_vars
             PROVE  OwnInv'
  OBVIOUS
<1>0. TypeInv'
  BY TypeStep DEF OwnInv
<1>1. ASSUME Open \/ ConnectReaction
      PROVE  Owners' /\ BoundAreBindings' /\ AskedWereBound'
  BY <1>1, OwnConnect
<1>2. ASSUME Close
      PROVE  Owners' /\ BoundAreBindings' /\ AskedWereBound'
  BY <1>2, OwnClose
<1>3. ASSUME NEW b \in Binding, Bind(b) PROVE Owners' /\ BoundAreBindings' /\ AskedWereBound'
  BY <1>3, OwnBind
<1>31. ASSUME NEW b \in Binding, Cancel(b) PROVE Owners' /\ BoundAreBindings' /\ AskedWereBound'
  BY <1>31, OwnCancel
<1>4. ASSUME JoinReaction
      PROVE  Owners' /\ BoundAreBindings' /\ AskedWereBound'
  BY <1>4, OwnJoin
<1>5. ASSUME ReadyReaction
      PROVE  Owners' /\ BoundAreBindings' /\ AskedWereBound'
  BY <1>5, OwnReady
<1>6. ASSUME ConnectOpens \/ ConnectFails \/ ConnectionDrops \/ ClientDrops \/ UNCHANGED vars
      PROVE  Owners' /\ BoundAreBindings' /\ AskedWereBound'
  BY <1>6, OwnEvents
<1>7. ASSUME SubscriptionDrops
      PROVE  Owners' /\ BoundAreBindings' /\ AskedWereBound'
  BY <1>7, OwnReport DEF SubscriptionDrops
<1>8. ASSUME NEW b \in Binding, SubscriptionOpens(b) PROVE Owners' /\ BoundAreBindings' /\ AskedWereBound'
  BY <1>8, OwnOpens
<1>81. ASSUME NEW b \in Binding, SubscriptionFails(b) PROVE Owners' /\ BoundAreBindings' /\ AskedWereBound'
  BY <1>81, OwnReport DEF SubscriptionFails
<1>9. Owners' /\ BoundAreBindings' /\ AskedWereBound'
  BY <1>1, <1>2, <1>3, <1>31, <1>4, <1>5, <1>6, <1>7, <1>8, <1>81
     DEF Next, Calls, Reactions, Events
<1> QED
  BY <1>0, <1>9 DEF OwnInv, Owners

\* No live subscription is out of reach of the record it delivers to: it is the
\* one its bound record would release and listens to, and what a record would
\* release is live (#release, #join, #onBindingError).
THEOREM LiveIsOwned == Spec => []OpenIsHeard
<1>1. OwnInv => OpenIsHeard
  BY DEF OwnInv
<1> QED
  BY <1>1, OwnInit, OwnStep, PTL DEF Spec
----
(* What becomes of a record, and what its binding hears.                   *)

\* A cancelled record's promise is settled, so no late rejection changes it.
CancelledSettled == \A b \in Binding : rec[b].phase = "cancelled" => rec[b].ready # "pending"

\* Every subscription took an attempt.  A peer that is driven again is given its
\* attempt back, but it never had a subscription.
OpensCounted ==
    \A b \in Binding : /\ heard[b].opens <= rec[b].attempted
                       /\ ~rec[b].joined => heard[b].opens = 0

RecInv == OwnInv /\ CancelledSettled /\ OpensCounted

\* What a step leaves alone in a cancelled binding.
Silent ==
    \A b \in Binding : rec[b].phase = "cancelled" =>
      /\ rec'[b] = rec[b]
      /\ \A f \in {"opens", "joins", "rejoins"} : heard'[b][f] = heard[b][f]

SameHeard(b) == /\ heard'[b].opens = heard[b].opens
                /\ heard'[b].joins = heard[b].joins
                /\ heard'[b].rejoins = heard[b].rejoins

\* A step that changes no count needs only to leave the cancelled records, to
\* settle what it cancels, and to give attempts back to nobody who subscribed.
LEMMA RecKept ==
  ASSUME RecInv,
         \A x \in Binding :
           /\ SameHeard(x)
           /\ rec[x].phase = "cancelled" => rec'[x] = rec[x]
           /\ \/ rec'[x].phase = rec[x].phase
              \/ rec'[x].phase # "cancelled"
              \/ rec'[x].ready # "pending"
           /\ rec'[x].joined = rec[x].joined
           /\ rec'[x].attempted = rec[x].attempted
                \/ (~rec[x].joined /\ rec'[x].attempted = 0)
  PROVE  CancelledSettled' /\ OpensCounted' /\ Silent
<1>1. CancelledSettled'
  <2> SUFFICES ASSUME NEW x \in Binding, rec'[x].phase = "cancelled"
               PROVE  rec'[x].ready # "pending"
    BY DEF CancelledSettled
  <2>1. CASE rec[x].phase = "cancelled"
    BY <2>1 DEF RecInv, CancelledSettled
  <2>2. CASE rec[x].phase # "cancelled"
    BY <2>2
  <2> QED
    BY <2>1, <2>2
<1>2. OpensCounted'
  <2> SUFFICES ASSUME NEW x \in Binding
               PROVE  /\ heard'[x].opens <= rec'[x].attempted
                      /\ ~rec'[x].joined => heard'[x].opens = 0
    BY DEF OpensCounted
  <2>1. heard[x].opens <= rec[x].attempted /\ (~rec[x].joined => heard[x].opens = 0)
    BY DEF RecInv, OpensCounted
  <2> QED
    BY <2>1 DEF SameHeard
<1>3. Silent
  BY DEF Silent, SameHeard
<1> QED
  BY <1>1, <1>2, <1>3

LEMMA RecInit == Init => RecInv
<1> SUFFICES ASSUME Init PROVE RecInv
  OBVIOUS
<1>1. \A b \in Binding : /\ rec[b].phase = "unbound"
                         /\ rec[b].attempted = 0 /\ heard[b].opens = 0
  BY DEF Init
<1> QED
  BY <1>1, OwnInit DEF RecInv, CancelledSettled, OpensCounted

\* Nothing but a bound record is ever cancelled, reported or driven again.
LEMMA BoundOnly ==
  ASSUME OwnInv
  PROVE  \A x \in bindings : x \in Binding /\ rec[x].phase = "bound"
BY DEF OwnInv, BoundAreBindings, TypeInv, TypeOK

LEMMA RecReport ==
  ASSUME RecInv, NEW s \in registry, OnBindingError(s)
  PROVE  CancelledSettled' /\ OpensCounted' /\ Silent
<1>1. PICK b \in Binding : b = s.owner
  BY DEF RecInv, OwnInv, TypeInv, TypeOK, LinkTypeOK, Subscriptions
<1>2. /\ rec'[b].phase = rec[b].phase
      /\ rec'[b].joined = rec[b].joined /\ rec'[b].attempted = rec[b].attempted
      /\ \A x \in Binding \ {b} :
           /\ rec'[x].phase = rec[x].phase
           /\ rec'[x].joined = rec[x].joined
           /\ rec'[x] = rec[x] \/ (~rec[x].joined /\ rec'[x].attempted = 0 /\ x \in bindings)
  BY <1>1, ReportFields DEF RecInv, OwnInv
<1>3. rec[b].phase # "cancelled" /\ \A x \in bindings : rec[x].phase # "cancelled"
  BY <1>1, BoundOnly DEF OnBindingError, Current, RecInv
<1>4. \A x \in Binding : SameHeard(x)
  <2>1. heard' = heard
    BY <1>1 DEF OnBindingError
  <2> QED
    BY <2>1 DEF SameHeard
<1> QED
  BY <1>2, <1>3, <1>4, RecKept

LEMMA RecCancel ==
  ASSUME RecInv, NEW b \in Binding, Cancel(b)
  PROVE  CancelledSettled' /\ OpensCounted' /\ Silent
<1>1. /\ rec'[b].ready # "pending"
      /\ rec'[b].joined = rec[b].joined /\ rec'[b].attempted = rec[b].attempted
      /\ \A x \in Binding \ {b} :
           /\ rec'[x].phase = rec[x].phase
           /\ rec'[x].joined = rec[x].joined
           /\ rec'[x] = rec[x] \/ (~rec[x].joined /\ rec'[x].attempted = 0 /\ x \in bindings)
  BY CancelFields DEF RecInv, OwnInv
<1>2. rec[b].phase # "cancelled" /\ \A x \in bindings : rec[x].phase # "cancelled"
  BY BoundOnly DEF Cancel, RecInv
<1>3. \A x \in Binding : SameHeard(x)
  BY DEF SameHeard, Cancel, history
<1> QED
  BY <1>1, <1>2, <1>3, RecKept

LEMMA RecClose ==
  ASSUME RecInv, Close
  PROVE  CancelledSettled' /\ OpensCounted' /\ Silent
<1>1. /\ \A x \in bindings : /\ rec'[x].ready # "pending"
                             /\ rec'[x].joined = rec[x].joined
                             /\ rec'[x].attempted = rec[x].attempted
                             /\ rec[x].phase # "cancelled"
      /\ \A x \in Binding \ bindings : rec'[x] = rec[x]
  BY CloseFields, BoundOnly DEF RecInv, OwnInv
<1>2. \A x \in Binding : SameHeard(x)
  BY DEF SameHeard, Close
<1> QED
  BY <1>1, <1>2, RecKept

LEMMA RecBind ==
  ASSUME RecInv, NEW b \in Binding, Bind(b)
  PROVE  CancelledSettled' /\ OpensCounted' /\ Silent
<1>1. /\ rec' = [rec EXCEPT ![b].phase = "bound"] /\ rec[b].phase = "unbound"
      /\ rec \in [Binding -> Records]
  BY DEF Bind, RecInv, OwnInv, TypeInv, TypeOK
<1>2. \A x \in Binding : /\ x # b => rec'[x] = rec[x]
                         /\ rec'[x].joined = rec[x].joined
                         /\ rec'[x].attempted = rec[x].attempted
                         /\ rec'[b].phase = "bound"
  BY <1>1 DEF Records
<1>3. \A x \in Binding : SameHeard(x)
  BY DEF SameHeard, Bind
<1> QED
  BY <1>1, <1>2, <1>3, RecKept

LEMMA RecReady ==
  ASSUME RecInv, ReadyReaction
  PROVE  CancelledSettled' /\ OpensCounted' /\ Silent
<1>1. \A x \in Binding :
        /\ rec'[x].phase = rec[x].phase
        /\ rec'[x].attempted = rec[x].attempted
        /\ rec'[x].joined = rec[x].joined
        /\ rec[x].ready # "pending" => rec'[x] = rec[x]
        /\ heard'[x].opens = heard[x].opens
        /\ rec[x].phase = "cancelled" => heard'[x] = heard[x]
  BY ReadyFields DEF RecInv, OwnInv
<1>2. CancelledSettled'
  BY <1>1 DEF RecInv, CancelledSettled
<1>3. OpensCounted'
  BY <1>1 DEF RecInv, OpensCounted
<1>4. Silent
  BY <1>1 DEF Silent, RecInv, CancelledSettled
<1> QED
  BY <1>2, <1>3, <1>4

LEMMA RecJoin ==
  ASSUME RecInv, JoinReaction
  PROVE  CancelledSettled' /\ OpensCounted' /\ Silent
<1>0. /\ rec \in [Binding -> Records] /\ heard \in [Binding -> Heards]
      /\ generation \in Nat
      /\ \A x \in Binding : rec[x].attempted \in Nat /\ rec[x].attempted <= generation
  BY DEF RecInv, OwnInv, TypeInv, TypeOK, Heards, Records
<1>1. PICK j \in jobs, b \in Binding :
        /\ \A x \in Binding : x # b => rec'[x] = rec[x]
        /\ \/ rec' = rec /\ UNCHANGED <<registry, heard>>
           \/ /\ rec[b].phase # "cancelled"
              /\ rec' = [rec EXCEPT ![b].ready = Settle(@, "rejected")]
              /\ UNCHANGED <<registry, heard>>
           \/ /\ rec[b].phase # "cancelled" /\ rec[b].attempted # generation
              /\ rec'[b].phase = rec[b].phase
              /\ rec'[b].joined = rec[b].joined
              /\ rec'[b].attempted = generation
              /\ UNCHANGED heard
           \/ /\ rec[b].phase # "cancelled" /\ rec[b].attempted # generation
              /\ rec'[b].phase = rec[b].phase
              /\ rec'[b].joined
              /\ rec'[b].attempted = generation
              /\ heard' = [heard EXCEPT ![b].opens = @ + 1]
  BY JoinFields DEF RecInv, OwnInv
<1>2. CASE rec' = rec /\ heard' = heard
  BY <1>2 DEF RecInv, CancelledSettled, OpensCounted, Silent
<1>3. CASE /\ rec[b].phase # "cancelled"
           /\ rec' = [rec EXCEPT ![b].ready = Settle(@, "rejected")]
           /\ heard' = heard
  <2>1. \A x \in Binding : /\ rec'[x].phase = rec[x].phase
                           /\ rec'[x].attempted = rec[x].attempted
                           /\ rec'[x].joined = rec[x].joined
    BY <1>0, <1>3, ReadyUpdate
  <2>2. \A x \in Binding : SameHeard(x)
    BY <1>3 DEF SameHeard
  <2> QED
    BY <1>1, <1>3, <2>1, <2>2, RecKept
<1>4. CASE /\ rec[b].phase # "cancelled"
           /\ rec'[b].phase = rec[b].phase
           /\ rec'[b].joined = rec[b].joined
           /\ rec'[b].attempted = generation
           /\ heard' = heard
  <2>1. CancelledSettled' /\ Silent
    BY <1>1, <1>4 DEF RecInv, CancelledSettled, Silent
  <2>2. \A x \in Binding : heard[x].opens \in Nat
    BY <1>0 DEF Heards
  <2>3. OpensCounted'
    BY <1>0, <1>1, <1>4, <2>2 DEF RecInv, OpensCounted
  <2> QED
    BY <2>1, <2>3
<1>5. CASE /\ rec[b].phase # "cancelled" /\ rec[b].attempted # generation
           /\ rec'[b].phase = rec[b].phase
           /\ rec'[b].joined
           /\ rec'[b].attempted = generation
           /\ heard' = [heard EXCEPT ![b].opens = @ + 1]
  <2>1. \A x \in Binding : x # b => heard'[x] = heard[x]
    BY <1>0, <1>5
  <2>2. CancelledSettled' /\ Silent
    <3>1. \A x \in Binding : /\ x # b => rec'[x] = rec[x] /\ heard'[x] = heard[x]
                             /\ x = b => rec[x].phase # "cancelled" /\ rec'[x].phase # "cancelled"
      BY <1>1, <1>5, <2>1
    <3>2. CancelledSettled'
      BY <3>1 DEF RecInv, CancelledSettled
    <3> QED
      BY <3>1, <3>2 DEF Silent
  <2>3. heard'[b].opens = heard[b].opens + 1 /\ heard[b].opens \in Nat
    <3>1. PICK h \in Heards : h = heard[b]
      BY <1>0
    <3>2. PICK k : k = h.opens + 1
      OBVIOUS
    <3>3. heard'[b] = [h EXCEPT !.opens = k]
      BY <1>0, <1>5, <3>1, <3>2
    <3>4. [h EXCEPT !.opens = k].opens = k /\ h.opens \in Nat
      BY ONLY h \in Heards DEF Heards
    <3> QED
      BY <3>1, <3>2, <3>3, <3>4
  <2>4. heard'[b].opens <= generation
    <3>1. heard[b].opens <= rec[b].attempted
      BY DEF RecInv, OpensCounted
    <3> QED
      BY <1>0, <1>5, <2>3, <3>1
  <2>5. OpensCounted'
    BY <1>1, <1>5, <2>1, <2>4 DEF RecInv, OpensCounted
  <2> QED
    BY <2>2, <2>5
<1> QED
  BY <1>1, <1>2, <1>3, <1>4, <1>5

LEMMA RecEvents ==
  ASSUME RecInv,
         \/ Open \/ ConnectReaction \/ ConnectOpens \/ ConnectFails
         \/ ConnectionDrops \/ ClientDrops
         \/ \E b \in Binding : SubscriptionOpens(b)
         \/ UNCHANGED vars
  PROVE  CancelledSettled' /\ OpensCounted' /\ Silent
<1>1. rec' = rec
  BY DEF Open, ConnectReaction, Overtaken, Established, Failed, ConnectOpens,
         ConnectFails, ConnectionDrops, ClientDrops, SubscriptionOpens, vars, storeVars
<1>2. \A x \in Binding : SameHeard(x)
  <2>1. heard' = heard
    BY DEF Open, ConnectReaction, ConnectOpens, ConnectFails, ConnectionDrops,
           ClientDrops, SubscriptionOpens, vars, history
  <2> QED
    BY <2>1 DEF SameHeard
<1> QED
  BY <1>1, <1>2, RecKept

LEMMA RecStep == RecInv /\ [Next]_vars => RecInv' /\ Silent
<1> SUFFICES ASSUME RecInv, [Next]_vars
             PROVE  RecInv' /\ Silent
  OBVIOUS
<1>1. OwnInv'
  BY OwnStep DEF RecInv
<1>2. ASSUME \/ Open \/ ConnectReaction \/ ConnectOpens \/ ConnectFails
             \/ ConnectionDrops \/ ClientDrops
             \/ \E b \in Binding : SubscriptionOpens(b)
             \/ UNCHANGED vars
      PROVE  CancelledSettled' /\ OpensCounted' /\ Silent
  BY <1>2, RecEvents
<1>3. ASSUME NEW b \in Binding, Bind(b)
      PROVE  CancelledSettled' /\ OpensCounted' /\ Silent
  BY <1>3, RecBind
<1>4. ASSUME NEW b \in Binding, Cancel(b)
      PROVE  CancelledSettled' /\ OpensCounted' /\ Silent
  BY <1>4, RecCancel
<1>5. ASSUME Close PROVE CancelledSettled' /\ OpensCounted' /\ Silent
  BY <1>5, RecClose
<1>6. ASSUME JoinReaction PROVE CancelledSettled' /\ OpensCounted' /\ Silent
  BY <1>6, RecJoin
<1>7. ASSUME ReadyReaction PROVE CancelledSettled' /\ OpensCounted' /\ Silent
  BY <1>7, RecReady
<1>8. ASSUME NEW b \in Binding, SubscriptionFails(b)
      PROVE  CancelledSettled' /\ OpensCounted' /\ Silent
  BY <1>8, RecReport DEF SubscriptionFails
<1>9. ASSUME SubscriptionDrops PROVE CancelledSettled' /\ OpensCounted' /\ Silent
  BY <1>9, RecReport DEF SubscriptionDrops
<1>10. CancelledSettled' /\ OpensCounted' /\ Silent
  BY <1>2, <1>3, <1>4, <1>5, <1>6, <1>7, <1>8, <1>9 DEF Next, Calls, Reactions, Events
<1> QED
  BY <1>1, <1>10 DEF RecInv

\* A binding opens at most one subscription per generation, though a peer that
\* lost its channel is given its attempt back (#join, #redriveChannelPeers).
THEOREM OpensOncePerGeneration == Spec => []OncePerGeneration
<1>1. RecInv => OncePerGeneration
  <2> SUFFICES ASSUME RecInv, NEW b \in Binding PROVE heard[b].opens <= generation
    BY DEF OncePerGeneration
  <2>1. /\ heard[b].opens <= rec[b].attempted /\ rec[b].attempted <= generation
        /\ heard[b] \in Heards /\ rec[b] \in Records /\ generation \in Nat
    BY DEF RecInv, OpensCounted, OwnInv, TypeInv, TypeOK, Heards
  <2> QED
    BY <2>1 DEF Heards, Records
<1> QED
  BY <1>1, RecInit, RecStep, PTL DEF Spec

\* Whatever settles after a view cancelled its binding leaves the record as it
\* is and tells the view nothing (the phase checks of #join and the callbacks).
THEOREM CancelledStaysSilent == Spec => CancelledIsSilent
<1>1. Silent =>
        \A b \in Binding : rec[b].phase = "cancelled" =>
          /\ rec'[b] = rec[b]
          /\ \A f \in {"opens", "joins", "rejoins"} : heard'[b][f] = heard[b][f]
  BY DEF Silent
<1> QED
  BY <1>1, RecInit, RecStep, PTL DEF Spec, CancelledIsSilent

----
(* A closed store.                                                         *)

\* What close() left behind can only be a reaction of an attempt it overtook.
AttemptsKnown ==
    /\ \A e \in pendingConnect : e <= epoch
    /\ \A j \in jobs : j.kind = "connect" => j.epoch <= epoch

ClosedInv ==
    closed => /\ bindings = {} /\ connecting = 0
              /\ status = "idle"
              /\ transport = "disconnected" /\ currentState = "disconnected"
              /\ pendingConnect = {} /\ waiting = {}
              /\ dropping = "no"
              /\ \A j \in jobs : j.kind = "connect" => j.epoch # epoch

IdleInv == OwnInv /\ AttemptsKnown /\ ClosedInv

\* Attempts stay known when those the link holds, or whose reactions are queued,
\* are old ones or the newest.
LEMMA StillKnown ==
  ASSUME TypeOK, AttemptsKnown, epoch' \in {epoch, epoch + 1},
         \A e \in pendingConnect' : e \in pendingConnect \/ e = epoch',
         \A j \in jobs' : j.kind = "connect" =>
            j \in jobs \/ j.epoch = epoch' \/ j.epoch \in pendingConnect
  PROVE  AttemptsKnown'
<1>1. epoch \in Nat /\ \A e \in pendingConnect : e \in Nat
  BY DEF TypeOK, LinkTypeOK
<1>2. \A j \in jobs : j.kind = "connect" => j.epoch \in Nat
  BY DEF TypeOK, Jobs
<1> QED
  BY <1>1, <1>2 DEF AttemptsKnown

\* Driving the same bindings, from the jobs that are queued and more readiness.
LEMMA KnownDriven ==
  ASSUME TypeOK, AttemptsKnown,
         NEW who \in SUBSET Binding, NEW conn, NEW gen, NEW st, NEW queued, NEW wait,
         \/ Drive(who, conn, gen, st, queued, wait)
         \/ EnsureConnected(who, conn, gen, st, queued, wait),
         \A j \in queued : j.kind = "connect" => j \in jobs
  PROVE  AttemptsKnown'
<1>1. epoch \in Nat
  BY DEF TypeOK
<1>2. /\ epoch' = epoch \/ epoch' = epoch + 1
      /\ \A j \in jobs' : \/ j \in queued
                          \/ j.kind = "join" /\ j.binding \in who
                          \/ j.kind = "connect" /\ j.epoch = epoch'
      /\ \A e \in pendingConnect' : e \in pendingConnect \/ e = epoch'
  BY <1>1, DriveFrame
<1> QED
  BY <1>2, StillKnown

LEMMA KnownReport ==
  ASSUME OwnInv, AttemptsKnown, NEW s \in registry, OnBindingError(s)
  PROVE  AttemptsKnown'
<1>1. PICK b \in Binding : b = s.owner
  BY DEF OwnInv, TypeInv, TypeOK, LinkTypeOK, Subscriptions
<1> DEFINE who == Peers(b) \union {b}
           queued == jobs \union Unready(Released(b))
<1>2. Drive(who, connecting, generation, status, queued, waiting)
  BY <1>1 DEF OnBindingError
<1>3. who \in SUBSET Binding /\ TypeOK
  BY PeersTyped DEF OwnInv, TypeInv, TypeOK
<1>4. \A j \in queued : j.kind = "connect" => j \in jobs
  BY DEF Unready, Ready
<1> HIDE DEF who, queued
<1> QED
  BY <1>2, <1>3, <1>4, KnownDriven

LEMMA KnownCalls ==
  ASSUME OwnInv, AttemptsKnown,
         Open \/ Close \/ \E b \in Binding : Bind(b) \/ Cancel(b)
  PROVE  AttemptsKnown'
<1>0. TypeOK
  BY DEF OwnInv, TypeInv
<1>1. ASSUME Open PROVE AttemptsKnown'
  <2> DEFINE nobody == {}
  <2>1. EnsureConnected(nobody, connecting, generation, status, jobs, waiting)
    BY <1>1 DEF Open
  <2>2. nobody \in SUBSET Binding
    OBVIOUS
  <2> HIDE DEF nobody
  <2> QED
    BY <1>0, <2>1, <2>2, KnownDriven
<1>2. ASSUME Close PROVE AttemptsKnown'
  <2>1. /\ epoch' = epoch + 1 /\ pendingConnect' = {}
        /\ jobs' = jobs \union Unready(UNION {Released(b) : b \in bindings})
                        \union {Connected(e, FALSE) : e \in pendingConnect}
    BY <1>2 DEF Close, Disconnect
  <2>2. \A j \in Unready(UNION {Released(b) : b \in bindings}) : j.kind = "ready"
    BY DEF Unready, Ready
  <2>3. \A j \in {Connected(e, FALSE) : e \in pendingConnect} : j.epoch \in pendingConnect
    BY DEF Connected
  <2> QED
    BY <1>0, <2>1, <2>2, <2>3, StillKnown
<1>3. ASSUME NEW b \in Binding, Bind(b) PROVE AttemptsKnown'
  <2> DEFINE who == {b}
  <2>1. Drive(who, connecting, generation, status, jobs, waiting) /\ who \in SUBSET Binding
    BY <1>3 DEF Bind
  <2> HIDE DEF who
  <2> QED
    BY <1>0, <2>1, KnownDriven
<1>4. ASSUME NEW b \in Binding, Cancel(b) PROVE AttemptsKnown'
  <2> DEFINE who == Peers(b)
             queued == jobs \union Unready(Released(b))
  <2>1. Drive(who, connecting, generation, status, queued, waiting)
    BY <1>4 DEF Cancel
  <2>2. who \in SUBSET Binding
    BY <1>0, PeersTyped DEF TypeOK
  <2>3. \A j \in queued : j.kind = "connect" => j \in jobs
    BY DEF Unready, Ready
  <2> HIDE DEF who, queued
  <2> QED
    BY <1>0, <2>1, <2>2, <2>3, KnownDriven
<1> QED
  BY <1>1, <1>2, <1>3, <1>4

LEMMA KnownConnect ==
  ASSUME OwnInv, AttemptsKnown, ConnectReaction
  PROVE  AttemptsKnown'
<1>0. TypeOK
  BY DEF OwnInv, TypeInv
<1>1. PICK j \in jobs : Overtaken(j) \/ Established(j) \/ Failed(j)
  BY DEF ConnectReaction
<1>2. ASSUME Overtaken(j) PROVE AttemptsKnown'
  BY <1>2 DEF Overtaken, storeVars, connectVars, AttemptsKnown
<1>3. ASSUME Established(j) PROVE AttemptsKnown'
  <2> DEFINE queued == (jobs \ {j}) \union Joins(waiting, TRUE)
             nobody == {}
  <2>1. Drive(bindings, 0, generation + 1, "connected", queued, nobody)
    BY <1>3 DEF Established
  <2>2. \A k \in queued : k.kind = "connect" => k \in jobs
    BY DEF Joins
  <2>3. bindings \in SUBSET Binding
    BY <1>0 DEF TypeOK
  <2> HIDE DEF queued, nobody
  <2> QED
    BY <1>0, <2>1, <2>2, <2>3, KnownDriven
<1>4. ASSUME Failed(j) PROVE AttemptsKnown'
  <2>1. /\ UNCHANGED <<pendingConnect, epoch>>
        /\ jobs' = (jobs \ {j}) \union Joins(waiting, FALSE)
    BY <1>4 DEF Failed, connectVars
  <2>2. \A k \in Joins(waiting, FALSE) : k.kind = "join"
    BY DEF Joins
  <2> QED
    BY <2>1, <2>2 DEF AttemptsKnown
<1> QED
  BY <1>1, <1>2, <1>3, <1>4

LEMMA KnownEvents ==
  ASSUME OwnInv, AttemptsKnown,
         \/ JoinReaction \/ ReadyReaction
         \/ ConnectOpens \/ ConnectFails \/ ConnectionDrops \/ ClientDrops
         \/ \E b \in Binding : SubscriptionOpens(b)
         \/ UNCHANGED vars
  PROVE  AttemptsKnown'
<1>0. TypeOK /\ TypeInv
  BY DEF OwnInv, TypeInv
<1>1. epoch' = epoch /\ \A e \in pendingConnect' : e \in pendingConnect
  BY DEF JoinReaction, ReadyReaction, ConnectOpens, Opens, ConnectFails, Disconnect,
         ConnectionDrops, Drop, ClientDrops, DropEnds, SubscriptionOpens, Authorizes,
         vars, storeVars, linkVars, connectVars
<1>2. \A j \in jobs' : j.kind = "connect" => j \in jobs \/ j.epoch \in pendingConnect
  <2>1. \A e \in pendingConnect : /\ Connected(e, TRUE).epoch = e
                                 /\ Connected(e, FALSE).epoch = e
    BY DEF Connected
  <2>2. ASSUME JoinReaction \/ ReadyReaction
        PROVE  \A j \in jobs' : j \in jobs \/ j.kind = "ready"
    BY <1>0, <2>2, JoinFields, ReadyFields
  <2>3. CASE ConnectOpens
    BY <2>1, <2>3 DEF ConnectOpens
  <2>4. CASE ConnectFails
    BY <2>1, <2>4 DEF ConnectFails
  <2>5. CASE ConnectionDrops \/ UNCHANGED vars
    BY <2>5 DEF ConnectionDrops, vars
  <2>6. CASE ClientDrops
    BY <2>1, <2>6 DEF ClientDrops
  <2>7. ASSUME NEW b \in Binding, SubscriptionOpens(b)
        PROVE  \A j \in jobs' : j.kind = "ready"
    BY <2>7 DEF SubscriptionOpens, Ready
  <2> QED
    BY <2>2, <2>3, <2>4, <2>5, <2>6, <2>7
<1> QED
  BY <1>0, <1>1, <1>2, StillKnown

LEMMA ClosedClose ==
  ASSUME IdleInv, Close
  PROVE  ClosedInv'
<1>1. /\ bindings' = {} /\ connecting' = 0 /\ status' = "idle" /\ waiting' = {}
      /\ transport' = "disconnected" /\ currentState' = "disconnected"
      /\ pendingConnect' = {} /\ dropping' = "no" /\ epoch' = epoch + 1
      /\ jobs' = jobs \union Unready(UNION {Released(b) : b \in bindings})
                      \union {Connected(e, FALSE) : e \in pendingConnect}
  BY DEF Close, Disconnect
<1>2. /\ epoch \in Nat
      /\ \A e \in pendingConnect : e \in Nat /\ e <= epoch
      /\ \A j \in jobs : j.kind = "connect" => j.epoch \in Nat /\ j.epoch <= epoch
  BY DEF IdleInv, OwnInv, TypeInv, TypeOK, LinkTypeOK, Jobs, AttemptsKnown
<1>3. \A j \in Unready(UNION {Released(b) : b \in bindings}) : j.kind = "ready"
  BY DEF Unready, Ready
<1>4. \A j \in {Connected(e, FALSE) : e \in pendingConnect} : j.epoch \in pendingConnect
  BY DEF Connected
<1>5. ASSUME NEW j \in jobs', j.kind = "connect"
      PROVE  j.epoch # epoch'
  <2>1. (j \in jobs) \/ (j.epoch \in pendingConnect)
    BY <1>1, <1>3, <1>4, <1>5
  <2>2. PICK e \in Nat : e = j.epoch /\ e <= epoch
    BY <1>2, <1>5, <2>1
  <2> QED
    BY <1>1, <1>2, <2>2
<1> QED
  BY <1>1, <1>5 DEF ClosedInv

\* Nothing else runs in a closed store than a reaction that comes to nothing.
LEMMA ClosedReactions ==
  ASSUME IdleInv, closed, Reactions \/ UNCHANGED vars
  PROVE  ClosedInv'
<1>1. /\ closed /\ bindings = {} /\ connecting = 0 /\ status = "idle"
      /\ transport = "disconnected" /\ currentState = "disconnected"
      /\ pendingConnect = {} /\ waiting = {} /\ dropping = "no"
      /\ \A j \in jobs : j.kind = "connect" => j.epoch # epoch
  BY DEF IdleInv, ClosedInv
<1>2. /\ UNCHANGED <<closed, bindings, connecting, status, transport, currentState>>
      /\ UNCHANGED <<pendingConnect, waiting, dropping, epoch>>
      /\ \A j \in jobs' : j \in jobs \/ j.kind = "ready"
  <2>1. ASSUME ConnectReaction
        PROVE  UNCHANGED <<connectVars, storeVars, dropping, closed>> /\ jobs' \subseteq jobs
    <3>1. PICK j \in jobs : /\ j.kind = "connect"
                            /\ Overtaken(j) \/ Established(j) \/ Failed(j)
      BY <2>1 DEF ConnectReaction
    <3>2. Overtaken(j)
      BY <1>1, <3>1 DEF Established, Failed
    <3> QED
      BY <2>1, <3>2 DEF Overtaken, ConnectReaction, history
  <2>2. ASSUME JoinReaction \/ ReadyReaction
        PROVE  \A j \in jobs' : j \in jobs \/ j.kind = "ready"
    BY <2>2, JoinFields, ReadyFields DEF IdleInv, OwnInv
  <2>3. CASE ConnectReaction
    BY <2>1, <2>3 DEF connectVars, storeVars
  <2>4. CASE JoinReaction
    BY <2>2, <2>4 DEF JoinReaction, connectVars
  <2>5. CASE ReadyReaction
    BY <2>2, <2>5 DEF ReadyReaction, linkVars, connectVars
  <2>6. CASE UNCHANGED vars
    BY <2>6 DEF vars, linkVars, connectVars, storeVars, history
  <2> QED
    BY <2>3, <2>4, <2>5, <2>6 DEF Reactions
<1> QED
  BY <1>1, <1>2 DEF ClosedInv

LEMMA ClosedEvents ==
  ASSUME IdleInv, closed
  PROVE  ~Events /\ \A b \in Binding : ~Cancel(b)
<1>1. /\ bindings = {} /\ registry = {} /\ transport = "disconnected" /\ dropping = "no"
  BY DEF IdleInv, ClosedInv, OwnInv, OpenIsHeard
<1>2. \A b \in Binding : rec[b].phase # "bound"
  BY <1>1 DEF IdleInv, OwnInv, BoundAreBindings
<1> QED
  BY <1>1, <1>2
     DEF Events, ConnectOpens, Opens, ConnectFails, ConnectionDrops, Drop,
         SubscriptionDrops, ClientDrops, DropEnds, SubscriptionOpens,
         SubscriptionFails, Cancel

LEMMA ClosedKept == ASSUME IdleInv, [Next]_vars PROVE ClosedInv'
<1>1. ASSUME Close PROVE ClosedInv'
  BY <1>1, ClosedClose
<1>2. ASSUME Open \/ \E b \in Binding : Bind(b) PROVE ClosedInv'
  BY <1>2 DEF Open, Bind, ClosedInv
<1>3. ASSUME closed, Reactions \/ UNCHANGED vars PROVE ClosedInv'
  BY <1>3, ClosedReactions
<1>4. ASSUME closed PROVE ~Events /\ \A b \in Binding : ~Cancel(b)
  BY <1>4, ClosedEvents
<1>5. ASSUME ~closed, Reactions \/ Events \/ (\E b \in Binding : Cancel(b)) \/ UNCHANGED vars
      PROVE  ~closed'
  BY <1>5
     DEF Reactions, ConnectReaction, JoinReaction, ReadyReaction, Events, ConnectOpens,
         ConnectFails, ConnectionDrops, SubscriptionDrops, ClientDrops,
         SubscriptionOpens, SubscriptionFails, OnBindingError, Cancel, vars, history
<1>6. ASSUME ~closed' PROVE ClosedInv'
  BY <1>6 DEF ClosedInv
<1> QED
  BY <1>1, <1>2, <1>3, <1>4, <1>5, <1>6 DEF Next, Calls

LEMMA IdleStep == IdleInv /\ [Next]_vars => IdleInv'
<1> SUFFICES ASSUME IdleInv, [Next]_vars
             PROVE  IdleInv'
  OBVIOUS
<1>0. OwnInv /\ AttemptsKnown
  BY DEF IdleInv
<1>1. OwnInv'
  BY <1>0, OwnStep
<1>2. ClosedInv'
  BY ClosedKept
<1>3. ASSUME Calls PROVE AttemptsKnown'
  BY <1>0, <1>3, KnownCalls DEF Calls
<1>4. ASSUME ConnectReaction PROVE AttemptsKnown'
  BY <1>0, <1>4, KnownConnect
<1>5. ASSUME \/ JoinReaction \/ ReadyReaction
             \/ ConnectOpens \/ ConnectFails \/ ConnectionDrops \/ ClientDrops
             \/ \E b \in Binding : SubscriptionOpens(b)
             \/ UNCHANGED vars
      PROVE  AttemptsKnown'
  BY <1>0, <1>5, KnownEvents
<1>6. ASSUME SubscriptionDrops \/ \E b \in Binding : SubscriptionFails(b)
      PROVE  AttemptsKnown'
  BY <1>0, <1>6, KnownReport DEF SubscriptionDrops, SubscriptionFails
<1>7. AttemptsKnown'
  BY <1>3, <1>4, <1>5, <1>6 DEF Next, Reactions, Events
<1> QED
  BY <1>1, <1>2, <1>7 DEF IdleInv

\* Whatever settles late, a closed store stays idle over a disconnected link
\* that holds no subscription, until it is opened or bound again (close, the
\* epoch check of #ensureConnected).
THEOREM ClosedIsIdle == Spec => []ClosedStaysIdle
<1>1. Init => IdleInv
  BY OwnInit DEF IdleInv, AttemptsKnown, ClosedInv, Init, LinkInit
<1>2. IdleInv => ClosedStaysIdle
  BY DEF IdleInv, ClosedInv, ClosedStaysIdle, LinkState, OwnInv, OpenIsHeard
<1> QED
  BY <1>1, <1>2, IdleStep, PTL DEF Spec

----
(* Waits that are answered.                                                *)

\* The link and the library disagree about the connection only while a drop is
\* being told, and then the link still believes in the connection.
LinkAgrees ==
    /\ transport = "connected" => currentState = "connected" /\ negotiated
    /\ dropping # "no" => transport = dropping /\ currentState = "connected" /\ negotiated

\* NoOrphanedWait needs LinkAgrees: an attempt the link holds has a transport at
\* work because a connect() is only asked of a link without a connection.
WaitInv == TypeOK /\ LinkAgrees /\ NoOrphanedWait

\* Driving bindings at an attempt that is the current one, or at none.
LEMMA WaitDriven ==
  ASSUME WaitInv, UNCHANGED dropping,
         NEW who, NEW conn, NEW gen, NEW st, NEW queued, NEW wait,
         \/ Drive(who, conn, gen, st, queued, wait)
         \/ EnsureConnected(who, conn, gen, st, queued, wait),
         wait # {} => conn # 0,
         conn # 0 =>
           /\ conn = epoch
           /\ epoch \in pendingConnect
                \/ \E j \in queued : j.kind = "connect" /\ j.epoch = epoch
  PROVE  LinkAgrees' /\ NoOrphanedWait'
<1>1. /\ epoch \in Nat /\ transport \in LinkStates
      /\ dropping \in {"no", "connecting", "disconnected"}
  BY DEF WaitInv, TypeOK, LinkTypeOK
<1>2. pendingConnect # {} => transport = "connecting"
  BY DEF WaitInv, NoOrphanedWait
<1>3. CASE /\ conn = 0 /\ ~(LinkState = "connected" /\ gen > 0)
           /\ EnsureConnected(who, conn, gen, st, queued, wait)
  <2>0. epoch' = epoch + 1 /\ connecting' = epoch + 1
    BY <1>3 DEF EnsureConnected
  <2>1. epoch' = epoch + 1 /\ connecting' = epoch' /\ connecting' # 0
    BY <1>1, <2>0
  <2>2. CASE ResolvesAtOnce
    <3>1. jobs' = queued \union {Connected(epoch + 1, TRUE)} /\ UNCHANGED connectVars
      BY <1>3, <2>2 DEF EnsureConnected
    <3>2. /\ Connected(epoch + 1, TRUE).kind = "connect"
          /\ Connected(epoch + 1, TRUE).epoch = epoch + 1
      BY DEF Connected
    <3>3. \E j \in jobs' : j.kind = "connect" /\ j.epoch = epoch'
      BY <2>1, <3>1, <3>2
    <3>4. UNCHANGED <<transport, currentState, negotiated, pendingConnect, dropping>>
      BY <3>1 DEF connectVars
    <3>5. LinkAgrees'
      BY <3>4 DEF WaitInv, LinkAgrees
    <3>6. NoOrphanedWait'
      BY <1>2, <2>1, <3>3, <3>4 DEF NoOrphanedWait
    <3> QED
      BY <3>5, <3>6
  <2>3. CASE ~ResolvesAtOnce
    <3>1. Connect(epoch + 1)
      BY <1>3, <2>3 DEF EnsureConnected
    <3>2. dropping = "no" /\ transport \in {"disconnected", "connecting"}
      BY <1>1, <2>3 DEF WaitInv, LinkAgrees, ResolvesAtOnce, LinkStates
    <3>3. transport' = "connecting" /\ epoch + 1 \in pendingConnect'
      BY <1>2, <3>1, <3>2 DEF Connect
    <3> QED
      BY <2>1, <3>2, <3>3 DEF LinkAgrees, NoOrphanedWait
  <2> QED
    BY <2>2, <2>3
<1>4. CASE /\ conn = 0 /\ LinkState = "connected" /\ gen > 0
           /\ EnsureConnected(who, conn, gen, st, queued, wait)
  <2>1. connecting' = 0 /\ waiting' = wait /\ UNCHANGED connectVars
    BY <1>4 DEF EnsureConnected
  <2>2. waiting' = {}
    BY <1>4, <2>1
  <2> QED
    BY <2>1, <2>2, <1>2 DEF WaitInv, LinkAgrees, NoOrphanedWait, connectVars
<1>5. CASE /\ conn # 0 \/ waiting' = wait
           /\ connecting' = conn /\ jobs' = queued
           /\ UNCHANGED <<connectVars, epoch>>
  BY <1>2, <1>5 DEF WaitInv, LinkAgrees, NoOrphanedWait, connectVars
<1>6. CASE conn # 0 /\ EnsureConnected(who, conn, gen, st, queued, wait)
  BY <1>5, <1>6 DEF EnsureConnected
<1>7. CASE who = {} /\ Drive(who, conn, gen, st, queued, wait)
  BY <1>5, <1>7 DEF Drive
<1> QED
  BY <1>3, <1>4, <1>6, <1>7 DEF Drive

\* The same, when what is queued only grows.
LEMMA WaitDrivenOn ==
  ASSUME WaitInv, UNCHANGED dropping,
         NEW who, NEW queued, jobs \subseteq queued,
         \/ Drive(who, connecting, generation, status, queued, waiting)
         \/ EnsureConnected(who, connecting, generation, status, queued, waiting)
  PROVE  LinkAgrees' /\ NoOrphanedWait'
<1>1. /\ waiting # {} => connecting # 0
      /\ connecting # 0 =>
           /\ connecting = epoch
           /\ epoch \in pendingConnect
                \/ \E j \in queued : j.kind = "connect" /\ j.epoch = epoch
  BY DEF WaitInv, NoOrphanedWait
<1> QED
  BY <1>1, WaitDriven

LEMMA WaitCalls ==
  ASSUME WaitInv, Calls
  PROVE  LinkAgrees' /\ NoOrphanedWait'
<1>1. ASSUME Open PROVE LinkAgrees' /\ NoOrphanedWait'
  <2> DEFINE nobody == {}
  <2>1. EnsureConnected(nobody, connecting, generation, status, jobs, waiting)
        /\ UNCHANGED dropping
    BY <1>1 DEF Open
  <2> HIDE DEF nobody
  <2> QED
    BY <2>1, WaitDrivenOn
<1>2. ASSUME NEW b \in Binding, Bind(b) PROVE LinkAgrees' /\ NoOrphanedWait'
  <2> DEFINE who == {b}
  <2>1. Drive(who, connecting, generation, status, jobs, waiting) /\ UNCHANGED dropping
    BY <1>2 DEF Bind
  <2> HIDE DEF who
  <2> QED
    BY <2>1, WaitDrivenOn
<1>3. ASSUME NEW b \in Binding, Cancel(b) PROVE LinkAgrees' /\ NoOrphanedWait'
  <2> DEFINE who == Peers(b)
             queued == jobs \union Unready(Released(b))
  <2>1. Drive(who, connecting, generation, status, queued, waiting) /\ UNCHANGED dropping
    BY <1>3 DEF Cancel
  <2>2. jobs \subseteq queued
    OBVIOUS
  <2> HIDE DEF who, queued
  <2> QED
    BY <2>1, <2>2, WaitDrivenOn
<1>4. ASSUME Close PROVE LinkAgrees' /\ NoOrphanedWait'
  BY <1>4 DEF Close, Disconnect, LinkAgrees, NoOrphanedWait
<1> QED
  BY <1>1, <1>2, <1>3, <1>4 DEF Calls

LEMMA WaitReport ==
  ASSUME WaitInv, NEW s \in registry, OnBindingError(s), UNCHANGED dropping
  PROVE  LinkAgrees' /\ NoOrphanedWait'
<1>1. PICK b : b = s.owner
  OBVIOUS
<1> DEFINE who == Peers(b) \union {b}
           queued == jobs \union Unready(Released(b))
<1>2. Drive(who, connecting, generation, status, queued, waiting)
  BY <1>1 DEF OnBindingError
<1>3. jobs \subseteq queued
  OBVIOUS
<1> HIDE DEF who, queued
<1> QED
  BY <1>2, <1>3, WaitDrivenOn

LEMMA WaitReactions ==
  ASSUME WaitInv, TypeInv, Reactions
  PROVE  LinkAgrees' /\ NoOrphanedWait'
<1>1. ASSUME ConnectReaction PROVE LinkAgrees' /\ NoOrphanedWait'
  <2>1. PICK j \in jobs : /\ j.kind = "connect"
                          /\ Overtaken(j) \/ Established(j) \/ Failed(j)
    BY <1>1 DEF ConnectReaction
  <2>2. UNCHANGED dropping
    BY <1>1 DEF ConnectReaction
  <2>3. CASE Overtaken(j)
    <3>1. j.epoch # epoch /\ jobs' = jobs \ {j} /\ UNCHANGED <<connectVars, storeVars>>
      BY <2>3 DEF Overtaken
    <3> QED
      BY <2>2, <3>1 DEF WaitInv, LinkAgrees, NoOrphanedWait, storeVars, connectVars
  <2>4. CASE Established(j)
    <3> DEFINE queued == (jobs \ {j}) \union Joins(waiting, TRUE)
               nobody == {}
    <3>1. Drive(bindings, 0, generation + 1, "connected", queued, nobody)
      BY <2>4 DEF Established
    <3>2. nobody = {}
      OBVIOUS
    <3> HIDE DEF queued, nobody
    <3> QED
      BY <2>2, <3>1, <3>2, WaitDriven
  <2>5. CASE Failed(j)
    BY <2>2, <2>5 DEF Failed, WaitInv, LinkAgrees, NoOrphanedWait, connectVars
  <2> QED
    BY <2>1, <2>3, <2>4, <2>5
<1>2. ASSUME JoinReaction \/ ReadyReaction PROVE LinkAgrees' /\ NoOrphanedWait'
  <2>1. /\ UNCHANGED <<transport, currentState, negotiated, pendingConnect, dropping>>
        /\ UNCHANGED <<epoch, connecting, waiting>>
    BY <1>2 DEF JoinReaction, ReadyReaction, linkVars, connectVars
  <2>2. \A j \in jobs : j.kind = "connect" => j \in jobs'
    BY <1>2 DEF JoinReaction, ReadyReaction
  <2> QED
    BY <2>1, <2>2 DEF WaitInv, LinkAgrees, NoOrphanedWait
<1> QED
  BY <1>1, <1>2 DEF Reactions

LEMMA WaitEvents ==
  ASSUME WaitInv,
         \/ ConnectOpens \/ ConnectFails \/ ConnectionDrops \/ ClientDrops
         \/ \E b \in Binding : SubscriptionOpens(b)
         \/ UNCHANGED vars
  PROVE  LinkAgrees' /\ NoOrphanedWait'
<1>1. \A e \in pendingConnect, ok \in BOOLEAN :
        Connected(e, ok).kind = "connect" /\ Connected(e, ok).epoch = e
  BY DEF Connected
<1>2. /\ waiting # {} => connecting # 0
      /\ connecting # 0 =>
           /\ connecting = epoch
           /\ epoch \in pendingConnect \/ \E j \in jobs : j.kind = "connect" /\ j.epoch = epoch
      /\ pendingConnect # {} => transport = "connecting"
  BY DEF WaitInv, NoOrphanedWait
<1>3. CASE ConnectOpens
  <2>1. /\ jobs = {} /\ dropping = "no" /\ UNCHANGED <<waiting, connecting, epoch, dropping>>
        /\ transport' = "connected" /\ currentState' = "connected" /\ negotiated'
        /\ pendingConnect' = {}
        /\ jobs' = {Connected(e, TRUE) : e \in pendingConnect}
    BY <1>3 DEF ConnectOpens, Opens, Idle, storeVars
  <2>2. \A e \in pendingConnect : \E j \in jobs' : j.kind = "connect" /\ j.epoch = e
    BY <1>1, <2>1
  <2> QED
    BY <1>2, <2>1, <2>2 DEF LinkAgrees, NoOrphanedWait
<1>4. CASE ConnectFails
  <2>1. /\ jobs = {} /\ dropping = "no" /\ UNCHANGED <<waiting, connecting, epoch, dropping>>
        /\ transport' = "disconnected"
        /\ pendingConnect' = {}
        /\ jobs' = {Connected(e, FALSE) : e \in pendingConnect}
    BY <1>4 DEF ConnectFails, Disconnect, Idle, storeVars
  <2>2. \A e \in pendingConnect : \E j \in jobs' : j.kind = "connect" /\ j.epoch = e
    BY <1>1, <2>1
  <2> QED
    BY <1>2, <2>1, <2>2 DEF LinkAgrees, NoOrphanedWait
<1>5. CASE ConnectionDrops
  <2>1. PICK next \in {"connecting", "disconnected"} : Drop(next)
    BY <1>5 DEF ConnectionDrops
  <2>2. /\ transport = "connected" /\ transport' = next /\ dropping' = next
        /\ UNCHANGED <<currentState, negotiated, pendingConnect>>
        /\ UNCHANGED <<waiting, connecting, epoch, jobs>>
    BY <1>5, <2>1 DEF Drop, ConnectionDrops, storeVars
  <2> QED
    BY <1>2, <2>2 DEF WaitInv, LinkAgrees, NoOrphanedWait
<1>6. CASE ClientDrops
  <2>1. /\ dropping # "no" /\ dropping' = "no" /\ transport' = transport
        /\ transport = dropping
        /\ UNCHANGED <<waiting, connecting, epoch>>
        /\ jobs \subseteq jobs'
        /\ dropping = "disconnected" => /\ pendingConnect' = {}
                                        /\ jobs' = jobs \union {Connected(e, FALSE) : e \in pendingConnect}
        /\ dropping # "disconnected" => pendingConnect' = pendingConnect
    BY <1>6 DEF ClientDrops, DropEnds, storeVars, WaitInv, LinkAgrees
  <2>2. dropping \in {"connecting", "disconnected"}
    BY <2>1 DEF WaitInv, TypeOK, LinkTypeOK
  <2>3. dropping = "disconnected" =>
          \A e \in pendingConnect : \E j \in jobs' : j.kind = "connect" /\ j.epoch = e
    BY <1>1, <2>1
  <2> QED
    BY <1>2, <2>1, <2>2, <2>3 DEF LinkAgrees, NoOrphanedWait
<1>7. ASSUME NEW b \in Binding, SubscriptionOpens(b) PROVE LinkAgrees' /\ NoOrphanedWait'
  <2>1. /\ UNCHANGED <<transport, currentState, negotiated, pendingConnect, dropping>>
        /\ UNCHANGED <<epoch, connecting, waiting>> /\ jobs = {}
    BY <1>7 DEF SubscriptionOpens, Authorizes, Idle, connectVars, storeVars
  <2> QED
    BY <1>2, <2>1 DEF WaitInv, LinkAgrees, NoOrphanedWait
<1>8. CASE UNCHANGED vars
  BY <1>8 DEF vars, linkVars, connectVars, storeVars, WaitInv, LinkAgrees, NoOrphanedWait
<1> QED
  BY <1>3, <1>4, <1>5, <1>6, <1>7, <1>8

LEMMA WaitStep == TypeInv /\ WaitInv /\ [Next]_vars => LinkAgrees' /\ NoOrphanedWait'
<1> SUFFICES ASSUME TypeInv, WaitInv, [Next]_vars
             PROVE  LinkAgrees' /\ NoOrphanedWait'
  OBVIOUS
<1>1. ASSUME SubscriptionDrops \/ \E b \in Binding : SubscriptionFails(b)
      PROVE  LinkAgrees' /\ NoOrphanedWait'
  BY <1>1, WaitReport DEF SubscriptionDrops, SubscriptionFails
<1> QED
  BY <1>1, WaitCalls, WaitReactions, WaitEvents DEF Next, Events

----
(* Bindings that get their chance.                                         *)

JoinOwed(b) == [kind |-> "join", binding |-> b, ok |-> TRUE] \in jobs

\* On an established connection each binding has made its attempt, or the
\* reaction that makes it is queued.
Tried ==
    status = "connected" =>
      /\ generation > 0
      /\ connecting = 0 => \A b \in bindings : rec[b].attempted = generation \/ JoinOwed(b)

\* Driving the bindings that still have to make their attempt.
LEMMA TriedDriven ==
  ASSUME NEW who, NEW conn, NEW gen, NEW st, NEW queued, NEW wait,
         \/ Drive(who, conn, gen, st, queued, wait)
         \/ EnsureConnected(who, conn, gen, st, queued, wait),
         generation' = gen, st = "connected" => gen > 0, epoch \in Nat,
         conn = 0 /\ st = "connected" =>
           \A b \in bindings' :
             \/ b \in who
             \/ rec'[b].attempted = gen
             \/ [kind |-> "join", binding |-> b, ok |-> TRUE] \in queued
  PROVE  Tried'
<1>1. \/ status' = "connecting"
      \/ status' = st /\ connecting' = conn /\ conn # 0
      \/ status' = st /\ conn = 0 /\ jobs' = queued \union Joins(who, TRUE)
      \/ status' = st /\ connecting' = conn /\ jobs' = queued /\ who = {}
  BY DEF Drive, EnsureConnected
<1>2. \A b \in who : [kind |-> "join", binding |-> b, ok |-> TRUE] \in Joins(who, TRUE)
  BY DEF Joins
<1>3. CASE status' = st /\ conn = 0 /\ jobs' = queued \union Joins(who, TRUE)
  BY <1>2, <1>3 DEF Tried, JoinOwed
<1>4. CASE status' = st /\ connecting' = conn /\ jobs' = queued /\ who = {}
  BY <1>4 DEF Tried, JoinOwed
<1>5. CASE status' = "connecting" \/ (status' = st /\ connecting' = conn /\ conn # 0)
  BY <1>5 DEF Tried
<1> QED
  BY <1>1, <1>3, <1>4, <1>5

LEMMA TriedReport ==
  ASSUME OwnInv, Tried, NEW s \in registry, OnBindingError(s)
  PROVE  Tried'
<1>0. TypeInv /\ epoch \in Nat /\ bindings \in SUBSET Binding
  BY DEF OwnInv, TypeInv, TypeOK
<1>1. PICK b \in Binding : b = s.owner
  BY DEF OwnInv, TypeInv, TypeOK, LinkTypeOK, Subscriptions
<1> DEFINE who == Peers(b) \union {b}
           queued == jobs \union Unready(Released(b))
<1>2. /\ Drive(who, connecting, generation, status, queued, waiting)
      /\ UNCHANGED <<bindings, generation>>
  BY <1>1 DEF OnBindingError
<1>3. \A x \in bindings : x \in who \/ rec'[x] = rec[x]
  BY <1>0, <1>1 DEF OnBindingError
<1>4. jobs \subseteq queued
  OBVIOUS
<1> HIDE DEF who, queued
<1>5. connecting = 0 /\ status = "connected" =>
        \A x \in bindings' :
          \/ x \in who
          \/ rec'[x].attempted = generation
          \/ [kind |-> "join", binding |-> x, ok |-> TRUE] \in queued
  BY <1>2, <1>3, <1>4 DEF Tried, JoinOwed
<1> QED
  BY <1>0, <1>2, <1>5, TriedDriven DEF Tried

LEMMA TriedCalls ==
  ASSUME OwnInv, Tried, Calls
  PROVE  Tried'
<1>0. /\ TypeInv /\ epoch \in Nat /\ bindings \in SUBSET Binding
      /\ rec \in [Binding -> Records]
  BY DEF OwnInv, TypeInv, TypeOK
<1>1. ASSUME Open PROVE Tried'
  <2> DEFINE nobody == {}
  <2>1. /\ EnsureConnected(nobody, connecting, generation, status, jobs, waiting)
        /\ UNCHANGED <<bindings, rec, generation>>
    BY <1>1 DEF Open
  <2> HIDE DEF nobody
  <2>2. connecting = 0 /\ status = "connected" =>
          \A x \in bindings' : rec'[x].attempted = generation \/ JoinOwed(x)
    BY <2>1 DEF Tried
  <2> QED
    BY <1>0, <2>1, <2>2, TriedDriven DEF Tried, JoinOwed
<1>2. ASSUME NEW b \in Binding, Bind(b) PROVE Tried'
  <2> DEFINE who == {b}
  <2>1. /\ Drive(who, connecting, generation, status, jobs, waiting)
        /\ bindings' = bindings \union who /\ UNCHANGED generation
        /\ rec' = [rec EXCEPT ![b].phase = "bound"]
    BY <1>2 DEF Bind
  <2>2. \A x \in bindings : rec'[x].attempted = rec[x].attempted
    BY <1>0, <2>1, BoundRecord
  <2> HIDE DEF who
  <2>3. connecting = 0 /\ status = "connected" =>
          \A x \in bindings' : x \in who \/ rec'[x].attempted = generation \/ JoinOwed(x)
    BY <2>1, <2>2 DEF Tried
  <2> QED
    BY <1>0, <2>1, <2>3, TriedDriven DEF Tried, JoinOwed
<1>3. ASSUME NEW b \in Binding, Cancel(b) PROVE Tried'
  <2> DEFINE who == Peers(b)
             queued == jobs \union Unready(Released(b))
  <2>1. /\ Drive(who, connecting, generation, status, queued, waiting)
        /\ bindings' = bindings \ {b} /\ UNCHANGED generation
    BY <1>3 DEF Cancel
  <2>2. \A x \in bindings \ {b} : x \in who \/ rec'[x] = rec[x]
    BY <1>0, <1>3 DEF Cancel
  <2>3. jobs \subseteq queued
    OBVIOUS
  <2> HIDE DEF who, queued
  <2>4. connecting = 0 /\ status = "connected" =>
          \A x \in bindings' :
            \/ x \in who
            \/ rec'[x].attempted = generation
            \/ [kind |-> "join", binding |-> x, ok |-> TRUE] \in queued
    BY <2>1, <2>2, <2>3 DEF Tried, JoinOwed
  <2> QED
    BY <1>0, <2>1, <2>4, TriedDriven DEF Tried
<1>4. ASSUME Close PROVE Tried'
  BY <1>4 DEF Close, Tried
<1> QED
  BY <1>1, <1>2, <1>3, <1>4 DEF Calls

LEMMA TriedConnect ==
  ASSUME OwnInv, Tried, ConnectReaction
  PROVE  Tried'
<1>0. epoch \in Nat /\ generation \in Nat
  BY DEF OwnInv, TypeInv, TypeOK
<1>1. PICK j \in jobs : /\ j.kind = "connect"
                        /\ Overtaken(j) \/ Established(j) \/ Failed(j)
  BY DEF ConnectReaction
<1>2. CASE Overtaken(j)
  <2>1. jobs' = jobs \ {j} /\ UNCHANGED <<status, generation, connecting, bindings, rec>>
    BY <1>2 DEF Overtaken, storeVars
  <2>2. \A b \in bindings : JoinOwed(b) => JoinOwed(b)'
    BY <1>1, <2>1 DEF JoinOwed
  <2> QED
    BY <2>1, <2>2 DEF Tried
<1>3. CASE Established(j)
  <2> DEFINE queued == (jobs \ {j}) \union Joins(waiting, TRUE)
             nobody == {}
             gen == generation + 1
  <2>1. /\ Drive(bindings, 0, gen, "connected", queued, nobody)
        /\ generation' = gen /\ UNCHANGED bindings
    BY <1>3 DEF Established
  <2>2. gen > 0
    BY <1>0
  <2> HIDE DEF queued, nobody, gen
  <2> QED
    BY <1>0, <2>1, <2>2, TriedDriven
<1>4. CASE Failed(j)
  BY <1>4 DEF Failed, Tried
<1> QED
  BY <1>1, <1>2, <1>3, <1>4

LEMMA TriedJoin ==
  ASSUME OwnInv, Tried, JoinReaction
  PROVE  Tried'
<1>0. /\ rec \in [Binding -> Records] /\ jobs \in SUBSET Jobs /\ generation \in Nat
      /\ bindings \in SUBSET Binding
      /\ \A b \in bindings : rec[b].phase = "bound"
  BY DEF OwnInv, TypeInv, TypeOK, BoundAreBindings
<1>1. PICK j \in jobs :
        LET b == j.binding
        IN  /\ j.kind = "join"
            /\ \/ /\ IF j.ok THEN Abandoned(b) ELSE rec[b].phase = "cancelled"
                  /\ jobs' = jobs \ {j}
                  /\ UNCHANGED <<rec, registry, heard>>
               \/ /\ ~j.ok /\ rec[b].phase # "cancelled"
                  /\ Unavailable(b)
                  /\ jobs' = jobs \ {j}
               \/ /\ j.ok /\ ~Abandoned(b)
                  /\ Subscribes(b)
                  /\ jobs' = (jobs \ {j}) \union Unready(Released(b))
  BY DEF JoinReaction
<1>2. UNCHANGED <<status, generation, connecting, bindings>>
  BY DEF JoinReaction
<1>3. PICK b \in Binding : b = j.binding
  BY <1>0, <1>1, JobBinding
<1>4. jobs \ {j} \subseteq jobs'
  BY <1>1
<1>5. ASSUME NEW x \in bindings, x # b
      PROVE  rec'[x] = rec[x] /\ (JoinOwed(x) => JoinOwed(x)')
  <2>1. rec'[x] = rec[x]
    BY <1>0, <1>1, <1>3, <1>5 DEF Unavailable, Subscribes
  <2>2. [kind |-> "join", binding |-> x, ok |-> TRUE].binding # j.binding
    BY <1>3, <1>5
  <2> QED
    BY <1>4, <2>1, <2>2 DEF JoinOwed
<1>6. ASSUME b \in bindings, rec[b].attempted = generation \/ JoinOwed(b)
      PROVE  rec'[b].attempted = generation \/ JoinOwed(b)'
  <2>1. CASE j.ok /\ Abandoned(b) /\ rec' = rec
    BY <1>0, <1>6, <2>1 DEF Abandoned
  <2>2. CASE ~j.ok
    <3>1. rec'[b].attempted = rec[b].attempted
      <4>1. rec' = rec \/ rec' = [rec EXCEPT ![b].ready = Settle(@, "rejected")]
        BY <1>1, <1>3, <2>2 DEF Unavailable
      <4> QED
        BY <1>0, <4>1, ReadyUpdate
    <3>2. [kind |-> "join", binding |-> b, ok |-> TRUE].ok
      OBVIOUS
    <3>3. JoinOwed(b) => JoinOwed(b)'
      BY <1>4, <2>2, <3>2 DEF JoinOwed
    <3> QED
      BY <1>6, <3>1, <3>3
  <2>3. CASE Subscribes(b)
    <3>1. CASE rec' = [rec EXCEPT ![b].attempted = generation, ![b].release = 0,
                                  ![b].ready = Settle(@, "rejected")]
      BY <1>0, <3>1, RefusedBinding
    <3>2. CASE rec' = [rec EXCEPT ![b].attempted = generation, ![b].release = generation,
                                  ![b].joined = TRUE]
      BY <1>0, <3>2, SubscribedBinding
    <3> QED
      BY <2>3, <3>1, <3>2 DEF Subscribes
  <2> QED
    BY <1>1, <1>3, <2>1, <2>2, <2>3
<1> QED
  BY <1>2, <1>5, <1>6 DEF Tried

LEMMA TriedEvents ==
  ASSUME OwnInv, Tried,
         \/ ReadyReaction
         \/ ConnectOpens \/ ConnectFails \/ ConnectionDrops \/ ClientDrops
         \/ \E b \in Binding : SubscriptionOpens(b)
         \/ UNCHANGED vars
  PROVE  Tried'
<1>0. TypeInv /\ bindings \in SUBSET Binding
  BY DEF OwnInv, TypeInv, TypeOK
<1>1. UNCHANGED <<status, generation, connecting, bindings>>
  BY DEF ReadyReaction, ConnectOpens, ConnectFails, ConnectionDrops, ClientDrops,
         SubscriptionOpens, vars, storeVars
<1>2. CASE ReadyReaction
  <2>1. \A x \in bindings : rec'[x].attempted = rec[x].attempted
    BY <1>0, <1>2, ReadyFields
  <2>2. \A j \in jobs : j.kind # "ready" => j \in jobs'
    BY <1>2 DEF ReadyReaction
  <2>3. \A x \in bindings : JoinOwed(x) => JoinOwed(x)'
    BY <2>2 DEF JoinOwed
  <2> QED
    BY <1>1, <2>1, <2>3 DEF Tried
<1>3. CASE ~ReadyReaction
  <2>1. UNCHANGED rec /\ (jobs \subseteq jobs')
    BY <1>3 DEF ConnectOpens, ConnectFails, ConnectionDrops, ClientDrops,
         SubscriptionOpens, Idle, vars, storeVars
  <2>2. \A x \in bindings : JoinOwed(x) => JoinOwed(x)'
    BY <2>1 DEF JoinOwed
  <2> QED
    BY <1>1, <2>1, <2>2 DEF Tried
<1> QED
  BY <1>2, <1>3

LEMMA TriedStep == OwnInv /\ Tried /\ [Next]_vars => Tried'
<1> SUFFICES ASSUME OwnInv, Tried, [Next]_vars
             PROVE  Tried'
  OBVIOUS
<1>1. ASSUME SubscriptionDrops \/ \E b \in Binding : SubscriptionFails(b)
      PROVE  Tried'
  BY <1>1, TriedReport DEF SubscriptionDrops, SubscriptionFails
<1> QED
  BY <1>1, TriedCalls, TriedConnect, TriedJoin, TriedEvents DEF Next, Reactions, Events

----
(* Channels that are taken.                                                *)

Taken(c) == \E s \in registry : ChannelOf[s.owner] = c

\* A binding that made its attempt and never held its channel lost it to a
\* subscription that still holds it.
ChannelTaken ==
    \A b \in Binding :
      /\ rec[b].phase = "unbound" => rec[b].attempted = 0
      /\ /\ rec[b].phase = "bound" /\ ~rec[b].joined
         /\ rec[b].attempted = generation /\ generation # 0
         => Taken(ChannelOf[b])

\* What a step may do to a binding without leaving it behind: cancel it, give it
\* its attempt back, or keep the channel taken.
LEMMA TakenKept ==
  ASSUME ChannelTaken, generation' = generation,
         \A x \in Binding :
           \/ rec'[x].phase = "cancelled"
           \/ rec'[x].attempted = 0
           \/ /\ rec'[x].phase = rec[x].phase /\ rec'[x].attempted = rec[x].attempted
              /\ rec'[x].joined = rec[x].joined
              /\ \/ rec[x].joined \/ rec[x].phase # "bound"
                 \/ Taken(ChannelOf[x]) => Taken(ChannelOf[x])'
  PROVE  ChannelTaken'
<1> SUFFICES ASSUME NEW x \in Binding
             PROVE  /\ rec'[x].phase = "unbound" => rec'[x].attempted = 0
                    /\ /\ rec'[x].phase = "bound" /\ ~rec'[x].joined
                       /\ rec'[x].attempted = generation' /\ generation' # 0
                       => Taken(ChannelOf[x])'
  BY DEF ChannelTaken
<1> QED
  BY DEF ChannelTaken

\* Letting go of b's channel, with its losers given their attempts back.
LEMMA TakenLettingGo ==
  ASSUME OwnInv, NEW b \in Binding, NEW x \in Binding,
         registry' = registry \ Released(b), x \notin Peers(b), x # b
  PROVE  \/ rec[x].joined \/ rec[x].phase # "bound"
         \/ Taken(ChannelOf[x]) => Taken(ChannelOf[x])'
<1>1. CASE rec[b].release = 0
  BY <1>1 DEF Released, Taken
<1>2. CASE rec[b].release # 0 /\ ChannelOf[x] = ChannelOf[b]
  BY <1>2 DEF Peers, Losers, OwnInv, BoundAreBindings
<1>3. CASE ChannelOf[x] # ChannelOf[b]
  <2>1. \A s \in registry : ChannelOf[s.owner] = ChannelOf[x] => s \in registry'
    BY <1>3 DEF Released, Holders
  <2> QED
    BY <2>1 DEF Taken
<1> QED
  BY <1>1, <1>2, <1>3

LEMMA TakenReport ==
  ASSUME OwnInv, ChannelTaken, NEW s \in registry, OnBindingError(s)
  PROVE  ChannelTaken'
<1>0. TypeInv /\ rec \in [Binding -> Records]
  BY DEF OwnInv, TypeInv, TypeOK
<1>1. PICK b \in Binding : b = s.owner
  BY DEF OwnInv, TypeInv, TypeOK, LinkTypeOK, Subscriptions
<1>2. registry' = registry \ Released(b) /\ generation' = generation
  BY <1>1 DEF OnBindingError
<1>3. ASSUME NEW x \in Binding, x # b, x \notin Peers(b)
      PROVE  /\ rec'[x] = rec[x]
             /\ \/ rec[x].joined \/ rec[x].phase # "bound"
                \/ Taken(ChannelOf[x]) => Taken(ChannelOf[x])'
  <2>1. rec'[x] = rec[x]
    BY <1>0, <1>1, <1>3 DEF OnBindingError
  <2> QED
    BY <1>2, <1>3, <2>1, TakenLettingGo
<1>4. ASSUME NEW x \in Binding, x # b, x \in Peers(b)
      PROVE  rec'[x].attempted = 0
  <2>1. rec'[x] = Redriven(rec[x])
    BY <1>0, <1>1, <1>4 DEF OnBindingError
  <2> QED
    BY <1>0, <2>1, RedrivenRecord
<1>5. /\ rec'[b].phase = rec[b].phase /\ rec'[b].attempted = rec[b].attempted
      /\ rec'[b].joined = rec[b].joined
  BY <1>0, <1>1, ReportFields
<1>6. rec[b].joined \/ (Taken(ChannelOf[b]) => Taken(ChannelOf[b])')
  <2>1. CASE rec[b].release = 0
    BY <1>2, <2>1 DEF Released, Taken
  <2>2. CASE rec[b].release # 0
    BY <2>2 DEF OwnInv, HoldersJoined
  <2> QED
    BY <2>1, <2>2
<1> QED
  BY <1>2, <1>3, <1>4, <1>5, <1>6, TakenKept

LEMMA TakenCalls ==
  ASSUME OwnInv, ChannelTaken, Calls
  PROVE  ChannelTaken'
<1>0. /\ TypeInv /\ rec \in [Binding -> Records] /\ bindings \in SUBSET Binding
      /\ BoundAreBindings
  BY DEF OwnInv, TypeInv, TypeOK
<1>1. ASSUME Open PROVE ChannelTaken'
  BY <1>1 DEF Open, ChannelTaken, Taken
<1>2. ASSUME NEW b \in Binding, Bind(b) PROVE ChannelTaken'
  <2>1. /\ rec' = [rec EXCEPT ![b].phase = "bound"] /\ rec[b].phase = "unbound"
        /\ UNCHANGED <<registry, generation>>
    BY <1>2 DEF Bind
  <2>2. \A x \in Binding : /\ rec'[x].attempted = rec[x].attempted
                           /\ rec'[x].joined = rec[x].joined
                           /\ rec'[x].phase = IF x = b THEN "bound" ELSE rec[x].phase
    BY <1>0, <2>1, BoundRecord
  <2>3. rec'[b].attempted = 0
    BY <2>1, <2>2 DEF ChannelTaken
  <2>4. \A c : Taken(c) => Taken(c)'
    BY <2>1 DEF Taken
  <2> QED
    BY <2>1, <2>2, <2>3, <2>4, TakenKept
<1>3. ASSUME NEW b \in Binding, Cancel(b) PROVE ChannelTaken'
  <2>1. registry' = registry \ Released(b) /\ generation' = generation
    BY <1>3 DEF Cancel
  <2>2. ASSUME NEW x \in Binding, x # b, x \notin Peers(b)
        PROVE  /\ rec'[x] = rec[x]
               /\ \/ rec[x].joined \/ rec[x].phase # "bound"
                  \/ Taken(ChannelOf[x]) => Taken(ChannelOf[x])'
    <3>1. rec'[x] = rec[x]
      BY <1>0, <1>3, <2>2 DEF Cancel
    <3> QED
      BY <2>1, <2>2, <3>1, TakenLettingGo
  <2>3. ASSUME NEW x \in Binding, x # b, x \in Peers(b)
        PROVE  rec'[x].attempted = 0
    <3>1. rec'[x] = Redriven(rec[x])
      BY <1>0, <1>3, <2>3 DEF Cancel
    <3> QED
      BY <1>0, <3>1, RedrivenRecord
  <2>4. rec'[b].phase = "cancelled"
    BY <1>0, <1>3, CancelFields
  <2> QED
    BY <2>1, <2>2, <2>3, <2>4, TakenKept
<1>4. ASSUME Close PROVE ChannelTaken'
  <2>1. \A x \in Binding : \/ rec'[x].phase = "cancelled"
                           \/ rec'[x] = rec[x] /\ rec[x].phase # "bound"
    BY <1>0, <1>4, CloseFields DEF BoundAreBindings
  <2>2. generation' = generation
    BY <1>4 DEF Close
  <2> QED
    BY <2>1, <2>2, TakenKept
<1> QED
  BY <1>1, <1>2, <1>3, <1>4 DEF Calls

LEMMA TakenConnect ==
  ASSUME OwnInv, ChannelTaken, ConnectReaction
  PROVE  ChannelTaken'
<1>1. UNCHANGED <<rec, registry>>
  BY DEF ConnectReaction, Overtaken, Established, Failed, storeVars
<1>2. generation' = generation \/ generation' = generation + 1
  BY DEF ConnectReaction, Overtaken, Established, Failed, storeVars
<1>3. CASE generation' = generation
  BY <1>1, <1>3 DEF ChannelTaken, Taken
<1>4. CASE generation' = generation + 1
  <2>1. \A x \in Binding : rec[x].attempted \in Nat /\ rec[x].attempted <= generation
    BY DEF OwnInv, TypeInv, TypeOK, Records
  <2>2. \A x \in Binding : rec[x].attempted # generation'
    <3>1. generation \in Nat
      BY DEF OwnInv, TypeInv, TypeOK
    <3> QED
      BY <1>4, <2>1, <3>1
  <2> QED
    BY <1>1, <2>2 DEF ChannelTaken
<1> QED
  BY <1>2, <1>3, <1>4

LEMMA TakenJoin ==
  ASSUME OwnInv, ChannelTaken, JoinReaction
  PROVE  ChannelTaken'
<1>0. /\ TypeInv /\ rec \in [Binding -> Records] /\ jobs \in SUBSET Jobs
      /\ generation \in Nat
  BY DEF OwnInv, TypeInv, TypeOK
<1>1. PICK j \in jobs :
        LET b == j.binding
        IN  /\ j.kind = "join"
            /\ \/ UNCHANGED <<rec, registry>>
               \/ Unavailable(b)
               \/ Subscribes(b) /\ ~Abandoned(b)
  BY DEF JoinReaction
<1>2. generation' = generation
  BY DEF JoinReaction
<1>3. PICK b \in Binding : b = j.binding
  BY <1>0, <1>1, JobBinding
<1>4. CASE UNCHANGED <<rec, registry>>
  BY <1>2, <1>4 DEF ChannelTaken, Taken
<1>5. CASE Unavailable(b)
  <2>1. /\ rec' = [rec EXCEPT ![b].ready = Settle(@, "rejected")]
        /\ registry' = registry
    BY <1>5 DEF Unavailable
  <2>2. \A x \in Binding : /\ rec'[x].phase = rec[x].phase
                           /\ rec'[x].attempted = rec[x].attempted
                           /\ rec'[x].joined = rec[x].joined
    BY <1>0, <2>1, ReadyUpdate
  <2>3. \A c : Taken(c) => Taken(c)'
    BY <2>1 DEF Taken
  <2> QED
    BY <1>2, <2>2, <2>3, TakenKept
<1>6. CASE Subscribes(b) /\ ~Abandoned(b)
  <2> DEFINE left == registry \ Released(b)
  <2>1. /\ left \subseteq registry'
        /\ \E s \in registry' : ChannelOf[s.owner] = ChannelOf[b]
        /\ \/ rec' = [rec EXCEPT ![b].attempted = generation, ![b].release = 0,
                                 ![b].ready = Settle(@, "rejected")]
           \/ rec' = [rec EXCEPT ![b].attempted = generation, ![b].release = generation,
                                 ![b].joined = TRUE]
    <3>1. CASE \E s \in left : ChannelOf[s.owner] = ChannelOf[b]
      BY <1>6, <3>1 DEF Subscribes
    <3>2. CASE ~\E s \in left : ChannelOf[s.owner] = ChannelOf[b]
      <4>1. /\ registry' = Subscribe(b, generation, rec[b].joined, left)
            /\ rec' = [rec EXCEPT ![b].attempted = generation, ![b].release = generation,
                                  ![b].joined = TRUE]
        BY <1>6, <3>2 DEF Subscribes
      <4>2. PICK s : s = [owner |-> b, generation |-> generation,
                          rejoin |-> rec[b].joined, state |-> "subscribing"]
        OBVIOUS
      <4>3. s \in registry' /\ s.owner = b
        BY <4>1, <4>2 DEF Subscribe
      <4> QED
        BY <4>1, <4>3 DEF Subscribe
    <3> QED
      BY <3>1, <3>2
  <2>2. /\ \A x \in Binding : x # b => rec'[x] = rec[x]
        /\ rec'[b].phase = rec[b].phase /\ rec'[b].attempted = generation
    BY <1>0, <2>1, RefusedBinding, SubscribedBinding
  <2>3. ASSUME NEW x \in Binding, Taken(ChannelOf[x]) PROVE Taken(ChannelOf[x])'
    <3>1. CASE ChannelOf[x] = ChannelOf[b]
      BY <2>1, <3>1 DEF Taken
    <3>2. CASE ChannelOf[x] # ChannelOf[b]
      <4>1. \A s \in registry : ChannelOf[s.owner] = ChannelOf[x] => s \in left
        BY <3>2 DEF Released, Holders
      <4> QED
        BY <2>1, <2>3, <4>1 DEF Taken
    <3> QED
      BY <3>1, <3>2
  <2>4. ASSUME NEW x \in Binding
        PROVE  /\ rec'[x].phase = "unbound" => rec'[x].attempted = 0
               /\ /\ rec'[x].phase = "bound" /\ ~rec'[x].joined
                  /\ rec'[x].attempted = generation' /\ generation' # 0
                  => Taken(ChannelOf[x])'
    <3>1. CASE x = b
      <4>1. Taken(ChannelOf[x])'
        BY <2>1, <3>1 DEF Taken
      <4>2. rec[b].phase # "unbound"
        BY <1>1, <1>3 DEF OwnInv, AskedWereBound
      <4> QED
        BY <2>2, <3>1, <4>1, <4>2
    <3>2. CASE x # b
      BY <1>2, <2>2, <2>3, <3>2 DEF ChannelTaken
    <3> QED
      BY <3>1, <3>2
  <2> QED
    BY <2>4 DEF ChannelTaken
<1> QED
  BY <1>1, <1>3, <1>4, <1>5, <1>6

LEMMA TakenEvents ==
  ASSUME OwnInv, ChannelTaken,
         \/ ReadyReaction
         \/ ConnectOpens \/ ConnectFails \/ ConnectionDrops \/ ClientDrops
         \/ \E b \in Binding : SubscriptionOpens(b)
         \/ UNCHANGED vars
  PROVE  ChannelTaken'
<1>0. TypeInv /\ registry \in SUBSET Subscriptions
  BY DEF OwnInv, TypeInv, TypeOK, LinkTypeOK
<1>1. generation' = generation
  BY DEF ReadyReaction, ConnectOpens, ConnectFails, ConnectionDrops, ClientDrops,
         SubscriptionOpens, vars, storeVars
<1>2. \A x \in Binding : /\ rec'[x].phase = rec[x].phase
                         /\ rec'[x].attempted = rec[x].attempted
                         /\ rec'[x].joined = rec[x].joined
  <2>1. CASE ReadyReaction
    BY <1>0, <2>1, ReadyFields
  <2>2. CASE ~ReadyReaction
    <3>1. rec' = rec
      BY <2>2 DEF ConnectOpens, ConnectFails, ConnectionDrops, ClientDrops,
           SubscriptionOpens, vars, storeVars
    <3> QED
      BY <3>1
  <2> QED
    BY <2>1, <2>2
<1>3. \A c : Taken(c) => Taken(c)'
  <2>1. ASSUME NEW b \in Binding, SubscriptionOpens(b), NEW c, Taken(c)
        PROVE  Taken(c)'
    <3>1. PICK s \in registry :
            registry' = (registry \ {s}) \union {[s EXCEPT !.state = "subscribed"]}
      BY <2>1 DEF SubscriptionOpens, Authorizes
    <3>2. [s EXCEPT !.state = "subscribed"].owner = s.owner
      BY <1>0 DEF Subscriptions
    <3> QED
      BY <2>1, <3>1, <3>2 DEF Taken
  <2>2. ASSUME ~\E b \in Binding : SubscriptionOpens(b)
        PROVE  registry' = registry
    BY <2>2 DEF ReadyReaction, ConnectOpens, ConnectFails, ConnectionDrops, Drop,
         ClientDrops, DropEnds, vars, linkVars
  <2>3. CASE \E b \in Binding : SubscriptionOpens(b)
    BY <2>1, <2>3
  <2>4. CASE ~\E b \in Binding : SubscriptionOpens(b)
    BY <2>2, <2>4 DEF Taken
  <2> QED
    BY <2>3, <2>4
<1> QED
  BY <1>1, <1>2, <1>3, TakenKept

LEMMA TakenStep == OwnInv /\ ChannelTaken /\ [Next]_vars => ChannelTaken'
<1> SUFFICES ASSUME OwnInv, ChannelTaken, [Next]_vars
             PROVE  ChannelTaken'
  OBVIOUS
<1>1. ASSUME SubscriptionDrops \/ \E b \in Binding : SubscriptionFails(b)
      PROVE  ChannelTaken'
  BY <1>1, TakenReport DEF SubscriptionDrops, SubscriptionFails
<1> QED
  BY <1>1, TakenCalls, TakenConnect, TakenJoin, TakenEvents DEF Next, Reactions, Events

----
(* What a binding is told of its subscriptions.                            *)

\* The authorizations still to be told, and the subscriptions still to be
\* authorized; those that are a binding's first.
Granted(b) == {j \in jobs : j.kind = "ready" /\ j.ok /\ j.binding = b}
Asking(b) == {s \in registry : s.owner = b /\ s.state = "subscribing"}
First(S) == {x \in S : ~x.rejoin}

One(S) == IF S = {} THEN 0 ELSE 1

\* Each subscription is to be told of once: one that asks, one whose
\* authorization is queued and one that was told are three different ones.
ToldCounted ==
    \A b \in Binding :
      /\ heard[b].joins + heard[b].rejoins + One(Granted(b)) + One(Asking(b)) <= heard[b].opens
      /\ heard[b].joins + One(First(Granted(b))) + One(First(Asking(b))) <= 1

GrantedOnce ==
    \A j, k \in jobs : j.kind = "ready" /\ j.ok /\ k.kind = "ready" /\ k.ok => j = k

ToldInv == ToldCounted /\ GrantedOnce

LEMMA OneBounds ==
  ASSUME NEW S, NEW T
  PROVE  /\ One(S) \in {0, 1} /\ (S = {} <=> One(S) = 0)
         /\ S \subseteq T => One(S) <= One(T)
BY DEF One

LEMMA HeardTyped ==
  ASSUME TypeInv, NEW b \in Binding
  PROVE  heard[b].joins \in Nat /\ heard[b].rejoins \in Nat /\ heard[b].opens \in Nat
BY DEF TypeInv, TypeOK

\* The counts, when less is owed to a binding and it is told nothing.
LEMMA OwedLess ==
  ASSUME TypeInv, ToldCounted, NEW b \in Binding,
         SameHeard(b),
         Granted(b)' \subseteq Granted(b), Asking(b)' \subseteq Asking(b)
  PROVE  /\ heard'[b].joins + heard'[b].rejoins + One(Granted(b)') + One(Asking(b)')
              <= heard'[b].opens
         /\ heard'[b].joins + One(First(Granted(b)')) + One(First(Asking(b)')) <= 1
<1>1. /\ First(Granted(b)') \subseteq First(Granted(b))
      /\ First(Asking(b)') \subseteq First(Asking(b))
  BY DEF First
<1>2. /\ One(Granted(b)') <= One(Granted(b)) /\ One(Asking(b)') <= One(Asking(b))
      /\ One(First(Granted(b)')) <= One(First(Granted(b)))
      /\ One(First(Asking(b)')) <= One(First(Asking(b)))
  BY <1>1, OneBounds
<1>3. /\ One(Granted(b)) \in Nat /\ One(Asking(b)) \in Nat
      /\ One(Granted(b)') \in Nat /\ One(Asking(b)') \in Nat
      /\ One(First(Granted(b))) \in Nat /\ One(First(Asking(b))) \in Nat
      /\ One(First(Granted(b)')) \in Nat /\ One(First(Asking(b)')) \in Nat
  BY OneBounds
<1>4. /\ heard[b].joins + heard[b].rejoins + One(Granted(b)) + One(Asking(b)) <= heard[b].opens
      /\ heard[b].joins + One(First(Granted(b))) + One(First(Asking(b))) <= 1
  BY DEF ToldCounted
<1> QED
  BY <1>2, <1>3, <1>4, HeardTyped DEF SameHeard

\* A step that opens and authorizes nothing and tells nobody.
LEMMA ToldKept ==
  ASSUME TypeInv, ToldInv,
         \A b \in Binding : SameHeard(b),
         registry' \subseteq registry,
         \A j \in jobs' : j.kind = "ready" /\ j.ok => j \in jobs
  PROVE  ToldInv'
<1>1. ToldCounted /\ GrantedOnce
  BY DEF ToldInv
<1>2. \A b \in Binding : Granted(b)' \subseteq Granted(b) /\ Asking(b)' \subseteq Asking(b)
  BY DEF Granted, Asking
<1>3. ToldCounted'
  BY <1>1, <1>2, OwedLess DEF ToldCounted
<1>4. GrantedOnce'
  BY <1>1 DEF GrantedOnce
<1> QED
  BY <1>3, <1>4 DEF ToldInv

\* No wait, failed readiness or connection tells a binding it was authorized.
LEMMA NotGranted ==
  ASSUME NEW subs, NEW who, NEW ok, NEW e
  PROVE  /\ \A j \in Unready(subs) : j.kind = "ready" /\ ~j.ok
         /\ \A j \in Joins(who, ok) : j.kind = "join"
         /\ Connected(e, ok).kind = "connect"
BY DEF Unready, Ready, Joins, Connected

\* Driving bindings grants nothing.
LEMMA ToldDriven ==
  ASSUME TypeInv, ToldInv,
         NEW who \in SUBSET Binding, NEW conn, NEW gen, NEW st, NEW queued, NEW wait,
         \/ Drive(who, conn, gen, st, queued, wait)
         \/ EnsureConnected(who, conn, gen, st, queued, wait),
         \A j \in queued : j.kind = "ready" /\ j.ok => j \in jobs,
         \A b \in Binding : SameHeard(b),
         registry' \subseteq registry
  PROVE  ToldInv'
<1>1. epoch \in Nat
  BY DEF TypeInv, TypeOK
<1>2. \A j \in jobs' : j \in queued \/ j.kind = "join" \/ j.kind = "connect"
  BY <1>1, DriveFrame
<1> QED
  BY <1>2, ToldKept

LEMMA ToldReport ==
  ASSUME TypeInv, ToldInv, NEW s \in registry, OnBindingError(s)
  PROVE  ToldInv'
<1>1. PICK b \in Binding : b = s.owner
  BY DEF TypeInv, TypeOK, LinkTypeOK, Subscriptions
<1> DEFINE who == Peers(b) \union {b}
           queued == jobs \union Unready(Released(b))
<1>2. /\ Drive(who, connecting, generation, status, queued, waiting)
      /\ registry' = registry \ Released(b)
      /\ heard' = heard
  BY <1>1 DEF OnBindingError
<1>3. \A x \in Binding : SameHeard(x)
  BY <1>2 DEF SameHeard
<1>4. who \in SUBSET Binding /\ registry' \subseteq registry
  BY <1>2, PeersTyped DEF TypeInv
<1>5. \A j \in queued : j.kind = "ready" /\ j.ok => j \in jobs
  BY NotGranted
<1> HIDE DEF who, queued
<1> QED
  BY <1>2, <1>3, <1>4, <1>5, ToldDriven

LEMMA ToldCalls ==
  ASSUME TypeInv, ToldInv, Calls
  PROVE  ToldInv'
<1>1. ASSUME Open PROVE ToldInv'
  <2> DEFINE nobody == {}
  <2>1. /\ EnsureConnected(nobody, connecting, generation, status, jobs, waiting)
        /\ UNCHANGED <<heard, registry>>
    BY <1>1 DEF Open
  <2>2. nobody \in SUBSET Binding
    OBVIOUS
  <2> HIDE DEF nobody
  <2> QED
    BY <2>1, <2>2, ToldDriven DEF SameHeard
<1>2. ASSUME NEW b \in Binding, Bind(b) PROVE ToldInv'
  <2> DEFINE who == {b}
  <2>1. /\ Drive(who, connecting, generation, status, jobs, waiting)
        /\ who \in SUBSET Binding /\ UNCHANGED <<heard, registry>>
    BY <1>2 DEF Bind
  <2> HIDE DEF who
  <2> QED
    BY <2>1, ToldDriven DEF SameHeard
<1>3. ASSUME NEW b \in Binding, Cancel(b) PROVE ToldInv'
  <2> DEFINE who == Peers(b)
             queued == jobs \union Unready(Released(b))
  <2>1. /\ Drive(who, connecting, generation, status, queued, waiting)
        /\ registry' = registry \ Released(b) /\ UNCHANGED heard
    BY <1>3 DEF Cancel, history
  <2>2. who \in SUBSET Binding
    BY PeersTyped DEF TypeInv
  <2>3. \A j \in queued : j.kind = "ready" /\ j.ok => j \in jobs
    BY NotGranted
  <2> HIDE DEF who, queued
  <2> QED
    BY <2>1, <2>2, <2>3, ToldDriven DEF SameHeard
<1>4. ASSUME Close PROVE ToldInv'
  <2> DEFINE freed == UNION {Released(b) : b \in bindings}
  <2>1. /\ UNCHANGED heard /\ registry' \subseteq registry
        /\ jobs' = jobs \union Unready(freed)
                        \union {Connected(e, FALSE) : e \in pendingConnect}
    BY <1>4 DEF Close
  <2> HIDE DEF freed
  <2>2. \A j \in jobs' : j.kind = "ready" /\ j.ok => j \in jobs
    BY <2>1, NotGranted
  <2> QED
    BY <2>1, <2>2, ToldKept DEF SameHeard
<1> QED
  BY <1>1, <1>2, <1>3, <1>4 DEF Calls

LEMMA ToldConnect ==
  ASSUME TypeInv, ToldInv, ConnectReaction
  PROVE  ToldInv'
<1>1. PICK j \in jobs : Overtaken(j) \/ Established(j) \/ Failed(j)
  BY DEF ConnectReaction
<1>2. UNCHANGED <<heard, registry>>
  BY DEF ConnectReaction, history
<1>3. CASE Overtaken(j)
  <2>1. jobs' = jobs \ {j}
    BY <1>3 DEF Overtaken
  <2> QED
    BY <1>2, <2>1, ToldKept DEF SameHeard
<1>4. CASE Established(j)
  <2> DEFINE queued == (jobs \ {j}) \union Joins(waiting, TRUE)
             nobody == {}
  <2>1. /\ Drive(bindings, 0, generation + 1, "connected", queued, nobody)
        /\ bindings \in SUBSET Binding
    BY <1>4 DEF Established, TypeInv, TypeOK
  <2>2. \A k \in queued : k.kind = "ready" /\ k.ok => k \in jobs
    BY NotGranted
  <2> HIDE DEF queued, nobody
  <2> QED
    BY <1>2, <2>1, <2>2, ToldDriven DEF SameHeard
<1>5. CASE Failed(j)
  <2>1. jobs' = (jobs \ {j}) \union Joins(waiting, FALSE)
    BY <1>5 DEF Failed
  <2>2. \A k \in jobs' : k.kind = "ready" /\ k.ok => k \in jobs
    BY <2>1, NotGranted
  <2> QED
    BY <1>2, <2>2, ToldKept DEF SameHeard
<1> QED
  BY <1>1, <1>3, <1>4, <1>5

\* A join that opens a subscription: nothing of the binding's holds its channel,
\* and a first one has neither been told nor granted anything.
LEMMA ToldOpens ==
  ASSUME RecInv, ToldInv, NEW b \in Binding,
         ~\E s \in registry \ Released(b) : ChannelOf[s.owner] = ChannelOf[b],
         registry' = Subscribe(b, generation, rec[b].joined, registry \ Released(b)),
         heard' = [heard EXCEPT ![b].opens = @ + 1],
         \A j \in jobs' : j.kind = "ready" /\ j.ok => j \in jobs
  PROVE  ToldInv'
<1>0. /\ TypeInv /\ ToldCounted /\ GrantedOnce /\ heard \in [Binding -> Heards]
      /\ rec[b].joined \in BOOLEAN
  BY DEF RecInv, OwnInv, TypeInv, TypeOK, Heards, Records, ToldInv
<1> DEFINE rejoins == rec[b].joined
           left == registry \ Released(b)
<1>1. PICK n : n = [owner |-> b, generation |-> generation,
                    rejoin |-> rejoins, state |-> "subscribing"]
  OBVIOUS
<1>2. n.owner = b /\ n.rejoin = rejoins
  BY <1>1
<1>3. registry' = left \union {n}
  BY <1>1 DEF Subscribe
<1>4. \A x \in Binding : Granted(x)' \subseteq Granted(x)
  BY DEF Granted
<1>5. ASSUME NEW x \in Binding, x # b
      PROVE  SameHeard(x) /\ Asking(x)' \subseteq Asking(x)
  BY <1>0, <1>2, <1>3, <1>5 DEF SameHeard, Asking
<1>6. Asking(b)' \subseteq {n}
  BY <1>3 DEF Asking
<1>7. /\ heard'[b].joins = heard[b].joins /\ heard'[b].rejoins = heard[b].rejoins
      /\ heard'[b].opens = heard[b].opens + 1
  <2>1. PICK h \in Heards : h = heard[b]
    BY <1>0
  <2>2. PICK k : k = h.opens + 1
    OBVIOUS
  <2>3. heard'[b] = [h EXCEPT !.opens = k]
    BY <1>0, <2>1, <2>2
  <2>4. /\ [h EXCEPT !.opens = k].opens = k
        /\ [h EXCEPT !.opens = k].joins = h.joins
        /\ [h EXCEPT !.opens = k].rejoins = h.rejoins
    BY ONLY h \in Heards DEF Heards
  <2> QED
    BY <2>1, <2>2, <2>3, <2>4
<1>8. /\ One(Granted(b)) \in Nat /\ One(Asking(b)) \in Nat
      /\ One(Granted(b)') \in Nat /\ One(Asking(b)') \in {0, 1}
      /\ One(First(Granted(b))) \in Nat /\ One(First(Asking(b))) \in Nat
      /\ One(First(Granted(b)')) \in Nat /\ One(First(Asking(b)')) \in {0, 1}
      /\ One(Granted(b)') <= One(Granted(b))
      /\ One(First(Granted(b)')) <= One(First(Granted(b)))
  <2>1. First(Granted(b)') \subseteq First(Granted(b))
    BY <1>4 DEF First
  <2> QED
    BY <1>4, <2>1, OneBounds
<1>9. /\ heard[b].joins + heard[b].rejoins + One(Granted(b)) + One(Asking(b)) <= heard[b].opens
      /\ heard[b].joins + One(First(Granted(b))) + One(First(Asking(b))) <= 1
      /\ heard[b].joins \in Nat /\ heard[b].rejoins \in Nat /\ heard[b].opens \in Nat
  BY <1>0, HeardTyped DEF ToldCounted
<1>10. heard'[b].joins + heard'[b].rejoins + One(Granted(b)') + One(Asking(b)')
         <= heard'[b].opens
  BY <1>7, <1>8, <1>9
<1>11. heard'[b].joins + One(First(Granted(b)')) + One(First(Asking(b)')) <= 1
  <2>1. CASE rejoins
    <3>1. First(Asking(b)') = {}
      BY <1>2, <1>6, <2>1 DEF First
    <3>2. One(First(Asking(b)')) = 0
      BY <3>1 DEF One
    <3> QED
      BY <1>7, <1>8, <1>9, <3>2
  <2>2. CASE ~rejoins
    <3>1. heard[b].opens = 0
      BY <2>2 DEF RecInv, OpensCounted
    <3>2. heard[b].joins = 0 /\ One(Granted(b)) = 0
      <4>1. PICK j \in Nat, r \in Nat, g \in Nat, a \in Nat :
              /\ j = heard[b].joins /\ r = heard[b].rejoins
              /\ g = One(Granted(b)) /\ a = One(Asking(b))
        BY <1>8, <1>9
      <4>2. j + r + g + a <= 0
        BY <1>9, <3>1, <4>1
      <4>3. j = 0 /\ g = 0
        BY <4>2
      <4> QED
        BY <4>1, <4>3
    <3>3. Granted(b) = {}
      BY <3>2 DEF One
    <3>4. First(Granted(b)') = {}
      BY <1>4, <3>3 DEF First
    <3>5. One(First(Granted(b)')) = 0
      BY <3>4 DEF One
    <3> QED
      BY <1>7, <1>8, <3>2, <3>5
  <2> QED
    BY <1>0, <2>1, <2>2
<1>12. ToldCounted'
  <2> SUFFICES ASSUME NEW x \in Binding
               PROVE  /\ heard'[x].joins + heard'[x].rejoins + One(Granted(x)') + One(Asking(x)')
                           <= heard'[x].opens
                      /\ heard'[x].joins + One(First(Granted(x)')) + One(First(Asking(x)')) <= 1
    BY DEF ToldCounted
  <2>1. CASE x = b
    BY <1>10, <1>11, <2>1
  <2>2. CASE x # b
    BY <1>0, <1>4, <1>5, <2>2, OwedLess
  <2> QED
    BY <2>1, <2>2
<1>13. GrantedOnce'
  BY <1>0 DEF GrantedOnce
<1> QED
  BY <1>12, <1>13 DEF ToldInv

LEMMA ToldJoin ==
  ASSUME RecInv, ToldInv, JoinReaction
  PROVE  ToldInv'
<1>0. TypeInv /\ jobs \in SUBSET Jobs
  BY DEF RecInv, OwnInv, TypeInv, TypeOK
<1>1. PICK j \in jobs :
        LET b == j.binding
        IN  /\ j.kind = "join"
            /\ \/ /\ jobs' = jobs \ {j}
                  /\ UNCHANGED <<registry, heard>>
               \/ /\ Unavailable(b)
                  /\ jobs' = jobs \ {j}
               \/ /\ Subscribes(b)
                  /\ jobs' = (jobs \ {j}) \union Unready(Released(b))
  BY DEF JoinReaction
<1>2. PICK b \in Binding : b = j.binding
  BY <1>0, <1>1, JobBinding
<1>3. \A k \in jobs' : k.kind = "ready" /\ k.ok => k \in jobs
  BY <1>1, NotGranted
<1>4. CASE UNCHANGED <<registry, heard>>
  BY <1>0, <1>3, <1>4, ToldKept DEF SameHeard
<1>5. CASE Subscribes(b)
  <2>1. CASE registry' = registry \ Released(b) /\ UNCHANGED heard
    BY <1>0, <1>3, <2>1, ToldKept DEF SameHeard
  <2>2. CASE /\ ~\E s \in registry \ Released(b) : ChannelOf[s.owner] = ChannelOf[b]
             /\ registry' = Subscribe(b, generation, rec[b].joined, registry \ Released(b))
             /\ heard' = [heard EXCEPT ![b].opens = @ + 1]
    BY <1>3, <2>2, ToldOpens
  <2> QED
    BY <1>5, <2>1, <2>2 DEF Subscribes
<1> QED
  BY <1>1, <1>2, <1>4, <1>5 DEF Unavailable

\* A grant that is told: it was the binding's only one.
LEMMA ToldReady ==
  ASSUME TypeInv, ToldInv, ReadyReaction
  PROVE  ToldInv'
<1>0. /\ jobs \in SUBSET Jobs /\ heard \in [Binding -> Heards]
      /\ ToldCounted /\ GrantedOnce
  BY DEF TypeInv, TypeOK, Heards, ToldInv
<1>1. PICK j \in jobs :
        /\ j.kind = "ready" /\ jobs' = jobs \ {j}
        /\ \/ heard' = heard
           \/ j.ok /\ heard' = IF j.rejoin
                               THEN [heard EXCEPT ![j.binding].rejoins = @ + 1]
                               ELSE [heard EXCEPT ![j.binding].joins = @ + 1]
  BY DEF ReadyReaction
<1>2. registry' = registry
  BY DEF ReadyReaction, linkVars
<1>3. CASE heard' = heard
  BY <1>1, <1>2, <1>3, ToldKept DEF SameHeard
<1>4. CASE j.ok /\ heard' = IF j.rejoin
                           THEN [heard EXCEPT ![j.binding].rejoins = @ + 1]
                           ELSE [heard EXCEPT ![j.binding].joins = @ + 1]
  <2>1. PICK b \in Binding : b = j.binding
    <3>1. j \in [kind : {"ready"}, binding : Binding, generation : Nat \ {0},
                 rejoin : BOOLEAN, ok : BOOLEAN]
      BY <1>0, <1>1 DEF Jobs
    <3> QED
      BY <3>1
  <2>2. \A x \in Binding : Granted(x)' = {} /\ Asking(x)' = Asking(x)
    <3>1. \A k \in jobs' : ~(k.kind = "ready" /\ k.ok)
      BY <1>0, <1>1, <1>4 DEF GrantedOnce
    <3> QED
      BY <1>2, <3>1 DEF Granted, Asking
  <2>3. j \in Granted(b) /\ (~j.rejoin => j \in First(Granted(b)))
    BY <1>1, <1>4, <2>1 DEF Granted, First
  <2>4. One(Granted(b)) = 1 /\ (~j.rejoin => One(First(Granted(b))) = 1)
    BY <2>3 DEF One
  <2>5. /\ One({}) = 0 /\ First({}) = {}
    BY DEF One, First
  <2>6. ASSUME NEW x \in Binding, x # b
        PROVE  SameHeard(x) /\ Granted(x)' \subseteq Granted(x) /\ Asking(x)' \subseteq Asking(x)
    BY <1>0, <1>4, <2>1, <2>2, <2>6 DEF SameHeard
  <2>7. /\ heard'[b].opens = heard[b].opens
        /\ j.rejoin => /\ heard'[b].joins = heard[b].joins
                       /\ heard'[b].rejoins = heard[b].rejoins + 1
        /\ ~j.rejoin => /\ heard'[b].joins = heard[b].joins + 1
                        /\ heard'[b].rejoins = heard[b].rejoins
    <3>1. PICK h \in Heards : h = heard[b]
      BY <1>0
    <3>2. PICK k : k = h.rejoins + 1
      OBVIOUS
    <3>3. PICK m : m = h.joins + 1
      OBVIOUS
    <3>4. heard'[b] = IF j.rejoin THEN [h EXCEPT !.rejoins = k] ELSE [h EXCEPT !.joins = m]
      BY <1>0, <1>4, <2>1, <3>1, <3>2, <3>3
    <3>5. /\ [h EXCEPT !.rejoins = k].opens = h.opens
          /\ [h EXCEPT !.rejoins = k].joins = h.joins
          /\ [h EXCEPT !.rejoins = k].rejoins = k
          /\ [h EXCEPT !.joins = m].opens = h.opens
          /\ [h EXCEPT !.joins = m].joins = m
          /\ [h EXCEPT !.joins = m].rejoins = h.rejoins
      BY ONLY h \in Heards DEF Heards
    <3> QED
      BY <3>1, <3>2, <3>3, <3>4, <3>5
  <2>8. /\ heard[b].joins + heard[b].rejoins + One(Granted(b)) + One(Asking(b)) <= heard[b].opens
        /\ heard[b].joins + One(First(Granted(b))) + One(First(Asking(b))) <= 1
        /\ heard[b].joins \in Nat /\ heard[b].rejoins \in Nat /\ heard[b].opens \in Nat
        /\ One(Asking(b)) \in Nat /\ One(First(Asking(b))) \in Nat
        /\ One(First(Granted(b))) \in Nat
    BY <1>0, HeardTyped, OneBounds DEF ToldCounted
  <2>9. /\ heard'[b].joins + heard'[b].rejoins + 0 + One(Asking(b)) <= heard'[b].opens
        /\ heard'[b].joins + 0 + One(First(Asking(b))) <= 1
    BY <2>4, <2>7, <2>8
  <2>10. ToldCounted'
    <3> SUFFICES ASSUME NEW x \in Binding
                 PROVE  /\ heard'[x].joins + heard'[x].rejoins + One(Granted(x)') + One(Asking(x)')
                             <= heard'[x].opens
                        /\ heard'[x].joins + One(First(Granted(x)')) + One(First(Asking(x)')) <= 1
      BY DEF ToldCounted
    <3>1. CASE x = b
      <4>1. /\ One(Granted(b)') = 0 /\ One(First(Granted(b)')) = 0
            /\ Asking(b)' = Asking(b)
        BY <2>2, <2>5
      <4> QED
        BY <2>9, <3>1, <4>1
    <3>2. CASE x # b
      BY <1>0, <2>6, <3>2, OwedLess
    <3> QED
      BY <3>1, <3>2
  <2>11. GrantedOnce'
    BY <1>0, <1>1 DEF GrantedOnce
  <2> QED
    BY <2>10, <2>11 DEF ToldInv
<1> QED
  BY <1>1, <1>3, <1>4

\* A subscription that is authorized: it stops asking, and its grant is queued
\* when no other is.
LEMMA ToldGrants ==
  ASSUME OwnInv, ToldInv, NEW o \in Binding, SubscriptionOpens(o)
  PROVE  ToldInv'
<1>0. /\ TypeInv /\ ToldCounted /\ registry \in SUBSET Subscriptions /\ OnePerChannel
  BY DEF OwnInv, TypeInv, TypeOK, LinkTypeOK, ToldInv
<1>1. PICK s \in registry :
        /\ s.owner = o /\ Authorizes(s) /\ jobs' = {Ready(s, TRUE)}
        /\ jobs = {} /\ UNCHANGED heard
  BY DEF SubscriptionOpens, Idle, history
<1>2. PICK t : t = [s EXCEPT !.state = "subscribed"]
  OBVIOUS
<1>3. t.owner = s.owner /\ t.state = "subscribed" /\ s.state = "subscribing"
      /\ registry' = (registry \ {s}) \union {t}
  <2>1. /\ [s EXCEPT !.state = "subscribed"].owner = s.owner
        /\ [s EXCEPT !.state = "subscribed"].state = "subscribed"
    BY <1>0 DEF Subscriptions
  <2> QED
    BY <1>1, <1>2, <2>1 DEF Authorizes
<1>4. PICK g : g = Ready(s, TRUE)
  OBVIOUS
<1>5. g.kind = "ready" /\ g.binding = o /\ g.rejoin = s.rejoin /\ jobs' = {g}
  BY <1>1, <1>4 DEF Ready
<1>6. \A x \in Binding : /\ SameHeard(x) /\ Granted(x) = {}
                         /\ x # o => Granted(x)' = {}
                         /\ Asking(x)' \subseteq Asking(x)
  <2>1. \A x \in Binding : SameHeard(x) /\ Granted(x) = {}
    BY <1>1 DEF SameHeard, Granted
  <2>2. \A x \in Binding : x # o => Granted(x)' = {}
    BY <1>5 DEF Granted
  <2>3. \A x \in Binding : Asking(x)' \subseteq Asking(x)
    BY <1>3 DEF Asking
  <2> QED
    BY <2>1, <2>2, <2>3
<1>7. Asking(o)' = {} /\ s \in Asking(o)
  <2>1. \A u \in registry : u.owner = o => u = s
    BY <1>0, <1>1 DEF OnePerChannel
  <2> QED
    BY <1>1, <1>3, <2>1 DEF Asking
<1>8. Granted(o)' \subseteq {g} /\ (s.rejoin => First(Granted(o)') = {})
  BY <1>5 DEF Granted, First
<1>9. /\ One(Asking(o)) = 1 /\ One(Asking(o)') = 0 /\ One(First(Asking(o)')) = 0
      /\ One(Granted(o)) = 0 /\ One(First(Granted(o))) = 0
      /\ One(Granted(o)') \in {0, 1} /\ One(First(Granted(o)')) \in {0, 1}
      /\ One(First(Asking(o))) \in {0, 1}
      /\ s.rejoin => One(First(Granted(o)')) = 0
      /\ ~s.rejoin => One(First(Asking(o))) = 1
  <2>1. Asking(o) # {} /\ First(Asking(o)') = {} /\ First(Granted(o)) = {}
    BY <1>6, <1>7 DEF First
  <2>2. ~s.rejoin => First(Asking(o)) # {}
    BY <1>7 DEF First
  <2> QED
    BY <1>6, <1>7, <1>8, <2>1, <2>2 DEF One
<1>10. /\ heard[o].joins + heard[o].rejoins + One(Granted(o)) + One(Asking(o)) <= heard[o].opens
       /\ heard[o].joins + One(First(Granted(o))) + One(First(Asking(o))) <= 1
       /\ heard[o].joins \in Nat /\ heard[o].rejoins \in Nat /\ heard[o].opens \in Nat
  BY <1>0, HeardTyped DEF ToldCounted
<1>11. /\ heard[o].joins + heard[o].rejoins + One(Granted(o)') + One(Asking(o)') <= heard[o].opens
       /\ heard[o].joins + One(First(Granted(o)')) + One(First(Asking(o)')) <= 1
  BY <1>9, <1>10
<1>12. ToldCounted'
  <2> SUFFICES ASSUME NEW x \in Binding
               PROVE  /\ heard'[x].joins + heard'[x].rejoins + One(Granted(x)') + One(Asking(x)')
                           <= heard'[x].opens
                      /\ heard'[x].joins + One(First(Granted(x)')) + One(First(Asking(x)')) <= 1
    BY DEF ToldCounted
  <2>1. CASE x = o
    BY <1>6, <1>11, <2>1 DEF SameHeard
  <2>2. CASE x # o
    BY <1>0, <1>6, <2>2, OwedLess
  <2> QED
    BY <2>1, <2>2
<1>13. GrantedOnce'
  BY <1>5 DEF GrantedOnce
<1> QED
  BY <1>12, <1>13 DEF ToldInv

LEMMA ToldEvents ==
  ASSUME TypeInv, ToldInv,
         ConnectOpens \/ ConnectFails \/ ConnectionDrops \/ ClientDrops \/ UNCHANGED vars
  PROVE  ToldInv'
<1>1. registry' = registry
  BY DEF ConnectOpens, ConnectFails, ConnectionDrops, Drop, ClientDrops, DropEnds, vars, linkVars
<1>2. \A x \in Binding : SameHeard(x)
  BY DEF SameHeard, ConnectOpens, ConnectFails, ConnectionDrops, ClientDrops,
     vars, history
<1>3. \A j \in jobs' : j.kind = "ready" /\ j.ok => j \in jobs
  <2>1. \A j \in jobs' : j \in jobs \/ \E e \in pendingConnect, ok \in BOOLEAN : j = Connected(e, ok)
    BY DEF ConnectOpens, ConnectFails, ConnectionDrops, ClientDrops, vars
  <2> QED
    BY <2>1, NotGranted
<1> QED
  BY <1>1, <1>2, <1>3, ToldKept

LEMMA ToldStep == RecInv /\ ToldInv /\ [Next]_vars => ToldInv'
<1> SUFFICES ASSUME RecInv, ToldInv, [Next]_vars
             PROVE  ToldInv'
  OBVIOUS
<1>0. OwnInv /\ TypeInv
  BY DEF RecInv, OwnInv
<1>1. ASSUME SubscriptionDrops \/ \E b \in Binding : SubscriptionFails(b)
      PROVE  ToldInv'
  BY <1>0, <1>1, ToldReport DEF SubscriptionDrops, SubscriptionFails
<1>2. ASSUME NEW b \in Binding, SubscriptionOpens(b)
      PROVE  ToldInv'
  BY <1>0, <1>2, ToldGrants
<1> QED
  BY <1>0, <1>1, <1>2, ToldCalls, ToldConnect, ToldJoin, ToldReady, ToldEvents
     DEF Next, Reactions, Events

----
(* Bindings that are down know it.                                         *)

\* A join of b is still to run: it waits for the attempt, or its reaction is
\* queued.
Due(b) == b \in waiting \/ \E j \in jobs : j.kind = "join" /\ j.binding = b

\* A bound binding that holds nothing and was told nothing has a join to come,
\* which will not find its attempt already made.  DownIsTold is this at rest.
UpOrTold ==
    \A b \in bindings :
      \/ rec[b].release # 0
      \/ b \in told
      \/ Due(b) /\ (rec[b].attempted # generation \/ generation = 0)

\* A join that may subscribe runs on a connection the store counts.
JoinsCounted == \A j \in jobs : j.kind = "join" /\ j.ok => generation > 0

DownInv == UpOrTold /\ JoinsCounted

\* Driving bindings leaves each of them, and each that waits or is queued, with a
\* join to come.
LEMMA DriveDue ==
  ASSUME NEW who \in SUBSET Binding, NEW conn, NEW gen, NEW st, NEW queued, NEW wait,
         \/ Drive(who, conn, gen, st, queued, wait)
         \/ EnsureConnected(who, conn, gen, st, queued, wait)
  PROVE  /\ queued \subseteq jobs' /\ wait \subseteq waiting'
         /\ \A x \in who : Due(x)'
         /\ \A j \in jobs' : j \in queued \/ j.kind = "connect" \/ (j.kind = "join" /\ gen > 0)
<1>1. \A x \in who : \E j \in Joins(who, TRUE) : j.kind = "join" /\ j.binding = x
  <2> TAKE x \in who
  <2>1. PICK j : j = [kind |-> "join", binding |-> x, ok |-> TRUE]
    OBVIOUS
  <2>2. j \in Joins(who, TRUE) /\ j.kind = "join" /\ j.binding = x
    BY <2>1 DEF Joins
  <2> QED
    BY <2>2
<1>2. /\ \A j \in Joins(who, TRUE) : j.kind = "join"
      /\ \A e : Connected(e, TRUE).kind = "connect"
  BY DEF Joins, Connected
<1>3. \/ /\ jobs' = queued /\ (who = {} \/ waiting' = wait \union who)
         /\ wait \subseteq waiting'
      \/ jobs' = queued \union Joins(who, TRUE) /\ waiting' = wait /\ gen > 0
      \/ /\ jobs' = queued \union {Connected(epoch + 1, TRUE)}
         /\ waiting' = wait \union who
  BY DEF Drive, EnsureConnected
<1> QED
  BY <1>1, <1>2, <1>3 DEF Due

\* Driving bindings, when whoever holds nothing and was told nothing is driven or
\* had a join to come.
LEMMA DownDriven ==
  ASSUME TypeInv, DownInv,
         NEW who \in SUBSET Binding, NEW conn, NEW gen \in Nat, NEW st, NEW queued, NEW wait,
         \/ Drive(who, conn, gen, st, queued, wait)
         \/ EnsureConnected(who, conn, gen, st, queued, wait),
         generation' = gen, generation <= gen,
         \A j \in queued : j \in jobs \/ j.kind # "join" \/ gen > 0,
         \A b \in bindings' :
           \/ rec'[b].release # 0
           \/ b \in told'
           \/ /\ rec'[b].attempted # gen \/ gen = 0
              /\ \/ b \in who \/ b \in wait
                 \/ \E j \in queued : j.kind = "join" /\ j.binding = b
  PROVE  DownInv'
<1>1. /\ queued \subseteq jobs' /\ wait \subseteq waiting'
      /\ \A x \in who : Due(x)'
      /\ \A j \in jobs' : j \in queued \/ j.kind = "connect" \/ (j.kind = "join" /\ gen > 0)
  BY DriveDue
<1>2. UpOrTold'
  BY <1>1 DEF UpOrTold, Due
<1>3. generation \in Nat
  BY DEF TypeInv, TypeOK
<1>4. ASSUME NEW j \in jobs', j.kind = "join", j.ok
      PROVE  gen > 0
  <2>1. CASE j \in jobs
    <3>1. generation > 0
      BY <1>4, <2>1 DEF DownInv, JoinsCounted
    <3> QED
      BY <1>3, <3>1
  <2> QED
    BY <1>1, <1>4, <2>1
<1> QED
  BY <1>2, <1>4 DEF DownInv, JoinsCounted

LEMMA DownReport ==
  ASSUME OwnInv, DownInv, NEW s \in registry, OnBindingError(s)
  PROVE  DownInv'
<1>0. /\ TypeInv /\ bindings \in SUBSET Binding /\ generation \in Nat
      /\ rec \in [Binding -> Records]
  BY DEF OwnInv, TypeInv, TypeOK
<1>1. PICK b \in Binding : b = s.owner
  BY DEF OwnInv, TypeInv, TypeOK, LinkTypeOK, Subscriptions
<1> DEFINE who == Peers(b) \union {b}
           queued == jobs \union Unready(Released(b))
<1>2. /\ Drive(who, connecting, generation, status, queued, waiting)
      /\ UNCHANGED <<bindings, generation>> /\ told' = told \union {b}
  BY <1>1 DEF OnBindingError
<1>3. who \in SUBSET Binding /\ (\A x \in Peers(b) : x \in who) /\ jobs \subseteq queued
  BY <1>0, PeersTyped DEF TypeInv
<1>4. ASSUME NEW x \in bindings, x # b
      PROVE  /\ rec'[x].release = rec[x].release
             /\ rec'[x] = rec[x] \/ (x \in Peers(b) /\ rec'[x].attempted = 0)
  <2>1. x \in Binding /\ rec[x] \in Records
    BY <1>0
  <2>2. rec'[x] = IF x \in Peers(b) THEN Redriven(rec[x]) ELSE rec[x]
    BY <1>1, <1>4, <2>1 DEF OnBindingError
  <2> QED
    BY <2>1, <2>2, RedrivenRecord
<1>5. \A j \in queued : j \in jobs \/ j.kind # "join" \/ generation > 0
  BY NotGranted
<1>6. ASSUME NEW x \in bindings'
      PROVE  \/ rec'[x].release # 0
             \/ x \in told'
             \/ /\ rec'[x].attempted # generation \/ generation = 0
                /\ \/ x \in who \/ x \in waiting
                   \/ \E j \in queued : j.kind = "join" /\ j.binding = x
  BY <1>2, <1>3, <1>4 DEF DownInv, UpOrTold, Due
<1> HIDE DEF who, queued
<1> QED
  BY <1>0, <1>2, <1>3, <1>5, <1>6, DownDriven

LEMMA DownCalls ==
  ASSUME OwnInv, ChannelTaken, DownInv, Calls
  PROVE  DownInv'
<1>0. /\ TypeInv /\ bindings \in SUBSET Binding /\ generation \in Nat
      /\ rec \in [Binding -> Records]
  BY DEF OwnInv, TypeInv, TypeOK
<1>1. ASSUME Open PROVE DownInv'
  <2> DEFINE nobody == {}
  <2>1. /\ EnsureConnected(nobody, connecting, generation, status, jobs, waiting)
        /\ UNCHANGED <<bindings, rec, generation, told>>
    BY <1>1 DEF Open
  <2>2. nobody \in SUBSET Binding
    OBVIOUS
  <2> HIDE DEF nobody
  <2>3. \A x \in bindings' :
          \/ rec'[x].release # 0
          \/ x \in told'
          \/ /\ rec'[x].attempted # generation \/ generation = 0
             /\ \/ x \in nobody \/ x \in waiting
                \/ \E j \in jobs : j.kind = "join" /\ j.binding = x
    BY <2>1 DEF DownInv, UpOrTold, Due
  <2>4. /\ generation <= generation
        /\ \A j \in jobs : j \in jobs \/ j.kind # "join" \/ generation > 0
    BY <1>0
  <2>5. \/ Drive(nobody, connecting, generation, status, jobs, waiting)
        \/ EnsureConnected(nobody, connecting, generation, status, jobs, waiting)
    BY <2>1
  <2>6. generation' = generation
    BY <2>1
  <2> QED
    BY <1>0, <2>2, <2>3, <2>4, <2>5, <2>6, DownDriven
<1>2. ASSUME NEW b \in Binding, Bind(b) PROVE DownInv'
  <2> DEFINE who == {b}
  <2>1. /\ Drive(who, connecting, generation, status, jobs, waiting)
        /\ bindings' = bindings \union {b} /\ UNCHANGED <<generation, told>>
        /\ rec' = [rec EXCEPT ![b].phase = "bound"] /\ rec[b].phase = "unbound"
    BY <1>2 DEF Bind
  <2>2. \A x \in Binding : rec'[x].attempted = rec[x].attempted
                           /\ rec'[x].release = rec[x].release
    BY <1>0, <2>1, BoundRecord
  <2>3. rec[b].attempted = 0
    BY <2>1 DEF ChannelTaken
  <2>4. \A x \in bindings' :
          \/ rec'[x].release # 0
          \/ x \in told'
          \/ /\ rec'[x].attempted # generation \/ generation = 0
             /\ \/ x \in who \/ x \in waiting
                \/ \E j \in jobs : j.kind = "join" /\ j.binding = x
    BY <1>0, <2>1, <2>2, <2>3 DEF DownInv, UpOrTold, Due
  <2>5. who \in SUBSET Binding
    OBVIOUS
  <2> HIDE DEF who
  <2> QED
    BY <1>0, <2>1, <2>4, <2>5, DownDriven
<1>3. ASSUME NEW b \in Binding, Cancel(b) PROVE DownInv'
  <2> DEFINE who == Peers(b)
             queued == jobs \union Unready(Released(b))
  <2>1. /\ Drive(who, connecting, generation, status, queued, waiting)
        /\ bindings' = bindings \ {b} /\ UNCHANGED <<generation, told>>
    BY <1>3 DEF Cancel, history
  <2>2. who \in SUBSET Binding /\ jobs \subseteq queued
    BY <1>0, PeersTyped DEF TypeInv
  <2>3. ASSUME NEW x \in bindings, x # b
        PROVE  /\ rec'[x].release = rec[x].release
               /\ rec'[x] = rec[x] \/ (x \in who /\ rec'[x].attempted = 0)
    <3>1. x \in Binding /\ rec[x] \in Records
      BY <1>0
    <3>2. rec'[x] = IF x \in Peers(b) THEN Redriven(rec[x]) ELSE rec[x]
      BY <1>3, <2>3, <3>1 DEF Cancel
    <3> QED
      BY <3>1, <3>2, RedrivenRecord
  <2>4. \A j \in queued : j \in jobs \/ j.kind # "join" \/ generation > 0
    BY NotGranted
  <2> HIDE DEF who, queued
  <2>5. \A x \in bindings' :
          \/ rec'[x].release # 0
          \/ x \in told'
          \/ /\ rec'[x].attempted # generation \/ generation = 0
             /\ \/ x \in who \/ x \in waiting
                \/ \E j \in queued : j.kind = "join" /\ j.binding = x
    BY <2>1, <2>2, <2>3 DEF DownInv, UpOrTold, Due
  <2> QED
    BY <1>0, <2>1, <2>2, <2>4, <2>5, DownDriven
<1>4. ASSUME Close PROVE DownInv'
  <2> DEFINE freed == UNION {Released(b) : b \in bindings}
  <2>1. /\ bindings' = {} /\ UNCHANGED generation
        /\ jobs' = jobs \union Unready(freed)
                        \union {Connected(e, FALSE) : e \in pendingConnect}
    BY <1>4 DEF Close
  <2> HIDE DEF freed
  <2>2. \A j \in jobs' : j \in jobs \/ j.kind # "join"
    BY <2>1, NotGranted
  <2> QED
    BY <2>1, <2>2 DEF DownInv, UpOrTold, JoinsCounted
<1> QED
  BY <1>1, <1>2, <1>3, <1>4 DEF Calls

LEMMA DownConnect ==
  ASSUME OwnInv, DownInv, ConnectReaction
  PROVE  DownInv'
<1>0. /\ TypeInv /\ bindings \in SUBSET Binding /\ generation \in Nat
      /\ \A x \in bindings : rec[x].attempted \in Nat /\ rec[x].attempted <= generation
  BY DEF OwnInv, TypeInv, TypeOK, Records
<1>1. PICK j \in jobs : /\ j.kind = "connect"
                        /\ Overtaken(j) \/ Established(j) \/ Failed(j)
  BY DEF ConnectReaction
<1>2. told' = told
  BY DEF ConnectReaction, history
<1>3. CASE Overtaken(j)
  <2>1. jobs' = jobs \ {j} /\ UNCHANGED <<generation, bindings, rec, waiting>>
    BY <1>3 DEF Overtaken, storeVars
  <2>2. \A b \in bindings : Due(b) => Due(b)'
    BY <1>1, <2>1 DEF Due
  <2> QED
    BY <1>2, <2>1, <2>2 DEF DownInv, UpOrTold, JoinsCounted
<1>4. CASE Established(j)
  <2> DEFINE queued == (jobs \ {j}) \union Joins(waiting, TRUE)
             nobody == {}
             gen == generation + 1
  <2>1. /\ Drive(bindings, 0, gen, "connected", queued, nobody)
        /\ generation' = gen /\ UNCHANGED <<bindings, rec>>
    BY <1>4 DEF Established
  <2>2. /\ gen \in Nat /\ generation <= gen /\ gen > 0
        /\ \A x \in bindings : rec[x].attempted # gen
    BY <1>0
  <2> HIDE DEF queued, nobody, gen
  <2>3. \A x \in bindings' :
          \/ rec'[x].release # 0
          \/ x \in told'
          \/ /\ rec'[x].attempted # gen \/ gen = 0
             /\ \/ x \in bindings \/ x \in nobody
                \/ \E k \in queued : k.kind = "join" /\ k.binding = x
    BY <2>1, <2>2
  <2> QED
    BY <1>0, <2>1, <2>2, <2>3, DownDriven
<1>5. CASE Failed(j)
  <2>1. /\ jobs' = (jobs \ {j}) \union Joins(waiting, FALSE)
        /\ UNCHANGED <<generation, bindings, rec>>
    BY <1>5 DEF Failed
  <2>2. ASSUME NEW b \in bindings, Due(b) PROVE Due(b)'
    <3>1. CASE b \in waiting
      <4>1. PICK k : k = [kind |-> "join", binding |-> b, ok |-> FALSE]
        OBVIOUS
      <4>2. k \in jobs' /\ k.kind = "join" /\ k.binding = b
        BY <2>1, <3>1, <4>1 DEF Joins
      <4> QED
        BY <4>2 DEF Due
    <3>2. CASE b \notin waiting
      BY <1>1, <2>1, <2>2, <3>2 DEF Due
    <3> QED
      BY <3>1, <3>2
  <2>3. \A k \in jobs' : k \in jobs \/ ~k.ok
    BY <2>1 DEF Joins
  <2> QED
    BY <1>2, <2>1, <2>2, <2>3 DEF DownInv, UpOrTold, JoinsCounted
<1> QED
  BY <1>1, <1>3, <1>4, <1>5

LEMMA DownJoin ==
  ASSUME OwnInv, DownInv, JoinReaction
  PROVE  DownInv'
<1>0. /\ rec \in [Binding -> Records] /\ jobs \in SUBSET Jobs /\ generation \in Nat
      /\ bindings \in SUBSET Binding
      /\ \A b \in bindings : rec[b].phase = "bound"
  BY DEF OwnInv, TypeInv, TypeOK, BoundAreBindings
<1>1. PICK j \in jobs :
        LET b == j.binding
        IN  /\ j.kind = "join"
            /\ \/ /\ IF j.ok THEN Abandoned(b) ELSE rec[b].phase = "cancelled"
                  /\ jobs' = jobs \ {j}
                  /\ UNCHANGED <<rec, registry, heard, told>>
               \/ /\ ~j.ok /\ rec[b].phase # "cancelled"
                  /\ Unavailable(b)
                  /\ jobs' = jobs \ {j}
               \/ /\ j.ok /\ ~Abandoned(b)
                  /\ Subscribes(b)
                  /\ jobs' = (jobs \ {j}) \union Unready(Released(b))
  BY DEF JoinReaction
<1>2. UNCHANGED <<generation, bindings, waiting>>
  BY DEF JoinReaction
<1>3. PICK b \in Binding : b = j.binding
  BY <1>0, <1>1, JobBinding
<1>4. jobs \ {j} \subseteq jobs' /\ \A k \in jobs' : k \in jobs \/ k.kind = "ready"
  BY <1>1, NotGranted
<1>5. ASSUME NEW x \in bindings, x # b
      PROVE  /\ rec'[x] = rec[x] /\ (x \in told => x \in told')
             /\ Due(x) => Due(x)'
  <2>1. rec'[x] = rec[x] /\ (x \in told => x \in told')
    BY <1>0, <1>1, <1>3, <1>5 DEF Unavailable, Subscribes
  <2>2. Due(x) => Due(x)'
    BY <1>2, <1>3, <1>4, <1>5 DEF Due
  <2> QED
    BY <2>1, <2>2
<1>6. ASSUME b \in bindings
      PROVE  \/ rec'[b].release # 0
             \/ b \in told'
             \/ Due(b)' /\ (rec'[b].attempted # generation \/ generation = 0)
  <2>1. CASE j.ok /\ Abandoned(b) /\ rec' = rec /\ told' = told
    <3>1. rec[b].attempted = generation /\ generation > 0
      BY <1>0, <1>1, <1>6, <2>1 DEF Abandoned, DownInv, JoinsCounted
    <3> QED
      BY <1>0, <1>6, <2>1, <3>1 DEF DownInv, UpOrTold
  <2>2. CASE Unavailable(b)
    BY <2>2 DEF Unavailable
  <2>3. CASE j.ok /\ Subscribes(b)
    <3>1. CASE told' = told \union {b}
      BY <3>1
    <3>2. CASE rec' = [rec EXCEPT ![b].attempted = generation, ![b].release = generation,
                                  ![b].joined = TRUE]
      <4>1. generation > 0
        BY <1>1, <2>3 DEF DownInv, JoinsCounted
      <4>2. rec'[b].release = generation
        BY <1>0, <3>2, SubscribedBinding
      <4> QED
        BY <1>0, <4>1, <4>2
    <3> QED
      BY <2>3, <3>1, <3>2 DEF Subscribes
  <2> QED
    BY <1>0, <1>1, <1>3, <1>6, <2>1, <2>2, <2>3
<1>7. UpOrTold'
  BY <1>2, <1>5, <1>6 DEF DownInv, UpOrTold
<1> QED
  BY <1>2, <1>4, <1>7 DEF DownInv, JoinsCounted

LEMMA DownEvents ==
  ASSUME OwnInv, DownInv,
         \/ ReadyReaction
         \/ ConnectOpens \/ ConnectFails \/ ConnectionDrops \/ ClientDrops
         \/ \E b \in Binding : SubscriptionOpens(b)
         \/ UNCHANGED vars
  PROVE  DownInv'
<1>0. TypeInv /\ bindings \in SUBSET Binding
  BY DEF OwnInv, TypeInv, TypeOK
<1>1. UNCHANGED <<generation, bindings, waiting, told>>
  BY DEF ReadyReaction, ConnectOpens, ConnectFails, ConnectionDrops, ClientDrops,
         SubscriptionOpens, vars, storeVars, history
<1>2. CASE ReadyReaction
  <2>1. \A x \in bindings : /\ rec'[x].attempted = rec[x].attempted
                            /\ rec'[x].release = rec[x].release
    BY <1>0, <1>2, ReadyFields
  <2>2. (\A j \in jobs : j.kind # "ready" => j \in jobs') /\ jobs' \subseteq jobs
    BY <1>2 DEF ReadyReaction
  <2>3. \A x \in bindings : Due(x) => Due(x)'
    BY <1>1, <2>2 DEF Due
  <2> QED
    BY <1>1, <2>1, <2>2, <2>3 DEF DownInv, UpOrTold, JoinsCounted
<1>3. CASE ~ReadyReaction
  <2>1. UNCHANGED rec /\ (jobs \subseteq jobs')
    BY <1>3 DEF ConnectOpens, ConnectFails, ConnectionDrops, ClientDrops,
         SubscriptionOpens, Idle, vars, storeVars
  <2>2. \A x \in bindings : Due(x) => Due(x)'
    BY <1>1, <2>1 DEF Due
  <2>3. \A j \in jobs' : j \in jobs \/ j.kind # "join"
    BY <1>3 DEF ConnectOpens, ConnectFails, ConnectionDrops, ClientDrops,
         SubscriptionOpens, vars, storeVars, Connected, Ready
  <2> QED
    BY <1>1, <2>1, <2>2, <2>3 DEF DownInv, UpOrTold, JoinsCounted
<1> QED
  BY <1>2, <1>3

LEMMA DownStep == OwnInv /\ ChannelTaken /\ DownInv /\ [Next]_vars => DownInv'
<1> SUFFICES ASSUME OwnInv, ChannelTaken, DownInv, [Next]_vars
             PROVE  DownInv'
  OBVIOUS
<1>1. ASSUME SubscriptionDrops \/ \E b \in Binding : SubscriptionFails(b)
      PROVE  DownInv'
  BY <1>1, DownReport DEF SubscriptionDrops, SubscriptionFails
<1> QED
  BY <1>1, DownCalls, DownConnect, DownJoin, DownEvents DEF Next, Reactions, Events

----
(* Joins, rejoins and losses pair up.                                      *)

\* The subscription of b that is authorized.
Up(b) == {s \in registry : s.owner = b /\ s.state = "subscribed"}

Grant(j) == j.kind = "ready" /\ j.ok
Fresh(j) == j.kind = "connect" /\ j.ok

\* What b was told, and is about to be told, of authorizations is what it was
\* told of losses, and the subscription that is up.
Paired ==
    \A b \in Binding : rec[b].phase # "cancelled" =>
      heard[b].joins + heard[b].rejoins + One(Granted(b)) = lost[b] + One(Up(b))

\* A subscription that is up has its connection, or is about to be told that it
\* is gone, and no join is to come that would replace it untold.
UpOnLink ==
    \A s \in registry : s.state = "subscribed" =>
      /\ transport = "connected" \/ dropping # "no"
      /\ ~Due(s.owner)

\* An authorization that is still to be told is told: its binding listens to it
\* and nothing is to come that would change that.
GrantsCurrent ==
    \A j \in jobs : Grant(j) =>
      /\ rec[j.binding].attempted = j.generation /\ rec[j.binding].joined
      /\ ~Due(j.binding)
      /\ dropping = "no"

\* A connection still to be counted has authorized nothing yet.
FreshConnection ==
    (\E j \in jobs : Fresh(j)) =>
      /\ \A s \in registry : s.state # "subscribed"
      /\ \A j \in jobs : ~Grant(j)

PlainInv == UpOnLink /\ GrantsCurrent /\ FreshConnection

LEMMA GrantTyped ==
  ASSUME TypeOK, NEW j \in jobs, Grant(j)
  PROVE  j.binding \in Binding /\ j.generation \in Nat \ {0}
<1>1. j \in [kind : {"ready"}, binding : Binding, generation : Nat \ {0},
             rejoin : BOOLEAN, ok : BOOLEAN]
  BY DEF TypeOK, Jobs, Grant
<1> QED
  BY <1>1

\* What driving bindings may add: joins of those driven, and a connection that
\* is there already only before the first one is counted.
LEMMA DriveAdds ==
  ASSUME NEW who \in SUBSET Binding, NEW conn, NEW gen, NEW st, NEW queued, NEW wait,
         \/ Drive(who, conn, gen, st, queued, wait)
         \/ EnsureConnected(who, conn, gen, st, queued, wait)
  PROVE  /\ \A j \in jobs' : \/ j \in queued
                             \/ j.kind = "join" /\ j.binding \in who
                             \/ j.kind = "connect" /\ ~(gen > 0)
         /\ \A x \in waiting' : x \in wait \/ x \in who
         /\ transport = "connected" => transport' = "connected"
<1>1. /\ \A j \in Joins(who, TRUE) : j.kind = "join" /\ j.binding \in who
      /\ \A e : Connected(e, TRUE).kind = "connect"
  BY DEF Joins, Connected
<1>2. CASE /\ jobs' = queued \/ (jobs' = queued \union Joins(who, TRUE))
           /\ waiting' = wait \/ waiting' = wait \union who
           /\ UNCHANGED connectVars
  BY <1>1, <1>2 DEF connectVars
<1>3. CASE /\ ~(LinkState = "connected" /\ gen > 0) /\ waiting' = wait \union who
           /\ ResolvesAtOnce
           /\ jobs' = queued \union {Connected(epoch + 1, TRUE)}
           /\ UNCHANGED connectVars
  <2>1. LinkState = "connected"
    BY <1>3 DEF ResolvesAtOnce, LinkState
  <2> QED
    BY <1>1, <1>3, <2>1 DEF connectVars
<1>4. CASE /\ waiting' = wait \union who /\ jobs' = queued /\ Connect(epoch + 1)
  BY <1>4 DEF Connect
<1> QED
  BY <1>2, <1>3, <1>4 DEF Drive, EnsureConnected

\* Driving bindings that hold nothing and are owed nothing.
LEMMA PlainDriven ==
  ASSUME TypeInv, TypeInv', OpenIsHeard', PlainInv,
         NEW who \in SUBSET Binding, NEW conn, NEW gen \in Nat, NEW st,
         NEW queued, NEW wait,
         \/ Drive(who, conn, gen, st, queued, wait)
         \/ EnsureConnected(who, conn, gen, st, queued, wait),
         generation' = gen, dropping' = dropping, registry' \subseteq registry,
         wait \subseteq waiting,
         \A j \in queued : /\ Grant(j) \/ Fresh(j) => j \in jobs
                           /\ j.kind = "join" => Due(j.binding),
         \A s \in registry' : s.state = "subscribed" => s.owner \notin who,
         \A j \in queued : Grant(j) =>
           /\ j.binding \notin who
           /\ rec'[j.binding].attempted = rec[j.binding].attempted
           /\ rec'[j.binding].joined = rec[j.binding].joined
  PROVE  PlainInv'
<1>1. /\ \A j \in jobs' : \/ j \in queued
                          \/ j.kind = "join" /\ j.binding \in who
                          \/ j.kind = "connect" /\ ~(gen > 0)
      /\ \A x \in waiting' : x \in wait \/ x \in who
      /\ transport = "connected" => transport' = "connected"
  BY DriveAdds
<1>2. \A x : Due(x)' => Due(x) \/ x \in who
  BY <1>1 DEF Due
<1>3. UpOnLink'
  BY <1>1, <1>2 DEF PlainInv, UpOnLink
<1>4. \A j \in jobs' : Grant(j) => j \in queued /\ j \in jobs
  BY <1>1 DEF Grant
<1>5. GrantsCurrent'
  BY <1>2, <1>4 DEF PlainInv, GrantsCurrent
<1>6. FreshConnection'
  <2> SUFFICES ASSUME NEW k \in jobs', Fresh(k)
               PROVE  /\ \A s \in registry' : s.state # "subscribed"
                      /\ \A j \in jobs' : ~Grant(j)
    BY DEF FreshConnection
  <2>1. CASE k \in queued
    BY <1>4, <2>1 DEF PlainInv, FreshConnection
  <2>2. CASE k \notin queued
    <3>1. generation' = 0
      BY <1>1, <2>2 DEF Fresh
    <3>2. \A b \in Binding : rec'[b].attempted = 0
      <4> TAKE b \in Binding
      <4>1. rec'[b].attempted \in Nat /\ rec'[b].attempted <= generation'
        BY DEF TypeInv, TypeOK, Records
      <4> QED
        BY <3>1, <4>1
    <3>3. ASSUME NEW s \in registry' PROVE FALSE
      <4>1. s.owner \in Binding /\ s.generation # 0
        BY DEF TypeInv, TypeOK, LinkTypeOK, Subscriptions
      <4> QED
        BY <3>2, <4>1 DEF OpenIsHeard
    <3>4. ASSUME NEW j \in jobs', Grant(j) PROVE FALSE
      <4>1. j \in jobs /\ j.binding \in Binding /\ j.generation # 0
        BY <1>4, <3>4, GrantTyped DEF TypeInv
      <4>2. rec'[j.binding].attempted = j.generation
        BY <3>4, <1>5 DEF GrantsCurrent
      <4> QED
        BY <3>2, <4>1, <4>2
    <3> QED
      BY <3>3, <3>4
  <2> QED
    BY <2>1, <2>2
<1> QED
  BY <1>3, <1>5, <1>6 DEF PlainInv

\* A queue that was extended by failed readiness only.
LEMMA QueuedPlain ==
  ASSUME NEW subs, NEW queued, queued = jobs \union Unready(subs)
  PROVE  /\ \A j \in queued : /\ Grant(j) \/ Fresh(j) => j \in jobs
                              /\ j.kind = "join" => Due(j.binding)
BY NotGranted DEF Grant, Fresh, Due

\* Whoever holds a subscription, or is owed a grant, is not one of the peers.
LEMMA PeersHoldNothing ==
  ASSUME OwnInv, NEW b \in Binding
  PROVE  \A s \in registry : s.owner \in Binding /\ s.owner \notin Peers(b)
<1> TAKE s \in registry
<1>1. s.owner \in Binding /\ s.generation # 0
  BY DEF OwnInv, TypeInv, TypeOK, LinkTypeOK, Subscriptions
<1>2. rec[s.owner].joined
  BY <1>1 DEF OwnInv, OpenIsHeard, HoldersJoined
<1> QED
  BY <1>1, <1>2 DEF Peers, Losers

LEMMA PlainReport ==
  ASSUME OwnInv, OwnInv', PlainInv, NEW s \in registry, OnBindingError(s),
         jobs = {} \/ dropping # "no", dropping' = dropping
  PROVE  PlainInv'
<1>0. /\ TypeInv /\ TypeInv' /\ OpenIsHeard' /\ Owners /\ generation \in Nat
      /\ rec \in [Binding -> Records]
  BY DEF OwnInv, TypeInv, TypeOK, Owners
<1>1. PICK b \in Binding : b = s.owner
  BY DEF OwnInv, TypeInv, TypeOK, LinkTypeOK, Subscriptions
<1> DEFINE who == Peers(b) \union {b}
           queued == jobs \union Unready(Released(b))
<1>2. /\ Drive(who, connecting, generation, status, queued, waiting)
      /\ registry' = registry \ Released(b)
      /\ generation' = generation
  BY <1>1 DEF OnBindingError
<1>3. who \in SUBSET Binding
  BY <1>0, PeersTyped DEF TypeInv
<1>4. \A u \in registry' : u.owner \notin who
  BY <1>0, <1>2, WhatIsLeft, PeersHoldNothing
<1>5. /\ \A j \in queued : /\ Grant(j) \/ Fresh(j) => j \in jobs
                           /\ j.kind = "join" => Due(j.binding)
  BY QueuedPlain
<1>6. \A j \in queued : ~Grant(j)
  BY <1>5 DEF PlainInv, GrantsCurrent
<1> HIDE DEF who, queued
<1> QED
  BY <1>0, <1>2, <1>3, <1>4, <1>5, <1>6, PlainDriven

LEMMA PlainCalls ==
  ASSUME OwnInv, OwnInv', ChannelTaken, PlainInv, Calls
  PROVE  PlainInv'
<1>0. /\ TypeInv /\ TypeInv' /\ OpenIsHeard' /\ Owners /\ generation \in Nat
      /\ bindings \in SUBSET Binding /\ rec \in [Binding -> Records]
  BY DEF OwnInv, TypeInv, TypeOK, Owners
<1>1. ASSUME Open PROVE PlainInv'
  <2> DEFINE nobody == {}
  <2>1. /\ EnsureConnected(nobody, connecting, generation, status, jobs, waiting)
        /\ UNCHANGED <<registry, dropping, rec, generation>>
    BY <1>1 DEF Open
  <2>2. nobody \in SUBSET Binding /\ \A x : x \notin nobody
    OBVIOUS
  <2>3. /\ \A j \in jobs : /\ Grant(j) \/ Fresh(j) => j \in jobs
                           /\ j.kind = "join" => Due(j.binding)
        /\ waiting \subseteq waiting /\ registry' \subseteq registry
    BY <2>1 DEF Due
  <2> HIDE DEF nobody
  <2>4. /\ \A s \in registry' : s.state = "subscribed" => s.owner \notin nobody
        /\ \A j \in jobs : Grant(j) =>
             /\ j.binding \notin nobody
             /\ rec'[j.binding].attempted = rec[j.binding].attempted
             /\ rec'[j.binding].joined = rec[j.binding].joined
    BY <2>1, <2>2
  <2>5. \/ Drive(nobody, connecting, generation, status, jobs, waiting)
        \/ EnsureConnected(nobody, connecting, generation, status, jobs, waiting)
    BY <2>1
  <2>6. generation' = generation /\ dropping' = dropping
    BY <2>1
  <2> QED
    BY <1>0, <2>2, <2>3, <2>4, <2>5, <2>6, PlainDriven
<1>2. ASSUME NEW b \in Binding, Bind(b) PROVE PlainInv'
  <2> DEFINE who == {b}
  <2>1. /\ Drive(who, connecting, generation, status, jobs, waiting)
        /\ generation' = generation /\ dropping' = dropping /\ registry' = registry
        /\ rec' = [rec EXCEPT ![b].phase = "bound"] /\ rec[b].phase = "unbound"
    BY <1>2 DEF Bind
  <2>2. \A x \in Binding : /\ rec'[x].attempted = rec[x].attempted
                           /\ rec'[x].joined = rec[x].joined
    BY <1>0, <2>1, BoundRecord
  <2>3. rec[b].attempted = 0
    BY <2>1 DEF ChannelTaken
  <2>4. ASSUME NEW s \in registry PROVE s.owner # b
    BY <2>3 DEF OwnInv, TypeInv, TypeOK, LinkTypeOK, Subscriptions, OpenIsHeard
  <2>5. ASSUME NEW j \in jobs, Grant(j)
        PROVE  j.binding \in Binding /\ j.binding # b
    <3>1. j.binding \in Binding /\ j.generation # 0
      BY <1>0, <2>5, GrantTyped DEF TypeInv
    <3>2. rec[j.binding].attempted = j.generation
      BY <2>5 DEF PlainInv, GrantsCurrent
    <3> QED
      BY <2>3, <3>1, <3>2
  <2>6. /\ \A j \in jobs : /\ Grant(j) \/ Fresh(j) => j \in jobs
                           /\ j.kind = "join" => Due(j.binding)
        /\ waiting \subseteq waiting /\ registry' \subseteq registry
    BY <2>1 DEF Due
  <2>7. /\ \A s \in registry' : s.state = "subscribed" => s.owner \notin who
        /\ \A j \in jobs : Grant(j) =>
             /\ j.binding \notin who
             /\ rec'[j.binding].attempted = rec[j.binding].attempted
             /\ rec'[j.binding].joined = rec[j.binding].joined
    BY <2>1, <2>2, <2>4, <2>5
  <2>8. who \in SUBSET Binding
    OBVIOUS
  <2> HIDE DEF who
  <2> QED
    BY <1>0, <2>1, <2>6, <2>7, <2>8, PlainDriven
<1>3. ASSUME NEW b \in Binding, Cancel(b) PROVE PlainInv'
  <2> DEFINE who == Peers(b)
             queued == jobs \union Unready(Released(b))
  <2>1. /\ Drive(who, connecting, generation, status, queued, waiting)
        /\ generation' = generation /\ dropping' = dropping
        /\ registry' = registry \ Released(b)
    BY <1>3 DEF Cancel
  <2>2. who \in SUBSET Binding
    BY <1>0, PeersTyped DEF TypeInv
  <2>3. /\ \A j \in queued : /\ Grant(j) \/ Fresh(j) => j \in jobs
                             /\ j.kind = "join" => Due(j.binding)
        /\ waiting \subseteq waiting /\ registry' \subseteq registry
    BY <2>1, QueuedPlain
  <2>4. \A s \in registry' : s.state = "subscribed" => s.owner \notin who
    BY <2>1, PeersHoldNothing
  <2>5. ASSUME NEW j \in queued, Grant(j)
        PROVE  /\ j.binding \notin who
               /\ rec'[j.binding].attempted = rec[j.binding].attempted
               /\ rec'[j.binding].joined = rec[j.binding].joined
    <3>1. j \in jobs
      BY <2>3, <2>5
    <3>2. j.binding \in Binding /\ rec[j.binding].joined
      BY <1>0, <2>5, <3>1, GrantTyped DEF TypeInv, PlainInv, GrantsCurrent
    <3>3. j.binding \notin who
      BY <3>2 DEF Peers, Losers
    <3>4. /\ rec'[j.binding].attempted = rec[j.binding].attempted
          /\ rec'[j.binding].joined = rec[j.binding].joined
      BY <1>0, <1>3, <3>2, CancelFields
    <3> QED
      BY <3>3, <3>4
  <2> HIDE DEF who, queued
  <2> QED
    BY <1>0, <2>1, <2>2, <2>3, <2>4, <2>5, PlainDriven
<1>4. ASSUME Close PROVE PlainInv'
  <2> DEFINE freed == UNION {Released(b) : b \in bindings}
  <2>1. /\ jobs' = jobs \union Unready(freed)
                        \union {Connected(e, FALSE) : e \in pendingConnect}
        /\ waiting' = {} /\ dropping = "no" /\ dropping' = "no"
    BY <1>4 DEF Close
  <2>2. registry' = {}
    BY <1>4, OwnClose
  <2> HIDE DEF freed
  <2>3. \A j \in jobs' : /\ Grant(j) \/ Fresh(j) => j \in jobs
                         /\ j.kind = "join" => j \in jobs
    BY <2>1, NotGranted DEF Grant, Fresh, Connected
  <2>4. \A x : Due(x)' => Due(x)
    BY <2>1, <2>3 DEF Due
  <2>5. \A x \in Binding : rec'[x].attempted = rec[x].attempted
                           /\ rec'[x].joined = rec[x].joined
    BY <1>0, <1>4, CloseFields
  <2>6. GrantsCurrent'
    <3> SUFFICES ASSUME NEW j \in jobs', Grant(j)
                 PROVE  /\ rec'[j.binding].attempted = j.generation /\ rec'[j.binding].joined
                        /\ ~Due(j.binding)' /\ dropping' = "no"
      BY DEF GrantsCurrent
    <3>1. j \in jobs
      BY <2>3
    <3>2. j.binding \in Binding
      BY <1>0, <3>1, GrantTyped DEF TypeInv
    <3> QED
      BY <2>1, <2>4, <2>5, <3>1, <3>2 DEF PlainInv, GrantsCurrent
  <2> QED
    BY <2>2, <2>3, <2>6 DEF PlainInv, UpOnLink, FreshConnection
<1> QED
  BY <1>1, <1>2, <1>3, <1>4 DEF Calls

LEMMA PlainConnect ==
  ASSUME OwnInv, OwnInv', PlainInv, ConnectReaction
  PROVE  PlainInv'
<1>0. /\ TypeInv /\ TypeInv' /\ OpenIsHeard' /\ generation \in Nat
      /\ bindings \in SUBSET Binding
  BY DEF OwnInv, TypeInv, TypeOK
<1>1. PICK j \in jobs : /\ j.kind = "connect"
                        /\ Overtaken(j) \/ Established(j) \/ Failed(j)
  BY DEF ConnectReaction
<1>2. registry' = registry /\ dropping' = dropping
  BY DEF ConnectReaction
<1>3. CASE Overtaken(j) \/ Failed(j)
  <2>1. /\ rec' = rec /\ transport' = transport
    BY <1>3 DEF Overtaken, Failed, connectVars, storeVars
  <2>2. \A k \in jobs' : k \in jobs \/ (k.kind = "join" /\ k.binding \in waiting)
    BY <1>3 DEF Overtaken, Failed, Joins
  <2>3. \A x \in waiting' : x \in waiting
    BY <1>3 DEF Overtaken, Failed, storeVars
  <2>4. \A x : Due(x)' => Due(x)
    BY <2>2, <2>3 DEF Due
  <2>5. \A k \in jobs' : Grant(k) \/ Fresh(k) => k \in jobs
    BY <2>2 DEF Grant, Fresh
  <2> QED
    BY <1>2, <2>1, <2>4, <2>5 DEF PlainInv, UpOnLink, GrantsCurrent, FreshConnection
<1>4. CASE Established(j)
  <2> DEFINE queued == (jobs \ {j}) \union Joins(waiting, TRUE)
             nobody == {}
             gen == generation + 1
  <2>1. /\ Drive(bindings, 0, gen, "connected", queued, nobody)
        /\ generation' = gen /\ rec' = rec
    BY <1>4 DEF Established
  <2>2. gen \in Nat /\ nobody \subseteq waiting
    BY <1>0
  <2>3. /\ \A s \in registry : s.state # "subscribed"
        /\ \A k \in jobs : ~Grant(k)
    BY <1>1, <1>4 DEF Established, PlainInv, FreshConnection, Fresh
  <2>4. \A k \in Joins(waiting, TRUE) : k.kind = "join" /\ k.binding \in waiting
    BY DEF Joins
  <2>5. \A k \in queued : /\ Grant(k) \/ Fresh(k) => k \in jobs
                          /\ k.kind = "join" => Due(k.binding)
    BY <2>4 DEF Grant, Fresh, Due
  <2> HIDE DEF queued, nobody, gen
  <2>6. /\ \A s \in registry' : s.state = "subscribed" => s.owner \notin bindings
        /\ \A k \in queued : Grant(k) =>
             /\ k.binding \notin bindings
             /\ rec'[k.binding].attempted = rec[k.binding].attempted
             /\ rec'[k.binding].joined = rec[k.binding].joined
    BY <1>2, <2>3, <2>5
  <2>7. registry' \subseteq registry
    BY <1>2
  <2> QED
    BY <1>0, <1>2, <2>1, <2>2, <2>5, <2>6, <2>7, PlainDriven
<1> QED
  BY <1>1, <1>3, <1>4

LEMMA PlainJoin ==
  ASSUME OwnInv, PlainInv, JoinReaction
  PROVE  PlainInv'
<1>0. /\ TypeInv /\ generation \in Nat /\ jobs \in SUBSET Jobs
      /\ rec \in [Binding -> Records]
  BY DEF OwnInv, TypeInv, TypeOK
<1>1. UNCHANGED <<transport, dropping, waiting, generation>>
  BY DEF JoinReaction, connectVars
<1>2. PICK j \in jobs, b \in Binding :
        /\ j.kind = "join" /\ b = j.binding
        /\ \A k \in jobs' : k \in jobs \/ k.kind = "ready"
        /\ \A x \in Binding : x # b => rec'[x] = rec[x]
        /\ \A s \in registry' : s \in registry \/ s.state = "subscribing"
  <2>1. PICK j \in jobs, b \in Binding :
          /\ j.kind = "join" /\ b = j.binding
          /\ \A k \in jobs' : k \in jobs \/ k.kind = "ready"
          /\ \A x \in Binding : x # b => rec'[x] = rec[x]
          /\ \/ registry' = registry
             \/ registry' = registry \ Released(b)
             \/ registry' = Subscribe(b, generation, rec[b].joined, registry \ Released(b))
    BY <1>0, JoinFields
  <2>2. \A s \in registry' : s \in registry \/ s.state = "subscribing"
    BY <2>1 DEF Subscribe
  <2> QED
    BY <2>1, <2>2
<1>3. \A k \in jobs' : Grant(k) => k \in jobs
  BY NotGranted DEF JoinReaction, Grant
<1>4. \A k \in jobs' : Fresh(k) \/ k.kind = "join" => k \in jobs
  BY <1>2 DEF Fresh
<1>5. \A x : Due(x)' => Due(x)
  BY <1>1, <1>4 DEF Due
<1>6. Due(b)
  BY <1>2 DEF Due
<1>7. GrantsCurrent'
  <2> SUFFICES ASSUME NEW k \in jobs', Grant(k)
               PROVE  /\ rec'[k.binding].attempted = k.generation /\ rec'[k.binding].joined
                      /\ ~Due(k.binding)' /\ dropping' = "no"
    BY DEF GrantsCurrent
  <2>1. k \in jobs
    BY <1>3
  <2>2. k.binding \in Binding /\ ~Due(k.binding)
    BY <1>0, <2>1, GrantTyped DEF TypeInv, PlainInv, GrantsCurrent
  <2>3. rec'[k.binding] = rec[k.binding]
    BY <1>2, <1>6, <2>2
  <2> QED
    BY <1>1, <1>5, <2>1, <2>2, <2>3 DEF PlainInv, GrantsCurrent
<1>8. UpOnLink'
  BY <1>1, <1>2, <1>5 DEF PlainInv, UpOnLink
<1>9. FreshConnection'
  BY <1>2, <1>3, <1>4 DEF PlainInv, FreshConnection
<1> QED
  BY <1>7, <1>8, <1>9 DEF PlainInv

LEMMA PlainReady ==
  ASSUME OwnInv, PlainInv, ReadyReaction
  PROVE  PlainInv'
<1>1. UNCHANGED <<transport, dropping, waiting, registry>>
  BY DEF ReadyReaction, linkVars, connectVars
<1>2. TypeInv /\ jobs' \subseteq jobs
  BY DEF OwnInv, ReadyReaction
<1>3. \A x : Due(x)' => Due(x)
  BY <1>1, <1>2 DEF Due
<1>4. \A x \in Binding : /\ rec'[x].attempted = rec[x].attempted
                         /\ rec'[x].joined = rec[x].joined
  BY <1>2, ReadyFields
<1>5. GrantsCurrent'
  <2> SUFFICES ASSUME NEW k \in jobs', Grant(k)
               PROVE  /\ rec'[k.binding].attempted = k.generation /\ rec'[k.binding].joined
                      /\ ~Due(k.binding)' /\ dropping' = "no"
    BY DEF GrantsCurrent
  <2>1. k \in jobs /\ k.binding \in Binding
    BY <1>2, GrantTyped DEF TypeInv
  <2> QED
    BY <1>1, <1>3, <1>4, <2>1 DEF PlainInv, GrantsCurrent
<1> QED
  BY <1>1, <1>2, <1>3, <1>5 DEF PlainInv, UpOnLink, FreshConnection

\* While no reaction is queued nothing is to come, unless a join waits for an
\* attempt; a link that is connected holds no attempt.
LEMMA NothingDue ==
  ASSUME TypeOK, NoOrphanedWait, jobs = {}, transport = "connected"
  PROVE  \A x : ~Due(x)
BY DEF Due, NoOrphanedWait

LEMMA PlainEvents ==
  ASSUME OwnInv, WaitInv, PlainInv,
         \/ ConnectOpens \/ ConnectFails \/ ConnectionDrops \/ ClientDrops
         \/ \E b \in Binding : SubscriptionOpens(b)
         \/ UNCHANGED vars
  PROVE  PlainInv'
<1>0. TypeOK
  BY DEF WaitInv
<1>1. UNCHANGED <<rec, waiting>>
  BY DEF ConnectOpens, ConnectFails, ConnectionDrops, ClientDrops, SubscriptionOpens,
         vars, storeVars
<1>2. CASE ConnectOpens \/ ConnectFails
  <2>1. /\ transport = "connecting" /\ dropping = "no" /\ registry' = registry
        /\ dropping' = dropping
    BY <1>2 DEF ConnectOpens, ConnectFails, Opens, Idle
  <2>2. \A s \in registry : s.state # "subscribed"
    BY <2>1 DEF PlainInv, UpOnLink
  <2>3. \A j \in jobs' : j.kind = "connect"
    BY <1>2 DEF ConnectOpens, ConnectFails, Connected
  <2> QED
    BY <2>1, <2>2, <2>3 DEF PlainInv, UpOnLink, GrantsCurrent, FreshConnection, Grant
<1>3. CASE ConnectionDrops
  <2>1. /\ registry' = registry /\ jobs' = {} /\ jobs = {}
        /\ dropping' # "no"
    BY <1>3 DEF ConnectionDrops, Drop, Idle
  <2>2. \A x : Due(x)' => Due(x)
    BY <1>1, <2>1 DEF Due
  <2> QED
    BY <2>1, <2>2 DEF PlainInv, UpOnLink, GrantsCurrent, FreshConnection
<1>4. CASE ClientDrops
  <2>1. /\ dropping # "no" /\ registry' = registry
        /\ \A s \in registry : s.state # "subscribed"
    BY <1>4 DEF ClientDrops, DropEnds
  <2>2. \A j \in jobs' : j \in jobs \/ (j.kind = "connect" /\ ~j.ok)
    BY <1>4 DEF ClientDrops, Connected
  <2>3. \A j \in jobs : ~Grant(j)
    BY <2>1 DEF PlainInv, GrantsCurrent
  <2>4. \A j \in jobs' : ~Grant(j)
    BY <2>2, <2>3 DEF Grant
  <2> QED
    BY <2>1, <2>4 DEF PlainInv, UpOnLink, GrantsCurrent, FreshConnection
<1>5. ASSUME NEW b \in Binding, SubscriptionOpens(b) PROVE PlainInv'
  <2>1. PICK s \in registry : /\ s.owner = b /\ Authorizes(s)
                              /\ jobs' = {Ready(s, TRUE)}
    BY <1>5 DEF SubscriptionOpens
  <2>2. /\ jobs = {} /\ dropping = "no" /\ transport = "connected"
        /\ dropping' = dropping /\ transport' = transport
    BY <1>5, <2>1 DEF SubscriptionOpens, Authorizes, Idle, connectVars
  <2>3. \A x : ~Due(x)
    BY <1>0, <2>2, NothingDue DEF WaitInv
  <2>4. Ready(s, TRUE).kind = "ready" /\ Ready(s, TRUE).binding = b
        /\ Ready(s, TRUE).generation = s.generation
    BY <2>1 DEF Ready
  <2>5. \A x : ~Due(x)'
    BY <1>1, <2>1, <2>2, <2>3, <2>4 DEF Due
  <2>6. rec[b].attempted = s.generation /\ rec[b].joined
    <3>1. s.generation # 0
      BY <1>0 DEF TypeOK, LinkTypeOK, Subscriptions
    <3> QED
      BY <2>1, <3>1 DEF OwnInv, OpenIsHeard, HoldersJoined
  <2>7. GrantsCurrent'
    BY <1>1, <2>1, <2>2, <2>4, <2>5, <2>6 DEF GrantsCurrent
  <2>8. \A j \in jobs' : ~Fresh(j)
    BY <2>1, <2>4 DEF Fresh
  <2> QED
    BY <2>2, <2>5, <2>7, <2>8 DEF PlainInv, UpOnLink, FreshConnection
<1>6. CASE UNCHANGED vars
  BY <1>6 DEF PlainInv, UpOnLink, GrantsCurrent, FreshConnection, Due, vars, linkVars,
       connectVars, storeVars
<1> QED
  BY <1>2, <1>3, <1>4, <1>5, <1>6

LEMMA PlainStep ==
  OwnInv /\ WaitInv /\ ChannelTaken /\ PlainInv /\ [Next]_vars => PlainInv'
<1> SUFFICES ASSUME OwnInv, WaitInv, ChannelTaken, PlainInv, [Next]_vars
             PROVE  PlainInv'
  OBVIOUS
<1>1. OwnInv'
  BY OwnStep
<1>2. ASSUME SubscriptionDrops \/ \E b \in Binding : SubscriptionFails(b)
      PROVE  PlainInv'
  <2>1. PICK s \in registry : OnBindingError(s) /\ (jobs = {} \/ dropping # "no")
                              /\ dropping' = dropping
    BY <1>2 DEF SubscriptionDrops, SubscriptionFails, Idle
  <2> QED
    BY <1>1, <2>1, PlainReport
<1> QED
  BY <1>1, <1>2, PlainCalls, PlainConnect, PlainJoin, PlainReady, PlainEvents
     DEF Next, Reactions, Events

\* A step that tells of no authorization and no loss.
LEMMA PairedKept ==
  ASSUME Paired,
         \A b \in Binding : rec'[b].phase # "cancelled" =>
           /\ rec[b].phase # "cancelled"
           /\ heard'[b].joins = heard[b].joins /\ heard'[b].rejoins = heard[b].rejoins
           /\ lost'[b] = lost[b]
           /\ Granted(b)' = Granted(b) /\ Up(b)' = Up(b)
  PROVE  Paired'
<1> SUFFICES ASSUME NEW b \in Binding, rec'[b].phase # "cancelled"
             PROVE  heard'[b].joins + heard'[b].rejoins + One(Granted(b)')
                      = lost'[b] + One(Up(b)')
  BY DEF Paired
<1> QED
  BY DEF Paired

\* The grants that are queued stay the same when none is added and none leaves.
LEMMA GrantsKept ==
  ASSUME \A j \in jobs : Grant(j) => j \in jobs',
         \A j \in jobs' : Grant(j) => j \in jobs
  PROVE  \A b \in Binding : Granted(b)' = Granted(b)
BY DEF Grant, Granted

LEMMA GrantsDriven ==
  ASSUME NEW who \in SUBSET Binding, NEW conn, NEW gen, NEW st, NEW queued, NEW wait,
         \/ Drive(who, conn, gen, st, queued, wait)
         \/ EnsureConnected(who, conn, gen, st, queued, wait),
         \A j \in jobs : Grant(j) => j \in queued,
         \A j \in queued : Grant(j) => j \in jobs
  PROVE  \A b \in Binding : Granted(b)' = Granted(b)
<1>1. queued \subseteq jobs'
  BY DriveDue
<1>2. \A j \in jobs' : Grant(j) => j \in queued
  BY DriveAdds DEF Grant
<1> QED
  BY <1>1, <1>2, GrantsKept

\* A release takes the subscription of its own binding and no other.
LEMMA UpLeft ==
  ASSUME OwnInv, NEW b \in Binding
  PROVE  /\ \A t \in registry : t.owner # b => t \in registry \ Released(b)
         /\ \A t \in registry \ Released(b) : t.owner # b
<1>0. TypeInv /\ Owners
  BY DEF OwnInv, Owners
<1>1. ASSUME NEW t \in registry, t.owner # b
      PROVE  t \in registry \ Released(b)
  <2>1. t.owner \in Binding /\ t.generation # 0 /\ rec[t.owner].release = t.generation
    BY DEF OwnInv, TypeInv, TypeOK, LinkTypeOK, Subscriptions, OpenIsHeard
  <2>2. PICK u \in registry \ Released(b) : u.owner = t.owner
    BY <1>0, <1>1, <2>1, WhatIsLeft
  <2>3. u = t
    BY <2>2 DEF OwnInv, OnePerChannel
  <2> QED
    BY <2>2, <2>3
<1>2. \A t \in registry \ Released(b) : t.owner # b
  BY <1>0, WhatIsLeft
<1> QED
  BY <1>1, <1>2

LEMMA UpAfterRelease ==
  ASSUME OwnInv, NEW b \in Binding, registry' = registry \ Released(b)
  PROVE  Up(b)' = {} /\ \A x \in Binding \ {b} : Up(x)' = Up(x)
BY UpLeft DEF Up

LEMMA PairedReport ==
  ASSUME OwnInv, Paired, NEW s \in registry, OnBindingError(s)
  PROVE  Paired'
<1>0. TypeInv /\ TypeOK
  BY DEF OwnInv, TypeInv
<1>1. PICK b \in Binding : b = s.owner
  BY <1>0 DEF TypeOK, LinkTypeOK, Subscriptions
<1> DEFINE who == Peers(b) \union {b}
           queued == jobs \union Unready(Released(b))
<1>2. /\ Drive(who, connecting, generation, status, queued, waiting)
      /\ registry' = registry \ Released(b) /\ heard' = heard
      /\ lost' = [lost EXCEPT ![b] = @ + (IF s.state = "subscribed" THEN 1 ELSE 0)]
  BY <1>1 DEF OnBindingError
<1>3. who \in SUBSET Binding
  BY <1>0, PeersTyped
<1>4. /\ \A j \in jobs : Grant(j) => j \in queued
      /\ \A j \in queued : Grant(j) => j \in jobs
  BY QueuedPlain
<1> HIDE DEF who, queued
<1>5. \A x \in Binding : Granted(x)' = Granted(x)
  BY <1>2, <1>3, <1>4, GrantsDriven
<1>6. Up(b)' = {} /\ \A x \in Binding \ {b} : Up(x)' = Up(x)
  BY <1>2, UpAfterRelease
<1>7. \A x \in Binding : rec'[x].phase = rec[x].phase
  BY <1>0, <1>1, ReportFields
<1>8. lost \in [Binding -> Nat]
  BY <1>0 DEF TypeOK
<1>9. One(Up(b)) = IF s.state = "subscribed" THEN 1 ELSE 0
  <2>1. \A t \in registry : t.owner = b => t = s
    BY <1>1 DEF OwnInv, OnePerChannel
  <2>2. Up(b) = IF s.state = "subscribed" THEN {s} ELSE {}
    BY <1>1, <2>1 DEF Up
  <2> QED
    BY <2>2 DEF One
<1>10. One(Up(b)') = 0
  BY <1>6 DEF One
<1>11. ASSUME NEW x \in Binding, rec'[x].phase # "cancelled"
       PROVE  heard'[x].joins + heard'[x].rejoins + One(Granted(x)')
                = lost'[x] + One(Up(x)')
  <2>1. heard[x].joins + heard[x].rejoins + One(Granted(x)) = lost[x] + One(Up(x))
    BY <1>7, <1>11 DEF Paired
  <2>2. CASE x = b
    <3>1. lost'[b] = lost[b] + One(Up(b)) /\ lost[b] \in Nat /\ One(Up(b)) \in Nat
      BY <1>2, <1>8, <1>9
    <3>2. lost'[b] + One(Up(b)') = lost[b] + One(Up(b))
      BY <1>10, <3>1
    <3> QED
      BY <1>2, <1>5, <2>1, <2>2, <3>2
  <2>3. CASE x # b
    <3>1. lost'[x] = lost[x]
      BY <1>2, <1>8, <2>3
    <3> QED
      BY <1>2, <1>5, <1>6, <2>1, <2>3, <3>1
  <2> QED
    BY <2>2, <2>3
<1> QED
  BY <1>11 DEF Paired

LEMMA PairedCalls ==
  ASSUME OwnInv, Paired, Calls
  PROVE  Paired'
<1>0. TypeInv /\ TypeOK /\ bindings \in SUBSET Binding /\ rec \in [Binding -> Records]
  BY DEF OwnInv, TypeInv, TypeOK
<1>1. ASSUME Open PROVE Paired'
  <2> DEFINE nobody == {}
  <2>1. /\ EnsureConnected(nobody, connecting, generation, status, jobs, waiting)
        /\ UNCHANGED <<registry, rec, heard, lost>>
    BY <1>1 DEF Open
  <2>2. nobody \in SUBSET Binding
    OBVIOUS
  <2> HIDE DEF nobody
  <2>3. \A x \in Binding : Granted(x)' = Granted(x)
    BY <2>1, <2>2, GrantsDriven
  <2> QED
    BY <2>1, <2>3, PairedKept DEF Up
<1>2. ASSUME NEW b \in Binding, Bind(b) PROVE Paired'
  <2> DEFINE who == {b}
  <2>1. /\ Drive(who, connecting, generation, status, jobs, waiting)
        /\ rec' = [rec EXCEPT ![b].phase = "bound"] /\ rec[b].phase = "unbound"
        /\ UNCHANGED <<registry, heard, lost>>
    BY <1>2 DEF Bind
  <2>2. who \in SUBSET Binding
    OBVIOUS
  <2> HIDE DEF who
  <2>3. \A x \in Binding : Granted(x)' = Granted(x)
    BY <2>1, <2>2, GrantsDriven
  <2>4. \A x \in Binding : rec'[x].phase # "cancelled" => rec[x].phase # "cancelled"
    BY <1>0, <2>1, BoundRecord
  <2> QED
    BY <2>1, <2>3, <2>4, PairedKept DEF Up
<1>3. ASSUME NEW b \in Binding, Cancel(b) PROVE Paired'
  <2> DEFINE who == Peers(b)
             queued == jobs \union Unready(Released(b))
  <2>1. /\ Drive(who, connecting, generation, status, queued, waiting)
        /\ registry' = registry \ Released(b)
        /\ UNCHANGED <<heard, lost>>
    BY <1>3 DEF Cancel, history
  <2>2. who \in SUBSET Binding
    BY <1>0, PeersTyped
  <2>3. /\ \A j \in jobs : Grant(j) => j \in queued
        /\ \A j \in queued : Grant(j) => j \in jobs
    BY QueuedPlain
  <2> HIDE DEF who, queued
  <2>4. \A x \in Binding : Granted(x)' = Granted(x)
    BY <2>1, <2>2, <2>3, GrantsDriven
  <2>5. /\ rec'[b].phase = "cancelled"
        /\ \A x \in Binding \ {b} : rec'[x].phase = rec[x].phase
    BY <1>0, <1>3, CancelFields
  <2>6. \A x \in Binding \ {b} : Up(x)' = Up(x)
    BY <2>1, UpAfterRelease
  <2> QED
    BY <2>1, <2>4, <2>5, <2>6, PairedKept
<1>4. ASSUME Close PROVE Paired'
  <2> DEFINE freed == UNION {Released(b) : b \in bindings}
  <2>1. /\ jobs' = jobs \union Unready(freed)
                        \union {Connected(e, FALSE) : e \in pendingConnect}
        /\ UNCHANGED <<heard, lost>>
    BY <1>4 DEF Close
  <2> HIDE DEF freed
  <2>2. registry' = {}
    BY <1>4, OwnClose
  <2>3. \A j \in jobs' : Grant(j) => j \in jobs
    BY <2>1, NotGranted DEF Grant, Connected
  <2>4. \A x \in Binding : Granted(x)' = Granted(x)
    BY <2>1, <2>3, GrantsKept
  <2>5. /\ \A x \in bindings : rec'[x].phase = "cancelled"
        /\ \A x \in Binding \ bindings : rec'[x] = rec[x]
    BY <1>0, <1>4, CloseFields
  <2>6. \A x \in Binding \ bindings : Up(x)' = Up(x)
    BY <2>2 DEF Up, OwnInv, OpenIsHeard
  <2> QED
    BY <2>1, <2>4, <2>5, <2>6, PairedKept
<1> QED
  BY <1>1, <1>2, <1>3, <1>4 DEF Calls

LEMMA PairedConnect ==
  ASSUME OwnInv, Paired, ConnectReaction
  PROVE  Paired'
<1>0. bindings \in SUBSET Binding
  BY DEF OwnInv, TypeInv, TypeOK
<1>1. PICK j \in jobs : /\ j.kind = "connect"
                        /\ Overtaken(j) \/ Established(j) \/ Failed(j)
  BY DEF ConnectReaction
<1>2. UNCHANGED <<registry, heard, lost>>
  BY DEF ConnectReaction, history
<1>3. rec' = rec
  BY <1>1 DEF Overtaken, Established, Failed, storeVars
<1>4. \A x \in Binding : Granted(x)' = Granted(x)
  <2>1. CASE Overtaken(j) \/ Failed(j)
    <3>1. \A k \in jobs : Grant(k) => k \in jobs'
      BY <1>1, <2>1 DEF Overtaken, Failed, Grant
    <3>2. \A k \in jobs' : Grant(k) => k \in jobs
      BY <2>1, NotGranted DEF Overtaken, Failed, Grant
    <3> QED
      BY <3>1, <3>2, GrantsKept
  <2>2. CASE Established(j)
    <3> DEFINE queued == (jobs \ {j}) \union Joins(waiting, TRUE)
               nobody == {}
               gen == generation + 1
    <3>1. Drive(bindings, 0, gen, "connected", queued, nobody)
      BY <2>2 DEF Established
    <3>2. \A k \in jobs : Grant(k) => k \in queued
      BY <1>1 DEF Grant
    <3>3. \A k \in queued : Grant(k) => k \in jobs
      BY NotGranted DEF Grant
    <3> HIDE DEF queued, nobody, gen
    <3> QED
      BY <1>0, <3>1, <3>2, <3>3, GrantsDriven
  <2> QED
    BY <1>1, <2>1, <2>2
<1> QED
  BY <1>2, <1>3, <1>4, PairedKept DEF Up

LEMMA PairedJoin ==
  ASSUME OwnInv, PlainInv, Paired, JoinReaction
  PROVE  Paired'
<1>0. /\ TypeInv /\ heard \in [Binding -> Heards]
      /\ rec \in [Binding -> Records]
  BY DEF OwnInv, TypeInv, TypeOK, Heards
<1>1. lost' = lost
  BY DEF JoinReaction
<1>2. PICK j \in jobs, b \in Binding :
        /\ j.kind = "join" /\ b = j.binding
        /\ \A k \in jobs' : k \in jobs \/ k.kind = "ready"
        /\ \A x \in Binding : x # b => rec'[x] = rec[x]
        /\ rec'[b].phase = rec[b].phase
        /\ heard' = heard \/ heard' = [heard EXCEPT ![b].opens = @ + 1]
        /\ \/ registry' = registry
           \/ registry' = registry \ Released(b)
           \/ registry' = Subscribe(b, generation, rec[b].joined, registry \ Released(b))
  <2>1. PICK j \in jobs, b \in Binding :
           /\ j.kind = "join" /\ b = j.binding
           /\ \A k \in jobs' : k \in jobs \/ k.kind = "ready"
           /\ \A x \in Binding : x # b => rec'[x] = rec[x]
           /\ \/ rec' = rec /\ UNCHANGED <<registry, heard>>
              \/ /\ rec[b].phase # "cancelled"
                 /\ rec' = [rec EXCEPT ![b].ready = Settle(@, "rejected")]
                 /\ UNCHANGED <<registry, heard>>
              \/ /\ rec'[b].phase = rec[b].phase
                 /\ registry' = registry \ Released(b)
                 /\ UNCHANGED heard
              \/ /\ rec'[b].phase = rec[b].phase
                 /\ registry' = Subscribe(b, generation, rec[b].joined,
                                          registry \ Released(b))
                 /\ heard' = [heard EXCEPT ![b].opens = @ + 1]
    BY <1>0, JoinFields
  <2>2. rec' = [rec EXCEPT ![b].ready = Settle(@, "rejected")] => rec'[b].phase = rec[b].phase
    BY <1>0, ReadyUpdate
  <2> QED
    BY <2>1, <2>2
<1>3. \A x \in Binding : /\ heard'[x].joins = heard[x].joins
                         /\ heard'[x].rejoins = heard[x].rejoins
  <2>1. CASE heard' = heard
    BY <2>1
  <2>2. CASE heard' = [heard EXCEPT ![b].opens = @ + 1]
    <3> TAKE x \in Binding
    <3>1. heard[x] \in Heards
      BY <1>0
    <3>2. heard'[x] = IF x = b THEN [heard[x] EXCEPT !.opens = @ + 1] ELSE heard[x]
      BY <1>0, <2>2
    <3> QED
      BY <3>1, <3>2 DEF Heards
  <2> QED
    BY <1>2, <2>1, <2>2
<1>4. \A x \in Binding : Granted(x)' = Granted(x)
  <2>1. PICK k \in jobs : k.kind = "join" /\ jobs \ {k} \subseteq jobs'
    BY DEF JoinReaction
  <2>2. \A i \in jobs : Grant(i) => i \in jobs'
    BY <2>1 DEF Grant
  <2>3. \A i \in jobs' : Grant(i) => i \in jobs
    BY NotGranted DEF JoinReaction, Grant
  <2> QED
    BY <2>2, <2>3, GrantsKept
<1>5. Up(b) = {}
  <2>1. Due(b)
    BY <1>2 DEF Due
  <2> QED
    BY <2>1 DEF Up, PlainInv, UpOnLink
<1>6. \A x \in Binding : Up(x)' = Up(x)
  <2>1. CASE registry' = registry
    BY <2>1 DEF Up
  <2>2. CASE registry' = registry \ Released(b)
    BY <1>5, <2>2, UpAfterRelease
  <2>3. CASE registry' = Subscribe(b, generation, rec[b].joined, registry \ Released(b))
    <3>1. \A s : /\ s \in registry' /\ s.state = "subscribed"
                 => s \in registry \ Released(b)
      BY <2>3 DEF Subscribe
    <3>2. \A s \in registry \ Released(b) : s \in registry'
      BY <2>3 DEF Subscribe
    <3> QED
      BY <1>5, <3>1, <3>2, UpLeft DEF Up
  <2> QED
    BY <1>2, <2>1, <2>2, <2>3
<1>7. \A x \in Binding : rec'[x].phase = rec[x].phase
  BY <1>2
<1> QED
  BY <1>1, <1>3, <1>4, <1>6, <1>7, PairedKept

LEMMA PairedReady ==
  ASSUME OwnInv, GrantsCurrent, GrantedOnce, Paired, ReadyReaction
  PROVE  Paired'
<1>0. TypeInv /\ heard \in [Binding -> Heards] /\ lost \in [Binding -> Nat]
  BY DEF OwnInv, TypeInv, TypeOK, Heards
<1>1. UNCHANGED <<registry, lost>>
  BY DEF ReadyReaction, linkVars
<1>2. PICK j \in jobs :
        /\ j.kind = "ready" /\ jobs' = jobs \ {j}
        /\ \/ /\ j.ok /\ Current(j.binding, j.generation)
              /\ heard' = IF j.rejoin
                          THEN [heard EXCEPT ![j.binding].rejoins = @ + 1]
                          ELSE [heard EXCEPT ![j.binding].joins = @ + 1]
           \/ j.ok /\ ~Current(j.binding, j.generation) /\ heard' = heard
           \/ ~j.ok /\ heard' = heard
  BY DEF ReadyReaction
<1>3. \A x \in Binding : rec'[x].phase = rec[x].phase /\ Up(x)' = Up(x)
  BY <1>0, <1>1, ReadyFields DEF Up
<1>4. CASE ~j.ok
  <2>1. /\ \A k \in jobs : Grant(k) => k \in jobs'
        /\ \A k \in jobs' : Grant(k) => k \in jobs
    BY <1>2, <1>4 DEF Grant
  <2>2. \A x \in Binding : Granted(x)' = Granted(x)
    BY <2>1, GrantsKept
  <2> QED
    BY <1>1, <1>2, <1>3, <1>4, <2>2, PairedKept
<1>5. CASE j.ok
  <2>1. PICK b \in Binding : b = j.binding
    BY <1>0, <1>2, <1>5, GrantTyped DEF TypeInv, Grant
  <2>2. Granted(b) = {j} /\ Granted(b)' = {}
    BY <1>2, <1>5, <2>1 DEF Granted, GrantedOnce
  <2>3. One(Granted(b)) = 1 /\ One(Granted(b)') = 0
    BY <2>2 DEF One
  <2>4. \A x \in Binding \ {b} : Granted(x)' = Granted(x)
    BY <1>2, <2>1 DEF Granted
  <2>5. rec[b].attempted = j.generation
    BY <1>2, <1>5, <2>1 DEF GrantsCurrent, Grant
  <2>6. ASSUME NEW x \in Binding, rec'[x].phase # "cancelled"
        PROVE  heard'[x].joins + heard'[x].rejoins + One(Granted(x)')
                 = lost'[x] + One(Up(x)')
    <3>1. heard[x].joins + heard[x].rejoins + One(Granted(x)) = lost[x] + One(Up(x))
      BY <1>3, <2>6 DEF Paired
    <3>2. CASE x = b
      <4>1. Current(b, j.generation)
        BY <1>3, <2>5, <2>6, <3>2 DEF Current
      <4>2. heard' = IF j.rejoin THEN [heard EXCEPT ![b].rejoins = @ + 1]
                                 ELSE [heard EXCEPT ![b].joins = @ + 1]
        BY <1>2, <1>5, <2>1, <4>1
      <4>3. heard[b] \in Heards
        BY <1>0
      <4>4. heard'[b] = IF j.rejoin THEN [heard[b] EXCEPT !.rejoins = @ + 1]
                                    ELSE [heard[b] EXCEPT !.joins = @ + 1]
        BY <1>0, <4>2
      <4>5. heard'[b].joins + heard'[b].rejoins = heard[b].joins + heard[b].rejoins + 1
        BY <4>3, <4>4 DEF Heards
      <4>6. heard[b].joins \in Nat /\ heard[b].rejoins \in Nat
        BY <4>3 DEF Heards
      <4>7. heard'[b].joins + heard'[b].rejoins + One(Granted(b)')
              = heard[b].joins + heard[b].rejoins + One(Granted(b))
        BY <2>3, <4>5, <4>6
      <4> QED
        BY <1>1, <1>3, <3>1, <3>2, <4>7
    <3>3. CASE x # b
      <4>1. heard'[x] = heard[x]
        BY <1>0, <1>2, <2>1, <3>3
      <4> QED
        BY <1>1, <1>3, <2>4, <3>1, <3>3, <4>1
    <3> QED
      BY <3>2, <3>3
  <2> QED
    BY <2>6 DEF Paired
<1> QED
  BY <1>4, <1>5

LEMMA PairedOpens ==
  ASSUME OwnInv, Paired, NEW b \in Binding, SubscriptionOpens(b)
  PROVE  Paired'
<1>0. TypeInv /\ TypeOK /\ heard \in [Binding -> Heards] /\ lost \in [Binding -> Nat]
  BY DEF OwnInv, TypeInv, TypeOK, Heards
<1>1. PICK s \in registry : /\ s.owner = b /\ Authorizes(s)
                            /\ jobs' = {Ready(s, TRUE)} /\ jobs = {}
                            /\ UNCHANGED <<rec, heard, lost>>
  BY DEF SubscriptionOpens, Idle, storeVars, history
<1>2. s.state = "subscribing" /\ s \in Subscriptions
  BY <1>0, <1>1 DEF Authorizes, TypeOK, LinkTypeOK
<1> DEFINE t == [s EXCEPT !.state = "subscribed"]
<1>3. registry' = (registry \ {s}) \union {t}
  BY <1>1 DEF Authorizes
<1>4. t.owner = b /\ t.state = "subscribed"
  BY <1>1, <1>2 DEF Subscriptions
<1> HIDE DEF t
<1>5. Up(b) = {}
  <2>1. \A u \in registry : u.owner = b => u = s
    BY <1>1 DEF OwnInv, OnePerChannel
  <2> QED
    BY <1>2, <2>1 DEF Up
<1>6. Up(b)' # {} /\ \A x \in Binding \ {b} : Up(x)' = Up(x)
  <2>1. t \in Up(b)'
    BY <1>3, <1>4 DEF Up
  <2>2. \A x \in Binding \ {b} : Up(x)' = Up(x)
    BY <1>1, <1>3, <1>4 DEF Up
  <2> QED
    BY <2>1, <2>2
<1>7. /\ Ready(s, TRUE).kind = "ready" /\ Ready(s, TRUE).ok
      /\ Ready(s, TRUE).binding = b
  BY <1>1 DEF Ready
<1>8. /\ \A x \in Binding : Granted(x) = {}
      /\ Granted(b)' # {} /\ \A x \in Binding \ {b} : Granted(x)' = {}
  BY <1>1, <1>7 DEF Granted
<1>9. /\ One(Up(b)) = 0 /\ One(Up(b)') = 1
      /\ One(Granted(b)) = 0 /\ One(Granted(b)') = 1
  BY <1>5, <1>6, <1>8 DEF One
<1>10. ASSUME NEW x \in Binding, rec'[x].phase # "cancelled"
       PROVE  heard'[x].joins + heard'[x].rejoins + One(Granted(x)')
                = lost'[x] + One(Up(x)')
  <2>1. heard[x].joins + heard[x].rejoins + One(Granted(x)) = lost[x] + One(Up(x))
    BY <1>1, <1>10 DEF Paired
  <2>2. CASE x = b
    <3>1. heard[b].joins \in Nat /\ heard[b].rejoins \in Nat /\ lost[b] \in Nat
      BY <1>0, HeardTyped
    <3>2. heard[b].joins + heard[b].rejoins + 1 = lost[b] + 1
      BY <1>9, <2>1, <2>2, <3>1
    <3> QED
      BY <1>1, <1>9, <2>2, <3>2
  <2>3. CASE x # b
    BY <1>1, <1>6, <1>8, <2>1, <2>3
  <2> QED
    BY <2>2, <2>3
<1> QED
  BY <1>10 DEF Paired

LEMMA PairedEvents ==
  ASSUME Paired,
         ConnectOpens \/ ConnectFails \/ ConnectionDrops \/ ClientDrops \/ UNCHANGED vars
  PROVE  Paired'
<1>1. UNCHANGED <<registry, rec, heard, lost>>
  BY DEF ConnectOpens, ConnectFails, ConnectionDrops, Drop, ClientDrops, DropEnds, vars,
         linkVars, storeVars, history
<1>2. \A j \in jobs : j \in jobs'
  BY DEF ConnectOpens, ConnectFails, ConnectionDrops, ClientDrops, Idle, vars
<1>3. \A j \in jobs' : j \in jobs \/ j.kind = "connect"
  BY DEF ConnectOpens, ConnectFails, ConnectionDrops, ClientDrops, Connected, vars
<1>4. \A x \in Binding : Granted(x)' = Granted(x)
  BY <1>2, <1>3, GrantsKept DEF Grant
<1> QED
  BY <1>1, <1>4, PairedKept DEF Up

LEMMA PairedStep ==
  OwnInv /\ PlainInv /\ GrantedOnce /\ Paired /\ [Next]_vars => Paired'
<1> SUFFICES ASSUME OwnInv, PlainInv, GrantedOnce, Paired, [Next]_vars
             PROVE  Paired'
  OBVIOUS
<1>1. ASSUME SubscriptionDrops \/ \E b \in Binding : SubscriptionFails(b)
      PROVE  Paired'
  BY <1>1, PairedReport DEF SubscriptionDrops, SubscriptionFails
<1>2. GrantsCurrent
  BY DEF PlainInv
<1> QED
  BY <1>1, <1>2, PairedCalls, PairedConnect, PairedJoin, PairedReady, PairedOpens,
     PairedEvents DEF Next, Reactions, Events

----
(* At rest nobody is down untold.                                         *)

NobodyInv ==
    /\ RecInv /\ WaitInv /\ Tried /\ ChannelTaken /\ ToldInv
    /\ DownInv /\ PlainInv /\ Paired

LEMMA NobodyInit == Init => NobodyInv
<1> SUFFICES ASSUME Init PROVE NobodyInv
  OBVIOUS
<1>1. RecInv
  BY RecInit
<1>2. /\ transport = "disconnected" /\ dropping = "no" /\ waiting = {} /\ connecting = 0
      /\ bindings = {} /\ lost = [b \in Binding |-> 0]
      /\ pendingConnect = {} /\ status = "idle" /\ jobs = {} /\ registry = {}
      /\ rec = [b \in Binding |-> [phase |-> "unbound", attempted |-> 0, release |-> 0,
                                   joined |-> FALSE, ready |-> "pending"]]
      /\ heard = [b \in Binding |-> [opens |-> 0, joins |-> 0, rejoins |-> 0]]
  BY DEF Init, LinkInit
<1>3. WaitInv
  BY <1>1, <1>2 DEF WaitInv, LinkAgrees, NoOrphanedWait, RecInv, OwnInv, TypeInv
<1>4. Tried /\ ChannelTaken
  BY <1>2 DEF Tried, ChannelTaken
<1>5. GrantedOnce /\ \A b \in Binding : Granted(b) = {} /\ Asking(b) = {}
  BY <1>2 DEF GrantedOnce, Granted, Asking
<1>6. First({}) = {} /\ One({}) = 0
  BY DEF First, One
<1>7. ToldCounted
  <2>1. \A b \in Binding : heard[b].joins = 0 /\ heard[b].rejoins = 0 /\ heard[b].opens = 0
    BY <1>2
  <2>2. \A b \in Binding : /\ One(Granted(b)) = 0 /\ One(Asking(b)) = 0
                           /\ One(First(Granted(b))) = 0 /\ One(First(Asking(b))) = 0
    BY <1>5, <1>6
  <2>3. \A b \in Binding :
          /\ heard[b].joins + heard[b].rejoins + One(Granted(b)) + One(Asking(b)) <= heard[b].opens
          /\ heard[b].joins + One(First(Granted(b))) + One(First(Asking(b))) <= 1
    <3> SUFFICES ASSUME NEW b \in Binding
                 PROVE  /\ heard[b].joins + heard[b].rejoins + One(Granted(b)) + One(Asking(b))
                             <= heard[b].opens
                        /\ heard[b].joins + One(First(Granted(b))) + One(First(Asking(b))) <= 1
      OBVIOUS
    <3>1. 0 + 0 + 0 + 0 <= 0 /\ 0 + 0 + 0 <= 1
      OBVIOUS
    <3> QED
      BY <2>1, <2>2, <3>1
  <2> QED
    BY <2>3 DEF ToldCounted
<1>8. DownInv /\ PlainInv
  BY <1>2 DEF DownInv, UpOrTold, JoinsCounted, PlainInv, UpOnLink, GrantsCurrent,
     FreshConnection
<1>9. Paired
  <2> SUFFICES ASSUME NEW b \in Binding
               PROVE  heard[b].joins + heard[b].rejoins + One(Granted(b))
                        = lost[b] + One(Up(b))
    BY DEF Paired
  <2>1. heard[b].joins = 0 /\ heard[b].rejoins = 0 /\ lost[b] = 0
    BY <1>2
  <2>2. One(Granted(b)) = 0 /\ One(Up(b)) = 0
    BY <1>2, <1>5, <1>6 DEF Up
  <2> QED
    BY <2>1, <2>2
<1> QED
  BY <1>1, <1>3, <1>4, <1>5, <1>7, <1>8, <1>9 DEF NobodyInv, ToldInv

LEMMA NobodyStep == NobodyInv /\ [Next]_vars => NobodyInv'
<1> SUFFICES ASSUME NobodyInv, [Next]_vars
             PROVE  NobodyInv'
  OBVIOUS
<1>1. /\ RecInv /\ WaitInv /\ Tried /\ ChannelTaken /\ ToldInv
      /\ DownInv /\ PlainInv /\ Paired
      /\ OwnInv /\ TypeInv /\ GrantedOnce
  BY DEF NobodyInv, RecInv, OwnInv, ToldInv
<1>2. RecInv' /\ TypeOK'
  <2>1. RecInv'
    BY <1>1, RecStep
  <2> QED
    BY <2>1 DEF RecInv, OwnInv, TypeInv
<1>3. DownInv' /\ PlainInv' /\ Paired'
  BY <1>1, DownStep, PlainStep, PairedStep
<1> QED
  BY <1>1, <1>2, <1>3, WaitStep, TriedStep, TakenStep, ToldStep DEF NobodyInv, WaitInv

\* At rest every binding has had its attempt on the last connection the store
\* counted, and one that never held its channel is left waiting by a subscription
\* that does; one that holds no subscription, whichever connection left it
\* without, was told an error since it last opened one; and each authorization it
\* was told was ended by exactly one error it was told, or is still there.  A
\* join that waits will be answered, and no subscription is told of twice
\* (#ensureConnected, #join, #redriveChannelPeers, #onBindingError, onJoin,
\* onRejoin).  A binding that is down and told of it may stay down: nothing here
\* says that a connection the store did not ask for brings it back.
THEOREM NobodyIsDownUntold ==
  Spec => [](/\ LoserReachable /\ EveryGenerationTried /\ DownIsTold /\ EachLossTold
             /\ NoOrphanedWait /\ ToldOncePerSubscription)
<1>1. NobodyInv => EveryGenerationTried
  <2> SUFFICES ASSUME NobodyInv, Quiet, status = "connected", NEW b \in bindings
               PROVE  rec[b].attempted = generation
    BY DEF EveryGenerationTried
  <2> QED
    BY DEF NobodyInv, Tried, JoinOwed, Quiet, Idle
<1>2. NobodyInv => LoserReachable
  <2> SUFFICES ASSUME NobodyInv, Quiet, status = "connected", NEW b \in bindings,
                      ~rec[b].joined
               PROVE  Holders(ChannelOf[b]) # {}
    BY DEF LoserReachable
  <2>1. rec[b].attempted = generation /\ generation > 0
    BY <1>1 DEF EveryGenerationTried, NobodyInv, Tried
  <2>2. b \in Binding /\ rec[b].phase = "bound" /\ generation \in Nat
    BY DEF NobodyInv, RecInv, OwnInv, TypeInv, TypeOK, BoundAreBindings
  <2>3. generation # 0
    BY <2>1, <2>2
  <2>4. Taken(ChannelOf[b])
    BY <2>1, <2>2, <2>3 DEF NobodyInv, ChannelTaken
  <2> QED
    BY <2>4 DEF Taken, Holders
<1>3. NobodyInv => NoOrphanedWait
  BY DEF NobodyInv, WaitInv
<1>4. NobodyInv => ToldOncePerSubscription
  <2> SUFFICES ASSUME NobodyInv, NEW b \in Binding
               PROVE  heard[b].joins <= 1 /\ heard[b].joins + heard[b].rejoins <= heard[b].opens
    BY DEF ToldOncePerSubscription
  <2>1. TypeInv /\ ToldCounted
    BY DEF NobodyInv, RecInv, OwnInv, ToldInv
  <2>2. /\ One(Granted(b)) \in Nat /\ One(Asking(b)) \in Nat
        /\ One(First(Granted(b))) \in Nat /\ One(First(Asking(b))) \in Nat
    BY OneBounds
  <2> QED
    BY <2>1, <2>2, HeardTyped DEF ToldCounted
<1>5. NobodyInv => DownIsTold
  <2> SUFFICES ASSUME NobodyInv, Quiet, NEW b \in bindings
               PROVE  rec[b].release # 0 \/ b \in told
    BY DEF DownIsTold
  <2>1. jobs = {} /\ waiting = {}
    BY DEF Quiet, Idle, NobodyInv, WaitInv, NoOrphanedWait
  <2>2. ~Due(b)
    BY <2>1 DEF Due
  <2> QED
    BY <2>2 DEF NobodyInv, DownInv, UpOrTold
<1>6. NobodyInv => EachLossTold
  <2> SUFFICES ASSUME NobodyInv, jobs = {}, NEW b \in bindings
               PROVE  heard[b].joins + heard[b].rejoins
                        = lost[b] + (IF Live(b) THEN 1 ELSE 0)
    BY DEF EachLossTold
  <2>1. b \in Binding /\ rec[b].phase = "bound" /\ TypeInv
    BY DEF NobodyInv, RecInv, OwnInv, TypeInv, TypeOK, BoundAreBindings
  <2>2. heard[b].joins + heard[b].rejoins + One(Granted(b)) = lost[b] + One(Up(b))
    BY <2>1 DEF NobodyInv, Paired
  <2>3. One(Granted(b)) = 0
    BY DEF One, Granted
  <2>4. One(Up(b)) = IF Live(b) THEN 1 ELSE 0
    BY DEF One, Up, Live
  <2>5. heard[b].joins \in Nat /\ heard[b].rejoins \in Nat
    BY <2>1, HeardTyped
  <2>6. heard[b].joins + heard[b].rejoins + 0 = heard[b].joins + heard[b].rejoins
    BY <2>5
  <2> QED
    BY <2>2, <2>3, <2>4, <2>6
<1> QED
  BY <1>1, <1>2, <1>3, <1>4, <1>5, <1>6, NobodyInit, NobodyStep, PTL DEF Spec
=============================================================================
