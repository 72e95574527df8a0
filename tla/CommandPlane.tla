----------------------------- MODULE CommandPlane -----------------------------
(***************************************************************************)
(* The command plane of one session: the scope that retains one envelope   *)
(* per control (packages/react/src/stores/pending.ts), the stores that are *)
(* views of it (the composer's, the interrupt's and the gates'), and the   *)
(* attempts that carry an envelope to Factory over the ClientLink          *)
(* (protocol/src/commands.ts, clientlink.ts).                              *)
(*                                                                         *)
(* A request that was handed to the link may reach Factory late, even      *)
(* after its attempt was given up as unknown.  Factory is external: it     *)
(* admits an identity at most once and answers a replay with the record it *)
(* has.  `Excuses` says whether it may also answer a Core error that       *)
(* decides nothing (runtime_unavailable, which the envelope marks          *)
(* retryable).                                                             *)
(***************************************************************************)
EXTENDS Naturals, FiniteSets

CONSTANTS
    Controls,       \* the control keys that are not a gate's
    Gates,          \* the control keys of gates
    Stores,         \* the mounted components' stores
    Owns,           \* the controls each store writes
    MaxCommands,    \* bound: envelopes minted
    Allowances,     \* bounds: what one behaviour may do of each thing, mounts by store
    Excuses         \* Factory may refuse without deciding

Keys == Controls \union Gates
Nobody == "nobody"
Commands == 1..MaxCommands
Spendable == {"sends", "attempts", "misfires", "moves"} \union Stores

ASSUME PlaneAssumption ==
    /\ Controls \intersect Gates = {} /\ Nobody \notin Keys /\ Owns \in [Stores -> SUBSET Keys]
    /\ MaxCommands \in Nat /\ Excuses \in BOOLEAN
    /\ \A a \in Allowances : a \in [Spendable -> Nat] /\ a.sends <= MaxCommands

VARIABLES
    slots,      \* CommandScope.slots
    errors,     \* CommandScope.errors: the command an error is about
    stores,     \* the stores: built, attached, and their snapshot
    attempts,   \* the attempts nobody has heard the end of
    budget,     \* what is left of each bound
    wire,       \* the identities on their way to Factory
    record,     \* Factory: what became of each identity
    board,      \* the gates a response may be sent for
    minted,     \* history: the control of each command minted so far
    told        \* history: how each command ended for its callers

factoryVars == <<wire, record>>
historyVars == <<minted, told>>
vars == <<slots, errors, stores, attempts, budget, factoryVars, board, historyVars>>

NoSlot == [id |-> 0, sending |-> FALSE]
NoError == MaxCommands + 1
NotMinted == 0      \* an error of an envelope that could not be built
Slot == {NoSlot} \union [id : Commands, sending : BOOLEAN]
Snapshots == [slots : [Keys -> Slot], errors : [Keys -> 0..NoError]]
Empty == [slots |-> [k \in Keys |-> NoSlot], errors |-> [k \in Keys |-> NoError]]
Scope == [slots |-> slots, errors |-> errors]
Unmounted == [phase |-> "unmounted", seen |-> Empty]

Answers == {"waiting", "lost", "refused", "pending", "accepted", "rejected"}
Endings == {"open", "accepted", "rejected", "cancelled"}
Attempt == [id : Commands, key : Keys, by : Stores \union {Nobody}, answer : Answers]

\* The scope and its views are of their types.
TypeOK ==
    /\ slots \in [Keys -> Slot] /\ errors \in [Keys -> 0..NoError]
    /\ stores \in [Stores -> [phase : {"unmounted", "built", "attached"}, seen : Snapshots]]
    /\ attempts \subseteq Attempt /\ budget \in [Spendable -> Nat]
    /\ wire \subseteq Commands
    /\ record \in [Commands -> {"unknown", "pending", "accepted", "rejected"}]
    /\ board \subseteq Gates
    /\ minted \in [Commands -> Keys \union {Nobody}] /\ told \in [Commands -> Endings]

Init ==
    /\ slots = Empty.slots /\ errors = Empty.errors
    /\ stores = [v \in Stores |-> Unmounted]
    /\ attempts = {} /\ budget \in Allowances /\ wire = {}
    /\ record = [c \in Commands |-> "unknown"] /\ board \in SUBSET Gates
    /\ minted = [c \in Commands |-> Nobody] /\ told = [c \in Commands |-> "open"]

Spend(things) ==
    /\ \A k \in things : budget[k] > 0
    /\ budget' = [k \in Spendable |-> IF k \in things THEN budget[k] - 1 ELSE budget[k]]

-----------------------------------------------------------------------------
(* The stores, views of the scope.                                         *)

Attached == {v \in Stores : stores[v].phase = "attached"}

\* The constructor adopts what is retained before the first render.
Build(v) ==
    /\ Spend({v}) /\ stores[v].phase = "unmounted"
    /\ stores' = [stores EXCEPT ![v] = [phase |-> "built", seen |-> Scope]]
    /\ UNCHANGED <<slots, errors, attempts, factoryVars, board, historyVars>>

Attach(v) ==
    /\ stores[v].phase = "built"
    /\ stores' = [stores EXCEPT ![v] = [phase |-> "attached", seen |-> Scope]]
    /\ UNCHANGED <<slots, errors, attempts, budget, factoryVars, board, historyVars>>

\* The attempts of a store that went away go on, unseen.
Leave(v) ==
    /\ stores' = [stores EXCEPT ![v] = Unmounted]
    /\ attempts' = {IF a.by = v THEN [a EXCEPT !.by = Nobody] ELSE a : a \in attempts}
    /\ UNCHANGED <<slots, budget, factoryVars, board, historyVars>>

\* The component unmounts.  disposeScope(): the last detach drops a scope that
\* retains nothing.
Detach(v) ==
    /\ stores[v].phase = "attached"
    /\ errors' = IF slots = Empty.slots /\ Attached = {v} THEN Empty.errors ELSE errors
    /\ Leave(v)

\* The render that built the store never commits.
Abandon(v) == stores[v].phase = "built" /\ UNCHANGED errors /\ Leave(v)

\* #emit(): every attached store through its listener, an unattached one itself.
Emit(v) ==
    stores' = [w \in Stores |->
                 IF w \in Attached \/ (w = v /\ stores[w].phase = "built")
                 THEN [stores[w] EXCEPT !.seen = [slots |-> slots', errors |-> errors']]
                 ELSE stores[w]]

-----------------------------------------------------------------------------
(* What a control does.                                                    *)

Writes(v, k) == stores[v].phase # "unmounted" /\ k \in Owns[v]

\* FactoryGateStore.respond() sends for a gate attested resident and open.
Sendable(k) == k \in Gates => k \in board

Begin(v, k, c) ==
    /\ attempts' = attempts \union {[id |-> c, key |-> k, by |-> v, answer |-> "waiting"]}
    /\ wire' = wire \union {c}
    /\ UNCHANGED record

\* Seeded fault: a second click mints a second envelope.
SendAgain(v, k) ==
    \E c \in Commands :
       /\ Writes(v, k) /\ Sendable(k) /\ ~slots[k].sending
       /\ Spend({"sends", "attempts"})
       /\ minted[c] = Nobody /\ \A d \in Commands : minted[d] = Nobody => c <= d
       /\ minted' = [minted EXCEPT ![c] = k]
       /\ slots' = [slots EXCEPT ![k] = [id |-> c, sending |-> TRUE]]
       /\ errors' = [errors EXCEPT ![k] = NoError]
       /\ Begin(v, k, c) /\ Emit(v) /\ UNCHANGED <<board, told>>

\* send(): mints, unless an envelope is retained.
Send(v, k) ==
    \E c \in Commands :
       /\ Writes(v, k) /\ Sendable(k) /\ slots[k] = NoSlot
       /\ Spend({"sends", "attempts"})
       /\ minted[c] = Nobody /\ \A d \in Commands : minted[d] = Nobody => c <= d
       /\ minted' = [minted EXCEPT ![c] = k]
       /\ slots' = [slots EXCEPT ![k] = [id |-> c, sending |-> TRUE]]
       /\ errors' = [errors EXCEPT ![k] = NoError]
       /\ Begin(v, k, c) /\ Emit(v) /\ UNCHANGED <<board, told>>

\* send(), when the envelope breaks one of Core's identity rules.
MintFails(v, k) ==
    /\ Spend({"misfires"}) /\ Writes(v, k) /\ Sendable(k) /\ slots[k] = NoSlot
    /\ errors' = [errors EXCEPT ![k] = NotMinted]
    /\ UNCHANGED slots /\ Emit(v)
    /\ UNCHANGED <<attempts, factoryVars, board, historyVars>>

\* replay(): the retained envelope, never a new one.
Replay(v, k) ==
    /\ Spend({"attempts"}) /\ Writes(v, k) /\ slots[k] # NoSlot /\ ~slots[k].sending
    /\ slots' = [slots EXCEPT ![k].sending = TRUE]
    /\ errors' = [errors EXCEPT ![k] = NoError]
    /\ Begin(v, k, slots[k].id) /\ Emit(v) /\ UNCHANGED <<board, historyVars>>

\* discard(): the user withdraws.  The caller of a sleeping attempt heard already.
Discard(v, k) ==
    /\ Writes(v, k) /\ (slots[k] # NoSlot \/ errors[k] # NoError)
    /\ slots' = [slots EXCEPT ![k] = NoSlot]
    /\ errors' = [errors EXCEPT ![k] = NoError]
    /\ told' = IF slots[k] = NoSlot THEN told
               ELSE [told EXCEPT ![slots[k].id] = "cancelled"]
    /\ Emit(v)
    /\ UNCHANGED <<attempts, budget, factoryVars, board, minted>>

\* clearError() of the composer.
ForgetError(v, k) ==
    /\ Writes(v, k) /\ k \in Controls /\ errors[k] # NoError
    /\ errors' = [errors EXCEPT ![k] = NoError]
    /\ UNCHANGED slots /\ Emit(v)
    /\ UNCHANGED <<attempts, budget, factoryVars, board, historyVars>>

\* prune(), by a gate store's effect when its board changes.
Prune(v) ==
    /\ stores[v].phase = "attached" /\ Owns[v] \intersect Gates # {}
    /\ \E g \in Gates \ board : errors[g] # NoError
    /\ errors' = [k \in Keys |-> IF k \in Gates \ board THEN NoError ELSE errors[k]]
    /\ UNCHANGED slots /\ Emit(v)
    /\ UNCHANGED <<attempts, budget, factoryVars, board, historyVars>>

\* External: a gate becomes answerable, or stops being so.
GateMoves(g) ==
    /\ Spend({"moves"})
    /\ board' = IF g \in board THEN board \ {g} ELSE board \union {g}
    /\ UNCHANGED <<slots, errors, stores, attempts, factoryVars, historyVars>>

-----------------------------------------------------------------------------
(* Factory and the link.                                                   *)

\* The answer travels back to the attempt that waits for it, if one still does.
Reply(c, answers) ==
    \E answer \in answers :
       attempts' = {IF a.id = c /\ a.answer = "waiting" THEN [a EXCEPT !.answer = answer] ELSE a :
                       a \in attempts}

linkVars == <<slots, errors, stores, budget, board, historyVars>>

\* External: Factory reads a request.  A known identity is answered as it stands.
Reads(c) ==
    /\ c \in wire /\ wire' = wire \ {c}
    /\ IF record[c] = "unknown"
       THEN \E decision \in {"pending", "accepted", "rejected"} :
               record' = [record EXCEPT ![c] = decision] /\ Reply(c, {decision})
       ELSE UNCHANGED record /\ Reply(c, {record[c]})
    /\ UNCHANGED linkVars

\* External: Factory answers a Core error and decides nothing.
Excuse(c) ==
    /\ Excuses /\ c \in wire /\ wire' = wire \ {c}
    /\ Reply(c, {"refused"})
    /\ UNCHANGED <<record, linkVars>>

\* External: an admitted command is decided.
Decide(c) ==
    /\ record[c] = "pending"
    /\ \E decision \in {"accepted", "rejected"} : record' = [record EXCEPT ![c] = decision]
    /\ UNCHANGED <<wire, attempts, linkVars>>

\* The request is lost, the reply is, or the rpc times out.
Lose(a) ==
    /\ a.answer # "lost"
    /\ \E dropped \in {{}, {a.id}} : wire' = wire \ dropped
    /\ attempts' = (attempts \ {a}) \union {[a EXCEPT !.answer = "lost"]}
    /\ UNCHANGED <<record, linkVars>>

\* Seeded fault: a lost reply counts as a rejection.
OutcomeOfSilence(answer) == IF answer \in {"lost", "refused"} THEN "rejected" ELSE answer

\* attempt() and #classify(): what a caller hears of an answer.
Outcome(answer) ==
    CASE answer = "lost" -> "unknown"
      [] answer = "refused" -> "rejected"
      [] OTHER -> answer

\* What an attempt settles, when the slot is still its own.
Answered(a, outcome) ==
    /\ slots' = [slots EXCEPT ![a.key] =
                   IF outcome \in {"accepted", "rejected"} \/ @ = NoSlot THEN NoSlot
                   ELSE [@ EXCEPT !.sending = FALSE]]
    /\ errors' = [errors EXCEPT ![a.key] = IF outcome \in {"rejected", "unknown"} THEN a.id ELSE @]
    /\ told' = [told EXCEPT ![a.id] = IF outcome \in {"accepted", "rejected"} THEN outcome ELSE @]
    /\ Emit(a.by)

\* The rest of #attempt(), when the rpc settles.
Settle(a) ==
    /\ a \in attempts /\ a.answer # "waiting" /\ attempts' = attempts \ {a}
    /\ IF slots[a.key].id = a.id THEN Answered(a, Outcome(a.answer))
       ELSE UNCHANGED <<slots, errors, stores, told>>
    /\ UNCHANGED <<budget, factoryVars, board, minted>>

-----------------------------------------------------------------------------
Mounting == \E v \in Stores : Build(v) \/ Attach(v) \/ Detach(v) \/ Abandon(v)
Clicking ==
    \E v \in Stores :
       \/ Prune(v)
       \/ \E k \in Keys : \/ Send(v, k) \/ MintFails(v, k) \/ Replay(v, k)
                          \/ Discard(v, k) \/ ForgetError(v, k)
Serving == \/ \E c \in Commands : Reads(c) \/ Excuse(c) \/ Decide(c)
           \/ \E g \in Gates : GateMoves(g)

Next == \/ Mounting \/ Clicking \/ Serving
        \/ \E a \in attempts : Lose(a) \/ Settle(a)

Spec == Init /\ [][Next]_vars

-----------------------------------------------------------------------------
\* A minted identity is retained until its caller hears that Core decided, or
\* the user withdraws it: nothing else lets go of an envelope that may have
\* been admitted, so no retry mints a second identity for the same action.
RetainedUntilDecided ==
    \A c \in Commands :
       minted[c] # Nobody /\ told[c] = "open" => slots[minted[c]].id = c

\* What a control says of a command is true: one told rejected was never
\* admitted, one told accepted was ("A validated Core rejection is definitive",
\* commands.ts:314), however many replies of it were lost before.
TruthTold ==
    \A c \in Commands :
       /\ told[c] = "rejected" => record[c] \in {"unknown", "rejected"}
       /\ told[c] = "accepted" => record[c] = "accepted"

\* An error under a control is of the last command minted there, not of one
\* whose reply came after the user had gone on to the next.
ErrorOfTheLast ==
    \A k \in Keys : errors[k] \in Commands =>
       /\ minted[errors[k]] = k
       /\ \A c \in Commands : minted[c] = k => c <= errors[k]

\* What a control says is true, and of the command it says it of.
RepliesTold == TruthTold /\ ErrorOfTheLast
=============================================================================
