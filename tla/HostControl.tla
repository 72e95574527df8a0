------------------------------ MODULE HostControl ------------------------------
(***************************************************************************)
(* A control request of the wui-hosted plane, end to end: the tabs'        *)
(* HostTransports (packages/protocol/src/transport.ts), each with its      *)
(* cached CSRF token and its shared mint, and the one CSRFGuard of the     *)
(* process (csrf.go) in front of serve.  Tokens are numbered in the order  *)
(* they are minted, so the process's clock is the number of tokens that    *)
(* are past their lifetime.                                                *)
(***************************************************************************)
EXTENDS Naturals, Sequences, FiniteSets, SequencesExt

CONSTANTS
    Tabs,
    Calls,      \* the control requests a behaviour may make
    TabOf,      \* the tab of each
    Cap,        \* maxCSRFTokens
    Allowances  \* bounds: what one behaviour may do of each thing

Spendable == {"mints", "ages", "restarts", "failures", "aborts"}

ASSUME ControlAssumption ==
    /\ TabOf \in [Calls -> Tabs] /\ Cap \in Nat \ {0}
    /\ Allowances \subseteq [Spendable -> Nat]

VARIABLES
    tokens,     \* CSRFGuard.tokens
    order,      \* CSRFGuard.order
    minted,     \* how many tokens were ever minted
    expired,    \* how many of them are past their lifetime
    cached,     \* cachedCSRFToken of each tab, 0 none
    mint,       \* csrfMintPromise of each tab: none, asked, or its answer
    calls,      \* the requests
    budget,     \* what is left of each bound
    executed    \* history: how often serve ran each request

guardVars == <<tokens, order, minted, expired>>
vars == <<guardVars, cached, mint, calls, budget, executed>>

Token == 1..minted
NoMint == <<>>
Asked == <<0>>

\* `presented` are the tokens of the attempts, newest last; `phase` is where
\* the newest attempt is.
Phases == {"idle", "minting", "sent", "rejected", "served", "ok", "csrf", "failed", "aborted"}
Over == {"ok", "csrf", "failed", "aborted"}
Idle == [phase |-> "idle", presented |-> <<>>]

\* The guard's map and its order list the same tokens, in the order they were
\* minted, and no more than the cap (csrf.go:264-269).
TypeOK ==
    /\ minted \in Nat /\ expired \in 0..minted
    /\ order \in Seq(Token) /\ tokens = {order[i] : i \in 1..Len(order)}
    /\ \A i, j \in 1..Len(order) : i < j => order[i] < order[j]
    /\ Len(order) <= Cap
    /\ cached \in [Tabs -> 0..minted]
    /\ mint \in [Tabs -> {NoMint} \union {<<t>> : t \in 0..minted}]
    /\ \A c \in Calls : /\ calls[c].phase \in Phases
                        /\ calls[c].presented \in Seq(Token) /\ Len(calls[c].presented) <= 2
                        /\ calls[c].phase = "minting" => mint[TabOf[c]] # NoMint
    /\ budget \in [Spendable -> Nat] /\ executed \in [Calls -> Nat]

Init ==
    /\ tokens = {} /\ order = <<>> /\ minted = 0 /\ expired = 0
    /\ cached = [t \in Tabs |-> 0] /\ mint = [t \in Tabs |-> NoMint]
    /\ calls = [c \in Calls |-> Idle]
    /\ budget \in Allowances /\ executed = [c \in Calls |-> 0]

Spend(what) == budget[what] > 0 /\ budget' = [budget EXCEPT ![what] = @ - 1]

-----------------------------------------------------------------------------
(* csrf.go                                                                 *)

Fresh(t) == t > expired

\* verify()
Verify(t) == t \in tokens /\ Fresh(t)

\* evictExpiredLocked(): the order is by age, so the first live one ends it.
EvictExpired(log) == SelectSeq(log, Fresh)

\* evictOldestLocked(): one mint leaves at most one token too many.
EvictOldest(log) == IF Len(log) > Cap THEN Tail(log) ELSE log

\* Mint(), for a tab's GET of the token route.
MintServed(t) ==
    /\ mint[t] = Asked /\ Spend("mints")
    /\ minted' = minted + 1
    /\ order' = EvictOldest(Append(EvictExpired(order), minted + 1))
    /\ tokens' = ToSet(order')
    /\ mint' = [mint EXCEPT ![t] = <<minted + 1>>]
    /\ UNCHANGED <<expired, cached, calls, executed>>

\* Time passes.
Age ==
    /\ Spend("ages") /\ expired < minted
    /\ expired' \in (expired + 1)..minted
    /\ UNCHANGED <<tokens, order, minted, cached, mint, calls, executed>>

\* The host process starts again, with an empty guard.
Restart ==
    /\ Spend("restarts")
    /\ tokens' = {} /\ order' = <<>>
    /\ UNCHANGED <<minted, expired, cached, mint, calls, executed>>

\* Wrap(): rejected before serve sees it, or served, whatever serve says.
Arrive(c) ==
    /\ calls[c].phase = "sent"
    /\ LET valid == Verify(Last(calls[c].presented)) IN
          /\ calls' = [calls EXCEPT ![c].phase = IF valid THEN "served" ELSE "rejected"]
          /\ executed' = [executed EXCEPT ![c] = IF valid THEN @ + 1 ELSE @]
    /\ UNCHANGED <<guardVars, cached, mint, budget>>

-----------------------------------------------------------------------------
(* transport.ts                                                            *)

\* attempt() of postJSON(), from controlHeaders() on: the cached token, or the
\* mint in flight, or a new one.
Attempt(c, cache) ==
    LET t == TabOf[c] IN
    IF cache # 0
    THEN /\ calls' = [calls EXCEPT ![c] = [phase |-> "sent", presented |-> Append(@.presented, cache)]]
         /\ UNCHANGED mint
    ELSE /\ calls' = [calls EXCEPT ![c].phase = "minting"]
         /\ mint' = [mint EXCEPT ![t] = IF @ = NoMint THEN Asked ELSE @]

Start(c) ==
    /\ calls[c].phase = "idle"
    /\ Attempt(c, cached[TabOf[c]])
    /\ UNCHANGED <<guardVars, cached, budget, executed>>

\* mintCSRFToken() resolves: every call that waits for it goes on with its token.
MintArrives(t) ==
    /\ mint[t] \notin {NoMint, Asked}
    /\ LET token == mint[t][1] IN
          /\ cached' = [cached EXCEPT ![t] = token]
          /\ calls' = [c \in Calls |->
                IF TabOf[c] = t /\ calls[c].phase = "minting"
                THEN [phase |-> "sent", presented |-> Append(calls[c].presented, token)]
                ELSE calls[c]]
    /\ mint' = [mint EXCEPT ![t] = NoMint]
    /\ UNCHANGED <<guardVars, budget, executed>>

\* The mint fails for every call that waits for it; the next one starts afresh.
MintFails(t) ==
    /\ mint[t] # NoMint /\ Spend("failures")
    /\ mint' = [mint EXCEPT ![t] = NoMint]
    /\ calls' = [c \in Calls |-> IF TabOf[c] = t /\ calls[c].phase = "minting"
                                 THEN [calls[c] EXCEPT !.phase = "failed"] ELSE calls[c]]
    /\ UNCHANGED <<guardVars, cached, executed>>

\* Seeded fault: beforeCSRFRetry() leaves the cache alone.
RejectedKeepsToken(c) ==
    /\ calls[c].phase = "rejected"
    /\ IF Len(calls[c].presented) < 2
       THEN Attempt(c, cached[TabOf[c]]) /\ UNCHANGED cached
       ELSE calls' = [calls EXCEPT ![c].phase = "csrf"] /\ UNCHANGED <<cached, mint>>
    /\ UNCHANGED <<guardVars, budget, executed>>

\* A CSRFRejectedError: beforeCSRFRetry() and exactly one more attempt.
Rejected(c) ==
    /\ calls[c].phase = "rejected"
    /\ IF Len(calls[c].presented) < 2
       THEN Attempt(c, 0) /\ cached' = [cached EXCEPT ![TabOf[c]] = 0]
       ELSE calls' = [calls EXCEPT ![c].phase = "csrf"] /\ UNCHANGED <<cached, mint>>
    /\ UNCHANGED <<guardVars, budget, executed>>

Served(c) ==
    /\ calls[c].phase = "served"
    /\ calls' = [calls EXCEPT ![c].phase = "ok"]
    /\ UNCHANGED <<guardVars, cached, mint, budget, executed>>

\* The request or its answer is lost: a NetworkError, never retried.
Fails(c) ==
    /\ calls[c].phase \in {"sent", "served", "rejected"} /\ Spend("failures")
    /\ calls' = [calls EXCEPT ![c].phase = "failed"]
    /\ UNCHANGED <<guardVars, cached, mint, executed>>

\* The caller's signal.  abortableWait() leaves the shared mint to the others;
\* a request that was sent may be served all the same, first.
Abort(c) ==
    /\ calls[c].phase \in {"minting", "sent", "served", "rejected"} /\ Spend("aborts")
    /\ calls' = [calls EXCEPT ![c].phase = "aborted"]
    /\ UNCHANGED <<guardVars, cached, mint, executed>>

-----------------------------------------------------------------------------
Next == \/ Age \/ Restart
        \/ \E t \in Tabs : MintServed(t) \/ MintArrives(t) \/ MintFails(t)
        \/ \E c \in Calls : \/ Start(c) \/ Arrive(c) \/ Rejected(c) \/ Served(c)
                            \/ Fails(c) \/ Abort(c)

Spec == Init /\ [][Next]_vars

-----------------------------------------------------------------------------
\* The one retry is safe, and worth it (transport.ts:389-397).  However the
\* requests of a tab share its token and its mint, serve runs each at most once,
\* ran one whose caller was told it succeeded, and none that failed for its token;
\* and that happens only after two different tokens were refused, so no rejection
\* another request is dealing with makes the retry present the dead one again.
RetryIsSafe ==
    \A c \in Calls :
        /\ executed[c] <= 1
        /\ calls[c].phase = "ok" => executed[c] = 1
        /\ calls[c].phase = "csrf" => executed[c] = 0 /\ Len(calls[c].presented) = 2
        /\ Len(calls[c].presented) = 2 => calls[c].presented[1] < calls[c].presented[2]
=============================================================================
