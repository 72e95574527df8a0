---------------------------- MODULE WuiHost_proofs ----------------------------
(***************************************************************************)
(* Proofs about the two parts of the wui host.                             *)
(*                                                                         *)
(* The control requests of the web app's pages, for any number of tabs,    *)
(* requests, tokens and texts: the one retry is safe, and for a guard that *)
(* may forget any token at any time (nothing is assumed of its map); a     *)
(* text sent from the new-session form makes one session; a gate's card    *)
(* never lies about who answered it.                                       *)
(*                                                                         *)
(* What a release may leave behind, for any builds, any tree committed at  *)
(* first that is fit, and any number of releases, signals, writes by       *)
(* commands and crashes.                                                   *)
(***************************************************************************)
EXTENDS WuiHost, TLAPS


Presented(c) == calls[c].presented

ControlTypes ==
    /\ minted \in Nat
    /\ cached \in [Tabs -> Nat]
    /\ mint \in [Tabs -> {NoMint} \union {<<t>> : t \in Nat}]
    /\ calls \in [Calls -> [phase : Phases, presented : Seq(Nat)]]
    /\ executed \in [Calls -> Nat]

\* No tab has seen a token that was not minted.
TokensAreMinted ==
    /\ \A t \in Tabs : cached[t] <= minted /\ (mint[t] # NoMint => mint[t][1] <= minted)
    /\ \A c \in Calls : \A i \in 1..Len(Presented(c)) : Presented(c)[i] <= minted

\* A token on its way to a tab is newer than every token the tab has used.
AnswerIsNewer ==
    \A t \in Tabs : mint[t] \notin {NoMint, Asked} =>
        /\ cached[t] < mint[t][1]
        /\ \A c \in Calls : TabOf[c] = t =>
              \A i \in 1..Len(Presented(c)) : Presented(c)[i] < mint[t][1]

\* A request asks for its second token only after its first was refused.
PhaseOfAttempt ==
    \A c \in Calls :
        /\ Len(Presented(c)) <= 2
        /\ calls[c].phase = "idle" => Len(Presented(c)) = 0
        /\ calls[c].phase = "minting" => Len(Presented(c)) <= 1
        /\ calls[c].phase = "csrf" => Len(Presented(c)) = 2
        /\ Len(Presented(c)) = 2 => Presented(c)[1] < Presented(c)[2]

\* serve has run a request exactly when its answer is under way or was told.
RunOnlyWhenServed ==
    \A c \in Calls :
        /\ executed[c] <= 1
        /\ calls[c].phase \in {"idle", "minting", "sent", "rejected", "csrf"} => executed[c] = 0
        /\ calls[c].phase \in {"served", "ok"} => executed[c] = 1

\* RetryIsSafe is not inductive alone: two tokens of a request differ because
\* whatever mint it waits for is newer than what it presented.
ControlInv ==
    /\ ControlTypes
    /\ TokensAreMinted
    /\ AnswerIsNewer
    /\ PhaseOfAttempt
    /\ RunOnlyWhenServed

LEMMA InitControl == Init => ControlInv
  BY DEF Init, ControlInv, ControlTypes, TokensAreMinted, AnswerIsNewer, PhaseOfAttempt,
         RunOnlyWhenServed, Presented, Idle, NoMint, Asked, Phases

LEMMA AppendNat ==
  ASSUME NEW s \in Seq(Nat), NEW n \in Nat
  PROVE  /\ Append(s, n) \in Seq(Nat) /\ Len(Append(s, n)) = Len(s) + 1
         /\ \A i \in 1..Len(s) : Append(s, n)[i] = s[i]
         /\ Append(s, n)[Len(s) + 1] = n
  OBVIOUS

\* A step that moves one request's phase, and nothing of a tab.
MovesOne(c, phase, runs) ==
    /\ calls' = [calls EXCEPT ![c].phase = phase]
    /\ executed' = [executed EXCEPT ![c] = runs]
    /\ UNCHANGED <<minted, cached, mint>>

Fits(c, phase, runs) ==
    /\ phase \in Phases \ {"idle", "minting"} /\ runs \in {0, 1}
    /\ phase = "csrf" => Len(Presented(c)) = 2
    /\ phase \in {"sent", "rejected", "csrf"} => runs = 0
    /\ phase \in {"served", "ok"} => runs = 1

LEMMA OnePhase ==
  ASSUME ControlInv, NEW c \in Calls, NEW phase, NEW runs,
         MovesOne(c, phase, runs), Fits(c, phase, runs)
  PROVE  ControlInv'
<1>1. /\ calls' \in [Calls -> [phase : Phases, presented : Seq(Nat)]]
      /\ \A d \in Calls : Presented(d)' = Presented(d)
      /\ calls'[c].phase = phase
      /\ \A d \in Calls \ {c} : calls'[d] = calls[d]
  BY DEF ControlInv, ControlTypes, Presented, MovesOne, Fits
<1>2. /\ executed' \in [Calls -> Nat] /\ executed'[c] = runs
      /\ \A d \in Calls \ {c} : executed'[d] = executed[d]
  BY DEF ControlInv, ControlTypes, MovesOne, Fits
<1>3. ControlTypes' /\ TokensAreMinted' /\ AnswerIsNewer'
  BY <1>1, <1>2 DEF ControlInv, ControlTypes, TokensAreMinted, AnswerIsNewer, MovesOne
<1>4. PhaseOfAttempt'
  BY <1>1 DEF ControlInv, PhaseOfAttempt, Fits
<1>5. RunOnlyWhenServed'
  <2> SUFFICES ASSUME NEW d \in Calls
               PROVE  /\ executed'[d] <= 1
                      /\ calls'[d].phase \in {"idle", "minting", "sent", "rejected", "csrf"} => executed'[d] = 0
                      /\ calls'[d].phase \in {"served", "ok"} => executed'[d] = 1
    BY DEF RunOnlyWhenServed
  <2>1. CASE d = c
    BY <1>1, <1>2, <2>1 DEF Fits
  <2>2. CASE d # c
    BY <1>1, <1>2, <2>2 DEF ControlInv, RunOnlyWhenServed
  <2> QED BY <2>1, <2>2
<1> QED BY <1>3, <1>4, <1>5 DEF ControlInv

\* What tabs know and requests did, when only the guard moves.
LEMMA GuardMoves ==
  ASSUME ControlInv, UNCHANGED <<minted, cached, mint, calls, executed>>
  PROVE  ControlInv'
  BY DEF ControlInv, ControlTypes, TokensAreMinted, AnswerIsNewer, PhaseOfAttempt,
         RunOnlyWhenServed, Presented

LEMMA MintServedSafe ==
  ASSUME ControlInv, NEW t \in Tabs, MintServed(t)
  PROVE  ControlInv'
<1>1. /\ minted' = minted + 1 /\ mint' = [mint EXCEPT ![t] = <<minted + 1>>]
      /\ UNCHANGED <<cached, calls, executed>>
  BY DEF MintServed
<1>2. ControlTypes'
  BY <1>1 DEF ControlInv, ControlTypes
<1>3. \A u \in Tabs : mint'[u] = IF u = t THEN <<minted + 1>> ELSE mint[u]
  BY <1>1 DEF ControlInv, ControlTypes
<1>4. \A d \in Calls : \A i \in 1..Len(Presented(d)) : Presented(d)[i] \in Nat
  BY DEF ControlInv, ControlTypes, Presented
<1>5. TokensAreMinted' /\ AnswerIsNewer'
  <2>1. minted \in Nat /\ \A u \in Tabs : cached[u] \in Nat
    BY DEF ControlInv, ControlTypes
  <2>2. \A u \in Tabs : mint[u] # NoMint => mint[u][1] \in Nat
    BY DEF ControlInv, ControlTypes
  <2>3. ASSUME NEW u \in Tabs
        PROVE  /\ cached'[u] <= minted' /\ (mint'[u] # NoMint => mint'[u][1] <= minted')
               /\ mint'[u] \notin {NoMint, Asked} => cached'[u] < mint'[u][1]
    <3>1. CASE u = t
      BY <1>1, <1>3, <2>1, <3>1 DEF ControlInv, TokensAreMinted
    <3>2. CASE u # t
      BY <1>1, <1>3, <2>1, <2>2, <3>2 DEF ControlInv, TokensAreMinted, AnswerIsNewer
    <3> QED BY <3>1, <3>2
  <2>4. ASSUME NEW d \in Calls, NEW i \in 1..Len(Presented(d))
        PROVE  /\ Presented(d)[i] <= minted /\ Presented(d)[i] < minted + 1
               /\ \A u \in Tabs : TabOf[d] = u /\ mint'[u] \notin {NoMint, Asked}
                     => Presented(d)[i] < mint'[u][1]
    <3>1. Presented(d)[i] <= minted /\ Presented(d)[i] \in Nat
      BY <1>4 DEF ControlInv, TokensAreMinted
    <3>2. \A u \in Tabs \ {t} : TabOf[d] = u /\ mint'[u] \notin {NoMint, Asked}
             => Presented(d)[i] < mint'[u][1]
      BY <1>3 DEF ControlInv, AnswerIsNewer
    <3> QED BY <1>3, <2>1, <3>1, <3>2
  <2>5. \A d \in Calls : Presented(d)' = Presented(d)
    BY <1>1 DEF Presented
  <2>6. TokensAreMinted'
    BY <1>1, <2>1, <2>3, <2>4, <2>5, <1>4 DEF TokensAreMinted
  <2>7. AnswerIsNewer'
    BY <2>3, <2>4, <2>5 DEF AnswerIsNewer
  <2> QED BY <2>6, <2>7
<1>6. PhaseOfAttempt' /\ RunOnlyWhenServed'
  BY <1>1 DEF ControlInv, PhaseOfAttempt, RunOnlyWhenServed, Presented
<1> QED BY <1>2, <1>5, <1>6 DEF ControlInv

\* A request asks for a token: the one in flight, or a new one.
LEMMA AsksForToken ==
  ASSUME ControlInv, NEW c \in Calls, Len(Presented(c)) <= 1,
         calls[c].phase \in {"idle", "rejected"},
         calls' = [calls EXCEPT ![c].phase = "minting"],
         mint' = [mint EXCEPT ![TabOf[c]] = IF @ = NoMint THEN Asked ELSE @],
         cached' = cached \/ cached' = [cached EXCEPT ![TabOf[c]] = 0],
         UNCHANGED <<minted, executed>>
  PROVE  ControlInv'
<1>1. /\ calls' \in [Calls -> [phase : Phases, presented : Seq(Nat)]]
      /\ \A d \in Calls : Presented(d)' = Presented(d)
      /\ calls'[c].phase = "minting"
      /\ \A d \in Calls \ {c} : calls'[d] = calls[d]
  <2> DEFINE asking == [calls[c] EXCEPT !.phase = "minting"]
  <2>1. calls \in [Calls -> [phase : Phases, presented : Seq(Nat)]] /\ "minting" \in Phases
    BY DEF ControlInv, ControlTypes, Phases
  <2>2. /\ asking \in [phase : Phases, presented : Seq(Nat)]
        /\ asking.phase = "minting" /\ asking.presented = calls[c].presented
    BY <2>1
  <2>3. calls' = [calls EXCEPT ![c] = asking]
    OBVIOUS
  <2> HIDE DEF asking
  <2>4. /\ calls' \in [Calls -> [phase : Phases, presented : Seq(Nat)]]
        /\ calls'[c] = asking /\ \A d \in Calls \ {c} : calls'[d] = calls[d]
    BY <2>1, <2>2, <2>3
  <2>5. ASSUME NEW d \in Calls PROVE Presented(d)' = Presented(d)
    <3>1. CASE d = c
      BY <2>2, <2>4, <3>1 DEF Presented
    <3>2. CASE d # c
      BY <2>4, <3>2 DEF Presented
    <3> QED BY <3>1, <3>2
  <2> QED BY <2>2, <2>4, <2>5
<1>2. /\ mint' \in [Tabs -> {NoMint} \union {<<t>> : t \in Nat}]
      /\ cached' \in [Tabs -> Nat]
      /\ \A t \in Tabs : cached'[t] <= cached[t]
      /\ \A t \in Tabs : mint'[t] = mint[t] \/ mint'[t] = Asked
  <2>1. mint \in [Tabs -> {NoMint} \union {<<t>> : t \in Nat}] /\ cached \in [Tabs -> Nat]
    BY DEF ControlInv, ControlTypes
  <2>2. Asked \in {<<t>> : t \in Nat}
    BY DEF Asked
  <2>3. \A t \in Tabs : cached'[t] \in Nat /\ cached'[t] <= cached[t]
    BY <2>1
  <2> QED BY <2>1, <2>2, <2>3
<1>3. ControlTypes'
  BY <1>1, <1>2 DEF ControlInv, ControlTypes
<1>4. TokensAreMinted'
  BY <1>1, <1>2 DEF ControlInv, ControlTypes, TokensAreMinted, Asked, NoMint
<1>5. AnswerIsNewer'
  <2> SUFFICES ASSUME NEW t \in Tabs, mint'[t] \notin {NoMint, Asked}
               PROVE  /\ cached'[t] < mint'[t][1]
                      /\ \A d \in Calls : TabOf[d] = t =>
                            \A i \in 1..Len(Presented(d)) : Presented(d)[i] < mint'[t][1]
    BY <1>1 DEF AnswerIsNewer
  <2>1. mint'[t] = mint[t]
    BY <1>2
  <2>2. cached[t] < mint[t][1] /\ mint[t][1] \in Nat /\ cached[t] \in Nat /\ cached'[t] \in Nat
    BY <2>1, <1>2 DEF ControlInv, ControlTypes, AnswerIsNewer
  <2> QED BY <2>1, <2>2, <1>2 DEF ControlInv, AnswerIsNewer
<1>6. PhaseOfAttempt' /\ RunOnlyWhenServed'
  BY <1>1 DEF ControlInv, PhaseOfAttempt, RunOnlyWhenServed
<1> QED BY <1>3, <1>4, <1>5, <1>6 DEF ControlInv

\* A first attempt with the token the tab has.
LEMMA PresentsCached ==
  ASSUME ControlInv, NEW c \in Calls, calls[c].phase = "idle", cached[TabOf[c]] # 0,
         calls' = [calls EXCEPT ![c] = [phase |-> "sent",
                                        presented |-> Append(@.presented, cached[TabOf[c]])]],
         UNCHANGED <<minted, cached, mint, executed>>
  PROVE  ControlInv'
<1> DEFINE token == cached[TabOf[c]]
<1>1. /\ Presented(c) \in Seq(Nat) /\ Len(Presented(c)) = 0 /\ token \in Nat
      /\ TabOf[c] \in Tabs
  BY ControlAssumption DEF ControlInv, ControlTypes, PhaseOfAttempt, Presented
<1>2. /\ calls' \in [Calls -> [phase : Phases, presented : Seq(Nat)]]
      /\ calls'[c].phase = "sent" /\ Presented(c)' = Append(Presented(c), token)
      /\ \A d \in Calls \ {c} : calls'[d] = calls[d] /\ Presented(d)' = Presented(d)
  BY <1>1, AppendNat DEF ControlInv, ControlTypes, Presented, Phases
<1>3. Len(Presented(c)') = 1 /\ \A i \in 1..Len(Presented(c)') : Presented(c)'[i] = token
  BY <1>1, <1>2, AppendNat
<1>4. ControlTypes'
  BY <1>2 DEF ControlInv, ControlTypes
<1>5. TokensAreMinted'
  BY <1>1, <1>2, <1>3 DEF ControlInv, TokensAreMinted
<1>6. AnswerIsNewer'
  <2> SUFFICES ASSUME NEW t \in Tabs, mint[t] \notin {NoMint, Asked}
               PROVE  /\ cached[t] < mint[t][1]
                      /\ \A d \in Calls : TabOf[d] = t =>
                            \A i \in 1..Len(Presented(d)') : Presented(d)'[i] < mint[t][1]
    BY DEF AnswerIsNewer
  <2>1. cached[t] < mint[t][1]
    BY DEF ControlInv, AnswerIsNewer
  <2>2. ASSUME NEW d \in Calls, TabOf[d] = t, NEW i \in 1..Len(Presented(d)')
        PROVE  Presented(d)'[i] < mint[t][1]
    <3>1. CASE d = c
      BY <1>3, <2>1, <2>2, <3>1
    <3>2. CASE d # c
      BY <1>2, <2>2, <3>2 DEF ControlInv, AnswerIsNewer
    <3> QED BY <3>1, <3>2
  <2> QED BY <2>1, <2>2
<1>7. PhaseOfAttempt'
  BY <1>2, <1>3 DEF ControlInv, PhaseOfAttempt
<1>8. RunOnlyWhenServed'
  BY <1>2 DEF ControlInv, RunOnlyWhenServed
<1> QED BY <1>4, <1>5, <1>6, <1>7, <1>8 DEF ControlInv

LEMMA StartSafe ==
  ASSUME ControlInv, NEW c \in Calls, Start(c)
  PROVE  ControlInv'
<1>1. calls[c].phase = "idle" /\ Len(Presented(c)) = 0 /\ UNCHANGED <<minted, cached, executed>>
  BY DEF Start, guardVars, ControlInv, PhaseOfAttempt
<1>2. CASE cached[TabOf[c]] # 0
  BY <1>1, <1>2, PresentsCached DEF Start, Attempt
<1>3. CASE cached[TabOf[c]] = 0
  <2>1. Len(Presented(c)) <= 1
    BY <1>1
  <2> QED BY <1>1, <1>3, <2>1, AsksForToken DEF Start, Attempt
<1> QED BY <1>2, <1>3

LEMMA RejectedSafe ==
  ASSUME ControlInv, NEW c \in Calls, Rejected(c)
  PROVE  ControlInv'
<1>1. /\ calls[c].phase = "rejected" /\ UNCHANGED <<minted, executed>>
      /\ Presented(c) \in Seq(Nat) /\ executed \in [Calls -> Nat] /\ executed[c] = 0
  BY DEF Rejected, guardVars, ControlInv, ControlTypes, RunOnlyWhenServed, Presented
<1>2. CASE Len(Presented(c)) < 2
  <2>1. Len(Presented(c)) <= 1
    BY <1>1, <1>2
  <2>2. /\ calls' = [calls EXCEPT ![c].phase = "minting"]
        /\ mint' = [mint EXCEPT ![TabOf[c]] = IF @ = NoMint THEN Asked ELSE @]
        /\ cached' = [cached EXCEPT ![TabOf[c]] = 0]
    BY <1>2 DEF Rejected, Attempt, Presented
  <2> QED BY <1>1, <2>1, <2>2, AsksForToken
<1>3. CASE ~(Len(Presented(c)) < 2)
  <2>1. Len(Presented(c)) = 2
    <3>1. Len(Presented(c)) \in Nat
      BY <1>1
    <3>2. Len(Presented(c)) <= 2
      BY DEF ControlInv, PhaseOfAttempt
    <3> DEFINE n == Len(Presented(c))
    <3> HIDE DEF n
    <3>3. n \in Nat /\ n <= 2 /\ ~(n < 2)
      BY <1>3, <3>1, <3>2 DEF n
    <3>4. n = 2
      BY <3>3
    <3> QED BY <3>4 DEF n
  <2>2. MovesOne(c, "csrf", 0)
    BY <1>1, <1>3 DEF Rejected, Presented, MovesOne
  <2>3. Fits(c, "csrf", 0)
    BY <2>1 DEF Fits, Phases
  <2> QED BY <2>2, <2>3, OnePhase
<1> QED BY <1>2, <1>3

LEMMA ArriveSafe ==
  ASSUME ControlInv, NEW c \in Calls, Arrive(c)
  PROVE  ControlInv'
<1>1. PICK valid \in BOOLEAN :
        /\ calls' = [calls EXCEPT ![c].phase = IF valid THEN "served" ELSE "rejected"]
        /\ executed' = [executed EXCEPT ![c] = IF valid THEN @ + 1 ELSE @]
  BY DEF Arrive, Verify, Fresh
<1>2. /\ UNCHANGED <<minted, cached, mint>>
      /\ executed' = [executed EXCEPT ![c] = IF valid THEN 1 ELSE 0]
  <2>1. executed[c] = 0 /\ UNCHANGED <<minted, cached, mint>>
    BY DEF Arrive, guardVars, ControlInv, RunOnlyWhenServed
  <2> QED BY <1>1, <2>1
<1>3. CASE valid
  <2>1. MovesOne(c, "served", 1) /\ Fits(c, "served", 1)
    BY <1>1, <1>2, <1>3 DEF MovesOne, Fits, Phases
  <2> QED BY <2>1, OnePhase
<1>4. CASE ~valid
  <2>1. MovesOne(c, "rejected", 0) /\ Fits(c, "rejected", 0)
    BY <1>1, <1>2, <1>4 DEF MovesOne, Fits, Phases
  <2> QED BY <2>1, OnePhase
<1> QED BY <1>3, <1>4

LEMMA EndSafe ==
  ASSUME ControlInv, NEW c \in Calls, Served(c) \/ Fails(c) \/ Abort(c)
  PROVE  ControlInv'
<1>1. /\ UNCHANGED <<minted, cached, mint, executed>> /\ executed \in [Calls -> Nat]
      /\ executed[c] \in {0, 1}
  BY DEF Served, Fails, Abort, guardVars, ControlInv, ControlTypes, RunOnlyWhenServed
<1>2. executed' = [executed EXCEPT ![c] = executed[c]]
  BY <1>1
<1>3. CASE Served(c)
  <2>1. executed[c] = 1
    BY <1>3 DEF Served, ControlInv, RunOnlyWhenServed
  <2>2. MovesOne(c, "ok", executed[c]) /\ Fits(c, "ok", executed[c])
    BY <1>1, <1>2, <1>3, <2>1 DEF Served, MovesOne, Fits, Phases
  <2> QED BY <2>2, OnePhase
<1>4. CASE Fails(c)
  <2>1. MovesOne(c, "failed", executed[c]) /\ Fits(c, "failed", executed[c])
    BY <1>1, <1>2, <1>4 DEF Fails, MovesOne, Fits, Phases
  <2> QED BY <2>1, OnePhase
<1>5. CASE Abort(c)
  <2>1. MovesOne(c, "aborted", executed[c]) /\ Fits(c, "aborted", executed[c])
    BY <1>1, <1>2, <1>5 DEF Abort, MovesOne, Fits, Phases
  <2> QED BY <2>1, OnePhase
<1> QED BY <1>3, <1>4, <1>5

\* The shared mint is answered: every request that waits presents its token,
\* which is newer than what it presented before.
LEMMA MintArrivesSafe ==
  ASSUME ControlInv, NEW t \in Tabs, MintArrives(t)
  PROVE  ControlInv'
<1> DEFINE token == mint[t][1]
           Waits(c) == TabOf[c] = t /\ calls[c].phase = "minting"
<1>1. /\ mint[t] \notin {NoMint, Asked} /\ token \in Nat /\ token <= minted /\ minted \in Nat
      /\ cached' = [cached EXCEPT ![t] = token] /\ mint' = [mint EXCEPT ![t] = NoMint]
      /\ UNCHANGED <<minted, executed>>
  BY DEF MintArrives, guardVars, ControlInv, ControlTypes, TokensAreMinted
<1>2. calls' = [c \in Calls |-> IF Waits(c)
                                THEN [phase |-> "sent", presented |-> Append(calls[c].presented, token)]
                                ELSE calls[c]]
  BY DEF MintArrives
<1>3. \A c \in Calls : Presented(c) \in Seq(Nat) /\ calls[c].phase \in Phases
  BY DEF ControlInv, ControlTypes, Presented
<1>4. ASSUME NEW c \in Calls, Waits(c)
      PROVE  /\ calls'[c] \in [phase : Phases, presented : Seq(Nat)]
             /\ calls'[c].phase = "sent"
             /\ Len(Presented(c)) <= 1 /\ Len(Presented(c)') = Len(Presented(c)) + 1
             /\ \A i \in 1..Len(Presented(c)) : /\ Presented(c)'[i] = Presented(c)[i]
                                                /\ Presented(c)[i] < token
             /\ Presented(c)'[Len(Presented(c)) + 1] = token
  <2>1. calls'[c] = [phase |-> "sent", presented |-> Append(Presented(c), token)]
    BY <1>2, <1>4 DEF Presented
  <2>2. Len(Presented(c)) <= 1
    BY <1>4 DEF ControlInv, PhaseOfAttempt
  <2>3. \A i \in 1..Len(Presented(c)) : Presented(c)[i] < token
    BY <1>1, <1>4 DEF ControlInv, AnswerIsNewer
  <2> QED BY <1>1, <1>3, <2>1, <2>2, <2>3, AppendNat DEF Presented, Phases
<1>5. \A c \in Calls : ~Waits(c) => calls'[c] = calls[c] /\ Presented(c)' = Presented(c)
  BY <1>2 DEF Presented
<1>6. ControlTypes'
  <2>1. calls' \in [Calls -> [phase : Phases, presented : Seq(Nat)]]
    BY <1>2, <1>4, <1>5 DEF ControlInv, ControlTypes
  <2> QED BY <1>1, <2>1 DEF ControlInv, ControlTypes
<1>7. TokensAreMinted'
  <2>1. ASSUME NEW c \in Calls, NEW i \in 1..Len(Presented(c)') PROVE Presented(c)'[i] <= minted
    <3>1. CASE ~Waits(c)
      BY <1>5, <2>1, <3>1 DEF ControlInv, TokensAreMinted
    <3>2. CASE Waits(c)
      <4>1. CASE i = Len(Presented(c)) + 1
        BY <1>1, <1>4, <3>2, <4>1
      <4>2. CASE i # Len(Presented(c)) + 1
        <5>1. i \in 1..Len(Presented(c))
          BY <1>3, <1>4, <2>1, <3>2, <4>2
        <5> QED BY <1>4, <3>2, <5>1 DEF ControlInv, TokensAreMinted
      <4> QED BY <4>1, <4>2
    <3> QED BY <3>1, <3>2
  <2>2. \A u \in Tabs : cached'[u] <= minted /\ (mint'[u] # NoMint => mint'[u][1] <= minted)
    BY <1>1 DEF ControlInv, ControlTypes, TokensAreMinted
  <2> QED BY <1>1, <2>1, <2>2 DEF TokensAreMinted
<1>8. AnswerIsNewer'
  <2> SUFFICES ASSUME NEW u \in Tabs, mint'[u] \notin {NoMint, Asked}
               PROVE  /\ cached'[u] < mint'[u][1]
                      /\ \A c \in Calls : TabOf[c] = u =>
                            \A i \in 1..Len(Presented(c)') : Presented(c)'[i] < mint'[u][1]
    BY DEF AnswerIsNewer
  <2>1. u # t /\ mint'[u] = mint[u] /\ cached'[u] = cached[u]
    BY <1>1 DEF ControlInv, ControlTypes
  <2>2. \A c \in Calls : TabOf[c] = u => Presented(c)' = Presented(c)
    BY <1>5, <2>1
  <2> QED BY <2>1, <2>2 DEF ControlInv, AnswerIsNewer
<1>9. PhaseOfAttempt'
  <2> SUFFICES ASSUME NEW c \in Calls
               PROVE  /\ Len(Presented(c)') <= 2
                      /\ calls'[c].phase = "idle" => Len(Presented(c)') = 0
                      /\ calls'[c].phase = "minting" => Len(Presented(c)') <= 1
                      /\ calls'[c].phase = "csrf" => Len(Presented(c)') = 2
                      /\ Len(Presented(c)') = 2 => Presented(c)'[1] < Presented(c)'[2]
    BY DEF PhaseOfAttempt
  <2>1. CASE Waits(c)
    <3>1. Len(Presented(c)) \in Nat
      BY <1>3
    <3> QED BY <1>4, <2>1, <3>1
  <2>2. CASE ~Waits(c)
    BY <1>5, <2>2 DEF ControlInv, PhaseOfAttempt
  <2> QED BY <2>1, <2>2
<1>10. RunOnlyWhenServed'
  BY <1>1, <1>4, <1>5 DEF ControlInv, RunOnlyWhenServed
<1> QED BY <1>6, <1>7, <1>8, <1>9, <1>10 DEF ControlInv

LEMMA MintFailsSafe ==
  ASSUME ControlInv, NEW t \in Tabs, MintFails(t)
  PROVE  ControlInv'
<1>1. /\ mint' = [mint EXCEPT ![t] = NoMint] /\ UNCHANGED <<minted, cached, executed>>
  BY DEF MintFails, guardVars
<1>2. \A c \in Calls : /\ Presented(c)' = Presented(c)
                       /\ calls'[c] \in [phase : Phases, presented : Seq(Nat)]
                       /\ calls'[c].phase = calls[c].phase \/ calls'[c].phase = "failed"
  BY DEF MintFails, ControlInv, ControlTypes, Presented, Phases
<1>3. calls' \in [Calls -> [phase : Phases, presented : Seq(Nat)]]
  BY <1>2 DEF MintFails
<1>4. /\ mint' \in [Tabs -> {NoMint} \union {<<u>> : u \in Nat}]
      /\ \A u \in Tabs : mint'[u] = mint[u] \/ mint'[u] = NoMint
  BY <1>1 DEF ControlInv, ControlTypes
<1>5. ControlTypes'
  BY <1>1, <1>3, <1>4 DEF ControlInv, ControlTypes
<1>6. TokensAreMinted' /\ AnswerIsNewer'
  BY <1>1, <1>2, <1>4 DEF ControlInv, TokensAreMinted, AnswerIsNewer
<1>7. PhaseOfAttempt' /\ RunOnlyWhenServed'
  BY <1>1, <1>2 DEF ControlInv, PhaseOfAttempt, RunOnlyWhenServed
<1> QED BY <1>5, <1>6, <1>7 DEF ControlInv

LEMMA ControlStep ==
  ASSUME ControlInv, [Next]_vars
  PROVE  ControlInv'
<1>1. CASE Age \/ Restart
  BY <1>1, GuardMoves DEF Age, Restart
<1>2. CASE \E t \in Tabs : MintServed(t) \/ MintArrives(t) \/ MintFails(t)
  BY <1>2, MintServedSafe, MintArrivesSafe, MintFailsSafe
<1>3. CASE \E c \in Calls : Start(c) \/ Arrive(c) \/ Rejected(c) \/ Served(c) \/ Fails(c) \/ Abort(c)
  BY <1>3, StartSafe, ArriveSafe, RejectedSafe, EndSafe
<1>4. CASE UNCHANGED vars
  BY <1>4, GuardMoves DEF vars, guardVars
<1> QED BY <1>1, <1>2, <1>3, <1>4 DEF Next

\* The one retry is safe, however many requests share a tab's token and its
\* mint and whatever the guard forgets (transport.ts:389-397, csrf.go:264-269).
THEOREM RetriesSafely == Spec => []RetryIsSafe
<1>1. ControlInv => RetryIsSafe
  BY DEF ControlInv, PhaseOfAttempt, RunOnlyWhenServed, RetryIsSafe, Presented
<1> QED BY InitControl, ControlStep, <1>1, PTL DEF Spec

-----------------------------------------------------------------------------
(* The pages over the requests.                                            *)

InFlight == {"minting", "sent", "rejected", "served"}
PhaseOf(c) == calls[c].phase

LEMMA PhasesSplit == Phases \ ({"idle"} \union Over) = InFlight
  BY DEF Phases, Over, InFlight

\* What a request may do of itself: not start, not be served, not be told.
Advances(c) ==
    \/ PhaseOf(c)' = PhaseOf(c)
    \/ /\ PhaseOf(c) \in InFlight
       /\ PhaseOf(c)' \in {"minting", "sent", "rejected", "csrf", "failed", "aborted"}
       /\ PhaseOf(c)' = "aborted" => kind[c] = "other"
       /\ PhaseOf(c) = "served" => PhaseOf(c)' \in {"failed", "aborted"}

\* A step no page takes part in.
Elsewhere ==
    /\ \/ Age \/ Restart
       \/ \E t \in Tabs : MintServed(t) \/ MintArrives(t) \/ MintFails(t)
       \/ \E c \in Calls : Rejected(c) \/ Fails(c) \/ (kind[c] = "other" /\ Abort(c))
    /\ UNCHANGED pageVars

LEMMA ElsewhereAdvances ==
  ASSUME ControlInv, Elsewhere
  PROVE  \A c \in Calls : Advances(c)
<1>1. calls \in [Calls -> [phase : Phases, presented : Seq(Nat)]]
  BY DEF ControlInv, ControlTypes
<1>2. CASE UNCHANGED calls
  BY <1>2 DEF Advances, PhaseOf
<1>3. CASE Age \/ Restart \/ \E t \in Tabs : MintServed(t)
  BY <1>2, <1>3 DEF Age, Restart, MintServed
<1>4. ASSUME NEW t \in Tabs, MintArrives(t)
      PROVE  \A c \in Calls : Advances(c)
  BY <1>1, <1>4 DEF MintArrives, Advances, PhaseOf, InFlight
<1>5. ASSUME NEW t \in Tabs, MintFails(t)
      PROVE  \A c \in Calls : Advances(c)
  BY <1>1, <1>5 DEF MintFails, Advances, PhaseOf, InFlight
<1>6. ASSUME NEW c \in Calls, Rejected(c)
      PROVE  \A d \in Calls : Advances(d)
  <2>1. calls[c].phase = "rejected" /\ \/ calls' = [calls EXCEPT ![c].phase = "minting"]
                                       \/ calls' = [calls EXCEPT ![c].phase = "csrf"]
    BY <1>6 DEF Rejected, Attempt
  <2>2. calls'[c].phase \in {"minting", "csrf"} /\ \A d \in Calls \ {c} : calls'[d] = calls[d]
    BY <1>1, <2>1
  <2> QED BY <2>1, <2>2 DEF Advances, PhaseOf, InFlight
<1>7. ASSUME NEW c \in Calls, Fails(c)
      PROVE  \A d \in Calls : Advances(d)
  BY <1>1, <1>7 DEF Fails, Advances, PhaseOf, InFlight
<1>8. ASSUME NEW c \in Calls, kind[c] = "other", Abort(c)
      PROVE  \A d \in Calls : Advances(d)
  BY <1>1, <1>8 DEF Abort, Advances, PhaseOf, InFlight
<1> QED BY <1>3, <1>4, <1>5, <1>6, <1>7, <1>8 DEF Elsewhere

\* The steps of a page move one request.
LEMMA PageMoves ==
  ASSUME ControlInv, NEW c \in Calls, Start(c) \/ Arrive(c) \/ Served(c)
  PROVE  /\ \A d \in Calls \ {c} : PhaseOf(d)' = PhaseOf(d)
         /\ Start(c) => PhaseOf(c) = "idle" /\ PhaseOf(c)' \in {"minting", "sent"}
         /\ Arrive(c) => PhaseOf(c) = "sent" /\ PhaseOf(c)' \in {"served", "rejected"}
         /\ Served(c) => PhaseOf(c) = "served" /\ PhaseOf(c)' = "ok"
<1>1. calls \in [Calls -> [phase : Phases, presented : Seq(Nat)]]
  BY DEF ControlInv, ControlTypes
<1>2. CASE Start(c)
  BY <1>1, <1>2 DEF Start, Attempt, Arrive, Served, PhaseOf
<1>3. CASE Arrive(c)
  BY <1>1, <1>3 DEF Start, Arrive, Served, PhaseOf
<1>4. CASE Served(c)
  BY <1>1, <1>4 DEF Start, Arrive, Served, PhaseOf
<1> QED BY <1>2, <1>3, <1>4

\* What the pages do is what HostControl's requests do, and no more.
LEMMA PageStep ==
  ASSUME [PageNext]_<<vars, pageVars>>
  PROVE  [Next]_vars
<1>1. CASE \E t \in Tabs : Fold(t)
  BY <1>1 DEF Fold
<1>2. CASE Elsewhere
  BY <1>2 DEF Elsewhere, Next
<1>3. CASE \E c \in Calls : \/ StartCreate(c) \/ StartInput(c) \/ StartGate(c) \/ StartInterrupt(c)
                            \/ StartOther(c) \/ ArrivePage(c) \/ ServedPage(c)
  BY <1>3 DEF StartCreate, StartInput, StartGate, StartInterrupt, StartOther, ArrivePage,
              ServedPage, Next
<1>4. CASE GateTimesOut
  BY <1>4 DEF GateTimesOut
<1> QED BY <1>1, <1>2, <1>3, <1>4 DEF PageNext, Elsewhere

\* The pages only ever use the transport: all they do is what one of its
\* callers may do (transport.ts:377-441).
THEOREM PagesUseTheTransport == PageSpec => Spec
<1>1. PageInit => Init
  BY DEF PageInit
<1> QED BY <1>1, PageStep, PTL DEF PageSpec, Spec

\* So the one retry is safe under the pages, whose runs check it
\* (transport.ts:389-397, csrf.go:264-269).
THEOREM PagesRetrySafely == PageSpec => []RetryIsSafe
  BY PagesUseTheTransport, RetriesSafely, PTL

-----------------------------------------------------------------------------
(* The create form.                                                        *)

FormTypes ==
    /\ kind \in [Calls -> PageKinds]
    /\ attempt \in [Tabs -> [goal : Goals \union {NoText}, key : Calls \union {NoCall}]]
    /\ carries \in [Calls -> [goal : Goals \union {NoText}, key : Calls \union {NoCall}]]
    /\ made \in [Tabs -> [goal : Goals \union {NoText}, sessions : Nat]]
    /\ answer \in [Calls -> {"none", "accepted", "refused", "conflict"}]

\* A key is named for the request it was minted for, which was made by the tab
\* and carries the text it stands for.
MintedFor(sending, t) ==
    /\ sending.key \in Calls /\ TabOf[sending.key] = t
    /\ kind[sending.key] = "create" /\ PhaseOf(sending.key) # "idle"
    /\ carries[sending.key] = sending

CreatesOf(t) == {c \in Calls : TabOf[c] = t /\ kind[c] = "create" /\ PhaseOf(c) \in InFlight}

KeysAreMinted ==
    /\ \A c \in Calls : kind[c] = "create" /\ PhaseOf(c) # "idle" => MintedFor(carries[c], TabOf[c])
    /\ \A s \in sessions : \E t \in Tabs : MintedFor(s, t)

\* A tab tries one text at a time, which its one request in flight carries.
FormOf(t) ==
    /\ attempt[t] # NoAttempt => MintedFor(attempt[t], t)
    /\ made[t].goal = attempt[t].goal
    /\ \A c, d \in CreatesOf(t) : c = d
    /\ \A c \in CreatesOf(t) : carries[c] = attempt[t]

FormOfTab == \A t \in Tabs : FormOf(t)

\* The session made for the text being tried is known by its key.
KeyKnown(t) == attempt[t] # NoAttempt /\ \E s \in sessions : s.key = attempt[t].key
MadeOf(t) == made[t].sessions <= 1 /\ (made[t].sessions = 1 => KeyKnown(t))

MadeIsKnown == \A t \in Tabs : MadeOf(t)

NoConflict == \A c \in Calls : answer[c] # "conflict"

\* GoalOnce is not inductive alone: a second session is not made because serve
\* knows the key of the first, and the tab still holds that key.
FormInv == FormTypes /\ KeysAreMinted /\ FormOfTab /\ MadeIsKnown /\ NoConflict

LEMMA NoAttemptFields == NoAttempt.goal = NoText /\ NoAttempt.key = NoCall
  BY DEF NoAttempt

LEMMA InitForm == PageInit => FormInv
<1> SUFFICES ASSUME PageInit PROVE FormInv
  OBVIOUS
<1>1. \A c \in Calls : PhaseOf(c) = "idle"
  BY DEF PageInit, Init, PhaseOf, Idle
<1>2. FormTypes /\ NoConflict
  BY PageAssumption DEF PageInit, FormTypes, NoConflict, NoAttempt
<1>3. KeysAreMinted
  BY <1>1 DEF PageInit, KeysAreMinted
<1>4. \A t \in Tabs : CreatesOf(t) = {}
  BY <1>1 DEF CreatesOf, InFlight
<1>5. FormOfTab /\ MadeIsKnown
  <2>1. \A t \in Tabs : /\ attempt[t] = NoAttempt /\ attempt[t].goal = NoText
                        /\ made[t].goal = NoText /\ made[t].sessions = 0
    BY NoAttemptFields DEF PageInit
  <2>2. FormOfTab
    BY <1>4, <2>1 DEF FormOfTab, FormOf
  <2>3. ASSUME NEW t \in Tabs PROVE MadeOf(t)
    <3>1. made[t].sessions <= 1 /\ made[t].sessions # 1
      BY <2>1
    <3> QED BY <3>1 DEF MadeOf
  <2>4. MadeIsKnown
    BY <2>3 DEF MadeIsKnown
  <2> QED BY <2>2, <2>4
<1> QED BY <1>2, <1>3, <1>5 DEF FormInv

\* A step that leaves the forms alone and starts no create.
LEMMA FormFrame ==
  ASSUME FormInv, UNCHANGED <<kind, attempt, carries, sessions, made>>,
         answer' \in [Calls -> {"none", "accepted", "refused", "conflict"}], NoConflict',
         \A c \in Calls : kind[c] = "create" =>
            /\ PhaseOf(c)' = "idle" <=> PhaseOf(c) = "idle"
            /\ PhaseOf(c)' \in InFlight => PhaseOf(c) \in InFlight
  PROVE  FormInv'
<1>1. \A x : \A t \in Tabs : MintedFor(x, t)' <=> MintedFor(x, t)
  BY DEF MintedFor
<1>2. \A t \in Tabs : CreatesOf(t)' \subseteq CreatesOf(t)
  BY DEF CreatesOf
<1>3. FormTypes'
  BY DEF FormInv, FormTypes
<1>4. KeysAreMinted'
  BY <1>1, ControlAssumption DEF FormInv, KeysAreMinted
<1>5. FormOfTab'
  BY <1>1, <1>2 DEF FormInv, FormOfTab, FormOf
<1>6. MadeIsKnown'
  BY DEF FormInv, MadeIsKnown, MadeOf, KeyKnown
<1> QED BY <1>3, <1>4, <1>5, <1>6 DEF FormInv

LEMMA StartCreateForm ==
  ASSUME ControlInv, FormInv, NEW c \in Calls, StartCreate(c)
  PROVE  FormInv'
<1> DEFINE t == TabOf[c]
<1>1. PICK goal \in Goals : LET sending == [goal |-> goal, key |-> IdempotencyKeyFor(t, c, goal)] IN
        /\ kind[c] = "create" /\ ~Busy(t, "create") /\ Start(c)
        /\ attempt' = [attempt EXCEPT ![t] = sending]
        /\ carries' = [carries EXCEPT ![c] = sending]
        /\ made' = [made EXCEPT ![t] = IF @.goal = goal THEN @ ELSE [goal |-> goal, sessions |-> 0]]
        /\ UNCHANGED <<kind, serveVars, viewVars, storeVars>>
  BY DEF StartCreate
<1>2. PICK key : key = IdempotencyKeyFor(t, c, goal)
  OBVIOUS
<1> DEFINE sending == [goal |-> goal, key |-> key]
<1>3. /\ t \in Tabs /\ goal # NoText
      /\ UNCHANGED <<kind, answer, sessions>>
      /\ \A d \in Calls \ {c} : PhaseOf(d)' = PhaseOf(d)
      /\ PhaseOf(c) = "idle" /\ PhaseOf(c)' \in {"minting", "sent"}
  BY <1>1, PageMoves, ControlAssumption, PageAssumption DEF serveVars
<1>4. /\ carries'[c] = sending /\ \A d \in Calls \ {c} : carries'[d] = carries[d]
      /\ attempt'[t] = sending /\ \A u \in Tabs \ {t} : attempt'[u] = attempt[u]
      /\ \A u \in Tabs \ {t} : made'[u] = made[u]
      /\ made'[t] = IF made[t].goal = goal THEN made[t] ELSE [goal |-> goal, sessions |-> 0]
  BY <1>1, <1>2, <1>3 DEF FormInv, FormTypes
<1>5. CreatesOf(t) = {}
  <2>1. \A d \in Calls : PhaseOf(d) \in Phases
    BY DEF ControlInv, ControlTypes, PhaseOf
  <2> QED BY <1>1, <2>1, PhasesSplit DEF Busy, CreatesOf, PhaseOf
<1>6. CreatesOf(t)' \subseteq {c} /\ \A u \in Tabs \ {t} : CreatesOf(u)' = CreatesOf(u)
  <2>1. \A u \in Tabs \ {t} : CreatesOf(u)' = CreatesOf(u)
    BY <1>3 DEF CreatesOf
  <2>2. CreatesOf(t)' \subseteq {c}
    BY <1>3, <1>5 DEF CreatesOf
  <2> QED BY <2>1, <2>2
\* The key of the text the tab tries already, or this request's own.
<1>7. \/ sending = attempt[t] /\ attempt[t] # NoAttempt /\ made'[t] = made[t]
      \/ key = c /\ made'[t] = [goal |-> goal, sessions |-> 0]
  <2>1. /\ attempt[t] = [goal |-> attempt[t].goal, key |-> attempt[t].key]
        /\ made[t].goal = attempt[t].goal
    <3>1. attempt[t] \in [goal : Goals \union {NoText}, key : Calls \union {NoCall}]
      BY <1>3 DEF FormInv, FormTypes
    <3>2. made[t].goal = attempt[t].goal
      BY <1>3 DEF FormInv, FormOfTab, FormOf
    <3> QED BY <3>1, <3>2
  <2>2. CASE attempt[t].goal = goal
    <3>1. key = attempt[t].key
      BY <1>2, <2>2 DEF IdempotencyKeyFor
    <3>2. sending = attempt[t]
      BY <2>1, <2>2, <3>1
    <3>3. attempt[t] # NoAttempt
      BY <1>3, <2>2, NoAttemptFields
    <3>4. made'[t] = made[t]
      BY <1>4, <2>1, <2>2
    <3> QED BY <3>2, <3>3, <3>4
  <2>3. CASE attempt[t].goal # goal
    BY <1>2, <1>4, <2>1, <2>3 DEF IdempotencyKeyFor
  <2> QED BY <2>2, <2>3
<1>8. \A x : \A u \in Tabs : MintedFor(x, u) => MintedFor(x, u)'
  BY <1>3, <1>4 DEF MintedFor
<1>9. MintedFor(sending, t)'
  <2>1. CASE key = c
    BY <1>1, <1>3, <1>4, <2>1 DEF MintedFor
  <2>2. CASE sending = attempt[t] /\ attempt[t] # NoAttempt
    <3>1. MintedFor(attempt[t], t)
      BY <1>3, <2>2 DEF FormInv, FormOfTab, FormOf
    <3> QED BY <1>3, <1>8, <2>2, <3>1
  <2> QED BY <1>7, <2>1, <2>2
<1>10. FormTypes'
  <2>1. key \in Calls
    BY <1>9 DEF MintedFor
  <2>2. sending \in [goal : Goals \union {NoText}, key : Calls \union {NoCall}]
    BY <2>1
  <2>3. made' \in [Tabs -> [goal : Goals \union {NoText}, sessions : Nat]]
    BY <1>1 DEF FormInv, FormTypes
  <2> QED BY <1>1, <1>2, <1>3, <2>2, <2>3 DEF FormInv, FormTypes
<1>11. KeysAreMinted'
  <2>1. \A d \in Calls \ {c} : kind[d] = "create" /\ PhaseOf(d)' # "idle" => MintedFor(carries[d], TabOf[d])
    BY <1>3 DEF FormInv, KeysAreMinted
  <2> QED BY <1>3, <1>4, <1>8, <1>9, <2>1, ControlAssumption DEF FormInv, KeysAreMinted
<1>12. FormOfTab'
  <2> SUFFICES ASSUME NEW u \in Tabs PROVE FormOf(u)'
    BY DEF FormOfTab
  <2>1. CASE u = t
    <3>1. made'[t].goal = goal
      <4>1. CASE made[t].goal = goal
        BY <1>4, <4>1
      <4>2. CASE made[t].goal # goal
        BY <1>4, <4>2
      <4> QED BY <4>1, <4>2
    <3> QED BY <1>4, <1>6, <1>9, <2>1, <3>1 DEF FormOf
  <2>2. CASE u # t
    <3>1. FormOf(u) /\ \A d \in CreatesOf(u) : d # c
      BY <2>2 DEF FormInv, FormOfTab, CreatesOf
    <3>2. CreatesOf(u)' = CreatesOf(u) /\ CreatesOf(u) \subseteq Calls
      BY <1>6, <2>2 DEF CreatesOf
    <3> QED BY <1>4, <1>8, <2>2, <3>1, <3>2 DEF FormOf
  <2> QED BY <2>1, <2>2
<1>13. MadeIsKnown'
  <2> SUFFICES ASSUME NEW u \in Tabs PROVE MadeOf(u)'
    BY DEF MadeIsKnown
  <2>1. MadeOf(u)
    BY DEF FormInv, MadeIsKnown
  <2>2. CASE u # t
    BY <1>3, <1>4, <2>1, <2>2 DEF MadeOf, KeyKnown
  <2>3. CASE u = t /\ sending = attempt[t] /\ made'[t] = made[t]
    BY <1>3, <1>4, <2>1, <2>3 DEF MadeOf, KeyKnown
  <2>4. CASE u = t /\ made'[t] = [goal |-> goal, sessions |-> 0]
    BY <2>4 DEF MadeOf
  <2> QED BY <1>7, <2>2, <2>3, <2>4
<1> QED BY <1>3, <1>10, <1>11, <1>12, <1>13 DEF FormInv, NoConflict

LEMMA ArriveForm ==
  ASSUME ControlInv, FormInv, NEW c \in Calls, ArrivePage(c)
  PROVE  FormInv'
<1> DEFINE t == TabOf[c]
<1>1. /\ Arrive(c) /\ UNCHANGED <<kind, attempt, carries>>
      /\ \A d \in Calls \ {c} : PhaseOf(d)' = PhaseOf(d)
      /\ PhaseOf(c) = "sent" /\ PhaseOf(c)' \in {"served", "rejected"} /\ t \in Tabs
  BY PageMoves, ControlAssumption DEF ArrivePage, formVars
<1>2. \A d \in Calls : /\ PhaseOf(d)' = "idle" <=> PhaseOf(d) = "idle"
                       /\ PhaseOf(d)' \in InFlight <=> PhaseOf(d) \in InFlight
  BY <1>1 DEF InFlight
<1>3. CASE UNCHANGED <<serveVars, made>>
  BY <1>1, <1>2, <1>3, FormFrame DEF serveVars, FormInv, FormTypes, NoConflict
<1>4. CASE Handle(c) /\ kind[c] # "create"
  <2>1. UNCHANGED <<sessions, made>>
        /\ \E x \in {"accepted", "refused"} : answer' = [answer EXCEPT ![c] = x]
    BY <1>4 DEF Handle
  <2>2. answer' \in [Calls -> {"none", "accepted", "refused", "conflict"}] /\ NoConflict'
    BY <2>1 DEF FormInv, FormTypes, NoConflict
  <2> QED BY <1>1, <1>2, <2>1, <2>2, FormFrame
<1>5. CASE Handle(c) /\ kind[c] = "create"
  <2> DEFINE known == {s \in sessions : s.key = carries[c].key}
  <2>1. /\ sessions' = IF known = {} THEN sessions \union {carries[c]} ELSE sessions
        /\ answer' = [answer EXCEPT ![c] = IF known \subseteq {carries[c]} THEN "accepted" ELSE "conflict"]
        /\ made' = [made EXCEPT ![t].sessions = IF known = {} THEN @ + 1 ELSE @]
    BY <1>5 DEF Handle
  <2>2. MintedFor(carries[c], t) /\ c \in CreatesOf(t) /\ carries[c] = attempt[t]
    BY <1>1, <1>5 DEF FormInv, KeysAreMinted, FormOfTab, FormOf, CreatesOf, InFlight
  <2>3. known \subseteq {carries[c]}
    BY <2>2 DEF FormInv, KeysAreMinted, MintedFor
  <2>4. \A x : \A u \in Tabs : MintedFor(x, u)' <=> MintedFor(x, u)
    BY <1>1, <1>2 DEF MintedFor
  <2>5. \A u \in Tabs : CreatesOf(u)' = CreatesOf(u)
    BY <1>1, <1>2 DEF CreatesOf
  <2>6. answer' \in [Calls -> {"none", "accepted", "refused", "conflict"}] /\ NoConflict'
    BY <2>1, <2>3 DEF FormInv, FormTypes, NoConflict
  <2> HIDE DEF known
  <2>7. /\ made' \in [Tabs -> [goal : Goals \union {NoText}, sessions : Nat]]
        /\ \A u \in Tabs : made'[u].goal = made[u].goal
        /\ \A u \in Tabs \ {t} : made'[u] = made[u]
        /\ made'[t].sessions = IF known = {} THEN made[t].sessions + 1 ELSE made[t].sessions
    <3>1. PICK n \in Nat : /\ made' = [made EXCEPT ![t].sessions = n]
                          /\ n = IF known = {} THEN made[t].sessions + 1 ELSE made[t].sessions
      <4>1. made[t].sessions \in Nat
        BY <1>1 DEF FormInv, FormTypes
      <4>2. PICK n : n = IF known = {} THEN made[t].sessions + 1 ELSE made[t].sessions
        OBVIOUS
      <4>3. n \in Nat
        BY <4>1, <4>2
      <4>4. made' = [made EXCEPT ![t].sessions = n]
        BY <2>1, <4>2
      <4> QED BY <4>2, <4>3, <4>4
    <3>2. made \in [Tabs -> [goal : Goals \union {NoText}, sessions : Nat]]
      BY DEF FormInv, FormTypes
    <3>3. made[t] \in [goal : Goals \union {NoText}, sessions : Nat]
      BY <1>1, <3>2
    <3>4. /\ made'[t] = [made[t] EXCEPT !.sessions = n]
          /\ \A u \in Tabs \ {t} : made'[u] = made[u]
      BY <1>1, <3>1, <3>2
    <3>5. /\ made'[t].goal = made[t].goal /\ made'[t].sessions = n
          /\ made'[t] \in [goal : Goals \union {NoText}, sessions : Nat]
      BY <3>1, <3>3, <3>4
    <3>6. made' \in [Tabs -> [goal : Goals \union {NoText}, sessions : Nat]]
      BY <3>1, <3>2, <3>4, <3>5
    <3> QED BY <3>1, <3>4, <3>5, <3>6
  <2>8. FormTypes'
    BY <1>1, <2>6, <2>7 DEF FormInv, FormTypes
  <2>9. KeysAreMinted'
    <3>1. \A s \in sessions' : \E u \in Tabs : MintedFor(s, u)
      BY <1>1, <2>1, <2>2 DEF FormInv, KeysAreMinted
    <3> QED BY <1>1, <1>2, <2>4, <3>1, ControlAssumption DEF FormInv, KeysAreMinted
  <2>10. FormOfTab'
    <3> SUFFICES ASSUME NEW u \in Tabs PROVE FormOf(u)'
      BY DEF FormOfTab
    <3>1. FormOf(u) /\ made'[u].goal = made[u].goal
      BY <2>7 DEF FormInv, FormOfTab
    <3> QED BY <1>1, <2>4, <2>5, <3>1 DEF FormOf
  <2>11. MadeIsKnown'
    <3> SUFFICES ASSUME NEW u \in Tabs PROVE MadeOf(u)'
      BY DEF MadeIsKnown
    <3>1. MadeOf(u) /\ (KeyKnown(u) => KeyKnown(u)')
      BY <1>1, <2>1 DEF FormInv, MadeIsKnown, KeyKnown
    <3>2. CASE u # t
      BY <1>1, <2>7, <3>1, <3>2 DEF MadeOf
    <3>3. CASE u = t /\ known # {}
      <4>1. made'[t].sessions = made[t].sessions
        BY <2>7, <3>3
      <4> QED BY <1>1, <3>1, <3>3, <4>1 DEF MadeOf
    <3>4. CASE u = t /\ known = {}
      <4>1. made[t].sessions = 0
        <5>1. made[t].sessions \in Nat /\ made[t].sessions <= 1
          BY <1>1, <3>1, <3>4 DEF FormInv, FormTypes, MadeOf
        <5>2. ~KeyKnown(t)
          BY <2>2, <3>4 DEF KeyKnown, known
        <5> QED BY <3>1, <3>4, <5>1, <5>2 DEF MadeOf
      <4>2. made'[t].sessions = 1
        <5>1. made'[t].sessions = made[t].sessions + 1
          BY <2>7, <3>4
        <5> QED BY <4>1, <5>1
      <4>3. attempt[t] # NoAttempt
        BY <2>2, PageAssumption, NoAttemptFields DEF MintedFor
      <4>4. attempt[t] \in sessions'
        BY <2>1, <2>2, <3>4
      <4>5. KeyKnown(t)'
        BY <1>1, <4>3, <4>4 DEF KeyKnown
      <4> QED BY <3>4, <4>2, <4>5 DEF MadeOf
    <3> QED BY <3>2, <3>3, <3>4
  <2> QED BY <2>6, <2>8, <2>9, <2>10, <2>11 DEF FormInv
<1> QED BY <1>3, <1>4, <1>5 DEF ArrivePage

LEMMA ServedForm ==
  ASSUME ControlInv, FormInv, NEW c \in Calls, ServedPage(c)
  PROVE  FormInv'
<1> DEFINE t == TabOf[c]
<1>1. /\ UNCHANGED <<kind, carries, answer, sessions>>
      /\ \A d \in Calls \ {c} : PhaseOf(d)' = PhaseOf(d)
      /\ PhaseOf(c) = "served" /\ PhaseOf(c)' = "ok" /\ t \in Tabs
  BY PageMoves, ControlAssumption DEF ServedPage, serveVars
<1>2. \A d \in Calls : /\ PhaseOf(d)' = "idle" <=> PhaseOf(d) = "idle"
                       /\ PhaseOf(d)' \in InFlight => PhaseOf(d) \in InFlight
  BY <1>1 DEF InFlight
<1>3. CASE UNCHANGED <<attempt, made>>
  BY <1>1, <1>2, <1>3, FormFrame DEF FormInv, FormTypes, NoConflict
<1>4. CASE /\ kind[c] = "create"
           /\ attempt' = [attempt EXCEPT ![t] = NoAttempt]
           /\ made' = [made EXCEPT ![t] = [goal |-> NoText, sessions |-> 0]]
  <2>1. \A x : \A u \in Tabs : MintedFor(x, u)' <=> MintedFor(x, u)
    BY <1>1, <1>2 DEF MintedFor
  <2>2. CreatesOf(t)' = {} /\ \A u \in Tabs \ {t} : CreatesOf(u)' = CreatesOf(u)
    <3>1. c \in CreatesOf(t) /\ CreatesOf(t) \subseteq {c}
      <4>1. c \in CreatesOf(t)
        BY <1>1, <1>4 DEF CreatesOf, InFlight
      <4> QED BY <1>1, <4>1 DEF FormInv, FormOfTab, FormOf
    <3> QED BY <1>1, <1>2, <3>1 DEF CreatesOf, InFlight
  <2>3. FormTypes'
    BY <1>1, <1>4 DEF FormInv, FormTypes, NoAttempt
  <2>4. KeysAreMinted'
    BY <1>1, <1>2, <2>1, ControlAssumption DEF FormInv, KeysAreMinted
  <2>5. /\ attempt'[t] = NoAttempt /\ made'[t].goal = NoText /\ made'[t].sessions = 0
        /\ \A u \in Tabs \ {t} : attempt'[u] = attempt[u] /\ made'[u] = made[u]
    BY <1>1, <1>4 DEF FormInv, FormTypes
  <2>6. FormOfTab'
    <3> SUFFICES ASSUME NEW u \in Tabs PROVE FormOf(u)'
      BY DEF FormOfTab
    <3>1. CASE u = t
      BY <2>2, <2>5, <3>1, NoAttemptFields DEF FormOf
    <3>2. CASE u # t
      <4>1. FormOf(u) /\ attempt'[u] = attempt[u] /\ made'[u] = made[u] /\ CreatesOf(u)' = CreatesOf(u)
        BY <2>2, <2>5, <3>2 DEF FormInv, FormOfTab
      <4>2. MintedFor(attempt[u], u) => MintedFor(attempt[u], u)'
        <5>1. PICK a : a = attempt[u]
          OBVIOUS
        <5> QED BY <2>1, <4>1, <5>1
      <4> QED BY <1>1, <4>1, <4>2 DEF FormOf
    <3> QED BY <3>1, <3>2
  <2>7. MadeIsKnown'
    <3> SUFFICES ASSUME NEW u \in Tabs PROVE MadeOf(u)'
      BY DEF MadeIsKnown
    <3>1. CASE u = t
      <4>1. made'[u].sessions <= 1 /\ made'[u].sessions # 1
        BY <2>5, <3>1
      <4> QED BY <4>1 DEF MadeOf
    <3>2. CASE u # t
      <4>1. MadeOf(u) /\ made'[u] = made[u] /\ (KeyKnown(u) => KeyKnown(u)')
        BY <1>1, <2>5, <3>2 DEF FormInv, MadeIsKnown, KeyKnown
      <4> QED BY <4>1 DEF MadeOf
    <3> QED BY <3>1, <3>2
  <2> QED BY <1>1, <2>3, <2>4, <2>6, <2>7 DEF FormInv, NoConflict
<1> QED BY <1>3, <1>4 DEF ServedPage, Answered

LEMMA FormStep ==
  ASSUME ControlInv, FormInv, [PageNext]_<<vars, pageVars>>
  PROVE  FormInv'
<1>1. CASE UNCHANGED <<vars, pageVars>>
  BY <1>1, FormFrame DEF vars, pageVars, formVars, serveVars, FormInv, FormTypes, NoConflict, PhaseOf
<1>2. CASE \E t \in Tabs : Fold(t)
  BY <1>2, FormFrame DEF Fold, vars, formVars, serveVars, FormInv, FormTypes, NoConflict, PhaseOf
<1>3. CASE Elsewhere
  <2>1. \A c \in Calls : /\ PhaseOf(c)' = "idle" <=> PhaseOf(c) = "idle"
                         /\ PhaseOf(c)' \in InFlight => PhaseOf(c) \in InFlight
    BY <1>3, ElsewhereAdvances DEF Advances, InFlight
  <2> QED BY <1>3, <2>1, FormFrame
          DEF Elsewhere, pageVars, formVars, serveVars, FormInv, FormTypes, NoConflict
<1>4. ASSUME NEW c \in Calls, StartInput(c) \/ StartGate(c) \/ StartInterrupt(c) \/ StartOther(c)
      PROVE  FormInv'
  <2>1. Start(c) /\ kind[c] # "create" /\ UNCHANGED pageVars
    BY <1>4 DEF StartInput, StartGate, StartInterrupt, StartOther
  <2>2. \A d \in Calls \ {c} : PhaseOf(d)' = PhaseOf(d)
    BY <2>1, PageMoves
  <2> QED BY <2>1, <2>2, FormFrame DEF pageVars, formVars, serveVars, FormInv, FormTypes, NoConflict
<1>5. CASE GateTimesOut
  BY <1>5, FormFrame DEF GateTimesOut, vars, formVars, FormInv, FormTypes, NoConflict, PhaseOf
<1> QED BY <1>1, <1>2, <1>3, <1>4, <1>5, StartCreateForm, ArriveForm, ServedForm DEF PageNext, Elsewhere

\* However often a text is sent and whatever replies are lost, it makes one
\* session, and no key is sent with another text (new-session-button.tsx:32-42).
THEOREM OneSessionPerGoal == PageSpec => []GoalOnce
<1>1. ControlInv /\ FormInv => GoalOnce
  BY DEF FormInv, MadeIsKnown, MadeOf, NoConflict, GoalOnce
<1>2. PageInit => ControlInv /\ FormInv
  BY InitControl, InitForm DEF PageInit
<1>3. ControlInv /\ FormInv /\ [PageNext]_<<vars, pageVars>> => (ControlInv /\ FormInv)'
  BY PageStep, FormStep, ControlStep
<1> QED BY <1>1, <1>2, <1>3, PTL DEF PageSpec

-----------------------------------------------------------------------------
(* The gate.                                                               *)

StoryTypes ==
    /\ kind \in [Calls -> PageKinds] /\ gate \in Calls \union {NoCall, TimedOut}
    /\ answer \in [Calls -> {"none", "accepted", "refused", "conflict"}]
    /\ shown \in [Tabs -> BOOLEAN]
    /\ answered \in [Tabs -> BOOLEAN] /\ alreadyAnswered \in [Tabs -> BOOLEAN]

ResponsesOf(t) == {c \in Calls : TabOf[c] = t /\ kind[c] = "gate" /\ PhaseOf(c) \in InFlight}
AnsweredBy(t) == gate \in Calls /\ TabOf[gate] = t

\* serve accepted the one response that answered the gate, if one did, and
\* refused the rest.
AnswersTrue ==
    /\ gate \in Calls => /\ kind[gate] = "gate" /\ answer[gate] = "accepted"
                         /\ PhaseOf(gate) \in {"served", "ok", "failed"}
    /\ \A c \in Calls : kind[c] = "gate" =>
          /\ answer[c] = "accepted" => gate = c
          /\ answer[c] = "refused" => gate # NoCall /\ gate # c

\* A tab responds again only when the answer to its first response was lost.
OneResponse ==
    \A t \in Tabs :
        /\ \A c, d \in ResponsesOf(t) : c = d
        /\ AnsweredBy(t) => \A c \in ResponsesOf(t) : c = gate \/ PhaseOf(gate) = "failed"

StoryOf(t) ==
    /\ answered[t] => AnsweredBy(t)
    /\ AnsweredBy(t) /\ PhaseOf(gate) = "ok" => answered[t] \/ ~shown[t]
    /\ alreadyAnswered[t] => gate # NoCall /\ (AnsweredBy(t) => PhaseOf(gate) = "failed")

Stories == \A t \in Tabs : StoryOf(t)

\* GateStoryTrue is not inductive alone: a tab whose own response was accepted
\* offers the gate no more, so it is never told that another client answered.
GateInv == StoryTypes /\ AnswersTrue /\ OneResponse /\ Stories

LEMMA InitGate == PageInit => GateInv
<1> SUFFICES ASSUME PageInit PROVE GateInv
  OBVIOUS
<1>1. \A c \in Calls : PhaseOf(c) = "idle"
  BY DEF PageInit, Init, PhaseOf, Idle
<1>2. StoryTypes /\ AnswersTrue
  BY PageAssumption DEF PageInit, StoryTypes, AnswersTrue
<1>3. OneResponse
  BY <1>1 DEF PageInit, OneResponse, ResponsesOf, AnsweredBy, InFlight
<1>4. Stories
  BY PageAssumption DEF PageInit, Stories, StoryOf, AnsweredBy
<1> QED BY <1>2, <1>3, <1>4 DEF GateInv

\* A step that leaves the gate and its stores alone.
LEMMA GateFrame ==
  ASSUME GateInv, UNCHANGED <<kind, gate, shown, answered, alreadyAnswered>>,
         answer' \in [Calls -> {"none", "accepted", "refused", "conflict"}],
         \A c \in Calls : kind[c] = "gate" => answer'[c] = answer[c] /\ Advances(c)
  PROVE  GateInv'
<1>1. StoryTypes'
  BY DEF GateInv, StoryTypes
<1>3. gate \in Calls => /\ PhaseOf(gate)' = "ok" => PhaseOf(gate) = "ok"
                        /\ PhaseOf(gate) = "failed" => PhaseOf(gate)' = "failed"
                        /\ PhaseOf(gate)' \in {"served", "ok", "failed"}
  <2> SUFFICES ASSUME gate \in Calls
               PROVE  /\ PhaseOf(gate)' = "ok" => PhaseOf(gate) = "ok"
                      /\ PhaseOf(gate) = "failed" => PhaseOf(gate)' = "failed"
                      /\ PhaseOf(gate)' \in {"served", "ok", "failed"}
    OBVIOUS
  <2>1. /\ kind[gate] = "gate" /\ gate' = gate
        /\ PhaseOf(gate) \in {"served", "ok", "failed"}
    BY DEF GateInv, AnswersTrue
  <2>2. Advances(gate)
    BY <2>1
  <2> QED BY <2>1, <2>2 DEF Advances, InFlight, PhaseOf
<1>4. AnswersTrue'
  <2>1. AnswersTrue /\ UNCHANGED <<kind, gate>>
    BY DEF GateInv
  <2>2. gate \in Calls => kind[gate] = "gate" /\ answer'[gate] = "accepted"
    BY <2>1 DEF AnswersTrue
  <2>3. \A c \in Calls : kind[c] = "gate" =>
           /\ answer'[c] = "accepted" => gate = c
           /\ answer'[c] = "refused" => gate # NoCall /\ gate # c
    BY <2>1 DEF AnswersTrue
  <2> QED BY <1>3, <2>1, <2>2, <2>3 DEF AnswersTrue, PhaseOf
<1>5. \A t \in Tabs : ResponsesOf(t)' \subseteq ResponsesOf(t) /\ (AnsweredBy(t)' <=> AnsweredBy(t))
  BY DEF ResponsesOf, AnsweredBy, Advances, InFlight
<1>6. OneResponse'
  <2> SUFFICES ASSUME NEW t \in Tabs
               PROVE  /\ \A c, d \in ResponsesOf(t)' : c = d
                      /\ AnsweredBy(t)' => \A c \in ResponsesOf(t)' : c = gate' \/ PhaseOf(gate)' = "failed"
    BY DEF OneResponse
  <2>1. \A c, d \in ResponsesOf(t)' : c = d
    BY <1>5 DEF GateInv, OneResponse
  <2>2. ASSUME AnsweredBy(t)', NEW c \in ResponsesOf(t)'
        PROVE  c = gate' \/ PhaseOf(gate)' = "failed"
    <3>1. c \in ResponsesOf(t) /\ AnsweredBy(t) /\ gate \in Calls /\ gate' = gate
      BY <1>5, <2>2 DEF AnsweredBy
    <3>2. c = gate \/ PhaseOf(gate) = "failed"
      BY <3>1 DEF GateInv, OneResponse
    <3> QED BY <1>3, <3>1, <3>2 DEF PhaseOf
  <2> QED BY <2>1, <2>2
<1>7. Stories'
  <2> SUFFICES ASSUME NEW t \in Tabs PROVE StoryOf(t)'
    BY DEF Stories
  <2>1. StoryOf(t) /\ (AnsweredBy(t) => gate \in Calls)
    BY DEF GateInv, Stories, AnsweredBy
  <2>2. AnsweredBy(t) /\ PhaseOf(gate)' = "ok" => PhaseOf(gate) = "ok"
    BY <1>3, <2>1 DEF PhaseOf
  <2>3. AnsweredBy(t) /\ PhaseOf(gate) = "failed" => PhaseOf(gate)' = "failed"
    BY <1>3, <2>1 DEF PhaseOf
  <2> QED BY <1>5, <2>1, <2>2, <2>3 DEF StoryOf, PhaseOf
<1> QED BY <1>1, <1>4, <1>6, <1>7 DEF GateInv

LEMMA StartGateStory ==
  ASSUME ControlInv, GateInv, NEW c \in Calls, StartGate(c)
  PROVE  GateInv'
<1> DEFINE t == TabOf[c]
<1>1. /\ kind[c] = "gate" /\ shown[t] /\ ~answered[t] /\ ~Busy(t, "gate")
      /\ UNCHANGED <<kind, gate, answer, shown, answered, alreadyAnswered>>
      /\ PhaseOf(c) = "idle" /\ PhaseOf(c)' \in {"minting", "sent"} /\ t \in Tabs
      /\ \A d \in Calls \ {c} : PhaseOf(d)' = PhaseOf(d)
  BY PageMoves, ControlAssumption DEF StartGate, Offered, pageVars, serveVars, viewVars, storeVars
<1>2. ResponsesOf(t) = {}
  <2>1. \A d \in Calls : PhaseOf(d) \in Phases
    BY DEF ControlInv, ControlTypes, PhaseOf
  <2> QED BY <1>1, <2>1, PhasesSplit DEF Busy, ResponsesOf, PhaseOf
<1>3. /\ gate # c
      /\ gate \in Calls => PhaseOf(gate)' = PhaseOf(gate)
  BY <1>1, PageAssumption DEF GateInv, AnswersTrue
<1>4. AnsweredBy(t) => PhaseOf(gate) = "failed"
  <2>1. AnsweredBy(t) => PhaseOf(gate) # "served"
    BY <1>2, <1>3 DEF GateInv, AnswersTrue, AnsweredBy, ResponsesOf, InFlight
  <2>2. AnsweredBy(t) => PhaseOf(gate) # "ok"
    BY <1>1 DEF GateInv, Stories, StoryOf
  <2> QED BY <2>1, <2>2 DEF GateInv, AnswersTrue, AnsweredBy
<1>5. /\ ResponsesOf(t)' \subseteq {c}
      /\ \A u \in Tabs \ {t} : ResponsesOf(u)' = ResponsesOf(u)
      /\ \A u \in Tabs : AnsweredBy(u)' <=> AnsweredBy(u)
  <2>1. ResponsesOf(t)' \subseteq {c}
    BY <1>1, <1>2 DEF ResponsesOf
  <2>2. \A u \in Tabs \ {t} : ResponsesOf(u)' = ResponsesOf(u)
    BY <1>1 DEF ResponsesOf
  <2>3. \A u \in Tabs : AnsweredBy(u)' <=> AnsweredBy(u)
    BY <1>1 DEF AnsweredBy
  <2> QED BY <2>1, <2>2, <2>3
<1>6. StoryTypes'
  BY <1>1 DEF GateInv, StoryTypes
<1>7. AnswersTrue'
  BY <1>1, <1>3 DEF GateInv, AnswersTrue
<1>8. OneResponse'
  BY <1>1, <1>3, <1>4, <1>5 DEF GateInv, OneResponse, AnsweredBy
<1>9. Stories'
  BY <1>1, <1>3, <1>5 DEF GateInv, Stories, StoryOf, AnsweredBy
<1> QED BY <1>6, <1>7, <1>8, <1>9 DEF GateInv

LEMMA ArriveStory ==
  ASSUME ControlInv, GateInv, NEW c \in Calls, ArrivePage(c)
  PROVE  GateInv'
<1> DEFINE t == TabOf[c]
<1>1. /\ UNCHANGED <<kind, shown, answered, alreadyAnswered>>
      /\ PhaseOf(c) = "sent" /\ PhaseOf(c)' \in {"served", "rejected"} /\ t \in Tabs
      /\ \A d \in Calls \ {c} : PhaseOf(d)' = PhaseOf(d)
      /\ IF PhaseOf(c)' = "served" THEN Handle(c) ELSE UNCHANGED <<serveVars, made>>
  BY PageMoves, ControlAssumption DEF ArrivePage, viewVars, storeVars, PhaseOf
<1>2. CASE PhaseOf(c)' = "rejected"
  <2>1. UNCHANGED <<gate, answer>> /\ \A d \in Calls : Advances(d)
    BY <1>1, <1>2 DEF serveVars, Advances, InFlight
  <2> QED BY <1>1, <2>1, GateFrame DEF GateInv, StoryTypes
<1>3. CASE PhaseOf(c)' = "served" /\ kind[c] # "gate"
  <2>1. /\ UNCHANGED gate
        /\ \E x \in {"accepted", "refused", "conflict"} : answer' = [answer EXCEPT ![c] = x]
    BY <1>1, <1>3 DEF Handle
  <2>2. /\ answer' \in [Calls -> {"none", "accepted", "refused", "conflict"}]
        /\ \A d \in Calls : kind[d] = "gate" => answer'[d] = answer[d] /\ Advances(d)
    BY <1>1, <1>3, <2>1 DEF GateInv, StoryTypes, Advances
  <2> QED BY <1>1, <2>1, <2>2, GateFrame
<1>4. CASE PhaseOf(c)' = "served" /\ kind[c] = "gate"
  <2>1. /\ answer' = [answer EXCEPT ![c] = IF gate = NoCall THEN "accepted" ELSE "refused"]
        /\ gate' = IF gate = NoCall THEN c ELSE gate
    BY <1>1, <1>4 DEF Handle
  <2>2. /\ answer' \in [Calls -> {"none", "accepted", "refused", "conflict"}]
        /\ answer'[c] = IF gate = NoCall THEN "accepted" ELSE "refused"
        /\ \A d \in Calls \ {c} : answer'[d] = answer[d]
    BY <2>1 DEF GateInv, StoryTypes
  <2>3. /\ c \in ResponsesOf(t) /\ ResponsesOf(t) \subseteq {c}
        /\ \A u \in Tabs : ResponsesOf(u)' = ResponsesOf(u)
    <3>1. c \in ResponsesOf(t)
      BY <1>1, <1>4 DEF ResponsesOf, InFlight
    <3>2. ResponsesOf(t) \subseteq {c}
      BY <1>1, <3>1 DEF GateInv, OneResponse
    <3>3. \A u \in Tabs : ResponsesOf(u)' = ResponsesOf(u)
      BY <1>1, <1>4 DEF ResponsesOf, InFlight
    <3> QED BY <3>1, <3>2, <3>3
  <2>4. StoryTypes'
    BY <1>1, <2>1, <2>2 DEF GateInv, StoryTypes
  <2>5. CASE gate = NoCall
    <3>1. gate' = c /\ c # NoCall /\ answer'[c] = "accepted"
      BY <2>1, <2>2, <2>5, PageAssumption
    <3>2. AnswersTrue'
      <4>1. kind'[gate'] = "gate" /\ PhaseOf(gate)' \in {"served", "ok", "failed"}
        BY <1>1, <1>4, <3>1 DEF PhaseOf
      <4>2. ASSUME NEW d \in Calls, kind'[d] = "gate"
            PROVE  /\ answer'[d] = "accepted" => gate' = d
                   /\ answer'[d] = "refused" => gate' # NoCall /\ gate' # d
        <5>1. CASE d = c
          BY <3>1, <5>1
        <5>2. CASE d # c
          BY <1>1, <2>2, <2>5, <3>1, <4>2, <5>2, PageAssumption DEF GateInv, AnswersTrue
        <5> QED BY <5>1, <5>2
      <4> QED BY <3>1, <4>1, <4>2 DEF AnswersTrue
    <3>3. \A u \in Tabs : AnsweredBy(u)' <=> u = t
      BY <3>1 DEF AnsweredBy
    <3>4. OneResponse'
      BY <2>3, <3>1, <3>3 DEF GateInv, OneResponse
    <3>5. \A u \in Tabs : ~answered[u] /\ ~alreadyAnswered[u]
      BY <2>5, PageAssumption DEF GateInv, Stories, StoryOf, AnsweredBy
    <3>6. Stories'
      BY <1>1, <1>4, <3>1, <3>5 DEF Stories, StoryOf
    <3> QED BY <2>4, <3>2, <3>4, <3>6 DEF GateInv
  <2>6. CASE gate # NoCall
    <3>1. /\ gate' = gate /\ gate # c
          /\ gate \in Calls => PhaseOf(gate)' = PhaseOf(gate)
      BY <1>1, <2>1, <2>6 DEF GateInv, AnswersTrue
    <3>2. AnswersTrue'
      BY <1>1, <2>2, <2>6, <3>1 DEF GateInv, AnswersTrue
    <3>3. \A u \in Tabs : AnsweredBy(u)' <=> AnsweredBy(u)
      BY <3>1 DEF AnsweredBy
    <3>4. \A u \in Tabs : AnsweredBy(u) => PhaseOf(gate)' = PhaseOf(gate)
      BY <3>1 DEF AnsweredBy
    <3>5. OneResponse'
      BY <2>3, <3>1, <3>3, <3>4 DEF GateInv, OneResponse
    <3>6. Stories'
      BY <1>1, <3>1, <3>3, <3>4 DEF GateInv, Stories, StoryOf
    <3> QED BY <2>4, <3>2, <3>5, <3>6 DEF GateInv
  <2> QED BY <2>5, <2>6
<1> QED BY <1>1, <1>2, <1>3, <1>4

LEMMA ServedStory ==
  ASSUME ControlInv, GateInv, NEW c \in Calls, ServedPage(c)
  PROVE  GateInv'
<1> DEFINE t == TabOf[c]
<1>1. /\ UNCHANGED <<kind, gate, answer, shown>>
      /\ PhaseOf(c) = "served" /\ PhaseOf(c)' = "ok" /\ t \in Tabs
      /\ \A d \in Calls \ {c} : PhaseOf(d)' = PhaseOf(d)
  BY PageMoves, ControlAssumption DEF ServedPage, serveVars, viewVars
<1>2. /\ answered' = [answered EXCEPT ![t] = @ \/ (kind[c] = "gate" /\ answer[c] = "accepted")]
      /\ alreadyAnswered' = [alreadyAnswered EXCEPT ![t] = @ \/ (kind[c] = "gate" /\ answer[c] = "refused")]
  BY DEF ServedPage, Answered
<1>3. answered \in [Tabs -> BOOLEAN] /\ alreadyAnswered \in [Tabs -> BOOLEAN]
  BY DEF GateInv, StoryTypes
<1>4. CASE kind[c] # "gate"
  <2>1. answered' = answered /\ alreadyAnswered' = alreadyAnswered
    BY <1>2, <1>3, <1>4
  <2>2. \A d \in Calls : kind[d] = "gate" => Advances(d)
    BY <1>1, <1>4 DEF Advances
  <2> QED BY <1>1, <2>1, <2>2, GateFrame DEF GateInv, StoryTypes
<1>5. CASE kind[c] = "gate"
  <2>1. c \in ResponsesOf(t) /\ \A u \in Tabs : ResponsesOf(u)' \subseteq ResponsesOf(u)
    BY <1>1, <1>5 DEF ResponsesOf, InFlight
  <2>2. \A u \in Tabs : AnsweredBy(u)' <=> AnsweredBy(u)
    BY <1>1 DEF AnsweredBy
  <2>4. /\ \A u \in Tabs \ {t} : answered'[u] = answered[u] /\ alreadyAnswered'[u] = alreadyAnswered[u]
        /\ answered'[t] <=> answered[t] \/ answer[c] = "accepted"
        /\ alreadyAnswered'[t] <=> alreadyAnswered[t] \/ answer[c] = "refused"
    BY <1>1, <1>2, <1>3, <1>5
  <2>5. StoryTypes'
    BY <1>1, <1>2, <1>3 DEF GateInv, StoryTypes
  <2>6. AnswersTrue'
    BY <1>1 DEF GateInv, AnswersTrue
  <2>7. gate \in Calls /\ PhaseOf(gate) = "failed" => PhaseOf(gate)' = "failed"
    BY <1>1
  <2>8. OneResponse'
    BY <1>1, <2>1, <2>2, <2>7 DEF GateInv, OneResponse, AnsweredBy
  <2>9. ASSUME NEW u \in Tabs PROVE StoryOf(u)'
    <3>1. StoryOf(u)
      BY DEF GateInv, Stories
    <3>2. answered'[u] => AnsweredBy(u)'
      <4>1. answer[c] = "accepted" => AnsweredBy(t)
        BY <1>5, PageAssumption DEF GateInv, AnswersTrue, AnsweredBy
      <4> QED BY <2>2, <2>4, <3>1, <4>1 DEF StoryOf
    <3>3. AnsweredBy(u)' /\ PhaseOf(gate)' = "ok" => answered'[u] \/ ~shown'[u]
      <4>1. CASE gate = c
        <5>1. answer[c] = "accepted"
          BY <4>1, PageAssumption DEF GateInv, AnswersTrue
        <5> QED BY <1>1, <2>2, <2>4, <4>1, <5>1 DEF AnsweredBy
      <4>2. CASE gate # c
        BY <1>1, <2>2, <2>4, <3>1, <4>2 DEF StoryOf, AnsweredBy
      <4> QED BY <4>1, <4>2
    <3>4. alreadyAnswered'[u] => gate' # NoCall /\ (AnsweredBy(u)' => PhaseOf(gate)' = "failed")
      <4>1. CASE alreadyAnswered[u]
        <5>1. gate' = gate /\ (AnsweredBy(u) => PhaseOf(gate) = "failed") /\ gate # NoCall
          BY <1>1, <3>1, <4>1 DEF StoryOf
        <5>2. AnsweredBy(u) => PhaseOf(gate)' = "failed"
          BY <2>7, <5>1 DEF AnsweredBy
        <5> QED BY <2>2, <5>1, <5>2
      <4>2. CASE u = t /\ answer[c] = "refused"
        <5>1. gate # NoCall /\ gate # c
          BY <1>5, <4>2 DEF GateInv, AnswersTrue
        <5>2. AnsweredBy(t) => PhaseOf(gate) = "failed"
          BY <1>1, <2>1, <5>1 DEF GateInv, OneResponse
        <5>3. AnsweredBy(t) => PhaseOf(gate)' = "failed"
          BY <2>7, <5>2 DEF AnsweredBy
        <5> QED BY <1>1, <2>2, <4>2, <5>1, <5>3
      <4> QED BY <2>4, <4>1, <4>2
    <3> QED BY <3>2, <3>3, <3>4 DEF StoryOf
  <2>10. Stories'
    BY <2>9 DEF Stories
  <2> QED BY <2>5, <2>6, <2>8, <2>10 DEF GateInv
<1> QED BY <1>4, <1>5

LEMMA FoldStory ==
  ASSUME GateInv, NEW t \in Tabs, Fold(t)
  PROVE  GateInv'
<1>1. /\ UNCHANGED <<kind, gate, answer, calls>>
      /\ shown' = [shown EXCEPT ![t] = FALSE] \/ shown' = shown
      /\ answered' = [answered EXCEPT ![t] = @ /\ shown'[t]]
      /\ alreadyAnswered' = [alreadyAnswered EXCEPT ![t] = @ /\ shown'[t]]
  BY DEF Fold, Prune, vars, serveVars
<1>2. \A c : PhaseOf(c)' = PhaseOf(c)
  BY <1>1 DEF PhaseOf
<1>3. /\ shown \in [Tabs -> BOOLEAN] /\ answered \in [Tabs -> BOOLEAN]
      /\ alreadyAnswered \in [Tabs -> BOOLEAN] /\ shown' \in [Tabs -> BOOLEAN]
  BY <1>1 DEF GateInv, StoryTypes
<1>4. StoryTypes'
  BY <1>1, <1>3 DEF GateInv, StoryTypes
<1>5. AnswersTrue'
  BY <1>1, <1>2 DEF GateInv, AnswersTrue
<1>6. OneResponse'
  BY <1>1, <1>2 DEF GateInv, OneResponse, ResponsesOf, AnsweredBy
<1>7. \A u \in Tabs : /\ answered'[u] => answered[u]
                      /\ alreadyAnswered'[u] => alreadyAnswered[u]
                      /\ shown'[u] => shown[u]
                      /\ answered[u] /\ shown'[u] => answered'[u]
  BY <1>1, <1>3
<1>8. \A u \in Tabs : AnsweredBy(u)' <=> AnsweredBy(u)
  BY <1>1 DEF AnsweredBy
<1>9. Stories'
  BY <1>1, <1>2, <1>7, <1>8 DEF GateInv, Stories, StoryOf
<1> QED BY <1>4, <1>5, <1>6, <1>9 DEF GateInv

\* The gate's timeout tells no tab anything.
LEMMA TimesOutStory ==
  ASSUME GateInv, GateTimesOut
  PROVE  GateInv'
<1>1. /\ gate = NoCall /\ gate' = TimedOut
      /\ UNCHANGED <<kind, calls, answer, shown, answered, alreadyAnswered>>
  BY DEF GateTimesOut, vars, viewVars, storeVars
<1>2. gate \notin Calls /\ gate' \notin Calls
  BY <1>1, PageAssumption
<1>3. StoryTypes'
  BY <1>1 DEF GateInv, StoryTypes
<1>4. AnswersTrue'
  <2>1. \A c \in Calls : kind[c] = "gate" => answer[c] \notin {"accepted", "refused"}
    BY <1>1, <1>2 DEF GateInv, AnswersTrue
  <2> QED BY <1>1, <1>2, <2>1 DEF AnswersTrue
<1>5. OneResponse'
  BY <1>1, <1>2 DEF GateInv, OneResponse, ResponsesOf, AnsweredBy, PhaseOf
<1>6. Stories'
  BY <1>1, <1>2 DEF GateInv, Stories, StoryOf, AnsweredBy
<1> QED BY <1>3, <1>4, <1>5, <1>6 DEF GateInv

LEMMA GateStep ==
  ASSUME ControlInv, GateInv, [PageNext]_<<vars, pageVars>>
  PROVE  GateInv'
<1>1. CASE UNCHANGED <<vars, pageVars>>
  <2>1. \A c \in Calls : Advances(c)
    BY <1>1 DEF vars, Advances, PhaseOf
  <2> QED BY <1>1, <2>1, GateFrame DEF pageVars, serveVars, viewVars, storeVars, GateInv, StoryTypes
<1>2. CASE Elsewhere
  <2>1. UNCHANGED <<kind, gate, answer, shown, answered, alreadyAnswered>>
    BY <1>2 DEF Elsewhere, pageVars, serveVars, viewVars, storeVars
  <2> QED BY <1>2, <2>1, ElsewhereAdvances, GateFrame DEF GateInv, StoryTypes
<1>3. ASSUME NEW c \in Calls, StartCreate(c) \/ StartInput(c) \/ StartInterrupt(c) \/ StartOther(c)
      PROVE  GateInv'
  <2>1. /\ Start(c) /\ kind[c] # "gate"
        /\ UNCHANGED <<kind, gate, answer, shown, answered, alreadyAnswered>>
    BY <1>3 DEF StartCreate, StartInput, StartInterrupt, StartOther, pageVars, serveVars, viewVars, storeVars
  <2>2. \A d \in Calls : kind[d] = "gate" => Advances(d)
    BY <2>1, PageMoves DEF Advances
  <2> QED BY <2>1, <2>2, GateFrame DEF GateInv, StoryTypes
<1> QED BY <1>1, <1>2, <1>3, StartGateStory, ArriveStory, ServedStory, FoldStory, TimesOutStory
        DEF PageNext, Elsewhere

\* A tab told that its response was accepted answered the gate, and one told that
\* it lost a race lost it, to another tab, to its own unheard response or to the
\* gate's timeout, however many tabs respond and whichever reply is lost
\* (stores/gate.ts:18-23, 34-37).  Which of them it lost to, the code does not say.
THEOREM GateStoriesTrue == PageSpec => []GateStoryTrue
<1>1. GateInv => GateStoryTrue
  BY DEF GateInv, StoryTypes, Stories, StoryOf, AnsweredBy, GateStoryTrue, PhaseOf
<1>2. PageInit => ControlInv /\ GateInv
  BY InitControl, InitGate DEF PageInit
<1>3. ControlInv /\ GateInv /\ [PageNext]_<<vars, pageVars>> => (ControlInv /\ GateInv)'
  BY PageStep, GateStep, ControlStep
<1> QED BY <1>1, <1>2, <1>3, PTL DEF PageSpec

-----------------------------------------------------------------------------
(* Releases.                                                               *)

TreeTypes == {head, index, dist, first, second} \subseteq Trees

\* A tree that claims a release is one: the application, and nothing leaked.
Honest(t) == t.marker = "release" => t.shell = "app" /\ t.fit

\* A tree that is not may be staged, by a VerifyDist that failed half way: then the
\* release has still to restore HEAD's, or it ended and did not publish.
StagedHonestly ==
    \/ Honest(index)
    \/ pc = "rollback"
    \/ pc = "off" /\ outcome # "published"

HonestInv == TreeTypes /\ Honest(head) /\ StagedHonestly

LEMMA TreeFacts ==
  /\ NoTree \in Trees /\ Partial \in Trees
  /\ \A t \in Trees : Installed(t) => Honest(t)
<1>1. NoTree \in Trees /\ Partial \in Trees
  <2>1. NoTree \in Trees
    BY DEF NoTree, Trees
  <2>2. \A t \in Trees : [t EXCEPT !.files = TRUE] \in Trees
    BY DEF Trees
  <2> QED BY <2>1, <2>2 DEF Partial
<1>2. \A t \in Trees : Installed(t) => Honest(t)
  BY DEF Installed, CheckDist, Honest, Trees
<1> QED BY <1>1, <1>2

LEMMA InitHonest == ReleaseInit => HonestInv
  BY ReleaseAssumption, TreeFacts DEF ReleaseInit, HonestInv, TreeTypes, StagedHonestly, Honest

\* A step of the script that stages nothing, and does not publish from a tree
\* that has still to be restored.
LEMMA NothingStaged ==
  ASSUME HonestInv, UNCHANGED <<head, index>>, TreeTypes',
         pc # "off" \/ (pc' = "off" /\ outcome' = outcome),
         pc = "rollback" => pc' \in {"rollback", "off"} /\ outcome' # "published"
  PROVE  HonestInv'
<1>1. Honest(head)' /\ (Honest(index) => Honest(index)')
  BY DEF HonestInv, Honest
<1>2. StagedHonestly'
  BY <1>1 DEF HonestInv, StagedHonestly
<1> QED BY <1>1, <1>2 DEF HonestInv

\* Fail stages nothing, and never publishes.
LEMMA FailKeeps ==
  ASSUME Fail
  PROVE  UNCHANGED <<dist, index>>
  BY DEF Fail, Finish

LEMMA CommandsKeep ==
  ASSUME HonestInv,
         Spawn \/ Exit \/ Scribble \/ Interrupt \/ LeaderCloses \/ GraceEnds \/ KillWaitEnds \/ Crash
  PROVE  HonestInv'
<1>1. CASE Spawn
  BY <1>1, NothingStaged, FailKeeps DEF Spawn, HonestInv, TreeTypes
<1>2. CASE Exit \/ Interrupt \/ GraceEnds
  BY <1>2 DEF Exit, Interrupt, GraceEnds, gitVars, scriptVars, HonestInv, TreeTypes, StagedHonestly, Honest
<1>3. CASE Scribble
  BY <1>3, TreeFacts DEF Scribble, scriptVars, HonestInv, TreeTypes, StagedHonestly, Honest
<1>4. CASE LeaderCloses
  BY <1>4, NothingStaged DEF LeaderCloses, gitVars, HonestInv, TreeTypes
<1>5. CASE KillWaitEnds
  BY <1>5 DEF KillWaitEnds, gitVars, HonestInv, TreeTypes, StagedHonestly, Honest
<1>6. CASE Crash
  BY <1>6, NothingStaged DEF Crash, gitVars, HonestInv, TreeTypes
<1> QED BY <1>1, <1>2, <1>3, <1>4, <1>5, <1>6

LEMMA SettleKeeps ==
  ASSUME HonestInv, Settle
  PROVE  HonestInv'
<1>1. pc = "settling" /\ head' = head
  BY DEF Settle
<1>2. UNCHANGED <<dist, index>>
  BY FailKeeps DEF Settle, Settled
<1>3. first' \in Trees /\ second' \in Trees
  BY ReleaseAssumption DEF Settle, Settled, HonestInv, TreeTypes
<1> QED BY <1>1, <1>2, <1>3, NothingStaged DEF HonestInv, TreeTypes

LEMMA TransactionKeeps ==
  ASSUME HonestInv, StartRelease \/ Compare \/ RemoveTree \/ Copy \/ VerifyDist \/ Summary \/ Check
  PROVE  HonestInv'
<1>1. CASE StartRelease
  BY <1>1, TreeFacts DEF StartRelease, DistClean, gitVars, HonestInv, TreeTypes, StagedHonestly, Honest
<1>2. CASE Compare \/ Check
  <2>1. UNCHANGED <<head, index, dist, first, second>> /\ pc \in {"compare", "check"}
    BY <1>2, FailKeeps DEF Compare, Check
  <2> QED BY <2>1, NothingStaged DEF HonestInv, TreeTypes
<1>3. CASE RemoveTree \/ Copy \/ Summary
  BY <1>3, NothingStaged, TreeFacts DEF RemoveTree, Copy, Summary, Step, HonestInv, TreeTypes
<1>4. CASE VerifyDist
  <2>1. CASE Installed(dist)
    BY <1>4, <2>1, TreeFacts DEF VerifyDist, HonestInv, TreeTypes, StagedHonestly, Honest
  <2>2. CASE ~Installed(dist)
    <3>1. Fail /\ UNCHANGED <<head, first, second>> /\ pc = "verify"
      BY <1>4, <2>2 DEF VerifyDist
    <3> QED BY <3>1, FailKeeps, NothingStaged DEF HonestInv, TreeTypes
  <2> QED BY <2>1, <2>2
<1> QED BY <1>1, <1>2, <1>3, <1>4

LEMMA EndingsKeep ==
  ASSUME HonestInv, StepFails \/ RollBack \/ Commit \/ Reset
  PROVE  HonestInv'
<1>1. CASE StepFails
  BY <1>1, TreeFacts DEF StepFails, HonestInv, TreeTypes, StagedHonestly, Honest
<1>2. CASE RollBack
  <2>1. pc' = "off" /\ outcome' \in {"failed", "both failed"} /\ UNCHANGED <<head, first, second>>
        /\ dist' \in {head, dist, NoTree} /\ index' \in {head, index}
    BY <1>2 DEF RollBack, Finish
  <2> QED BY <2>1, TreeFacts DEF HonestInv, TreeTypes, StagedHonestly, Honest
<1>3. CASE Commit
  BY <1>3 DEF Commit, HonestInv, TreeTypes, StagedHonestly, Honest
<1>4. CASE Reset
  BY <1>4 DEF Reset, scriptVars, HonestInv, TreeTypes, StagedHonestly, Honest
<1> QED BY <1>1, <1>2, <1>3, <1>4

\* What is committed and taken for a release is served as the application it
\* claims, whatever crashed, was interrupted or wrote to dist/ on the way
\* (release-dist.mjs:253-330, bundle.go).
THEOREM CommittedServes == ReleaseSpec => []AcceptedServes
<1>1. HonestInv => AcceptedServes
  <2>1. ASSUME HonestInv, BundleProtocolVersion(head) = "release"
        PROVE  head.marker = "release" /\ head.files /\ head.shell = "app" /\ head.fit
    BY <2>1 DEF HonestInv, Honest, BundleProtocolVersion, TreeTypes, Trees
  <2> QED BY <2>1 DEF AcceptedServes, Serve, CheckDist
<1>2. HonestInv /\ [ReleaseNext]_releaseVars => HonestInv'
  <2>1. CASE UNCHANGED releaseVars
    BY <2>1 DEF releaseVars, gitVars, scriptVars, HonestInv, TreeTypes, StagedHonestly, Honest
  <2> QED BY <2>1, CommandsKeep, SettleKeeps, TransactionKeeps, EndingsKeep DEF ReleaseNext, Script
<1> QED BY InitHonest, <1>1, <1>2, PTL DEF ReleaseSpec

-----------------------------------------------------------------------------
\* Where the script stands alone: no process of a command is left.
Quiet == {"spawn", "compare", "remove", "copy", "verify", "summary", "check", "rollback"}
CommandInv ==
    /\ pc \in Quiet \union {"running", "settling", "off"}
    /\ pc \in Quiet => ~Alive
    /\ pc \in {"running", "settling"} => active
    /\ termination = "done" => ~Alive
    /\ pc = "settling" /\ termination = "none" => ~Alive
    /\ pc # "off" => outcome = "none"

\* What is published is gathered along the way: the builds agree, what is staged
\* is theirs, and each gate passes once.
Agreed == first = second
Gathered ==
    /\ pc \in {"spawn", "running", "settling"} =>
         \/ stage \in {"first", "second"} /\ passed = {}
         \/ stage = "test" /\ passed = {} /\ index = first /\ Agreed
         \/ stage = "build" /\ passed = {"test"} /\ index = first /\ Agreed
    /\ pc \in {"compare", "remove", "copy", "verify"} => stage = "test" /\ passed = {}
    /\ pc \in {"remove", "copy", "verify"} => Agreed
    /\ pc \in {"summary", "check"} => passed = {"test", "build"} /\ index = first /\ Agreed

CountTypes == counts \in [{"releases", "signals", "scribbles", "crashes"} -> Nat]

WholeInv == CommandInv /\ Gathered /\ EndsWhole /\ CountTypes

LEMMA AliveIsExisting == Alive <=> ProcessGroupExists
  BY DEF Alive, ProcessGroupExists

LEMMA InitWhole == ReleaseInit => WholeInv
  BY DEF ReleaseInit, WholeInv, CommandInv, Gathered, EndsWhole, CountTypes, Alive, Quiet

LEMMA CountsKeep ==
  ASSUME CountTypes, [ReleaseNext]_releaseVars
  PROVE  CountTypes'
<1>1. counts' = counts \/ \E what \in {"releases", "signals", "scribbles", "crashes"} :
        counts' = [counts EXCEPT ![what] = @ + 1]
  BY DEF ReleaseNext, Script, releaseVars, Count, Spawn, LeaderCloses, GraceEnds, KillWaitEnds, Settle, Compare,
         RemoveTree, Copy, Step, VerifyDist, Summary, Check, RollBack, StartRelease, Exit, Scribble, Interrupt,
         StepFails, Crash, Commit, Reset
<1> QED BY <1>1 DEF CountTypes

\* Where nothing is alive a failure restores HEAD's tree, or replaced nothing.
LEMMA FailEnds ==
  ASSUME Fail, ~Alive, outcome = "none"
  PROVE  \/ pc' = "rollback" /\ outcome' = "none"
         \/ pc' = "off" /\ outcome' = "failed" /\ ~publicationStarted
         \/ pc' = "off" /\ outcome' = "stopped"
  BY AliveIsExisting DEF Fail, Finish, HasLiveProcessGroup

\* A failure ends the release, restored or not, once no command can write.
LEMMA FailIsWhole ==
  ASSUME WholeInv, Fail, pc # "off", ~HasLiveProcessGroup => ~Alive',
         publicationStarted' = publicationStarted, termination' # "done" \/ ~Alive'
  PROVE  CommandInv' /\ Gathered' /\ EndsWhole'
<1>1. \/ pc' = "rollback" /\ outcome' = "none" /\ ~Alive'
      \/ pc' = "off" /\ outcome' = "failed" /\ ~publicationStarted
      \/ pc' = "off" /\ outcome' = "stopped"
  BY DEF Fail, Finish, WholeInv, CommandInv
<1> QED BY <1>1 DEF CommandInv, Gathered, EndsWhole, Quiet

LEMMA SpawnIsWhole ==
  ASSUME WholeInv, Spawn
  PROVE  CommandInv' /\ Gathered' /\ EndsWhole'
<1>1. pc = "spawn" /\ ~Alive /\ outcome = "none"
  BY DEF Spawn, WholeInv, CommandInv, Quiet
<1>2. CASE receivedSignal
  <2>1. Fail /\ UNCHANGED <<leader, rest, publicationStarted, termination>>
    BY <1>2 DEF Spawn, groupVars
  <2>2. ~Alive'
    BY <1>1, <2>1 DEF Alive
  <2> QED BY <1>1, <2>1, <2>2, FailIsWhole
<1>3. CASE ~receivedSignal
  BY <1>1, <1>3 DEF Spawn, WholeInv, CommandInv, Gathered, EndsWhole, Agreed, Quiet
<1> QED BY <1>2, <1>3

LEMMA CommandIsWhole ==
  ASSUME WholeInv,
         Exit \/ Scribble \/ Interrupt \/ LeaderCloses \/ GraceEnds \/ KillWaitEnds \/ Crash
  PROVE  CommandInv' /\ Gathered' /\ EndsWhole'
<1>1. CASE Exit
  <2>1. Alive' => Alive
    BY <1>1 DEF Exit, Alive
  <2>2. UNCHANGED <<gitVars, scriptVars, commandVars>>
    BY <1>1 DEF Exit
  <2> QED BY <2>1, <2>2
    DEF WholeInv, CommandInv, Gathered, EndsWhole, Agreed, DistClean, gitVars, scriptVars, commandVars
<1>2. CASE Scribble
  <2>1. Alive /\ Alive' = Alive
    BY <1>2, AliveIsExisting DEF Scribble, groupVars, Alive
  <2>2. UNCHANGED <<head, index, scriptVars, commandVars>>
    BY <1>2 DEF Scribble
  <2> QED BY <2>1, <2>2
    DEF WholeInv, CommandInv, Gathered, EndsWhole, Agreed, scriptVars, commandVars
<1>3. CASE Interrupt
  <2>1. UNCHANGED <<gitVars, scriptVars, active>> /\ Alive' = Alive /\ pc # "off"
    BY <1>3 DEF Interrupt, groupVars, Alive
  <2>2. termination' = termination \/ (termination' = "signalled" /\ termination = "none")
    BY <1>3 DEF Interrupt
  <2> QED BY <2>1, <2>2
    DEF WholeInv, CommandInv, Gathered, EndsWhole, Agreed, gitVars, scriptVars
<1>4. CASE LeaderCloses
  <2>1. /\ pc = "running" /\ pc' = "settling" /\ Alive' = Alive
        /\ termination' = IF termination = "none" /\ Alive THEN "signalled" ELSE termination
        /\ UNCHANGED <<gitVars, stage, first, second, publicationStarted, outcome, passed, active>>
    BY <1>4, AliveIsExisting DEF LeaderCloses, groupVars, Alive
  <2> QED BY <2>1 DEF WholeInv, CommandInv, Gathered, EndsWhole, Agreed, gitVars, Quiet
<1>5. CASE GraceEnds
  <2>1. /\ Alive' = Alive /\ termination' = IF Alive THEN "killed" ELSE "done"
        /\ UNCHANGED <<gitVars, scriptVars, active, receivedSignal>>
    BY <1>5, AliveIsExisting DEF GraceEnds, groupVars, Alive
  <2> QED BY <2>1 DEF WholeInv, CommandInv, Gathered, EndsWhole, Agreed, DistClean, gitVars, scriptVars
<1>6. CASE KillWaitEnds
  <2>1. /\ Alive' = Alive /\ termination' = IF Alive THEN "survived" ELSE "done"
        /\ UNCHANGED <<gitVars, stage, first, second, temporary, publicationStarted, passed, active,
                       receivedSignal>>
        /\ \/ pc = "running" /\ pc' = "off" /\ outcome' = "crashed"
           \/ UNCHANGED <<pc, outcome>>
    BY <1>6, AliveIsExisting DEF KillWaitEnds, groupVars, Alive
  <2> QED BY <2>1 DEF WholeInv, CommandInv, Gathered, EndsWhole, Agreed, DistClean, gitVars, Quiet
<1>7. CASE Crash
  <2>1. /\ pc' = "off" /\ outcome' = "crashed" /\ Alive' = Alive /\ termination' = termination
    BY <1>7 DEF Crash, groupVars, commandVars, Alive
  <2> QED BY <2>1 DEF WholeInv, CommandInv, Gathered, EndsWhole, Quiet
<1> QED BY <1>1, <1>2, <1>3, <1>4, <1>5, <1>6, <1>7

LEMMA SettleIsWhole ==
  ASSUME WholeInv, Settle
  PROVE  CommandInv' /\ Gathered' /\ EndsWhole'
<1>1. /\ pc = "settling" /\ active /\ outcome = "none"
      /\ UNCHANGED <<head, publicationStarted, receivedSignal>>
  BY DEF Settle, WholeInv, CommandInv
<1>2. CASE termination \in {"none", "done"} /\ leader' = "none" /\ rest' = rest /\ Settled
  <2>1. ~Alive /\ ~Alive'
    BY <1>1, <1>2 DEF WholeInv, CommandInv, Alive
  <2>2. CASE Fail
    BY <1>1, <1>2, <2>1, <2>2, FailIsWhole
  <2>3. CASE ~receivedSignal /\ stage \in {"test", "build"}
             /\ passed' = passed \union {stage} /\ pc' = After[stage] /\ stage' = "build"
             /\ UNCHANGED <<dist, index, first, second, outcome, temporary>>
    BY <1>1, <2>1, <2>3 DEF WholeInv, CommandInv, Gathered, EndsWhole, Agreed, After, Quiet
  <2>4. CASE /\ ~receivedSignal /\ stage \in {"first", "second"} /\ pc' = After[stage]
             /\ stage' = IF stage = "first" THEN "second" ELSE "test"
             /\ UNCHANGED <<dist, index, outcome, temporary, passed>>
    BY <1>1, <2>1, <2>4 DEF WholeInv, CommandInv, Gathered, EndsWhole, After, Quiet
  <2> QED BY <1>2, <2>2, <2>3, <2>4 DEF Settled
<1>3. CASE termination = "survived" /\ Fail
           /\ UNCHANGED <<stage, first, second, passed, active, termination, groupVars>>
  <2>1. Alive' = Alive /\ (~HasLiveProcessGroup => ~Alive)
    BY <1>1, <1>3, AliveIsExisting DEF HasLiveProcessGroup, groupVars, Alive
  <2> QED BY <1>1, <1>3, <2>1, FailIsWhole
<1> QED BY <1>2, <1>3 DEF Settle

LEMMA TransactionIsWhole ==
  ASSUME WholeInv, Compare \/ RemoveTree \/ Copy \/ VerifyDist \/ Summary \/ Check
  PROVE  CommandInv' /\ Gathered' /\ EndsWhole'
<1>1. /\ pc \in {"compare", "remove", "copy", "verify", "summary", "check"} /\ ~Alive
      /\ outcome = "none"
  BY DEF Compare, RemoveTree, Copy, VerifyDist, Summary, Check, Step, WholeInv, CommandInv, Quiet
<1>2. Alive' = Alive /\ UNCHANGED <<head, stage, first, second, passed, commandVars>>
  BY DEF Compare, RemoveTree, Copy, VerifyDist, Summary, Check, Step, groupVars, Alive
<1>3. ASSUME Fail, UNCHANGED publicationStarted PROVE CommandInv' /\ Gathered' /\ EndsWhole'
  BY <1>1, <1>2, <1>3, FailIsWhole
<1>4. CASE Compare
  <2>1. CASE Fail /\ UNCHANGED publicationStarted
    BY <1>3, <2>1
  <2>2. CASE first = second /\ pc' = "remove" /\ UNCHANGED <<dist, index, outcome, temporary>>
    BY <1>1, <1>2, <1>4, <2>2
      DEF Compare, WholeInv, CommandInv, Gathered, EndsWhole, Agreed, commandVars, Quiet
  <2> QED BY <1>4, <2>1, <2>2 DEF Compare
<1>5. CASE RemoveTree \/ Copy \/ Summary
  BY <1>1, <1>2, <1>5
    DEF RemoveTree, Copy, Summary, Step, WholeInv, CommandInv, Gathered, EndsWhole, Agreed, commandVars, Quiet
<1>6. CASE VerifyDist
  <2>1. CASE ~Installed(dist)
    BY <1>3, <1>6, <2>1 DEF VerifyDist
  <2>2. CASE Installed(dist)
    <3>1. pc = "verify" /\ dist = first /\ index' = dist /\ pc' = "spawn"
          /\ UNCHANGED <<dist, outcome, temporary, publicationStarted>>
      BY <1>6, <2>2 DEF VerifyDist, Installed
    <3> QED BY <1>1, <1>2, <3>1
      DEF WholeInv, CommandInv, Gathered, EndsWhole, Agreed, commandVars, Quiet
  <2> QED BY <2>1, <2>2
<1>7. CASE Check
  <2>1. CASE receivedSignal
    BY <1>3, <1>7, <2>1 DEF Check
  <2>2. CASE ~receivedSignal
    <3>1. ~temporary' /\ pc' = "off" /\ outcome' = "published" /\ UNCHANGED <<dist, index>>
      BY <1>1, <1>7, <2>2, AliveIsExisting DEF Check, Finish, HasLiveProcessGroup
    <3> QED BY <1>1, <1>2, <1>7, <2>2, <3>1
      DEF Check, WholeInv, CommandInv, Gathered, EndsWhole, Agreed, commandVars, Quiet
  <2> QED BY <2>1, <2>2
<1> QED BY <1>4, <1>5, <1>6, <1>7

LEMMA EndingIsWhole ==
  ASSUME WholeInv, StartRelease \/ StepFails \/ RollBack \/ Commit \/ Reset
  PROVE  CommandInv' /\ Gathered' /\ EndsWhole'
<1>1. CASE StartRelease
  <2>1. ~Alive'
    BY <1>1, AliveIsExisting DEF StartRelease, Alive
  <2> QED BY <1>1, <2>1 DEF StartRelease, CommandInv, Gathered, EndsWhole, Quiet
<1>2. CASE StepFails
  <2>1. /\ pc \in Quiet /\ pc' = "rollback" /\ Alive' = Alive
        /\ UNCHANGED <<outcome, active, termination>>
    BY <1>2 DEF StepFails, groupVars, commandVars, Alive, Quiet
  <2> QED BY <2>1 DEF WholeInv, CommandInv, Gathered, EndsWhole, Quiet
<1>3. CASE RollBack
  <2>1. /\ pc = "rollback" /\ pc' = "off" /\ Alive' = Alive /\ UNCHANGED <<head, active, termination>>
        /\ \/ outcome' = "failed" /\ dist' = head /\ index' = head
           \/ outcome' = "both failed"
    BY <1>3 DEF RollBack, Finish, groupVars, commandVars, Alive
  <2> QED BY <2>1 DEF WholeInv, CommandInv, Gathered, EndsWhole, DistClean, Quiet
<1>4. CASE Commit
  <2>1. pc = "off" /\ pc' = pc /\ outcome' = "none" /\ Alive' = Alive /\ termination' = termination
    BY <1>4 DEF Commit, groupVars, commandVars, Alive
  <2> QED BY <2>1 DEF WholeInv, CommandInv, Gathered, EndsWhole, Quiet
<1>5. CASE Reset
  <2>1. /\ pc = "off" /\ outcome # "published" /\ dist' = head /\ index' = head /\ head' = head
        /\ Alive' = Alive /\ UNCHANGED <<scriptVars, commandVars>>
    BY <1>5 DEF Reset, groupVars, Alive
  <2> QED BY <2>1
    DEF WholeInv, CommandInv, Gathered, EndsWhole, DistClean, scriptVars, commandVars, Quiet
<1> QED BY <1>1, <1>2, <1>3, <1>4, <1>5

LEMMA WholeStep ==
  ASSUME WholeInv, [ReleaseNext]_releaseVars
  PROVE  WholeInv'
<1>1. CountTypes'
  BY CountsKeep DEF WholeInv
<1>2. CASE UNCHANGED releaseVars
  BY <1>1, <1>2 DEF releaseVars, gitVars, scriptVars, commandVars, groupVars, WholeInv, CommandInv, Gathered,
                    EndsWhole, Agreed, DistClean, Alive
<1>3. CASE ReleaseNext
  BY <1>1, <1>3, SpawnIsWhole, CommandIsWhole, SettleIsWhole, TransactionIsWhole, EndingIsWhole
     DEF ReleaseNext, Script, WholeInv
<1> QED BY <1>2, <1>3

\* However a release ends dist/ is whole: what is published is what both builds
\* agreed on and both gates passed over, and after a failure HEAD's tree is back
\* with nobody left to write to it (release-dist.mjs:253-330).
THEOREM ReleasesEndWhole == ReleaseSpec => []EndsWhole
<1>1. WholeInv => EndsWhole
  BY DEF WholeInv
<1> QED BY <1>1, InitWhole, WholeStep, PTL DEF ReleaseSpec

\* The release writes to dist/ only while no process of a command is alive
\* (release-dist.mjs:118-222).
THEOREM ReleaseWritesAlone == ReleaseSpec => WrittenAlone
<1>1. ASSUME WholeInv, [ReleaseNext]_releaseVars, pc # "off", dist' # dist, counts' = counts
      PROVE  ~Alive
  <2>1. ~Scribble
    BY <1>1 DEF Scribble, Count, WholeInv, CountTypes
  <2>2. pc \in Quiet
    <3>1. CASE Settle
      BY <1>1, <3>1, FailKeeps DEF Settle, Settled
    <3>2. CASE ~Settle
      BY <1>1, <2>1, <3>2, FailKeeps
        DEF ReleaseNext, Script, releaseVars, gitVars, scriptVars, Spawn, LeaderCloses, GraceEnds, KillWaitEnds,
            Compare, RemoveTree, Copy, Step, VerifyDist, Summary, Check, RollBack, StartRelease, Exit, Interrupt,
            StepFails, Crash, Commit, Reset, Quiet
    <3> QED BY <3>1, <3>2
  <2> QED BY <1>1, <2>2 DEF WholeInv, CommandInv
<1> QED BY <1>1, InitWhole, WholeStep, PTL DEF ReleaseSpec, WrittenAlone
=============================================================================
