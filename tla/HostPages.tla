------------------------------- MODULE HostPages -------------------------------
(***************************************************************************)
(* The pages of the wui-hosted plane over HostControl: the create form     *)
(* (app/src/components/new-session-button.tsx), the composer               *)
(* (packages/react/src/stores/composer.ts, use-composer.ts) and the gate   *)
(* responses (stores/gate.ts, use-gate.ts) and interrupts                  *)
(* (use-interrupt.ts) of each tab, and what serve makes of their requests. *)
(* One session is open in every tab; it has one gate.  A tab's folded view *)
(* follows serve at its own pace.                                          *)
(***************************************************************************)
EXTENDS HostControl

CONSTANTS
    Kinds,      \* what the calls may be for: functions from Calls
    Goals       \* the texts a create form may hold

PageKinds == {"create", "gate", "input", "interrupt", "other"}
NoCall == "no call"
TimedOut == "timed out"  \* the gate's own response policy resolved it
NoText == ""     \* the text of no attempt

ASSUME PageAssumption ==
    /\ Kinds \subseteq [Calls -> PageKinds] /\ {NoCall, TimedOut} \cap Calls = {}
    /\ NoText \notin Goals

VARIABLES
    kind,       \* what each call is for
    attempt,    \* its attempt ref: the text and the key minted for it
    carries,    \* what each create carries
    answer,     \* what serve answered each call
    sessions,   \* serve: the sessions created, by the key and text they came with
    gate,       \* serve: the call that answered the gate, or TimedOut
    shown,      \* each tab's folded view: the gate is open,
    outcomes,   \*   and commandOutcomes
    answered, alreadyAnswered,  \* GateResponseStore, for the gate
    pending,    \* the composer's pending rows
    made        \* history: per tab, sessions made for the text it is trying

formVars == <<attempt, carries>>
serveVars == <<answer, sessions, gate>>
viewVars == <<shown, outcomes>>
storeVars == <<answered, alreadyAnswered, pending>>
pageVars == <<kind, formVars, serveVars, viewVars, storeVars, made>>

NoAttempt == [goal |-> NoText, key |-> NoCall]

PageInit ==
    /\ Init /\ kind \in Kinds
    /\ attempt = [t \in Tabs |-> NoAttempt] /\ carries = [c \in Calls |-> NoAttempt]
    /\ answer = [c \in Calls |-> "none"] /\ sessions = {} /\ gate = NoCall
    /\ shown = [t \in Tabs |-> TRUE] /\ outcomes = [t \in Tabs |-> {}]
    /\ answered = [t \in Tabs |-> FALSE] /\ alreadyAnswered = [t \in Tabs |-> FALSE]
    /\ pending = [t \in Tabs |-> {}]
    /\ made = [t \in Tabs |-> [goal |-> NoText, sessions |-> 0]]

\* creating, submitting, responding, interrupting
Busy(t, what) ==
    \E c \in Calls : TabOf[c] = t /\ kind[c] = what /\ calls[c].phase \notin {"idle"} \union Over

-----------------------------------------------------------------------------
(* The create form.                                                        *)

\* Seeded fault: a key per click.
KeyPerClick(t, c, goal) == c

\* idempotencyKeyFor(): the key the text was first sent with, or a new one,
\* named here for the call that mints it.
IdempotencyKeyFor(t, c, goal) == IF attempt[t].goal = goal THEN attempt[t].key ELSE c

\* submit(), of whatever the form holds by now.
StartCreate(c) ==
    \E goal \in Goals : LET t == TabOf[c]
        sending == [goal |-> goal, key |-> IdempotencyKeyFor(t, c, goal)]
    IN  /\ kind[c] = "create" /\ ~Busy(t, "create") /\ Start(c)
        /\ attempt' = [attempt EXCEPT ![t] = sending]
        /\ carries' = [carries EXCEPT ![c] = sending]
        /\ made' = [made EXCEPT ![t] = IF @.goal = goal THEN @ ELSE [goal |-> goal, sessions |-> 0]]
        /\ UNCHANGED <<kind, serveVars, viewVars, storeVars>>

-----------------------------------------------------------------------------
(* The session's page.                                                     *)

\* submit(): one at a time.
StartInput(c) ==
    /\ kind[c] = "input" /\ ~Busy(TabOf[c], "input") /\ Start(c)
    /\ UNCHANGED pageVars

\* What useGate() lists: a gate the view holds open, until this tab answered it.
Offered(t) == shown[t] /\ ~answered[t]

\* Seeded fault: a response in flight does not hold back the next.
StartGateAgain(c) ==
    /\ kind[c] = "gate" /\ Offered(TabOf[c]) /\ Start(c)
    /\ UNCHANGED pageVars

\* respond(): for a gate the tab shows, one at a time and not when answered.  A
\* Deny pressed meanwhile (permission-gate-card.tsx:33-36) is dropped here too.
StartGate(c) ==
    /\ kind[c] = "gate" /\ Offered(TabOf[c]) /\ ~Busy(TabOf[c], "gate") /\ Start(c)
    /\ UNCHANGED pageVars

\* interrupt(): one at a time, and nothing to keep of its answer.
StartInterrupt(c) ==
    /\ kind[c] = "interrupt" /\ ~Busy(TabOf[c], "interrupt") /\ Start(c)
    /\ UNCHANGED pageVars

\* A control request of another caller of the transport.
StartOther(c) == kind[c] = "other" /\ Start(c) /\ UNCHANGED pageVars

\* What the stores make of an answer that arrives.
Answered(c) ==
    LET t == TabOf[c] IN
    /\ answered' = [answered EXCEPT ![t] = @ \/ (kind[c] = "gate" /\ answer[c] = "accepted")]
    /\ alreadyAnswered' = [alreadyAnswered EXCEPT ![t] = @ \/ (kind[c] = "gate" /\ answer[c] = "refused")]
    /\ pending' = [pending EXCEPT ![t] = IF kind[c] = "input" THEN @ \union {c} ELSE @]
    /\ IF kind[c] = "create" /\ answer[c] = "accepted"
       THEN /\ attempt' = [attempt EXCEPT ![t] = NoAttempt]
            /\ made' = [made EXCEPT ![t] = [goal |-> NoText, sessions |-> 0]]
       ELSE UNCHANGED <<attempt, made>>

ServedPage(c) ==
    /\ Served(c) /\ Answered(c)
    /\ UNCHANGED <<kind, carries, serveVars, viewVars>>

\* prune(): what is known of a gate the view no longer shows is forgotten.
Prune(t, open) ==
    /\ answered' = [answered EXCEPT ![t] = @ /\ open]
    /\ alreadyAnswered' = [alreadyAnswered EXCEPT ![t] = @ /\ open]

\* reconcile(): a row whose command was acknowledged is the fold's.
Reconcile(t, acknowledged) == pending' = [pending EXCEPT ![t] = @ \ acknowledged]

\* A frame is folded: the gate's resolution, an input's outcome, or another.
Fold(t) ==
    /\ \/ gate # NoCall /\ shown' = [shown EXCEPT ![t] = FALSE] /\ UNCHANGED outcomes
       \/ /\ \E c \in Calls : /\ kind[c] = "input" /\ answer[c] = "accepted"
                              /\ outcomes' = [outcomes EXCEPT ![t] = @ \union {c}]
          /\ UNCHANGED shown
    /\ Prune(t, shown'[t]) /\ Reconcile(t, outcomes'[t])
    /\ UNCHANGED <<vars, kind, formVars, serveVars, made>>

-----------------------------------------------------------------------------
(* serve.                                                                  *)

Handle(c) ==
    CASE kind[c] = "create" ->
           LET known == {s \in sessions : s.key = carries[c].key} IN
           /\ sessions' = IF known = {} THEN sessions \union {carries[c]} ELSE sessions
           /\ answer' = [answer EXCEPT ![c] = IF known \subseteq {carries[c]} THEN "accepted" ELSE "conflict"]
           /\ made' = [made EXCEPT ![TabOf[c]].sessions = IF known = {} THEN @ + 1 ELSE @]
           /\ UNCHANGED gate
      [] kind[c] = "gate" ->
           /\ answer' = [answer EXCEPT ![c] = IF gate = NoCall THEN "accepted" ELSE "refused"]
           /\ gate' = IF gate = NoCall THEN c ELSE gate
           /\ UNCHANGED <<sessions, made>>
      [] OTHER -> answer' = [answer EXCEPT ![c] = "accepted"] /\ UNCHANGED <<gate, sessions, made>>

\* The gate's response policy decides it, no client having done so (gate.ts:35-37).
GateTimesOut ==
    /\ gate = NoCall /\ \E c \in Calls : kind[c] = "gate"   \* a bound: else nobody is told
    /\ gate' = TimedOut
    /\ UNCHANGED <<vars, kind, formVars, answer, sessions, viewVars, storeVars, made>>

ArrivePage(c) ==
    /\ Arrive(c)
    /\ IF calls'[c].phase = "served" THEN Handle(c) ELSE UNCHANGED <<serveVars, made>>
    /\ UNCHANGED <<kind, formVars, viewVars, storeVars>>

-----------------------------------------------------------------------------
PageNext ==
    \/ \E t \in Tabs : Fold(t)
    \/ \E c \in Calls : \/ StartCreate(c) \/ StartInput(c) \/ StartGate(c) \/ StartInterrupt(c)
                        \/ StartOther(c)
                        \/ ArrivePage(c) \/ ServedPage(c)
    \/ GateTimesOut
    \/ /\ \/ Age \/ Restart
          \/ \E t \in Tabs : MintServed(t) \/ MintArrives(t) \/ MintFails(t)
          \/ \E c \in Calls : Rejected(c) \/ Fails(c) \/ (kind[c] = "other" /\ Abort(c))
       /\ UNCHANGED pageVars

PageSpec == PageInit /\ [][PageNext]_<<vars, pageVars>>

-----------------------------------------------------------------------------
\* However often a text is sent, whatever answers are lost and whatever tokens
\* are rejected, it makes one session until the form is told it did or tries
\* another text, and no key is ever sent with a text it was not minted for
\* (new-session-button.tsx:32-42).
GoalOnce ==
    /\ \A t \in Tabs : made[t].sessions <= 1
    /\ \A c \in Calls : answer[c] # "conflict"

\* A tab that was told its response was accepted answered the gate, whatever
\* its policy and the other tabs did.  One that was told it lost a race lost it:
\* to another tab, to its own earlier response whose answer was lost, or to the
\* gate's own timeout, which the code does not tell from another client
\* (stores/gate.ts:18-23, 34-37): the card then says that another client answered
\* (permission-gate-card.tsx:116), and this property does not say that it did.
GateStoryTrue ==
    \A t \in Tabs :
        /\ answered[t] => gate \in Calls /\ TabOf[gate] = t
        /\ alreadyAnswered[t] =>
              \/ gate = TimedOut
              \/ gate \in Calls /\ (TabOf[gate] = t => calls[gate].phase = "failed")

=============================================================================
