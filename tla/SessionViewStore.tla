-------------------------- MODULE SessionViewStore --------------------------
(***************************************************************************)
(* The legacy view's owner (packages/protocol/src/store.ts): it runs one   *)
(* join at a time, publishes what the join folded once per frame, and      *)
(* reports errors, liveness and the binding's state on channels of their   *)
(* own.  SessionConnectionStore (packages/react/src/stores/connection.ts), *)
(* which makes one connection status of two of those channels, listens to  *)
(* it here, because what it concludes depends on the order they speak in.  *)
(*                                                                         *)
(* Every listener is called synchronously, in the middle of the method that*)
(* speaks, and may call start() or stop() itself.  `calls` is the stack of *)
(* methods suspended in a listener; the top one resumes when its listener  *)
(* returns.  Microtasks drain before any other event is handled.           *)
(***************************************************************************)
EXTENDS Naturals, Sequences, SequencesExt

CONSTANTS
    Habits,         \* for each application: the channels whose listeners may
                    \* call start() and stop() themselves
    MaxGeneration,  \* bound: start() and stop() calls that bump `generation`
    MaxEvents,      \* bound: events one join delivers
    MaxReports,     \* bound: frames a join drops, and repairs it announces
    MaxDepth        \* bound: methods suspended at once

ASSUME HabitsAssumption == Habits \subseteq SUBSET {"lifecycle", "notify", "error"}
ASSUME BoundAssumption ==
    /\ {MaxGeneration, MaxEvents, MaxReports} \subseteq Nat
    /\ MaxDepth \in Nat \ {0}

VARIABLES
    active, binding, generation,
    joins,              \* the pumps that have not returned, oldest first
    abortController,    \* the generation it belongs to, 0 when undefined
    offVisibility,      \* the generation it unsubscribes, 0 when undefined
    onVisibility,       \* the generations whose visibility listener is installed
    current,            \* how many events `current` holds, and of which join
    published, dirty, stalePublication,
    frame,              \* "none", or the timer the pending handle waits on
    urgentFlush,
    reports,            \* the damping counters of the two error echoes
    hidden,             \* document.hidden
    calls, microtasks,
    status,             \* SessionConnectionStore's published status
    candidate,          \* its #candidate: "none", "warning" or "failure"
    wanted,             \* history: the last of start() and stop() called, or
                        \* how the join that start() asked for ended
    urgent,             \* history: `current` after the last live enduring frame
    habit               \* the channels this application calls back from

runVars == <<joins, abortController, offVisibility, onVisibility>>
viewVars == <<current, published, dirty, stalePublication, frame>>
connectionVars == <<status, candidate>>
vars == <<active, binding, generation, runVars, viewVars, urgentFlush, reports,
          hidden, calls, microtasks, connectionVars, wanted, urgent, habit>>

Empty == [join |-> 0, events |-> 0]
Views == [join : 0..MaxGeneration, events : 0..MaxEvents]
Suspended == [next : {"startReset", "startJoin", "stopRest", "pumpRest",
                      "settle", "settleRest", "return"},
              of : 0..MaxGeneration, flush : BOOLEAN, heard : BOOLEAN]
FreshReports == [drops |-> 0, nextDrop |-> 1, repairs |-> 0, nextRepair |-> 1]
Microtask == [task : {"flush", "warn"}, of : 0..MaxGeneration]

TypeOK ==
    /\ {active, dirty, stalePublication, urgentFlush, hidden} \subseteq BOOLEAN
    /\ binding \in {"live", "repair_required", "inactive"}
    /\ generation \in 0..MaxGeneration
    /\ \A i \in DOMAIN joins :
         joins[i] \in [of : 1..MaxGeneration, events : 0..MaxEvents, aborted : BOOLEAN]
    /\ {abortController, offVisibility} \subseteq 0..MaxGeneration
    /\ onVisibility \subseteq 1..MaxGeneration
    /\ {current, published, urgent} \subseteq Views
    /\ frame \in {"none", "animation", "timer"}
    /\ reports \in [drops : 0..MaxReports, nextDrop : Nat, repairs : 0..MaxReports, nextRepair : Nat]
    /\ \A i \in DOMAIN calls : calls[i] \in Suspended
    /\ Len(calls) <= MaxDepth
    /\ \A i \in DOMAIN microtasks : microtasks[i] \in Microtask
    /\ status \in [state : {"idle", "live", "closed", "failed"}, warned : BOOLEAN]
    /\ candidate \in {"none", "warning", "failure"}
    /\ wanted \in {"nothing", "running", "stopped", "ended", "failed"}
    /\ habit \in Habits
    /\ urgentFlush <=> \E i \in DOMAIN microtasks : microtasks[i].task = "flush"

Init ==
    /\ active = FALSE /\ binding = "live" /\ generation = 0
    /\ joins = <<>> /\ abortController = 0 /\ offVisibility = 0 /\ onVisibility = {}
    /\ current = Empty /\ published = Empty /\ dirty = FALSE
    /\ stalePublication = FALSE /\ frame = "none" /\ urgentFlush = FALSE
    /\ reports = FreshReports
    /\ hidden \in BOOLEAN
    /\ calls = <<>> /\ microtasks = <<>>
    /\ status = [state |-> "idle", warned |-> FALSE] /\ candidate = "none"
    /\ wanted = "nothing" /\ urgent = Empty
    /\ habit \in Habits

-----------------------------------------------------------------------------
(* The stack of suspended methods.                                         *)

Idle == calls = <<>> /\ microtasks = <<>>

\* Application code runs between events, or inside the listener that the
\* method on top of the stack is waiting for.
MayCall ==
    \/ Idle
    \/ calls # <<>> /\ Head(calls).heard /\ Len(calls) < MaxDepth

Suspend(next, of, flush, channel) ==
    [next |-> next, of |-> of, flush |-> flush, heard |-> channel \in habit]

Resumes(next) == calls # <<>> /\ Head(calls).next = next
Push(call) == calls' = <<call>> \o calls
Replace(call) == calls' = <<call>> \o Tail(calls)
Pop == calls' = Tail(calls)

-----------------------------------------------------------------------------
(* SessionConnectionStore's two listeners.                                 *)

\* A fold error is a warning by contract; anything else waits for its own
\* microtask, or for the liveness transition that makes it the failure.
HearError(kind) ==
    IF kind = "fold"
    THEN /\ status' = [status EXCEPT !.warned = TRUE]
         /\ UNCHANGED <<candidate, microtasks>>
    ELSE /\ candidate' = kind
         /\ microtasks' = Append(microtasks, [task |-> "warn", of |-> 0])
         /\ UNCHANGED status

HearLifecycle(becomes) ==
    /\ status' = [status EXCEPT !.state =
                    IF becomes THEN "live"
                    ELSE IF candidate = "none" THEN "closed" ELSE "failed"]
    /\ candidate' = IF becomes THEN candidate ELSE "none"

-----------------------------------------------------------------------------
(* The helpers every method shares.                                        *)

\* The binding's state follows liveness; nobody hears a repeated value.
SetActive(becomes) ==
    IF active = becomes
    THEN UNCHANGED <<active, binding, connectionVars>>
    ELSE /\ active' = becomes
         /\ binding' = IF becomes THEN "live" ELSE "inactive"
         /\ HearLifecycle(becomes)

Schedule == IF hidden THEN "timer" ELSE "animation"

\* finalize(): whatever frame is pending is cancelled, and commit() publishes.
Finalize(view) ==
    /\ frame' = "none"
    /\ dirty' = FALSE
    /\ published' = view
    /\ stalePublication' = TRUE

FinalizeIfDirty ==
    IF dirty THEN Finalize(current)
    ELSE frame' = "none" /\ UNCHANGED <<published, dirty, stalePublication>>

Unlisten ==
    /\ onVisibility' = onVisibility \ {offVisibility}
    /\ offVisibility' = 0

-----------------------------------------------------------------------------
(* start().                                                                *)

Start ==
    /\ MayCall
    /\ ~active
    /\ generation < MaxGeneration
    /\ SetActive(TRUE)
    /\ Push(Suspend("startReset", 0, FALSE, "lifecycle"))
    /\ wanted' = "running"
    /\ UNCHANGED <<urgent, generation, runVars, viewVars, urgentFlush, reports, hidden, microtasks>>

\* A completed run's rows are replaced at once; a first start says nothing.
StartReset ==
    /\ Resumes("startReset")
    /\ current' = Empty
    /\ IF stalePublication
       THEN /\ Finalize(Empty)
            /\ Replace(Suspend("startJoin", 0, FALSE, "notify"))
       ELSE /\ UNCHANGED <<published, dirty, stalePublication, frame>>
            /\ Replace(Suspend("startJoin", 0, FALSE, "nobody"))
    /\ UNCHANGED <<active, binding, generation, runVars, urgentFlush, reports, hidden,
                   microtasks, connectionVars, wanted, urgent>>

StartJoin ==
    /\ Resumes("startJoin")
    /\ generation < MaxGeneration
    /\ LET g == generation + 1
       IN /\ generation' = g
          /\ joins' = Append(joins, [of |-> g, events |-> 0, aborted |-> FALSE])
          /\ abortController' = g
          /\ offVisibility' = g
          /\ onVisibility' = onVisibility \union {g}
    /\ stalePublication' = FALSE
    /\ reports' = FreshReports
    /\ Pop
    /\ UNCHANGED <<active, binding, current, published, dirty, frame, urgentFlush, hidden,
                   microtasks, connectionVars, wanted, urgent>>

-----------------------------------------------------------------------------
(* stop().                                                                 *)

Stop ==
    /\ MayCall
    /\ generation < MaxGeneration
    /\ generation' = generation + 1
    /\ SetActive(FALSE)
    /\ Push(Suspend("stopRest", 0, FALSE, IF active THEN "lifecycle" ELSE "nobody"))
    /\ wanted' = IF active THEN "stopped" ELSE wanted
    /\ UNCHANGED <<urgent, runVars, viewVars, urgentFlush, reports, hidden, microtasks>>

\* abort() and cancelActive() reach the run whose handles the store holds now.
StopRest ==
    /\ Resumes("stopRest")
    /\ joins' = [i \in DOMAIN joins |->
                   [joins[i] EXCEPT !.aborted = @ \/ joins[i].of = abortController]]
    /\ abortController' = 0
    /\ Unlisten
    /\ FinalizeIfDirty
    /\ Pop
    /\ UNCHANGED <<active, binding, generation, current, urgentFlush, reports, hidden,
                   microtasks, connectionVars, wanted, urgent>>

-----------------------------------------------------------------------------
(* pump(): one per run, each superseded one returns at its next event.     *)

Leave(i) == joins' = RemoveAt(joins, i)

PumpEvent(i) ==
    LET r == joins[i]
    IN  \E ok, flush \in BOOLEAN :
        /\ Idle
        /\ r.of = generation
        /\ r.events < MaxEvents
        /\ joins' = [joins EXCEPT ![i].events = @ + 1]
        /\ current' = [join |-> r.of, events |-> r.events + 1]
        /\ IF ok THEN UNCHANGED <<connectionVars, microtasks>> ELSE HearError("fold")
        /\ Push(Suspend("pumpRest", r.of, flush, IF ok THEN "nobody" ELSE "error"))
        /\ UNCHANGED <<active, binding, generation, abortController, offVisibility, onVisibility,
                       published, dirty, stalePublication, frame, urgentFlush, reports, hidden,
                       wanted, urgent>>

\* publish(), then flushSoon() for a live enduring frame.
PumpRest ==
    /\ Resumes("pumpRest")
    /\ dirty' = TRUE
    /\ frame' = IF frame = "none" THEN Schedule ELSE frame
    /\ IF Head(calls).flush /\ ~urgentFlush
       THEN /\ urgentFlush' = TRUE
            /\ microtasks' = Append(microtasks, [task |-> "flush", of |-> generation])
       ELSE UNCHANGED <<urgentFlush, microtasks>>
    /\ urgent' = IF Head(calls).flush THEN current ELSE urgent
    /\ Pop
    /\ UNCHANGED <<active, binding, generation, runVars, current, published, stalePublication,
                   reports, hidden, connectionVars, wanted>>

\* The stream ended with autoReconnect off, or its signal was aborted.
PumpEnds(i) ==
    LET r == joins[i]
    IN  /\ Idle
        /\ Leave(i)
        /\ Push(Suspend("settle", r.of, FALSE, "nobody"))
        /\ wanted' = IF r.of = generation /\ ~r.aborted THEN "ended" ELSE wanted
        /\ UNCHANGED <<urgent, active, binding, generation, abortController, offVisibility, onVisibility,
                       viewVars, urgentFlush, reports, hidden, microtasks, connectionVars>>

\* The catch: a terminal failure is an error first, while still active.
PumpFails(i) ==
    LET r == joins[i]
    IN  /\ Idle
        /\ r.of = generation
        /\ Leave(i)
        /\ HearError("failure")
        /\ Push(Suspend("settle", r.of, FALSE, "error"))
        /\ wanted' = IF r.aborted THEN wanted ELSE "failed"
        /\ UNCHANGED <<urgent, active, binding, generation, abortController, offVisibility, onVisibility,
                       viewVars, urgentFlush, reports, hidden>>

\* Seeded fault: the finally does not check the generation.
SettleUnguarded ==
    /\ Resumes("settle")
    /\ SetActive(FALSE)
    /\ Replace(Suspend("settleRest", 0, FALSE, IF active THEN "lifecycle" ELSE "nobody"))
    /\ UNCHANGED <<generation, runVars, viewVars, urgentFlush, reports, hidden, microtasks, wanted, urgent>>

\* The finally: a run that a newer one superseded settles nothing.
Settle ==
    /\ Resumes("settle")
    /\ IF Head(calls).of = generation
       THEN /\ SetActive(FALSE)
            /\ Replace(Suspend("settleRest", 0, FALSE, IF active THEN "lifecycle" ELSE "nobody"))
       ELSE /\ Pop
            /\ UNCHANGED <<active, binding, connectionVars>>
    /\ UNCHANGED <<generation, runVars, viewVars, urgentFlush, reports, hidden, microtasks, wanted, urgent>>

SettleRest ==
    /\ Resumes("settleRest")
    /\ Unlisten
    /\ FinalizeIfDirty
    /\ Pop
    /\ UNCHANGED <<active, binding, generation, joins, abortController, current, urgentFlush,
                   reports, hidden, microtasks, connectionVars, wanted, urgent>>

-----------------------------------------------------------------------------
(* The join's callbacks, echoed on the error channel on a doubling schedule. *)

\* A method that does nothing after its listener: application code may still
\* call in before the turn ends.
Returning == Suspend("return", 0, FALSE, "error")

Return ==
    /\ Resumes("return")
    /\ Pop
    /\ UNCHANGED <<active, binding, generation, runVars, viewVars, urgentFlush, reports, hidden,
                   microtasks, connectionVars, wanted, urgent>>

QueueOverflow(i) ==
    LET total == reports.drops + 1
    IN  /\ Idle
        /\ joins[i].of = generation
        /\ total <= MaxReports
        /\ IF total < reports.nextDrop
           THEN /\ reports' = [reports EXCEPT !.drops = total]
                /\ UNCHANGED <<connectionVars, microtasks, calls>>
           ELSE /\ reports' = [reports EXCEPT !.drops = total, !.nextDrop = total * 2]
                /\ HearError("warning")
                /\ Push(Returning)
        /\ UNCHANGED <<active, binding, generation, runVars, viewVars, urgentFlush, hidden, wanted, urgent>>

\* onBindingState("repair_required", cause): echoed only on a real transition.
RepairRequired(i) ==
    LET episode == reports.repairs + 1
    IN  /\ Idle
        /\ joins[i].of = generation
        /\ episode <= MaxReports
        /\ binding # "repair_required"
        /\ binding' = "repair_required"
        /\ IF episode < reports.nextRepair
           THEN /\ reports' = [reports EXCEPT !.repairs = episode]
                /\ UNCHANGED <<connectionVars, microtasks, calls>>
           ELSE /\ reports' = [reports EXCEPT !.repairs = episode, !.nextRepair = episode * 2]
                /\ HearError("warning")
                /\ Push(Returning)
        /\ UNCHANGED <<active, generation, runVars, viewVars, urgentFlush, hidden, wanted, urgent>>

RepairDone(i) ==
    /\ Idle
    /\ joins[i].of = generation
    /\ binding = "repair_required"
    /\ binding' = "live"
    /\ UNCHANGED <<active, generation, runVars, viewVars, urgentFlush, reports, hidden, calls,
                   microtasks, connectionVars, wanted, urgent>>

-----------------------------------------------------------------------------
(* The browser: microtasks, frames and the visibility of the document.     *)

FlushTask ==
    /\ calls = <<>> /\ microtasks # <<>>
    /\ Head(microtasks).task = "flush"
    /\ microtasks' = Tail(microtasks)
    /\ urgentFlush' = FALSE
    /\ IF Head(microtasks).of = generation THEN FinalizeIfDirty
       ELSE UNCHANGED <<published, dirty, stalePublication, frame>>
    /\ UNCHANGED <<active, binding, generation, runVars, current, reports, hidden, calls,
                   connectionVars, wanted, urgent>>

WarnTask ==
    /\ calls = <<>> /\ microtasks # <<>>
    /\ Head(microtasks).task = "warn"
    /\ microtasks' = Tail(microtasks)
    /\ candidate' = "none"
    /\ status' = IF candidate = "none" THEN status ELSE [status EXCEPT !.warned = TRUE]
    /\ UNCHANGED <<active, binding, generation, runVars, viewVars, urgentFlush, reports, hidden,
                   calls, wanted, urgent>>

\* An animation frame is not served while the document is hidden.
Frame ==
    /\ Idle
    /\ \/ frame = "timer"
       \/ frame = "animation" /\ ~hidden
    /\ FinalizeIfDirty
    /\ UNCHANGED <<active, binding, generation, runVars, current, urgentFlush, reports, hidden,
                   calls, microtasks, connectionVars, wanted, urgent>>

\* Seeded fault: the handle that will not be served is kept.
VisibilityKeepsFrame ==
    /\ Idle
    /\ hidden' = ~hidden
    /\ UNCHANGED <<active, binding, generation, runVars, viewVars, urgentFlush, reports, calls,
                   microtasks, connectionVars, wanted, urgent>>

Visibility ==
    /\ Idle
    /\ hidden' = ~hidden
    /\ frame' = IF frame = "none" \/ onVisibility = {} THEN frame
                ELSE IF ~dirty THEN "none"
                ELSE IF hidden' THEN "timer" ELSE "animation"
    /\ UNCHANGED <<active, binding, generation, runVars, current, published, dirty,
                   stalePublication, urgentFlush, reports, calls, microtasks, connectionVars,
                   wanted, urgent>>

Resume == StartReset \/ StartJoin \/ StopRest \/ PumpRest \/ Settle \/ SettleRest \/ Return

Next ==
    /\ UNCHANGED habit
    /\ \/ Start \/ Stop
       \/ Resume
       \/ \E i \in DOMAIN joins :
            \/ PumpEvent(i) \/ PumpEnds(i) \/ PumpFails(i)
            \/ QueueOverflow(i) \/ RepairRequired(i) \/ RepairDone(i)
       \/ FlushTask \/ WarnTask \/ Frame \/ Visibility

Spec == Init /\ [][Next]_vars

\* A suspended method resumes, a queued microtask runs, and a frame that the
\* browser serves at all is served; nothing else is owed.
Fairness ==
    /\ WF_vars(UNCHANGED habit /\ (Resume \/ FlushTask \/ WarnTask))
    /\ WF_vars(UNCHANGED habit /\ Frame)

FairSpec == Spec /\ Fairness

-----------------------------------------------------------------------------
(* Properties.                                                             *)

\* After start(), unless the run ended by itself, the store has a run whose
\* signal is live, whose handles are the ones stop() will use, and which hears
\* the tab hide -- whatever the listeners on the error and notify channels
\* called back in the middle of the methods that led there.
WantedRuns ==
    "lifecycle" \notin habit /\ Idle /\ wanted = "running" =>
      /\ active
      /\ \E i \in DOMAIN joins : joins[i].of = generation /\ ~joins[i].aborted
      /\ abortController = generation
      /\ generation \in onVisibility

\* A superseded join has been aborted, so that its connection is not held for
\* ever, and only the active run listens to the document.
NothingLeaks ==
    habit \subseteq {"error"} /\ Idle =>
      /\ \A i \in DOMAIN joins : joins[i].of < generation => joins[i].aborted
      /\ onVisibility \subseteq (IF active THEN {generation} ELSE {})

\* The run that is wanted runs, and no other holds a connection or a listener.
OneRunHeld == WantedRuns /\ NothingLeaks

\* The status SessionConnectionStore derives from two unlabelled channels says
\* "live" exactly while a join is wanted, "failed" when a failure ended it and
\* "closed" when it ended by itself, however many warnings came before.
StatusTells ==
    habit \subseteq {"error"} /\ Idle =>
      /\ status.state = "live" <=> active
      /\ wanted = "failed" => status.state = "failed"
      /\ wanted = "ended" => status.state = "closed"

\* While a run is active no other run's rows are published.
RowsOfThisRun == Idle /\ active => published.join \in {0, generation}

\* A live enduring frame -- every gate transition is one -- is published in the
\* turn that folded it, without waiting for a frame, unless the application
\* ended the run it belongs to.
UrgentShown ==
    Idle /\ active /\ urgent.join = generation =>
      published.join = generation /\ published.events >= urgent.events

\* Every update is published, though the document may hide and show itself
\* between any two steps and serves no animation frame while hidden.
Published == (habit \subseteq {"notify"} /\ active /\ dirty) ~> ~dirty

\* The view tells what the run it belongs to did, all of it and soon.
ViewTells == [](StatusTells /\ RowsOfThisRun /\ UrgentShown) /\ Published
=============================================================================
