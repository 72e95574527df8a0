---------------------------- MODULE ReleaseDist ----------------------------
(***************************************************************************)
(* Publishing a bundle: stageReproducibleDist (app/scripts/release-dist.mjs)*)
(* builds twice into a temporary directory, and when both builds agree it  *)
(* replaces the committed dist/ by the first one, stages it and runs the Go*)
(* gates over it; anything that goes wrong after the replacing began is    *)
(* answered by restoring HEAD's dist/.                                     *)
(*                                                                         *)
(* Every command is a process group of its own.  A signal to the release,  *)
(* or a group that outlives its leader, is answered by terminating the     *)
(* group: the signal, a grace period, SIGKILL, another wait.  Signal       *)
(* handlers run only where the script awaits, so a signal that arrives     *)
(* anywhere else is one that arrives at the next await.                    *)
(*                                                                         *)
(* A tree is a record of what the checks tell apart; no one but the        *)
(* release, its commands and the operator writes dist/.                    *)
(***************************************************************************)
EXTENDS Naturals, FiniteSets

CONSTANTS
    Builds,         \* what a build may write
    Heads,          \* what may be committed at first
    MaxReleases,    \* bounds: releases run,
    MaxSignals,     \*   signals,
    MaxScribbles,   \*   writes of a command to dist/,
    MaxCrashes      \*   and times the release is killed outright

Trees == [shell : {"none", "placeholder", "app"},
          marker : {"none", "broken", "development", "release"},
          files : BOOLEAN,  \* anything beside the shell and the marker
          fit : BOOLEAN,    \* no skipped names, maps, local paths, known secrets
          odd : BOOLEAN,    \* an entry neither file nor directory
          content : 0..2]

NoTree == [shell |-> "none", marker |-> "none", files |-> FALSE, fit |-> TRUE,
           odd |-> FALSE, content |-> 0]
Partial == [NoTree EXCEPT !.files = TRUE]

ASSUME ReleaseAssumption ==
    /\ Builds \subseteq Trees /\ Heads \subseteq Trees
    /\ \A h \in Heads : h.marker = "release" => h.shell = "app" /\ h.fit
    /\ {MaxReleases, MaxSignals, MaxScribbles, MaxCrashes} \subseteq Nat

VARIABLES
    head, index, dist,      \* git: committed, staged and in the worktree
    pc, stage,              \* the script, and the command it is at
    first, second,          \* the temporary directory
    temporary,              \* it exists
    publicationStarted,
    active,                 \* ManagedCommands: a command runs or is not settled
    receivedSignal,
    termination,            \* of the active group
    leader, rest,           \* the group: its leader, and whether others are alive
    outcome,                \* how the last release ended
    passed,                 \* history: the gates that passed over the published tree
    counts                  \* releases, signals, scribbles, crashes so far

gitVars == <<head, index, dist>>
groupVars == <<leader, rest>>
commandVars == <<active, receivedSignal, termination>>
scriptVars == <<pc, stage, first, second, temporary, publicationStarted, outcome, passed>>
releaseVars == <<gitVars, scriptVars, commandVars, groupVars, counts>>

Count(what, bound) == counts[what] < bound /\ counts' = [counts EXCEPT ![what] = @ + 1]

-----------------------------------------------------------------------------
(* What the checks say of a tree.                                          *)

\* checkDist(): the shell is there, and nothing is skipped or leaked.
CheckDist(t) == t.shell # "none" /\ t.fit

\* bundleManifest(): throws at an entry it cannot publish.
HasManifest(t) == ~t.odd

\* assertReleaseMarker().
AssertReleaseMarker(t) == t.marker = "release"

DistClean == dist = head /\ index = head

\* Seeded fault: the group is taken for its leader.
LeaderExists == leader = "up"

\* processGroupExists().
ProcessGroupExists == leader = "up" \/ rest

HasLiveProcessGroup == active /\ ProcessGroupExists

\* BundleProtocolVersion(): the committed tree's claim, refused when nothing
\* was built beside it.
BundleProtocolVersion(t) ==
    IF t.marker \in {"none", "broken"} \/ (t.marker = "release" /\ ~t.files)
    THEN "refused" ELSE t.marker

\* Assets(): the shell for what is not a file of the tree.
Serve(t, name) ==
    IF name # "index.html" /\ t.files THEN "file"
    ELSE IF t.shell = "none" THEN "missing" ELSE t.shell

-----------------------------------------------------------------------------
(* How a release ends.                                                     *)

Finish(how) ==
    /\ pc' = "off" /\ outcome' = how
    /\ temporary' = (temporary /\ HasLiveProcessGroup)

\* The catch: HEAD's dist/ is restored once the replacing began, unless an
\* owned group could still write to it.
Fail ==
    IF publicationStarted /\ ~HasLiveProcessGroup
    THEN pc' = "rollback" /\ UNCHANGED <<outcome, temporary, dist, index>>
    ELSE /\ Finish(IF publicationStarted THEN "stopped" ELSE "failed")
         /\ UNCHANGED <<dist, index>>

\* restoreCommittedDist(): either command may fail.
RollBack ==
    /\ pc = "rollback"
    /\ \/ /\ dist' = head /\ index' = head
          /\ Finish("failed")
       \/ /\ \/ UNCHANGED dist
             \/ dist' = NoTree
          /\ UNCHANGED index
          /\ Finish("both failed")
    /\ UNCHANGED <<head, stage, first, second, publicationStarted, passed, commandVars, groupVars, counts>>

-----------------------------------------------------------------------------
(* Commands.                                                               *)

\* run(): the command starts as the leader of a group of its own.
Spawn ==
    /\ pc = "spawn"
    /\ IF receivedSignal
       THEN Fail /\ UNCHANGED <<active, termination, groupVars>>
       ELSE /\ pc' = "running" /\ active' = TRUE /\ termination' = "none"
            /\ leader' = "up" /\ rest' \in BOOLEAN
            /\ UNCHANGED <<dist, index, outcome, temporary>>
    /\ UNCHANGED <<head, stage, first, second, publicationStarted, passed, receivedSignal, counts>>

\* A process of the group ends, of itself or as it was told to.
Exit ==
    /\ \/ leader = "up" /\ leader' = "exited" /\ UNCHANGED rest
       \/ rest /\ rest' = FALSE /\ UNCHANGED leader
    /\ UNCHANGED <<gitVars, scriptVars, commandVars, counts>>

\* A command writes to dist/.
Scribble ==
    /\ ProcessGroupExists /\ Count("scribbles", MaxScribbles)
    /\ dist' = Partial
    /\ UNCHANGED <<head, index, scriptVars, commandVars, groupVars>>

\* interrupt(): the first signal is remembered, and ends the running command.
Interrupt ==
    /\ \/ pc \in {"running", "compare", "check"}
       \/ pc = "settling" /\ termination # "none"
    /\ Count("signals", MaxSignals)
    /\ receivedSignal' = TRUE
    /\ termination' = IF ~receivedSignal /\ active /\ termination = "none" THEN "signalled"
                      ELSE termination
    /\ UNCHANGED <<gitVars, scriptVars, active, groupVars>>

\* The leader's close: what it left behind is terminated.
LeaderCloses ==
    /\ pc = "running" /\ leader = "exited"
    /\ pc' = "settling"
    /\ termination' = IF termination = "none" /\ ProcessGroupExists THEN "signalled"
                      ELSE termination
    /\ UNCHANGED <<gitVars, stage, first, second, temporary, publicationStarted, outcome, passed,
                   active, receivedSignal, groupVars, counts>>

\* terminateProcessGroup(): the waits end when the group does.
GraceEnds ==
    /\ termination = "signalled"
    /\ termination' = IF ProcessGroupExists THEN "killed" ELSE "done"
    /\ UNCHANGED <<gitVars, scriptVars, active, receivedSignal, groupVars, counts>>

\* A rejection while run() still waits for the leader is nobody's: it ends the
\* process where it stands.
KillWaitEnds ==
    /\ termination = "killed"
    /\ termination' = IF ProcessGroupExists THEN "survived" ELSE "done"
    /\ IF ProcessGroupExists /\ pc = "running"
       THEN pc' = "off" /\ outcome' = "crashed"
       ELSE UNCHANGED <<pc, outcome>>
    /\ UNCHANGED <<gitVars, stage, first, second, temporary, publicationStarted, passed,
                   active, receivedSignal, groupVars, counts>>

\* The command is over: its status, and then what follows it.  A build's output
\* is judged at once.
After == [first |-> "spawn", second |-> "compare", test |-> "spawn", build |-> "summary"]

Settled ==
    /\ active' = FALSE /\ termination' = "none"
    /\ \/ ~receivedSignal /\ stage \in {"first", "second"} /\ \E t \in Builds :
            /\ CheckDist(t)
            /\ IF stage = "first" THEN first' = t /\ UNCHANGED second
               ELSE second' = t /\ UNCHANGED first
            /\ pc' = After[stage]
            /\ stage' = IF stage = "first" THEN "second" ELSE "test"
            /\ UNCHANGED <<dist, index, outcome, temporary, passed>>
       \/ /\ ~receivedSignal /\ stage \in {"test", "build"}
          /\ passed' = passed \union {stage}
          /\ pc' = After[stage] /\ stage' = "build"
          /\ UNCHANGED <<dist, index, first, second, outcome, temporary>>
       \/ /\ Fail /\ UNCHANGED <<stage, first, second, passed>>

Settle ==
    /\ pc = "settling"
    /\ \/ termination \in {"none", "done"} /\ leader' = "none" /\ rest' = rest /\ Settled
       \/ termination = "survived" /\ Fail
          /\ UNCHANGED <<stage, first, second, passed, active, termination, groupVars>>
    /\ UNCHANGED <<head, publicationStarted, receivedSignal, counts>>

-----------------------------------------------------------------------------
(* The transaction.                                                        *)

StartRelease ==
    /\ pc = "off" /\ outcome # "published" /\ ~ProcessGroupExists
    /\ Count("releases", MaxReleases)
    /\ receivedSignal' = FALSE /\ active' = FALSE /\ termination' = "none" /\ leader' = "none"
    /\ publicationStarted' = FALSE /\ passed' = {} /\ stage' = "first"
    /\ first' = NoTree /\ second' = NoTree
    /\ IF DistClean THEN pc' = "spawn" /\ outcome' = "none" /\ temporary' = TRUE
       ELSE pc' = "off" /\ outcome' = "failed" /\ UNCHANGED temporary
    /\ UNCHANGED <<gitVars, rest>>

\* Both builds agree, nobody interrupted and dist/ is as it was.
Compare ==
    /\ pc = "compare"
    /\ IF /\ HasManifest(first) /\ first = second
          /\ ~receivedSignal /\ DistClean
       THEN /\ publicationStarted' = TRUE /\ pc' = "remove"
            /\ UNCHANGED <<dist, index, outcome, temporary>>
       ELSE Fail /\ UNCHANGED publicationStarted
    /\ UNCHANGED <<head, stage, first, second, passed, commandVars, groupVars, counts>>

Step(at, next) ==
    /\ pc = at /\ pc' = next
    /\ UNCHANGED <<head, stage, first, second, temporary, publicationStarted, outcome, passed,
                   commandVars, groupVars, counts>>

RemoveTree == Step("remove", "copy") /\ dist' = NoTree /\ UNCHANGED index
Copy == Step("copy", "verify") /\ dist' = first /\ UNCHANGED index

\* Seeded fault: the installed tree is not asked whether it is the placeholder.
InstalledAsBuilt(t) == HasManifest(t) /\ t = first /\ CheckDist(t) /\ AssertReleaseMarker(t)

Installed(t) ==
    /\ HasManifest(t) /\ t = first /\ CheckDist(t)
    /\ t.shell # "placeholder" /\ AssertReleaseMarker(t)

VerifyDist ==
    /\ pc = "verify"
    /\ IF Installed(dist)
       THEN pc' = "spawn" /\ index' = dist /\ UNCHANGED <<dist, outcome, temporary>>
       ELSE Fail
    /\ UNCHANGED <<head, stage, first, second, publicationStarted, passed, commandVars, groupVars, counts>>

Summary == Step("summary", "check") /\ UNCHANGED <<dist, index>>

\* The last look at the signal.
Check ==
    /\ pc = "check"
    /\ IF receivedSignal THEN Fail
       ELSE Finish("published") /\ UNCHANGED <<dist, index>>
    /\ UNCHANGED <<head, stage, first, second, publicationStarted, passed, commandVars, groupVars, counts>>

\* Removing, copying, staging and summarising may fail, half way.
StepFails ==
    /\ pc \in {"remove", "copy", "verify", "summary"}
    /\ pc' = "rollback"
    /\ dist' \in (IF pc \in {"remove", "copy"} THEN {dist, Partial} ELSE {dist})
    /\ index' \in (IF pc = "verify" THEN {index, dist} ELSE {index})
    /\ UNCHANGED <<head, stage, first, second, temporary, publicationStarted, outcome, passed,
                   commandVars, groupVars, counts>>

Crash ==
    /\ pc # "off" /\ Count("crashes", MaxCrashes)
    /\ pc' = "off" /\ outcome' = "crashed"
    /\ UNCHANGED <<gitVars, stage, first, second, temporary, publicationStarted, passed,
                   commandVars, groupVars>>

-----------------------------------------------------------------------------
(* The operator commits what a release published, and resets dist/ after a *)
(* release that says it left it behind.                                    *)

Commit ==
    /\ pc = "off" /\ outcome = "published"
    /\ head' = index /\ outcome' = "none"
    /\ dist' = index /\ UNCHANGED index
    /\ UNCHANGED <<pc, stage, first, second, temporary, publicationStarted, passed,
                   commandVars, groupVars, counts>>

Reset ==
    /\ pc = "off" /\ outcome \in {"failed", "stopped", "both failed", "crashed"}
    /\ ~DistClean /\ ~ProcessGroupExists
    /\ dist' = head /\ index' = head
    /\ UNCHANGED <<head, scriptVars, commandVars, groupVars, counts>>

ReleaseInit ==
    /\ head \in Heads /\ index = head /\ dist = head
    /\ pc = "off" /\ stage = "first" /\ first = NoTree /\ second = NoTree
    /\ temporary = FALSE /\ publicationStarted = FALSE /\ outcome = "none" /\ passed = {}
    /\ active = FALSE /\ receivedSignal = FALSE /\ termination = "none"
    /\ leader = "none" /\ rest = FALSE
    /\ counts = [c \in {"releases", "signals", "scribbles", "crashes"} |-> 0]

Script ==
    \/ Spawn \/ LeaderCloses \/ GraceEnds \/ KillWaitEnds \/ Settle
    \/ Compare \/ RemoveTree \/ Copy \/ VerifyDist \/ Summary \/ Check \/ RollBack

ReleaseNext == Script \/ StartRelease \/ Exit \/ Scribble \/ Interrupt \/ StepFails \/ Crash \/ Commit \/ Reset

ReleaseSpec == ReleaseInit /\ [][ReleaseNext]_releaseVars

\* The script goes on where it can and its timers fire; commands and signals
\* owe nothing.
ReleaseFairSpec == ReleaseSpec /\ WF_releaseVars(Script)

-----------------------------------------------------------------------------
(* Properties.                                                             *)

\* A process of the current or last command is alive.
Alive == leader = "up" \/ rest

ReleaseTypeOK ==
    /\ {head, index, dist, first, second} \subseteq Trees
    /\ pc \in {"off", "spawn", "running", "settling", "compare", "remove", "copy", "verify",
               "summary", "check", "rollback"}
    /\ pc \in {"compare", "remove", "copy", "verify", "summary", "check", "rollback"} =>
         ~Alive
    /\ pc = "running" => active
    /\ leader \in {"none", "up", "exited"} /\ termination \in {"none", "signalled", "killed", "done", "survived"}

\* However a release ends, dist/ is whole: published, the staged tree is the
\* one both builds agreed on and both gates passed over, and no signal was
\* taken; failed after it began to replace, HEAD's tree is back
\* in the worktree and in the index, and no command is left that could write.
EndsWhole ==
    /\ outcome = "published" =>
         /\ index = first /\ first = second /\ passed = {"test", "build"}
         /\ ~receivedSignal /\ ~Alive /\ ~temporary
    /\ outcome = "failed" /\ publicationStarted => DistClean /\ ~Alive

\* dist/ is restored, and its replacement begun, only when no process of a
\* command is alive to write to it.
WrittenAlone ==
    [][pc # "off" /\ dist' # dist /\ counts' = counts => ~Alive]_releaseVars

\* The committed tree the Go side takes for a release is one it serves an
\* application from.
AcceptedServes ==
    BundleProtocolVersion(head) = "release" =>
        /\ Serve(head, "index.html") = "app" /\ Serve(head, "asset") = "file"
        /\ CheckDist(head)

\* A release told to stop stops, whatever its commands do.
SignalEnds == receivedSignal ~> pc = "off"

\* A release writes alone, ends whole, and ends when it is told to.
ReleasedWhole == []EndsWhole /\ WrittenAlone /\ SignalEnds
=============================================================================
