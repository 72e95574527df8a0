---------------------------- MODULE Reachability ----------------------------
(***************************************************************************)
(* Whether the host of the open session can be reached                     *)
(* (app/src/lib/use-session-reachability.ts).  A notify of the view store  *)
(* since the last interval stands for an answer; otherwise the host is     *)
(* asked for the session's status, one request at a time.  A first failure *)
(* only degrades; failures that have lasted for After are "unreachable".   *)
(*                                                                         *)
(* Times are ages in ticks of the clock, which stop mattering at After.    *)
(* The host, and what becomes of a request on its way, are external.  The  *)
(* session's own state, which an answer carries, is left out.              *)
(***************************************************************************)
EXTENDS Naturals

CONSTANT After       \* unreachableAfterMs

ASSUME AfterAssumption == After \in Nat \ {0}

NotFailing == After + 1

VARIABLES
    state, probeError, \* what the page shows
    watching,        \* the hook is mounted
    sawNotify,
    failingFor,      \* the age of failingSince, or NotFailing
    request,         \* the probe in flight: "none", what became of it otherwise
    up,              \* the host answers
    silentFor,       \* history: the age of the last sign it took note of
    failures         \* history: probes failed since then, up to two

shownVars == <<state, probeError>>
historyVars == <<silentFor, failures>>
probeVars == <<watching, shownVars, sawNotify, failingFor, request, up, historyVars>>

ProbeTypeOK ==
    /\ state \in {"reachable", "degraded", "unreachable"}
    /\ {watching, probeError, sawNotify, up} \subseteq BOOLEAN
    /\ failingFor \in 0..NotFailing
    /\ request \in {"none", "sent", "answered", "failed"}
    /\ silentFor \in 0..After /\ failures \in 0..2

\* The hook asks as soon as it is mounted.
ProbeInit ==
    /\ watching = TRUE
    /\ state = "reachable" /\ probeError = FALSE
    /\ sawNotify = FALSE /\ failingFor = NotFailing
    /\ request = "sent" /\ up \in BOOLEAN
    /\ silentFor = 0 /\ failures = 0

-----------------------------------------------------------------------------

\* Seeded fault: a notify clears the banner and not the failure behind it.
ReachedKeepsFailing ==
    /\ probeError' = FALSE /\ state' = "reachable"
    /\ silentFor' = 0 /\ failures' = 0
    /\ UNCHANGED failingFor

\* The host was heard of.
Reached ==
    /\ failingFor' = NotFailing
    /\ probeError' = FALSE /\ state' = "reachable"
    /\ silentFor' = 0 /\ failures' = 0

\* probe() sends nothing while a request is in flight.
Probe ==
    /\ request = "none" /\ request' = "sent"
    /\ UNCHANGED <<shownVars, sawNotify, failingFor, up, historyVars>>

\* The interval: a notify since the last one is consumed in the host's favour.
Interval ==
    \/ ~sawNotify /\ Probe
    \/ /\ sawNotify /\ sawNotify' = FALSE
       /\ Reached
       /\ UNCHANGED <<request, up>>

Answered ==
    /\ request = "answered" /\ request' = "none"
    /\ Reached
    /\ UNCHANGED <<sawNotify, up>>

Rejected ==
    /\ request = "failed" /\ request' = "none"
    /\ failingFor' = IF failingFor = NotFailing THEN 0 ELSE failingFor
    /\ probeError' = TRUE
    /\ state' = IF failingFor' >= After THEN "unreachable" ELSE "degraded"
    /\ failures' = IF failures = 2 THEN 2 ELSE failures + 1
    /\ UNCHANGED <<sawNotify, up, silentFor>>

\* A frame was folded; one sent before the host went may be heard after.
Notify ==
    /\ sawNotify' = TRUE
    /\ UNCHANGED <<shownVars, failingFor, request, up, historyVars>>

-----------------------------------------------------------------------------
(* The clock and the host: external.                                       *)

Older(age) == IF age < After THEN age + 1 ELSE age

Tick ==
    /\ failingFor' = Older(failingFor) /\ silentFor' = Older(silentFor)
    /\ UNCHANGED <<shownVars, sawNotify, request, up, failures>>

ComesOrGoes ==
    /\ up' = ~up
    /\ UNCHANGED <<shownVars, sawNotify, failingFor, request, historyVars>>

\* A request is answered by a host that is up, and fails with one that is not;
\* an answer may still be lost on its way.
RequestSettles ==
    /\ \/ request = "sent"
       \/ request = "answered" /\ ~up
    /\ request' = IF up THEN "answered" ELSE "failed"
    /\ UNCHANGED <<shownVars, sawNotify, failingFor, up, historyVars>>

Watched(step) == watching /\ step /\ UNCHANGED watching

\* The cleanups: the interval ends and no notify is heard, and what becomes of
\* a request on its way is shown to nobody.
ProbeUnmount ==
    /\ watching /\ watching' = FALSE
    /\ UNCHANGED <<shownVars, sawNotify, failingFor, request, up, historyVars>>

ProbeNext ==
    \/ Watched(\/ Probe \/ Interval \/ Answered \/ Rejected \/ Notify
               \/ Tick \/ ComesOrGoes \/ RequestSettles)
    \/ ProbeUnmount

ProbeSpec == ProbeInit /\ [][ProbeNext]_probeVars

\* Timers fire, requests settle and their promises resolve, as long as the hook
\* is mounted.
ProbeFairness ==
    /\ WF_probeVars(Watched(Interval)) /\ WF_probeVars(Watched(Tick))
    /\ WF_probeVars(Watched(RequestSettles)) /\ WF_probeVars(Watched(Answered \/ Rejected))

-----------------------------------------------------------------------------
(* Properties.                                                             *)

\* The page never gives the host up on one failure, nor before After has passed
\* since it took note of a sign of it, whatever order answers, notifies and
\* intervals come in.
NeverHasty ==
    /\ state = "unreachable" => failures = 2 /\ silentFor = After
    /\ state = "degraded" => failures > 0

\* It names an error exactly while it shows trouble.
TroubleNamed == probeError <=> state # "reachable"

\* While the page is open, a host that is back for good is shown reachable for
\* good, and one that is gone for good, once its last frame was heard, is shown
\* unreachable for good.
ComesRound ==
    []watching =>
      /\ <>[]up => <>[](state = "reachable")
      /\ <>[]~up /\ <>[][sawNotify' => sawNotify]_sawNotify
           => <>[](state = "unreachable")

\* The page neither gives the host up early nor stays wrong about it.
ProbeHonest == [](NeverHasty /\ TroubleNamed) /\ ComesRound
=============================================================================
