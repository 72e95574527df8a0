------------------------------- MODULE WuiHost -------------------------------
(***************************************************************************)
(* The wui host: the bundle that is released for it and that it serves     *)
(* (ReleaseDist), and the control requests its guard lets through          *)
(* (HostControl under HostPages).  They share no state; an initial state   *)
(* has something to do for one.                                            *)
(***************************************************************************)
EXTENDS ReleaseDist, HostPages

\* A repository whose releases are spent.
NoRelease ==
    /\ head = (CHOOSE h \in Heads : TRUE) /\ index = head /\ dist = head
    /\ pc = "off" /\ stage = "first" /\ first = NoTree /\ second = NoTree
    /\ temporary = FALSE /\ publicationStarted = FALSE /\ outcome = "failed" /\ passed = {}
    /\ active = FALSE /\ receivedSignal = FALSE /\ termination = "none"
    /\ leader = "none" /\ rest = FALSE
    /\ counts = [c \in {"releases", "signals", "scribbles", "crashes"} |->
                   IF c = "releases" THEN MaxReleases ELSE 0]

\* Tabs whose requests all failed, the session's gate having timed out.
NoControl ==
    /\ tokens = {} /\ order = <<>> /\ minted = 0 /\ expired = 0
    /\ cached = [t \in Tabs |-> 0] /\ mint = [t \in Tabs |-> NoMint]
    /\ calls = [c \in Calls |-> [Idle EXCEPT !.phase = "failed"]]
    /\ budget = [s \in Spendable |-> 0] /\ executed = [c \in Calls |-> 0]
    /\ kind = (CHOOSE k \in Kinds : TRUE)
    /\ attempt = [t \in Tabs |-> NoAttempt] /\ carries = [c \in Calls |-> NoAttempt]
    /\ answer = [c \in Calls |-> "none"] /\ sessions = {} /\ gate = TimedOut
    /\ shown = [t \in Tabs |-> FALSE] /\ outcomes = [t \in Tabs |-> {}]
    /\ answered = [t \in Tabs |-> FALSE] /\ alreadyAnswered = [t \in Tabs |-> FALSE]
    /\ pending = [t \in Tabs |-> {}]
    /\ made = [t \in Tabs |-> [goal |-> NoText, sessions |-> 0]]

controlVars == <<vars, pageVars>>

HostInit ==
    \/ ReleaseInit /\ NoControl
    \/ NoRelease /\ PageInit

HostNext ==
    \/ ReleaseNext /\ UNCHANGED controlVars
    \/ PageNext /\ UNCHANGED releaseVars

HostSpec == HostInit /\ [][HostNext]_<<releaseVars, controlVars>> /\ WF_releaseVars(Script)
=============================================================================
