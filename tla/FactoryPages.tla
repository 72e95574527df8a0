----------------------------- MODULE FactoryPages -----------------------------
(***************************************************************************)
(* The pages of the Factory plane around the command plane.                *)
(*                                                                         *)
(* The session's page: what its composer remembers of the inputs it sent   *)
(* (app/src/routes/session-detail-route.tsx, app/src/lib/own-commands.ts), *)
(* over CommandPlane.                                                      *)
(*                                                                         *)
(* The shell above every page: the identity the browser is verified for    *)
(* (packages/react/src/use-connection.ts) and the list of recent sessions  *)
(* (use-factory-session-list.ts, stores/publisher.ts).  Requests carry the *)
(* cookie of the moment the Factory reads them; the application tells the  *)
(* shell of a login by a new generation, some time after the cookie        *)
(* changed.                                                                *)
(***************************************************************************)
EXTENDS CommandPlane

CONSTANTS
    Route,          \* the store of the session page's composer
    RouteKey,       \* its control
    Principals,     \* who may be logged in
    LastPage,       \* pages of a catalogue are numbered from 0
    ShellLimits     \* bounds: the reads and the logins of one behaviour

ASSUME PagesAssumption ==
    /\ Route \in Stores /\ RouteKey \in Owns[Route]
    /\ ShellLimits \subseteq [reads : Nat, logins : Nat] /\ LastPage \in Nat

NoPage == [of |-> "nobody", cursor |-> 0]

VARIABLES
    sent,       \* the inputs this page remembers as sent,
    causes,     \*   and the commands its events name as their cause
    here,       \* history: the inputs sent from this page since it is mounted
    principal,  \* the browser's cookie, or "nobody"
    informed,   \* the shell was given a generation for this cookie
    result,     \* FactoryIdentityGeneration: state and tenant
    list,       \* FactorySessionListStore's snapshot
    reads,      \* the requests nobody has heard the end of
    latest,     \* the numbers of the last bootstrap and list reads; those before them are superseded
    asked,      \* history: the page the last list read asked for
    limit       \* what is left of the bounds

composerVars == <<sent, causes, here>>
shellVars == <<principal, informed, result, list, reads, latest, asked, limit>>
pagesVars == <<composerVars, shellVars>>

-----------------------------------------------------------------------------
(* The session's page.                                                     *)

\* awaitingInputs(): sent, and no event names it yet.
Awaiting == sent \ causes

\* Seeded fault: an input whose reply was lost is not remembered.
OnlyWhenTold(a) == IF Outcome(a.answer) \in {"accepted", "pending"} THEN {a.id} ELSE {}

\* settle(): what the page remembers of an answer.
Remembered(a) == IF Outcome(a.answer) \in {"accepted", "pending", "unknown"} THEN {a.id} ELSE {}

\* submit() or retry() resolves.  An attempt that was withdrawn resolves "cancelled".
RouteSettles(a) ==
    /\ Settle(a)
    /\ sent' = IF a.by = Route /\ a.key = RouteKey /\ slots[a.key].id = a.id
               THEN sent \union Remembered(a) ELSE sent
    /\ UNCHANGED <<causes, here, shellVars>>

RouteSends ==
    /\ Send(Route, RouteKey) \/ Replay(Route, RouteKey)
    /\ here' = here \union {slots'[RouteKey].id}
    /\ UNCHANGED <<sent, causes, shellVars>>

\* onDiscard()
RouteDiscards ==
    /\ stores[Route].phase = "attached" /\ Discard(Route, RouteKey)
    /\ sent' = sent \ {slots[RouteKey].id}
    /\ UNCHANGED <<causes, here, shellVars>>

\* The page comes and goes with its state.
RouteMounts ==
    /\ Mounting
    /\ LET left == stores'[Route].phase = "unmounted"
       IN  sent' = (IF left THEN {} ELSE sent) /\ here' = (IF left THEN {} ELSE here)
    /\ UNCHANGED <<causes, shellVars>>

\* External: the agent takes up an accepted command, and the view hears of it.
Journaled(c) ==
    /\ record[c] = "accepted" /\ minted[c] = RouteKey /\ c \notin causes
    /\ causes' = causes \union {c}
    /\ UNCHANGED <<vars, sent, here, shellVars>>

\* What else happens in the session.
Beside ==
    /\ \/ Serving
       \/ \E a \in attempts : Lose(a)
       \/ \E v \in Stores : Prune(v)
       \/ \E v \in Stores, k \in Keys : MintFails(v, k) \/ ForgetError(v, k)
       \/ \E v \in Stores \ {Route}, k \in Keys : Send(v, k) \/ Replay(v, k) \/ Discard(v, k)
    /\ UNCHANGED <<composerVars, shellVars>>

-----------------------------------------------------------------------------
(* The shell.                                                              *)

Bounded(what) == limit[what] > 0 /\ limit' = [limit EXCEPT ![what] = @ - 1]

NothingListed == [page |-> NoPage, loading |-> FALSE, loaded |-> FALSE, error |-> FALSE]

\* The request leaves; the one before it of its kind is superseded.
Asks(what, cursor) ==
    /\ latest' = [latest EXCEPT ![what] = @ + 1]
    /\ asked' = IF what = "list" THEN cursor ELSE asked
    /\ reads' = reads \union {[what |-> what, number |-> latest[what] + 1, cursor |-> cursor, answer |-> "none"]}

\* External: the cookie changes.
Login ==
    /\ Bounded("logins")
    /\ principal' \in (Principals \union {"nobody"}) \ {principal} /\ informed' = FALSE
    /\ UNCHANGED <<result, list, reads, latest, asked>>

\* A new authGeneration: the whole keyed subtree is replaced, its effects are
\* cleaned up, and the new one asks who the caller is.
NewGeneration ==
    /\ ~informed /\ informed' = TRUE /\ Bounded("reads")
    /\ result' = [state |-> "reading", tenant |-> "nobody"]
    /\ list' = NothingListed
    /\ latest' = [bootstrap |-> latest.bootstrap + 1, list |-> latest.list + 1]
    /\ reads' = reads \union {[what |-> "bootstrap", number |-> latest.bootstrap + 1, cursor |-> 0, answer |-> "none"]}
    /\ UNCHANGED <<principal, asked>>

\* retry(), offered after a failure.
RetryBootstrap ==
    /\ result.state = "failed" /\ Bounded("reads")
    /\ result' = [result EXCEPT !.state = "reading"] /\ Asks("bootstrap", 0)
    /\ UNCHANGED <<principal, informed, list>>

\* External: the Factory reads a request as it finds the cookie, or the request fails.
Reached(r) ==
    /\ r.answer = "none"
    /\ \E answer \in {principal, "failed"} :
         reads' = (reads \ {r}) \union {[r EXCEPT !.answer = answer]}
    /\ UNCHANGED <<principal, informed, result, list, latest, asked, limit>>

Current(r) == r.number = latest[r.what]

\* The bootstrap settles.  Ready, the subtree mounts, and its list is read.
BootstrapSettles(r) ==
    /\ r \in reads /\ r.what = "bootstrap" /\ r.answer # "none"
    /\ IF ~Current(r) THEN reads' = reads \ {r} /\ UNCHANGED <<result, list, latest, asked, limit>>
       ELSE IF r.answer \in {"failed", "nobody"}
       THEN result' = [state |-> "failed", tenant |-> "nobody"]
            /\ reads' = reads \ {r} /\ UNCHANGED <<list, latest, asked>>
       ELSE /\ result' = [state |-> "ready", tenant |-> r.answer] /\ asked' = 0
            /\ list' = [list EXCEPT !.loading = TRUE]
            /\ latest' = [latest EXCEPT !.list = @ + 1]
            /\ reads' = (reads \ {r}) \union
                 {[what |-> "list", number |-> latest.list + 1, cursor |-> 0, answer |-> "none"]}
    /\ UNCHANGED <<principal, informed, limit>>

\* refresh(), loadNext() and loadPrevious(): from the page that is shown.
Turns(cursor) ==
    /\ result.state = "ready" /\ Bounded("reads")
    /\ cursor = 0 \/ (list.loaded /\ cursor \in {list.page.cursor - 1, list.page.cursor + 1} \intersect 0..LastPage)
    /\ list' = [list EXCEPT !.loading = TRUE, !.error = FALSE] /\ Asks("list", cursor)
    /\ UNCHANGED <<principal, informed, result>>

\* Seeded fault: whatever answers is shown.
AnySettles(r) ==
    /\ r \in reads /\ r.what = "list" /\ r.answer # "none" /\ reads' = reads \ {r}
    /\ list' = CASE r.answer = "failed" -> [list EXCEPT !.loading = FALSE, !.error = TRUE]
                 [] r.answer = "nobody" -> [NothingListed EXCEPT !.error = TRUE]
                 [] OTHER -> [page |-> [of |-> r.answer, cursor |-> r.cursor], loading |-> FALSE,
                              loaded |-> TRUE, error |-> FALSE]
    /\ UNCHANGED <<principal, informed, result, latest, asked, limit>>

\* read() settles: the last one started, and no other, tells.
ListSettles(r) ==
    /\ r \in reads /\ r.what = "list" /\ r.answer # "none" /\ reads' = reads \ {r}
    /\ list' = CASE ~Current(r) -> list
                 [] Current(r) /\ r.answer = "failed" -> [list EXCEPT !.loading = FALSE, !.error = TRUE]
                 [] Current(r) /\ r.answer = "nobody" -> [NothingListed EXCEPT !.error = TRUE]
                 [] OTHER -> [page |-> [of |-> r.answer, cursor |-> r.cursor], loading |-> FALSE,
                              loaded |-> TRUE, error |-> FALSE]
    /\ UNCHANGED <<principal, informed, result, latest, asked, limit>>

ShellNext ==
    \/ Login \/ NewGeneration \/ RetryBootstrap
    \/ \E cursor \in 0..LastPage : Turns(cursor)
    \/ \E r \in reads : Reached(r) \/ BootstrapSettles(r) \/ ListSettles(r)

-----------------------------------------------------------------------------
PagesInit ==
    /\ Init
    /\ sent = {} /\ causes = {} /\ here = {}
    /\ principal \in Principals /\ informed = TRUE
    /\ result = [state |-> "reading", tenant |-> "nobody"] /\ list = NothingListed
    /\ latest = [bootstrap |-> 1, list |-> 0] /\ asked = 0
    /\ limit \in ShellLimits
    /\ reads = IF limit.reads = 0 THEN {}
               ELSE {[what |-> "bootstrap", number |-> 1, cursor |-> 0, answer |-> "none"]}
    \* The page or the shell is at work, not both: they share no state.
    /\ (\E t \in Spendable : budget[t] > 0) <=> limit.reads = 0

PagesNext ==
    \/ RouteSends \/ RouteDiscards \/ RouteMounts \/ Beside
    \/ \E a \in attempts : RouteSettles(a)
    \/ \E c \in Commands : Journaled(c)
    \/ ShellNext /\ UNCHANGED <<vars, composerVars>>

PagesSpec == PagesInit /\ [][PagesNext]_<<vars, pagesVars>>

-----------------------------------------------------------------------------
\* An input that was sent from this page and that the Factory may have is in
\* sight until it is in the transcript: the control retains it, or it awaits its
\* agent; only the user takes it back (session-detail-route.tsx:95-103).
InputInSight ==
    stores[Route].phase = "attached" =>
      \A c \in Commands :
        c \in here \ causes /\ record[c] \in {"pending", "accepted"} /\ told[c] # "cancelled"
        => slots[RouteKey].id = c \/ c \in Awaiting

\* Once the application has told the shell of a login, everything it shows is
\* what the Factory answers this caller: no tenant and no page of the caller
\* before, whichever answers of old requests are still on their way
\* (use-connection.ts:120-124).
OwnPagesOnly ==
    informed =>
      /\ result.state = "ready" => result.tenant = principal
      /\ list.page # NoPage => list.page.of = principal

\* The list is what the last read started makes it, in whatever order the reads
\* answer: it loads while that one does, shows the page that one asked for, and
\* nothing when that one was denied (publisher.ts:44-47).
ListTellsLastRead ==
    /\ list.loading <=> \E r \in reads : r.what = "list" /\ Current(r)
    /\ ~list.loading /\ list.loaded /\ ~list.error => list.page.cursor = asked
    /\ ~list.loaded => list.page = NoPage

\* The list shows the reader's own pages, and of those the one asked for last.
ListOfTheReader == OwnPagesOnly /\ ListTellsLastRead
=============================================================================
