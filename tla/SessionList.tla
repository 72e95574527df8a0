---------------------------- MODULE SessionList ----------------------------
(***************************************************************************)
(* The legacy session list: SessionListStore                               *)
(* (packages/react/src/stores/session-list.ts) under useSessionList, whose *)
(* effect reads the page on every mount and change of the query and aborts *)
(* that read at its cleanup, while refresh() reads without a signal; and   *)
(* what the page makes of the snapshot (app/src/lib/sessions-state.ts).    *)
(* Reads overlap and settle in any order.                                  *)
(*                                                                         *)
(* A page is the read it answers and whether it is empty.  The host is     *)
(* external.  The server's limit is never 0.                               *)
(***************************************************************************)
EXTENDS Naturals, Sequences

CONSTANTS
    Queries,     \* the paging windows the page may ask for
    MaxReads     \* bound: reads

ASSUME ListBoundAssumption == MaxReads \in Nat

NoRead == 0
NoPage == [of |-> NoRead, empty |-> TRUE]

VARIABLES
    mounted, query,
    effectRead,  \* the read the mounted effect aborts at its cleanup
    reads,       \* every read so far; the last one's number is the generation
    page,        \* the snapshot: sessions, skip, limit, nextSkip and done,
    loading, error

snapshotVars == <<page, loading, error>>
listVars == <<mounted, query, effectRead, reads, snapshotVars>>

Reads == [query : Queries, aborted : BOOLEAN, heard : BOOLEAN,
          outcome : {"pending", "page", "empty", "failed", "aborted"}]

ListTypeOK ==
    /\ {mounted, loading} \subseteq BOOLEAN /\ query \in Queries
    /\ reads \in Seq(Reads) /\ Len(reads) <= MaxReads
    /\ effectRead \in 0..Len(reads)
    /\ page \in [of : 0..Len(reads), empty : BOOLEAN]
    /\ error \in {"none", "failed", "aborted"}

ListInit ==
    /\ mounted = FALSE /\ query \in Queries
    /\ effectRead = NoRead /\ reads = <<>>
    /\ page = NoPage /\ loading = FALSE /\ error = "none"

-----------------------------------------------------------------------------
(* SessionListStore.                                                       *)

IsCurrent(r) == r = Len(reads)

\* refresh(): the newest read is the current one; the page shown stays.
\* `before` is the reads as a cleanup left them.
Refresh(before, of) ==
    /\ Len(reads) < MaxReads
    /\ reads' = Append(before, [query |-> of, aborted |-> FALSE, heard |-> FALSE,
                                outcome |-> "pending"])
    /\ loading' = TRUE /\ error' = "none"
    /\ UNCHANGED page

\* Seeded fault: whatever settles last is shown.
HeardUnguarded(r) ==
    LET outcome == reads[r].outcome
    IN  /\ outcome # "pending" /\ ~reads[r].heard
        /\ reads' = [reads EXCEPT ![r].heard = TRUE]
        /\ loading' = FALSE
        /\ IF outcome \in {"page", "empty"}
           THEN page' = [of |-> r, empty |-> outcome = "empty"] /\ UNCHANGED error
           ELSE error' = outcome /\ UNCHANGED page
        /\ UNCHANGED <<mounted, query, effectRead>>

\* The read's promise settled: a superseded one says nothing, a failure leaves
\* the page in place.
Heard(r) ==
    LET outcome == reads[r].outcome
    IN  /\ outcome # "pending" /\ ~reads[r].heard
        /\ reads' = [reads EXCEPT ![r].heard = TRUE]
        /\ IF ~IsCurrent(r) THEN UNCHANGED snapshotVars
           ELSE /\ loading' = FALSE
                /\ IF outcome \in {"page", "empty"}
                   THEN page' = [of |-> r, empty |-> outcome = "empty"] /\ UNCHANGED error
                   ELSE error' = outcome /\ UNCHANGED page
        /\ UNCHANGED <<mounted, query, effectRead>>

-----------------------------------------------------------------------------
(* useSessionList.                                                         *)

Cleaned == IF effectRead = NoRead THEN reads
           ELSE [reads EXCEPT ![effectRead].aborted = TRUE]

\* The effect, at a mount or for a new query after its cleanup.
Effect(of) ==
    /\ Refresh(Cleaned, of)
    /\ effectRead' = Len(reads')
    /\ mounted' = TRUE /\ query' = of

ListMount == ~mounted /\ Effect(query)
QueryChanges == mounted /\ \E q \in Queries \ {query} : Effect(q)

ListUnmount ==
    /\ mounted /\ mounted' = FALSE
    /\ reads' = Cleaned /\ effectRead' = NoRead
    /\ UNCHANGED <<query, snapshotVars>>

\* refresh(), for the query of the render or one of the caller's; a callback
\* may be kept and called after the unmount.
ManualRefresh ==
    /\ \E q \in Queries : Refresh(reads, q)
    /\ UNCHANGED <<mounted, query, effectRead>>

-----------------------------------------------------------------------------
(* The host: external.  An aborted read rejects, unless it was settled.    *)

Settles(r) ==
    /\ reads[r].outcome = "pending"
    /\ \E outcome \in (IF reads[r].aborted THEN {"aborted"} ELSE {"page", "empty", "failed"}) :
         reads' = [reads EXCEPT ![r].outcome = outcome]
    /\ UNCHANGED <<mounted, query, effectRead, snapshotVars>>

ListNext ==
    \/ ListMount \/ QueryChanges \/ ListUnmount \/ ManualRefresh
    \/ \E r \in DOMAIN reads : Settles(r) \/ Heard(r)

ListSpec == ListInit /\ [][ListNext]_listVars

-----------------------------------------------------------------------------

\* sessionsListState(): a zero limit is a page never read.
SessionsListState ==
    IF loading THEN "loading"
    ELSE IF error # "none" THEN "error"
    ELSE IF page.of = NoRead THEN "loading"
    ELSE IF page.empty THEN "empty" ELSE "loaded"

(* Properties.                                                             *)

\* What the page says is what came of the read started last: its spinner stops
\* when that read settles, its error is never the abort of a cleanup, and "No
\* sessions yet" is that read's own answer.
NewestTold ==
    LET last == reads[Len(reads)]
    IN  /\ SessionsListState = "loading" => ~last.heard
        /\ SessionsListState = "error" => last.heard /\ last.outcome = "failed"
        /\ SessionsListState = "empty" =>
             last.heard /\ last.outcome = "empty" /\ page.of = Len(reads)
        /\ SessionsListState = "loaded" =>
             last.heard /\ last.outcome = "page" /\ page.of = Len(reads)

\* The page shown is never replaced by that of an earlier read.
NeverBackwards == [][page'.of >= page.of]_page

\* While the page is mounted, and however reads overlap -- StrictMode's two
\* mounts, a new query, a retry -- what it says is never an earlier read's, nor
\* does it go back to one.
ListTells == [](mounted => NewestTold) /\ NeverBackwards
=============================================================================
