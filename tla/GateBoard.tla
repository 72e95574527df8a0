----------------------------- MODULE GateBoard ------------------------------
(***************************************************************************)
(* The open gates the Factory detail route shows: useFactoryGateBoard      *)
(* (app/src/routes/factory-gate-board.ts) over the public gate board of    *)
(* packages/protocol/src/fold.ts.  A bounded page of open gates, read some *)
(* time before it is merged, and the window of journal events the view     *)
(* holds disagree; the board merges both on every render.                  *)
(*                                                                         *)
(* The view is FactoryColdJoin's: a cold capture of the tail, the join's   *)
(* records in order from the initial cursor, a lower coverage when the     *)
(* journal was truncated, one page of earlier history, and nothing at all  *)
(* once the caller may not read the session.                               *)
(***************************************************************************)
EXTENDS Naturals, Sequences, FiniteSets

CONSTANTS
    Gates,
    Initial,        \* initialCoveredThrough
    TailLimit,      \* records of a captured tail, and of an earlier page
    PageLimit,      \* gates of a page
    ShowsAhead,     \* whether records the view shows and has not covered may be truncated
    MaxSeq,         \* bound: the journal's length
    MaxTruncations, \* bound: truncations of the journal
    MaxPages,       \* bound: gate pages read
    MaxRuns         \* bound: runs of the machine behind the view

ASSUME BoardAssumption ==
    /\ MaxSeq \in Nat
    /\ Initial \in 0..MaxSeq /\ ShowsAhead \in BOOLEAN /\ {TailLimit, PageLimit} \subseteq Nat \ {0}
    /\ {MaxTruncations, MaxPages, MaxRuns} \subseteq Nat

VARIABLES
    journal,    \* Factory: the gate events, each with the epoch it was written in
    lowest,     \* Factory: the lowest tip it was cut to since the view's last capture, or MaxSeq
    truncated,  \* Factory: how often it was truncated
    sample,     \* the gate page in flight, or NoPage
    reads,      \* how many pages were read
    view,       \* what the hook is given
    runs,       \* how often the machine behind it started
    cell,       \* the hook's ref
    watched     \* history: gates whose resolution in this journal was rendered

factoryVars == <<journal, lowest, truncated>>
readVars == <<sample, reads>>
vars == <<factoryVars, readVars, view, runs, cell, watched>>

Answers == {"", "unavailable", "resident"}
Entries == [seq : 1..MaxSeq, answer : Answers]
Events == [kind : {"GateOpened", "GateResolved"}, gate : Gates, epoch : 0..MaxTruncations]
Rows == [seq : 1..MaxSeq, event : Events]

\* A board or a page: what is known of each gate it lists.
Boards == UNION {[S -> Entries] : S \in SUBSET Gates}
Nothing == [g \in {} |-> {}]
NoPage == [known |-> FALSE, gates |-> Nothing]

Least(a, b) == IF a < b THEN a ELSE b
Greatest(a, b) == IF a > b THEN a ELSE b

\* The first sequence of a page of the newest records.
TailStart == 1 + (IF Len(journal) > TailLimit THEN Len(journal) - TailLimit ELSE 0)

RowsOf(log, first, last) == {[seq |-> s, event |-> log[s]] : s \in first..last}

\* An earlier row gives way to a current one of its sequence.
Window(v) == v.now \union {r \in v.past : \A q \in v.now : q.seq # r.seq}

TypeOK ==
    /\ journal \in Seq(Events) /\ Len(journal) <= MaxSeq /\ lowest \in 0..MaxSeq
    /\ truncated \in 0..MaxTruncations /\ reads \in 0..MaxPages /\ runs \in 0..MaxRuns
    /\ sample.gates \in Boards /\ view.page.gates \in Boards
    /\ {view.now, view.past} \subseteq SUBSET Rows /\ view.covered \in 0..MaxSeq
    /\ view.from \in 1..(MaxSeq + 1)
    /\ view.phase \in {"off", "joining", "cold", "following"}
    /\ cell.board \in Boards /\ cell.resolved \subseteq Gates
    /\ cell.covered \in 0..MaxSeq /\ cell.known \in BOOLEAN
    /\ watched \subseteq Gates
    \* A gate watched being resolved is never on the board beside its tombstone.
    /\ DOMAIN cell.board \cap cell.resolved = {}

-----------------------------------------------------------------------------
(* Factory.                                                                *)

Opened(g) == \E s \in DOMAIN journal : journal[s].kind = "GateOpened" /\ journal[s].gate = g
Resolved(log, g) == \E s \in DOMAIN log : log[s].kind = "GateResolved" /\ log[s].gate = g
OpenGates == {g \in Gates : Opened(g) /\ ~Resolved(journal, g)}
OpenedAt(g) == CHOOSE s \in DOMAIN journal : journal[s].kind = "GateOpened" /\ journal[s].gate = g

\* A gate id is opened once, and resolved once.
Commit ==
    /\ Len(journal) < MaxSeq
    /\ \E kind \in {"GateOpened", "GateResolved"}, g \in Gates :
         /\ IF kind = "GateOpened" THEN ~Opened(g) ELSE g \in OpenGates
         /\ journal' = Append(journal, [kind |-> kind, gate |-> g, epoch |-> truncated])
    /\ UNCHANGED <<lowest, truncated, readVars, view, runs, cell, watched>>

Truncate ==
    /\ truncated < MaxTruncations
    /\ truncated' = truncated + 1
    /\ \E tip \in 0..(Len(journal) - 1) :
         /\ ShowsAhead \/ \A r \in view.now : r.seq > view.covered => r.seq <= tip
         /\ journal' = SubSeq(journal, 1, tip)
         /\ lowest' = Least(lowest, tip)
         /\ watched' = {g \in watched : Resolved(SubSeq(journal, 1, tip), g)}
    /\ UNCHANGED <<readVars, view, runs, cell>>

\* decodeGateProjection(): what a record of a page says of its gate.
GateProjection(g, answer) == [seq |-> OpenedAt(g), answer |-> answer]

\* A page is a bounded window of the open gates, sampled when it is read.
ReadPage ==
    /\ view.phase # "off" /\ reads < MaxPages
    /\ reads' = reads + 1
    /\ \E S \in SUBSET OpenGates, answer \in {"unavailable", "resident"} :
         /\ Cardinality(S) = Least(PageLimit, Cardinality(OpenGates))
         /\ sample' = [known |-> TRUE,
                       gates |-> [g \in S |-> GateProjection(g, answer)]]
    /\ UNCHANGED <<factoryVars, view, runs, cell, watched>>

-----------------------------------------------------------------------------
(* foldFactoryGateView.                                                    *)

ResolvedIn(rows) == {r.event.gate : r \in {x \in rows : x.event.kind = "GateResolved"}}
OpenRows(rows, g) == {r \in rows : r.event.kind = "GateOpened" /\ r.event.gate = g}

\* A gate watched being resolved is not opened again by its own opening event.
OpeningEvents(rows, gone) == {g \in Gates : OpenRows(rows, g) # {}} \ gone

\* foldPublicGateEvent over the window: a resolution removes its gate, and an
\* opening event adds a gate no source knew, unattested.
FoldEvents(board, rows, gone) ==
    LET kept == DOMAIN board \ ResolvedIn(rows) IN
    [g \in kept \union OpeningEvents(rows, gone) |->
        IF g \in kept THEN board[g]
        ELSE [seq |-> CHOOSE s \in 1..MaxSeq : /\ \E r \in OpenRows(rows, g) : r.seq = s
                                               /\ \A r \in OpenRows(rows, g) : r.seq >= s,
              answer |-> ""]]

\* Seeded fault: a page is as good as any.
KeepAll(page, gone) == page

\* suppressResolved: a gate watched being resolved is left out of a page.
SuppressResolved(page, gone) == [g \in DOMAIN page \ gone |-> page[g]]

\* foldPublicGatePage: a merge never removes, and the open position is written once.
MergePage(board, page) ==
    [g \in DOMAIN board \union DOMAIN page |->
        IF g \in DOMAIN page
        THEN [seq |-> IF g \in DOMAIN board THEN board[g].seq ELSE page[g].seq,
              answer |-> page[g].answer]
        ELSE board[g]]

\* The board belongs to a journal the view no longer reads.
NewGeneration(v) == \/ ~v.page.known /\ cell.known
                    \/ v.covered < cell.covered

\* useFactoryGateBoard, on one render of view v.
Folded(v) ==
    LET fresh == NewGeneration(v)
        gone == (IF fresh THEN {} ELSE cell.resolved) \union ResolvedIn(Window(v))
        board == FoldEvents(IF fresh THEN Nothing ELSE cell.board, Window(v), gone)
    IN  [known |-> v.page.known, covered |-> v.covered, resolved |-> gone,
         board |-> IF v.page.known THEN MergePage(board, SuppressResolved(v.page.gates, gone)) ELSE board]

-----------------------------------------------------------------------------
(* The view's publications.  Each is rendered before the next: React queues *)
(* the render with it, and the next comes with a later answer.              *)

Render(v) ==
    /\ cell' = Folded(v)
    /\ watched' = (IF v.covered < cell.covered \/ v.phase = "off" THEN {} ELSE watched) \union {g \in Gates :
                     \E r \in Window(v) : /\ r.event.kind = "GateResolved" /\ r.event.gate = g
                                          /\ r \in RowsOf(journal, 1, Len(journal))}

Publish(v) ==
    /\ view' = v
    /\ Render(v)
    /\ UNCHANGED <<journal, truncated>>

\* start(): nothing is read yet.
Start ==
    /\ view.phase = "off" /\ runs < MaxRuns
    /\ runs' = runs + 1 /\ lowest' = MaxSeq
    /\ Publish([view EXCEPT !.phase = "joining"])
    /\ UNCHANGED readVars

\* The cold capture of the tail, with the page read beside it.
Cold ==
    /\ view.phase = "joining" /\ sample.known
    /\ sample' = NoPage
    /\ Publish([view EXCEPT !.phase = "cold", !.page = sample,
                  !.now = RowsOf(journal, TailStart, Len(journal)) \union
                          {r \in @ : r.seq < TailStart \/ r.seq > Len(journal)},
                  !.covered = Greatest(Len(journal), Initial)])
    /\ lowest' = MaxSeq
    /\ UNCHANGED <<reads, runs>>

\* A page the machine adopts later.
PageArrives ==
    /\ sample.known /\ view.phase \in {"cold", "following"}
    /\ Publish([view EXCEPT !.page = sample])
    /\ sample' = NoPage
    /\ UNCHANGED <<lowest, reads, runs>>

\* The join's projection, which may overtake the cold capture: the first starts from the initial cursor, a later one
\* from where the join was.  A reset whose tip is below that lowers it to what the link had delivered in a row.
Projection ==
    /\ view.phase = "following" \/ view.phase = "cold" \/ sample.known
    /\ view.phase # "off"
    /\ LET first == view.phase # "following"
           adopts == view.phase = "joining"
           base == IF first THEN Initial ELSE view.covered
           tip == Least(Len(journal), lowest)
       IN  /\ ShowsAhead \/ ~first \/ lowest >= Least(view.covered, Len(journal))
           /\ \E covered \in IF tip < base THEN 0..tip ELSE {base} :
                LET lowered == IF first THEN Len(journal) < view.covered ELSE covered < view.covered
                    kept == IF ~first /\ lowered THEN covered ELSE Len(journal)
                IN  Publish([view EXCEPT !.phase = "following", !.covered = covered,
                               !.page = IF adopts THEN sample ELSE @,
                               !.from = IF covered = 0 THEN TailStart
                                        ELSE IF first THEN covered + 1 ELSE Least(@, covered + 1),
                               !.now = {r \in @ : r.seq <= kept},
                               !.past = IF lowered THEN {} ELSE @])
           /\ sample' = IF adopts THEN NoPage ELSE sample
    /\ lowest' = MaxSeq
    /\ UNCHANGED <<reads, runs>>

\* The join's next record: the first of a captured tail, or the one after the last.
Public ==
    /\ view.phase = "following"
    /\ LET next == Greatest(view.covered + 1, view.from) IN
         /\ lowest >= next /\ Len(journal) >= next
         /\ Publish([view EXCEPT !.covered = next,
                       !.now = RowsOf(journal, next, next) \union {r \in @ : r.seq # next}])
    /\ UNCHANGED <<lowest, readVars, runs>>

\* A page of earlier history replaces the one before.
Earlier ==
    /\ view.phase \in {"cold", "following"}
    /\ \E from \in 0..(Len(journal) - 1) :
         LET last == Least(from + TailLimit, Len(journal)) IN
           /\ ShowsAhead \/ last <= view.covered
           /\ Publish([view EXCEPT !.past = RowsOf(journal, from + 1, last)])
    /\ UNCHANGED <<lowest, readVars, runs>>

\* An authoritative refusal: nothing of the session is shown.
Refused ==
    /\ view.phase # "off"
    /\ Publish([phase |-> "off", page |-> NoPage, now |-> {}, past |-> {}, from |-> 1, covered |-> 0])
    /\ sample' = NoPage
    /\ UNCHANGED <<lowest, reads, runs>>

-----------------------------------------------------------------------------
Init ==
    /\ journal = <<>> /\ lowest = MaxSeq /\ truncated = 0
    /\ sample = NoPage /\ reads = 0 /\ runs = 0
    /\ view = [phase |-> "off", page |-> NoPage, now |-> {}, past |-> {}, from |-> 1, covered |-> Initial]
    /\ cell = [known |-> FALSE, covered |-> Initial, resolved |-> {}, board |-> Nothing]
    /\ watched = {}

Next ==
    \/ Commit \/ Truncate \/ ReadPage
    \/ Start \/ Cold \/ PageArrives \/ Projection \/ Public \/ Earlier \/ Refused

Spec == Init /\ [][Next]_vars

-----------------------------------------------------------------------------
(* Properties.                                                             *)

\* The view shows the journal as it is: it learnt of every truncation.
Abreast ==
    /\ lowest >= view.covered
    /\ Window(view) \subseteq RowsOf(journal, 1, Len(journal))

\* A gate this view watched being resolved in the journal as it stands is not
\* shown again: not by a page read before the resolution and merged after it,
\* not by its opening event on an earlier page, as long as the coverage
\* rises and nobody refuses the read.
ResolvedStaysGone == watched \cap DOMAIN cell.board = {}

\* A gate the journal holds open, which the view rendered shows on its page or
\* in its window, is on the board where it was opened, with the page's word on
\* it: no resolution of a journal since truncated, and no page that leaves the
\* gate out, keeps it from whoever has to answer.
OpenIsListed ==
    Abreast =>
      \A g \in OpenGates :
        /\ OpenRows(Window(view), g) # {} => g \in DOMAIN cell.board
        /\ g \in DOMAIN view.page.gates => /\ g \in DOMAIN cell.board
                                           /\ cell.board[g].answer = view.page.gates[g].answer

\* The board lists what is open, and nothing it saw resolved.
BoardTrue == ResolvedStaysGone /\ OpenIsListed
=============================================================================
