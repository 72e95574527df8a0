-------------------------- MODULE GateBoard_proofs --------------------------
(***************************************************************************)
(* Proofs about four parts of the Factory plane.  The board of open gates, *)
(* for any gates, cursors, page sizes and journals, any number of          *)
(* truncations, pages and restarts: a gate seen resolved stays gone; and,  *)
(* where a truncation takes no record the view shows before it covers it,  *)
(* no open gate the view shows is missing.  The viewer of a retained tool  *)
(* output (ToolCapture), for any objects, identities and page sizes, and   *)
(* any number of loads, rewrites and removals: it shows one whole content  *)
(* or waits for a read that will tell it.  The parse boundary (Contract),  *)
(* for documents of any kind and size: one that is taken is as it was      *)
(* sent, and one that keeps its promise is not refused.  The preview of    *)
(* uncommitted text (FactoryLiveText), for any loops, chunks and limits,   *)
(* and any number of turns, steps, deltas and subscriptions: what is shown *)
(* of a turn is one unbroken stretch of a step, and the bytes that are     *)
(* counted are those of the texts that are held.                           *)
(***************************************************************************)
EXTENDS GateBoard, ToolCapture, Contract, FactoryLiveText,
        TLAPS, SequenceTheorems, FiniteSetTheorems, WellFoundedInduction

Pages == [known : BOOLEAN, gates : Boards]
Views == [phase : {"off", "joining", "cold", "following"}, page : Pages,
          now : SUBSET Rows, past : SUBSET Rows,
          from : 1..(MaxSeq + 1), covered : 0..MaxSeq]
Cells == [known : BOOLEAN, covered : 0..MaxSeq, resolved : SUBSET Gates, board : Boards]

\* The records of the journal as it stands.
Held == RowsOf(journal, 1, Len(journal))

JournalTypes == /\ journal \in Seq(Events) /\ Len(journal) <= MaxSeq /\ lowest \in 0..MaxSeq
                /\ truncated \in 0..MaxTruncations
CountTypes == reads \in 0..MaxPages /\ runs \in 0..MaxRuns

\* A page that was not read lists nothing.
PageTypes == /\ sample \in Pages /\ (~sample.known => DOMAIN sample.gates = {})
             /\ view.page \in Pages /\ (~view.page.known => DOMAIN view.page.gates = {})

ViewTypes == view \in Views
CellTypes == cell \in Cells /\ DOMAIN cell.board \cap cell.resolved = {}

Types == /\ JournalTypes /\ CountTypes /\ PageTypes
         /\ ViewTypes /\ CellTypes /\ watched \subseteq Gates

\* What the board made of a view: a gate of its window or its page is listed, or gone.
FoldedFrom(c, v) ==
    /\ c.known = v.page.known /\ c.covered = v.covered
    /\ ResolvedIn(Window(v)) \subseteq c.resolved
    /\ \A g \in Gates : OpenRows(Window(v), g) # {} => g \in DOMAIN c.board \union c.resolved
    /\ \A g \in DOMAIN v.page.gates :
          g \in c.resolved \/ (g \in DOMAIN c.board /\ c.board[g].answer = v.page.gates[g].answer)

\* A view that has read nothing shows nothing and knows of no resolution.
Phases ==
    /\ view.phase \in {"off", "joining"} =>
         view.now = {} /\ view.past = {} /\ ~view.page.known /\ cell.resolved = {}
    /\ view.phase \in {"cold", "following"} => view.page.known
    /\ view.phase = "cold" => /\ Initial <= view.covered
                              /\ \A r \in view.now : r.seq <= view.covered
                              /\ view.covered = Initial \/ \E r \in view.now : r.seq = view.covered

BoardInv == Types /\ FoldedFrom(cell, view) /\ Phases /\ watched \subseteq cell.resolved

-----------------------------------------------------------------------------
(* Types.                                                                  *)

\* A set of sequences has a least one.
LEMMA LeastSequence ==
    ASSUME NEW S \in SUBSET Nat, S # {}
    PROVE  \E x \in S : \A y \in S : y >= x
<1>1. PICK x \in S : \A y \in S : ~(<<y, x>> \in OpToRel(<, Nat))
  <2> HIDE DEF OpToRel
  <2> QED BY NatLessThanWellFounded, WFMin
<1>2. \A y \in S : ~(y < x)
  <2> TAKE y \in S
  <2>1. ~(<<y, x>> \in {ss \in Nat \X Nat : ss[1] < ss[2]})
    BY <1>1 DEF OpToRel
  <2>2. <<y, x>> \in Nat \X Nat
    OBVIOUS
  <2> QED BY <2>1, <2>2
<1> QED BY <1>2

\* Two sequences have a lesser and a greater.
LEMMA Bounds ==
    ASSUME NEW a \in Nat, NEW b \in Nat
    PROVE  /\ Least(a, b) \in {a, b} /\ Least(a, b) <= a /\ Least(a, b) <= b
           /\ Greatest(a, b) \in {a, b} /\ a <= Greatest(a, b) /\ b <= Greatest(a, b)
BY DEF Least, Greatest

\* What a board is.
LEMMA BoardIs ==
    ASSUME NEW b \in Boards
    PROVE  DOMAIN b \in SUBSET Gates /\ b \in [DOMAIN b -> Entries]
BY DEF Boards

LEMMA NothingIsBoard == Nothing \in Boards /\ DOMAIN Nothing = {}
<1>1. Nothing \in [{} -> Entries]
  BY DEF Nothing
<1> QED BY <1>1 DEF Boards, Nothing

\* Records of a log are rows.
LEMMA RowsAreRows ==
    ASSUME JournalTypes, NEW first \in Nat \ {0}, NEW last \in Nat, last <= Len(journal)
    PROVE  /\ RowsOf(journal, first, last) \in SUBSET Rows
           /\ RowsOf(journal, first, last) \subseteq Held
           /\ \A r \in RowsOf(journal, first, last) : r.seq \in first..last /\ r.event = journal[r.seq]
           /\ \A s \in first..last : [seq |-> s, event |-> journal[s]] \in RowsOf(journal, first, last)
<1>0. MaxSeq \in Nat /\ Len(journal) \in Nat
  BY BoardAssumption DEF JournalTypes
<1>1. \A s \in first..last : s \in 1..MaxSeq /\ s \in 1..Len(journal) /\ journal[s] \in Events
  BY <1>0 DEF JournalTypes
<1>2. RowsOf(journal, first, last) \in SUBSET Rows
  BY <1>1 DEF RowsOf, Rows
<1>3. RowsOf(journal, first, last) \subseteq Held
  BY <1>1 DEF RowsOf, Held
<1> QED BY <1>2, <1>3 DEF RowsOf

LEMMA WindowIsRows ==
    ASSUME NEW v \in Views
    PROVE  Window(v) \in SUBSET Rows /\ v.now \subseteq Window(v) /\ Window(v) \subseteq v.now \union v.past
BY DEF Window, Views

\* The fold of a window keeps a board, and lists no gate that is gone.
LEMMA FoldedBoard ==
    ASSUME NEW b \in Boards, NEW rows \in SUBSET Rows, NEW gone \in SUBSET Gates,
           ResolvedIn(rows) \subseteq gone, DOMAIN b \cap (gone \ ResolvedIn(rows)) = {}
    PROVE  /\ FoldEvents(b, rows, gone) \in Boards
           /\ DOMAIN FoldEvents(b, rows, gone) \cap gone = {}
           /\ OpeningEvents(rows, gone) \subseteq DOMAIN FoldEvents(b, rows, gone)
<1> DEFINE kept == DOMAIN b \ ResolvedIn(rows)
           low(g) == CHOOSE s \in 1..MaxSeq : /\ \E r \in OpenRows(rows, g) : r.seq = s
                                              /\ \A r \in OpenRows(rows, g) : r.seq >= s
           entry(g) == IF g \in kept THEN b[g] ELSE [seq |-> low(g), answer |-> ""]
<1>0. MaxSeq \in Nat
  BY BoardAssumption
<1>1. DOMAIN b \in SUBSET Gates /\ b \in [DOMAIN b -> Entries]
  BY BoardIs
<1>2. ASSUME NEW g \in OpeningEvents(rows, gone)
      PROVE  low(g) \in 1..MaxSeq
  <2> DEFINE S == {r.seq : r \in OpenRows(rows, g)}
  <2>1. OpenRows(rows, g) # {} /\ OpenRows(rows, g) \subseteq Rows
    BY <1>2 DEF OpeningEvents, OpenRows
  <2>2. S \in SUBSET (1..MaxSeq) /\ S # {}
    BY <2>1 DEF Rows
  <2>3. S \in SUBSET Nat
    BY <2>2, <1>0
  <2> HIDE DEF S
  <2>4. PICK x \in S : \A y \in S : y >= x
    BY <2>2, <2>3, LeastSequence
  <2>5. /\ \E r \in OpenRows(rows, g) : r.seq = x
        /\ \A r \in OpenRows(rows, g) : r.seq >= x
    BY <2>4 DEF S
  <2> QED BY <2>2, <2>4, <2>5
<1> HIDE DEF low
<1>3. \A g \in kept \union OpeningEvents(rows, gone) : entry(g) \in Entries
  BY <1>1, <1>2 DEF Entries, Answers
<1>4. kept \union OpeningEvents(rows, gone) \in SUBSET Gates
  BY <1>1 DEF OpeningEvents
<1>5. FoldEvents(b, rows, gone) = [g \in kept \union OpeningEvents(rows, gone) |-> entry(g)]
  BY DEF FoldEvents, low
<1>6. FoldEvents(b, rows, gone) \in [kept \union OpeningEvents(rows, gone) -> Entries]
  BY <1>3, <1>5
<1>7. FoldEvents(b, rows, gone) \in Boards
  BY <1>4, <1>6 DEF Boards
<1>8. DOMAIN FoldEvents(b, rows, gone) = kept \union OpeningEvents(rows, gone)
  BY <1>6
<1> QED BY <1>7, <1>8 DEF OpeningEvents

\* A page merged into a board adds to it, and has the last word on an answer.
LEMMA MergedBoard ==
    ASSUME NEW b \in Boards, NEW page \in Boards
    PROVE  /\ MergePage(b, page) \in Boards
           /\ DOMAIN MergePage(b, page) = DOMAIN b \union DOMAIN page
           /\ \A g \in DOMAIN page : MergePage(b, page)[g].answer = page[g].answer
<1>1. /\ DOMAIN b \in SUBSET Gates /\ b \in [DOMAIN b -> Entries]
      /\ DOMAIN page \in SUBSET Gates /\ page \in [DOMAIN page -> Entries]
  BY BoardIs
<1>2. MergePage(b, page) \in [DOMAIN b \union DOMAIN page -> Entries]
  BY <1>1 DEF MergePage, Entries
<1>3. MergePage(b, page) \in Boards
  BY <1>1, <1>2 DEF Boards
<1>4. \A g \in DOMAIN page : MergePage(b, page)[g].answer = page[g].answer
  BY DEF MergePage
<1> QED BY <1>2, <1>3, <1>4

LEMMA SuppressedPage ==
    ASSUME NEW page \in Boards, NEW gone
    PROVE  /\ SuppressResolved(page, gone) \in Boards
           /\ DOMAIN SuppressResolved(page, gone) = DOMAIN page \ gone
           /\ \A g \in DOMAIN page \ gone : SuppressResolved(page, gone)[g] = page[g]
<1>1. DOMAIN page \in SUBSET Gates /\ page \in [DOMAIN page -> Entries]
  BY BoardIs
<1>2. SuppressResolved(page, gone) \in [DOMAIN page \ gone -> Entries]
  BY <1>1 DEF SuppressResolved
<1> QED BY <1>1, <1>2 DEF Boards, SuppressResolved

-----------------------------------------------------------------------------
(* A render.                                                               *)

\* A view the machine may publish.
Publishable(v) ==
    /\ v \in Views
    /\ ~v.page.known => DOMAIN v.page.gates = {}
    /\ ~v.page.known /\ cell.known => v.phase = "off"

LEMMA FoldedView ==
    ASSUME CellTypes, NEW v \in Views, ~v.page.known => DOMAIN v.page.gates = {}
    PROVE  /\ Folded(v) \in Cells
           /\ DOMAIN Folded(v).board \cap Folded(v).resolved = {}
           /\ Folded(v).resolved =
                (IF NewGeneration(v) THEN {} ELSE cell.resolved) \union ResolvedIn(Window(v))
           /\ FoldedFrom(Folded(v), v)
<1> DEFINE fresh == NewGeneration(v)
           old == IF fresh THEN {} ELSE cell.resolved
           before == IF fresh THEN Nothing ELSE cell.board
           rows == Window(v)
           gone == old \union ResolvedIn(rows)
           board == FoldEvents(before, rows, gone)
           page == SuppressResolved(v.page.gates, gone)
<1>1. /\ v.page \in Pages /\ v.page.gates \in Boards /\ v.page.known \in BOOLEAN
      /\ v.covered \in 0..MaxSeq
  BY DEF Views, Pages
<1>2. rows \in SUBSET Rows
  BY WindowIsRows
<1>3. ResolvedIn(rows) \in SUBSET Gates
  BY <1>2 DEF ResolvedIn, Rows, Events
<1>4. /\ old \in SUBSET Gates /\ before \in Boards /\ DOMAIN before \cap old = {}
  <2>1. cell.resolved \in SUBSET Gates /\ cell.board \in Boards
    BY DEF CellTypes, Cells
  <2> QED BY <2>1, NothingIsBoard DEF CellTypes
<1>5. gone \in SUBSET Gates /\ ResolvedIn(rows) \subseteq gone
  BY <1>3, <1>4
<1>6. Folded(v) = [known |-> v.page.known, covered |-> v.covered, resolved |-> gone,
                   board |-> IF v.page.known THEN MergePage(board, page) ELSE board]
  BY DEF Folded
<1> HIDE DEF fresh, old, before, rows
<1>7. DOMAIN before \cap (gone \ ResolvedIn(rows)) = {}
  BY <1>4
<1> HIDE DEF gone
<1>8. /\ board \in Boards /\ DOMAIN board \cap gone = {}
      /\ OpeningEvents(rows, gone) \subseteq DOMAIN board
  BY <1>2, <1>4, <1>5, <1>7, FoldedBoard
<1> HIDE DEF board
<1>9. /\ page \in Boards /\ DOMAIN page = DOMAIN v.page.gates \ gone
      /\ \A g \in DOMAIN v.page.gates \ gone : page[g] = v.page.gates[g]
  BY <1>1, SuppressedPage
<1> HIDE DEF page
<1>10. /\ MergePage(board, page) \in Boards
       /\ DOMAIN MergePage(board, page) = DOMAIN board \union DOMAIN page
       /\ \A g \in DOMAIN page : MergePage(board, page)[g].answer = page[g].answer
  BY <1>8, <1>9, MergedBoard
<1>11. Folded(v) \in Cells
  BY <1>1, <1>5, <1>6, <1>8, <1>10 DEF Cells
<1>12. DOMAIN Folded(v).board \cap Folded(v).resolved = {}
  BY <1>6, <1>8, <1>9, <1>10
<1>13. DOMAIN board \subseteq DOMAIN Folded(v).board
  BY <1>6, <1>10
<1>14. ASSUME NEW g \in Gates, OpenRows(rows, g) # {}
       PROVE  g \in DOMAIN Folded(v).board \union Folded(v).resolved
  <2>1. g \in gone \/ g \in OpeningEvents(rows, gone)
    BY <1>14 DEF OpeningEvents
  <2> QED BY <2>1, <1>6, <1>8, <1>13
<1>15. ASSUME NEW g \in DOMAIN v.page.gates, g \notin Folded(v).resolved
       PROVE  g \in DOMAIN Folded(v).board /\ Folded(v).board[g].answer = v.page.gates[g].answer
  <2>1. g \in DOMAIN v.page.gates \ gone /\ v.page.known
    BY <1>1, <1>6, <1>15
  <2>2. g \in DOMAIN page /\ page[g] = v.page.gates[g]
    BY <1>9, <2>1
  <2>3. Folded(v).board = MergePage(board, page)
    BY <1>6, <2>1
  <2> QED BY <2>2, <2>3, <1>10
<1>16. FoldedFrom(Folded(v), v)
  BY <1>5, <1>6, <1>14, <1>15 DEF FoldedFrom, rows
<1>17. Folded(v).resolved = old \union ResolvedIn(rows)
  BY <1>6 DEF gone
<1> QED BY <1>11, <1>12, <1>16, <1>17 DEF old, fresh, rows

\* What a publication leaves of the invariant, whatever the view is.
LEMMA Published ==
    ASSUME BoardInv, NEW v, Publishable(v), Publish(v)
    PROVE  /\ view' = v /\ ViewTypes' /\ CellTypes' /\ FoldedFrom(cell', view')
           /\ cell'.resolved = (IF NewGeneration(v) THEN {} ELSE cell.resolved) \union ResolvedIn(Window(v))
           /\ watched' \subseteq cell'.resolved /\ watched' \subseteq Gates
           /\ UNCHANGED <<journal, truncated>>
<1>1. /\ view' = v /\ v \in Views /\ cell' = Folded(v)
      /\ UNCHANGED <<journal, truncated>>
  BY DEF Publish, Publishable, Render
<1>2. /\ cell' \in Cells /\ DOMAIN cell'.board \cap cell'.resolved = {} /\ FoldedFrom(cell', v)
      /\ cell'.resolved = (IF NewGeneration(v) THEN {} ELSE cell.resolved) \union ResolvedIn(Window(v))
  BY <1>1, FoldedView DEF BoardInv, Types, Publishable
<1>3. ViewTypes' /\ CellTypes' /\ FoldedFrom(cell', view')
  BY <1>1, <1>2 DEF ViewTypes, CellTypes
<1> DEFINE seen == {g \in Gates : \E r \in Window(v) : /\ r.event.kind = "GateResolved" /\ r.event.gate = g
                                                      /\ r \in RowsOf(journal, 1, Len(journal))}
<1>4. watched' = (IF v.covered < cell.covered \/ v.phase = "off" THEN {} ELSE watched) \union seen
  BY DEF Publish, Render
<1>5. seen \subseteq ResolvedIn(Window(v))
  BY DEF ResolvedIn
<1>6. ~(v.covered < cell.covered) /\ v.phase # "off" => ~NewGeneration(v)
  BY DEF NewGeneration, Publishable
<1>7. watched \subseteq cell.resolved /\ watched \subseteq Gates
  BY DEF BoardInv, Types
<1>8. watched' \subseteq cell'.resolved
  BY <1>2, <1>4, <1>5, <1>6, <1>7
<1>9. watched' \subseteq Gates
  BY <1>4, <1>7
<1> QED BY <1>1, <1>2, <1>3, <1>8, <1>9

-----------------------------------------------------------------------------
(* The invariant.                                                          *)

LEMMA Numbers ==
    /\ MaxSeq \in Nat /\ Initial \in 0..MaxSeq /\ TailLimit \in Nat \ {0}
    /\ MaxTruncations \in Nat /\ MaxPages \in Nat /\ MaxRuns \in Nat
BY BoardAssumption

LEMMA NoPageIs == NoPage \in Pages /\ ~NoPage.known /\ DOMAIN NoPage.gates = {}
BY NothingIsBoard DEF NoPage, Pages

LEMMA BoardInit ==
    ASSUME Init
    PROVE  BoardInv
<1>1. JournalTypes /\ CountTypes
  BY Numbers DEF Init, JournalTypes, CountTypes
<1>2. PageTypes
  BY NoPageIs DEF Init, PageTypes
<1>3. ViewTypes
  BY Numbers, NoPageIs DEF Init, ViewTypes, Views
<1>4. CellTypes
  BY Numbers, NothingIsBoard DEF Init, CellTypes, Cells
<1>5. Window(view) = {}
  BY DEF Init, Window
<1>6. FoldedFrom(cell, view)
  <2>1. ResolvedIn(Window(view)) = {} /\ \A g \in Gates : OpenRows(Window(view), g) = {}
    BY <1>5 DEF ResolvedIn, OpenRows
  <2>2. /\ view.page = NoPage /\ cell.known = FALSE /\ cell.covered = view.covered
    BY DEF Init
  <2>3. NoPage.known = FALSE
    BY DEF NoPage
  <2> QED BY <2>1, <2>2, <2>3, NoPageIs DEF FoldedFrom
<1>7. Phases
  BY NoPageIs DEF Init, Phases
<1> QED BY <1>1, <1>2, <1>3, <1>4, <1>6, <1>7 DEF BoardInv, Types, Init

\* Where a gate was opened, and what a page says of an open gate.
LEMMA OpenedIsThere ==
    ASSUME JournalTypes, NEW g \in OpenGates
    PROVE  OpenedAt(g) \in 1..MaxSeq
<1>1. \E s \in DOMAIN journal : journal[s].kind = "GateOpened" /\ journal[s].gate = g
  BY DEF OpenGates, Opened
<1>2. OpenedAt(g) \in DOMAIN journal
  BY <1>1 DEF OpenedAt
<1> QED BY <1>2, Numbers DEF JournalTypes

LEMMA CommitKeeps ==
    ASSUME BoardInv, Commit
    PROVE  BoardInv'
<1>1. JournalTypes'
  <2>0. journal \in Seq(Events) /\ Len(journal) \in Nat /\ lowest \in 0..MaxSeq /\ truncated \in 0..MaxTruncations
    BY DEF BoardInv, Types, JournalTypes
  <2>1. PICK kind \in {"GateOpened", "GateResolved"}, g \in Gates :
           journal' = Append(journal, [kind |-> kind, gate |-> g, epoch |-> truncated])
    BY DEF Commit
  <2>2. [kind |-> kind, gate |-> g, epoch |-> truncated] \in Events
    BY <2>0 DEF Events
  <2>3. journal' \in Seq(Events) /\ Len(journal') = Len(journal) + 1
    BY <2>0, <2>1, <2>2, AppendProperties
  <2>4. Len(journal) < MaxSeq /\ lowest' = lowest /\ truncated' = truncated
    BY DEF Commit
  <2> QED BY <2>0, <2>3, <2>4, Numbers DEF JournalTypes
<1>2. UNCHANGED <<readVars, view, runs, cell, watched>>
  BY DEF Commit
<1> QED
  BY <1>1, <1>2 DEF BoardInv, Types, CountTypes, PageTypes, ViewTypes, CellTypes,
     FoldedFrom, Window, Phases, readVars

LEMMA TruncateKeeps ==
    ASSUME BoardInv, Truncate
    PROVE  BoardInv'
<1>1. JournalTypes' /\ watched' \subseteq watched
  <2>1. PICK tip \in 0..(Len(journal) - 1) :
          /\ journal' = SubSeq(journal, 1, tip)
          /\ lowest' = Least(lowest, tip)
          /\ watched' = {g \in watched : Resolved(SubSeq(journal, 1, tip), g)}
    BY DEF Truncate
  <2>2. journal \in Seq(Events) /\ Len(journal) \in Nat /\ Len(journal) <= MaxSeq /\ lowest \in 0..MaxSeq
        /\ truncated \in 0..MaxTruncations
    BY DEF BoardInv, Types, JournalTypes
  <2>3. journal' \in Seq(Events) /\ Len(journal') = tip
    BY <2>1, <2>2, SubSeqProperties
  <2>4. lowest' \in 0..MaxSeq
    BY <2>1, <2>2, Bounds, Numbers
  <2>5. truncated' \in 0..MaxTruncations
    BY <2>2, Numbers DEF Truncate
  <2> QED BY <2>1, <2>2, <2>3, <2>4, <2>5, Numbers DEF JournalTypes
<1>2. UNCHANGED <<readVars, view, runs, cell>>
  BY DEF Truncate
<1> QED
  BY <1>1, <1>2 DEF BoardInv, Types, CountTypes, PageTypes, ViewTypes, CellTypes,
     FoldedFrom, Window, Phases, readVars

LEMMA ReadPageKeeps ==
    ASSUME BoardInv, ReadPage
    PROVE  BoardInv'
<1>1. JournalTypes' /\ CountTypes'
  BY Numbers DEF ReadPage, BoardInv, Types, JournalTypes, CountTypes, factoryVars
<1>2. PageTypes'
  <2>1. PICK S \in SUBSET OpenGates, answer \in {"unavailable", "resident"} :
          sample' = [known |-> TRUE, gates |-> [g \in S |-> GateProjection(g, answer)]]
    BY DEF ReadPage
  <2>2. \A g \in S : GateProjection(g, answer) \in Entries
    BY OpenedIsThere DEF GateProjection, Entries, Answers, BoardInv, Types
  <2>3. [g \in S |-> GateProjection(g, answer)] \in [S -> Entries] /\ S \in SUBSET Gates
    BY <2>2 DEF OpenGates
  <2>4. [g \in S |-> GateProjection(g, answer)] \in Boards
    BY <2>3 DEF Boards
  <2>5. sample' \in Pages /\ sample'.known
    BY <2>1, <2>4 DEF Pages
  <2> QED BY <2>5 DEF PageTypes, BoardInv, Types, ReadPage
<1>3. UNCHANGED <<view, cell, watched>>
  BY DEF ReadPage
<1> QED
  BY <1>1, <1>2, <1>3 DEF BoardInv, Types, ViewTypes, CellTypes, FoldedFrom, Window, Phases

\* The fields of the view, the page in flight and the journal.
LEMMA ViewIs ==
    ASSUME BoardInv
    PROVE  /\ view \in Views /\ view.phase \in {"off", "joining", "cold", "following"}
           /\ view.page \in Pages /\ (~view.page.known => DOMAIN view.page.gates = {})
           /\ sample \in Pages /\ (~sample.known => DOMAIN sample.gates = {})
           /\ view.now \in SUBSET Rows /\ view.past \in SUBSET Rows
           /\ view.from \in 1..(MaxSeq + 1) /\ view.covered \in 0..MaxSeq
           /\ journal \in Seq(Events) /\ Len(journal) \in Nat /\ Len(journal) <= MaxSeq
           /\ lowest \in 0..MaxSeq /\ cell.known = view.page.known /\ cell.covered = view.covered
BY DEF BoardInv, Types, ViewTypes, PageTypes, JournalTypes, FoldedFrom, Views

LEMMA TailStartIs ==
    ASSUME BoardInv
    PROVE  TailStart \in 1..(MaxSeq + 1) /\ TailStart \in Nat \ {0}
BY ViewIs, Numbers DEF TailStart

\* What is left to show of a publication.
LEMMA PublicationKeeps ==
    ASSUME BoardInv, NEW v, Publishable(v), Publish(v), sample' \in {sample, NoPage},
           lowest' \in 0..MaxSeq, CountTypes', Phases'
    PROVE  BoardInv'
<1>1. /\ view' = v /\ ViewTypes' /\ CellTypes' /\ FoldedFrom(cell', view')
      /\ watched' \subseteq cell'.resolved /\ watched' \subseteq Gates
      /\ UNCHANGED <<journal, truncated>>
  BY Published
<1>2. JournalTypes'
  BY <1>1 DEF JournalTypes, BoardInv, Types
<1>3. PageTypes'
  <2>1. sample' \in Pages /\ (~sample'.known => DOMAIN sample'.gates = {})
    BY ViewIs, NoPageIs
  <2>2. view'.page \in Pages /\ (~view'.page.known => DOMAIN view'.page.gates = {})
    BY <1>1 DEF Publishable, Views
  <2> QED BY <2>1, <2>2 DEF PageTypes
<1>4. FoldedFrom(cell, view)'
  BY <1>1 DEF FoldedFrom, Window
<1> QED BY <1>1, <1>2, <1>3, <1>4 DEF BoardInv, Types

LEMMA StartKeeps ==
    ASSUME BoardInv, Start
    PROVE  BoardInv'
<1> DEFINE v == [view EXCEPT !.phase = "joining"]
<1>1. /\ view.phase = "off" /\ runs < MaxRuns /\ runs' = runs + 1 /\ lowest' = MaxSeq
      /\ Publish(v) /\ UNCHANGED readVars
  BY DEF Start
<1>2. /\ v \in Views /\ v.phase = "joining" /\ v.page = view.page /\ v.now = view.now
      /\ v.past = view.past /\ v.covered = view.covered
  BY ViewIs DEF Views
<1>3. view.now = {} /\ view.past = {} /\ ~view.page.known /\ ~cell.known /\ cell.resolved = {}
  BY <1>1, ViewIs DEF BoardInv, Phases
<1>4. Publishable(v)
  BY <1>2, <1>3, ViewIs DEF Publishable
<1> HIDE DEF v
<1>5. view' = v /\ cell'.resolved = (IF NewGeneration(v) THEN {} ELSE cell.resolved) \union ResolvedIn(Window(v))
  BY <1>1, <1>4, Published
<1>6. cell'.resolved = {}
  <2>1. Window(v) = {}
    BY <1>2, <1>3 DEF Window
  <2>2. ResolvedIn(Window(v)) = {}
    BY <2>1 DEF ResolvedIn
  <2> QED BY <2>2, <1>3, <1>5
<1>7. Phases'
  BY <1>2, <1>3, <1>5, <1>6 DEF Phases
<1>8. CountTypes'
  BY <1>1, Numbers DEF BoardInv, Types, CountTypes, readVars
<1>9. sample' = sample /\ lowest' \in 0..MaxSeq
  BY <1>1, Numbers DEF readVars
<1> QED BY <1>1, <1>4, <1>7, <1>8, <1>9, PublicationKeeps

\* The view the cold capture publishes.
Captures(v) ==
    /\ v \in Views /\ v.phase = "cold" /\ v.page = sample /\ v.past = {} /\ v.now \subseteq Held
    /\ Initial <= v.covered /\ \A r \in v.now : r.seq <= v.covered
    /\ v.covered = Initial \/ \E r \in v.now : r.seq = v.covered

LEMMA ColdPublishes ==
    ASSUME BoardInv, Cold
    PROVE  \E v : Captures(v) /\ Publish(v)
<1> DEFINE n == RowsOf(journal, TailStart, Len(journal)) \union
                  {r \in view.now : r.seq < TailStart \/ r.seq > Len(journal)}
           v == [view EXCEPT !.phase = "cold", !.page = sample, !.now = n,
                             !.covered = Greatest(Len(journal), Initial)]
<1>1. view.phase = "joining" /\ Publish(v)
  BY DEF Cold
<1>2. view.now = {} /\ view.past = {}
  BY <1>1 DEF BoardInv, Phases
<1>3. n = RowsOf(journal, TailStart, Len(journal))
  BY <1>2
<1>4. /\ n \in SUBSET Rows /\ n \subseteq Held
      /\ \A r \in n : r.seq \in TailStart..Len(journal)
      /\ \A s \in TailStart..Len(journal) : [seq |-> s, event |-> journal[s]] \in n
  BY <1>3, ViewIs, TailStartIs, RowsAreRows DEF BoardInv, Types
<1>5. /\ Greatest(Len(journal), Initial) \in 0..MaxSeq /\ Len(journal) <= Greatest(Len(journal), Initial)
      /\ Initial <= Greatest(Len(journal), Initial)
      /\ Greatest(Len(journal), Initial) = Initial
            \/ (Greatest(Len(journal), Initial) = Len(journal) /\ Len(journal) > 0)
  BY ViewIs, Numbers DEF Greatest
<1>6. Len(journal) > 0 => Len(journal) \in TailStart..Len(journal)
  BY ViewIs, Numbers DEF TailStart
<1>7. Greatest(Len(journal), Initial) = Initial \/ \E r \in n : r.seq = Greatest(Len(journal), Initial)
  <2>1. ASSUME Greatest(Len(journal), Initial) = Len(journal), Len(journal) > 0
        PROVE  \E r \in n : r.seq = Greatest(Len(journal), Initial)
    <3>1. [seq |-> Len(journal), event |-> journal[Len(journal)]] \in n
      BY <1>4, <1>6, <2>1
    <3> QED BY <2>1, <3>1
  <2> QED BY <1>5, <2>1
<1>8. \A r \in n : r.seq <= Greatest(Len(journal), Initial)
  <2> TAKE r \in n
  <2>1. r.seq \in Nat /\ r.seq <= Len(journal)
    BY <1>4, ViewIs, TailStartIs
  <2> QED BY <2>1, <1>5, ViewIs, Numbers
<1> HIDE DEF n
<1>9. /\ v \in Views /\ v.phase = "cold" /\ v.page = sample /\ v.now = n /\ v.past = view.past
      /\ v.covered = Greatest(Len(journal), Initial)
  BY <1>4, <1>5, ViewIs DEF Views
<1> HIDE DEF v
<1>10. Captures(v)
  BY <1>2, <1>4, <1>5, <1>7, <1>8, <1>9 DEF Captures
<1> QED BY <1>1, <1>10

LEMMA ColdKeeps ==
    ASSUME BoardInv, Cold
    PROVE  BoardInv'
<1>1. PICK v : Captures(v) /\ Publish(v)
  BY ColdPublishes
<1>2. sample.known /\ sample' = NoPage /\ lowest' = MaxSeq /\ UNCHANGED <<reads, runs>>
  BY DEF Cold
<1>3. Publishable(v)
  BY <1>1, <1>2 DEF Publishable, Captures
<1>4. view' = v
  BY <1>1, <1>3, Published
<1>5. Phases'
  BY <1>1, <1>2, <1>4 DEF Phases, Captures
<1>6. CountTypes' /\ lowest' \in 0..MaxSeq
  BY <1>2, Numbers DEF BoardInv, Types, CountTypes
<1> QED BY <1>1, <1>2, <1>3, <1>5, <1>6, PublicationKeeps

LEMMA PageArrivesKeeps ==
    ASSUME BoardInv, PageArrives
    PROVE  BoardInv'
<1> DEFINE v == [view EXCEPT !.page = sample]
<1>1. /\ sample.known /\ view.phase \in {"cold", "following"} /\ sample' = NoPage
      /\ Publish(v) /\ UNCHANGED <<lowest, reads, runs>>
  BY DEF PageArrives
<1>2. /\ v \in Views /\ v.phase = view.phase /\ v.page = sample /\ v.now = view.now
      /\ v.past = view.past /\ v.covered = view.covered
  BY ViewIs DEF Views
<1> HIDE DEF v
<1>3. Publishable(v)
  BY <1>1, <1>2 DEF Publishable
<1>4. view' = v
  BY <1>1, <1>3, Published
<1>5. Phases'
  BY <1>1, <1>2, <1>4 DEF Phases, BoardInv
<1>6. CountTypes' /\ lowest' \in 0..MaxSeq
  BY <1>1, ViewIs DEF BoardInv, Types, CountTypes
<1> QED BY <1>1, <1>3, <1>5, <1>6, PublicationKeeps

\* The view a projection publishes.
FirstProjection == view.phase # "following"
ProjectionBase == IF FirstProjection THEN Initial ELSE view.covered
ProjectionTip == Least(Len(journal), lowest)
Lowers(covered) == IF FirstProjection THEN Len(journal) < view.covered ELSE covered < view.covered
Projects(v) ==
    /\ v \in Views /\ v.phase = "following"
    /\ v.page = IF view.phase = "joining" THEN sample ELSE view.page
    /\ v.covered <= ProjectionBase
    /\ IF ProjectionTip < ProjectionBase THEN v.covered <= ProjectionTip ELSE v.covered = ProjectionBase
    /\ v.now = {r \in view.now : r.seq <= IF ~FirstProjection /\ Lowers(v.covered)
                                          THEN v.covered ELSE Len(journal)}
    /\ v.past = IF Lowers(v.covered) THEN {} ELSE view.past

LEMMA ProjectionPublishes ==
    ASSUME BoardInv, Projection
    PROVE  \E v : Projects(v) /\ Publish(v)
<1> DEFINE kept(c) == IF ~FirstProjection /\ Lowers(c) THEN c ELSE Len(journal)
           w(c) == [view EXCEPT !.phase = "following", !.covered = c,
                      !.page = IF view.phase = "joining" THEN sample ELSE @,
                      !.from = IF c = 0 THEN TailStart
                               ELSE IF FirstProjection THEN c + 1 ELSE Least(@, c + 1),
                      !.now = {r \in @ : r.seq <= kept(c)},
                      !.past = IF Lowers(c) THEN {} ELSE @]
<1>1. PICK c \in IF ProjectionTip < ProjectionBase THEN 0..ProjectionTip ELSE {ProjectionBase} :
        Publish(w(c))
  BY Zenon DEF Projection, FirstProjection, ProjectionBase, ProjectionTip, Lowers
<1>2. ProjectionBase \in 0..MaxSeq /\ ProjectionTip \in 0..MaxSeq
  BY ViewIs, Numbers, Bounds DEF ProjectionBase, ProjectionTip
<1>3. c \in 0..MaxSeq /\ c <= ProjectionBase
  BY <1>1, <1>2, Numbers
<1>4. IF ProjectionTip < ProjectionBase THEN c <= ProjectionTip ELSE c = ProjectionBase
  BY <1>1, <1>2, Numbers
<1> DEFINE f == IF c = 0 THEN TailStart ELSE IF FirstProjection THEN c + 1 ELSE Least(view.from, c + 1)
           n == {r \in view.now : r.seq <= kept(c)}
           p == IF Lowers(c) THEN {} ELSE view.past
           g == IF view.phase = "joining" THEN sample ELSE view.page
<1>5. f \in 1..(MaxSeq + 1)
  <2>1. c # 0 => c + 1 \in 1..(MaxSeq + 1)
    BY <1>3, Numbers
  <2>2. c # 0 => Least(view.from, c + 1) \in {view.from, c + 1}
    BY DEF Least
  <2> QED BY <2>1, <2>2, ViewIs, TailStartIs
<1>6. n \in SUBSET Rows /\ p \in SUBSET Rows /\ g \in Pages
  BY ViewIs
<1>7. w(c) = [view EXCEPT !.phase = "following", !.covered = c, !.page = g, !.from = f, !.now = n, !.past = p]
  OBVIOUS
<1>8. n = {r \in view.now : r.seq <= IF ~FirstProjection /\ Lowers(c) THEN c ELSE Len(journal)}
  OBVIOUS
<1> HIDE DEF f, n, p, g, kept, w
<1>9. /\ w(c) \in Views /\ w(c).phase = "following" /\ w(c).page = g /\ w(c).covered = c
      /\ w(c).now = n /\ w(c).past = p
  <2>1. w(c) = [phase |-> "following", page |-> g, now |-> n, past |-> p, from |-> f, covered |-> c]
    <3>1. view \in Views
      BY ViewIs
    <3> QED BY <3>1, <1>7 DEF Views
  <2> QED BY <2>1, <1>3, <1>5, <1>6 DEF Views
<1>10. Projects(w(c))
  BY <1>3, <1>4, <1>8, <1>9 DEF Projects, p, g
<1> QED BY <1>1, <1>10

LEMMA ProjectionKeeps ==
    ASSUME BoardInv, Projection
    PROVE  BoardInv'
<1>1. PICK v : Projects(v) /\ Publish(v)
  BY ProjectionPublishes
<1>2. /\ view.phase = "following" \/ view.phase = "cold" \/ sample.known
      /\ view.phase # "off" /\ lowest' = MaxSeq /\ sample' \in {sample, NoPage}
      /\ UNCHANGED <<reads, runs>>
  BY DEF Projection
<1>3. v.page.known /\ v \in Views /\ v.phase = "following"
  <2>1. view.phase # "joining" => view.page.known
    BY <1>2, ViewIs DEF BoardInv, Phases
  <2> QED BY <1>1, <1>2, <2>1 DEF Projects
<1>4. Publishable(v)
  BY <1>3 DEF Publishable
<1>5. view' = v
  BY <1>1, <1>4, Published
<1>6. Phases'
  BY <1>3, <1>5 DEF Phases
<1>7. CountTypes' /\ lowest' \in 0..MaxSeq
  BY <1>2, Numbers DEF BoardInv, Types, CountTypes
<1> QED BY <1>1, <1>2, <1>4, <1>6, <1>7, PublicationKeeps

\* The view the next record publishes.
NextRecord == Greatest(view.covered + 1, view.from)
Advances(v) ==
    /\ v \in Views /\ v.phase = view.phase /\ v.page = view.page /\ v.past = view.past
    /\ v.covered = NextRecord /\ view.covered < NextRecord
    /\ v.now = {[seq |-> NextRecord, event |-> journal[NextRecord]]} \union
                {r \in view.now : r.seq # NextRecord}
    /\ [seq |-> NextRecord, event |-> journal[NextRecord]] \in Held

LEMMA PublicPublishes ==
    ASSUME BoardInv, Public
    PROVE  \E v : Advances(v) /\ Publish(v)
<1> DEFINE n == RowsOf(journal, NextRecord, NextRecord) \union {r \in view.now : r.seq # NextRecord}
           v == [view EXCEPT !.covered = NextRecord, !.now = n]
<1>1. Publish(v) /\ lowest >= NextRecord /\ Len(journal) >= NextRecord
  BY DEF Public, NextRecord
<1>2. NextRecord \in Nat \ {0} /\ view.covered < NextRecord
  BY ViewIs, Numbers DEF NextRecord, Greatest
<1>3. NextRecord \in 0..MaxSeq
  BY <1>1, <1>2, ViewIs, Numbers
<1>4. /\ RowsOf(journal, NextRecord, NextRecord) = {[seq |-> NextRecord, event |-> journal[NextRecord]]}
      /\ RowsOf(journal, NextRecord, NextRecord) \in SUBSET Rows
      /\ RowsOf(journal, NextRecord, NextRecord) \subseteq Held
  <2>1. NextRecord..NextRecord = {NextRecord}
    BY <1>2
  <2>2. RowsOf(journal, NextRecord, NextRecord) = {[seq |-> NextRecord, event |-> journal[NextRecord]]}
    BY <2>1 DEF RowsOf
  <2> QED BY <2>2, <1>1, <1>2, RowsAreRows DEF BoardInv, Types
<1>5. n \in SUBSET Rows
  BY <1>4, ViewIs
<1> HIDE DEF n
<1>6. /\ v \in Views /\ v.phase = view.phase /\ v.page = view.page /\ v.past = view.past
      /\ v.covered = NextRecord /\ v.now = n
  BY <1>3, <1>5, ViewIs DEF Views
<1> HIDE DEF v
<1>7. Advances(v)
  BY <1>2, <1>4, <1>6 DEF Advances, n
<1> QED BY <1>1, <1>7

LEMMA PublicKeeps ==
    ASSUME BoardInv, Public
    PROVE  BoardInv'
<1>1. PICK v : Advances(v) /\ Publish(v)
  BY PublicPublishes
<1>2. view.phase = "following" /\ UNCHANGED <<lowest, readVars, runs>>
  BY DEF Public
<1>3. v \in Views /\ v.phase = "following" /\ v.page = view.page
  BY <1>1, <1>2 DEF Advances
<1>4. v.page.known
  BY <1>2, <1>3 DEF BoardInv, Phases
<1>5. Publishable(v)
  BY <1>3, <1>4 DEF Publishable
<1>6. view' = v
  BY <1>1, <1>5, Published
<1>7. Phases'
  BY <1>3, <1>4, <1>6 DEF Phases
<1>8. CountTypes' /\ lowest' \in 0..MaxSeq /\ sample' = sample
  BY <1>2, ViewIs DEF BoardInv, Types, CountTypes, readVars
<1> QED BY <1>1, <1>5, <1>7, <1>8, PublicationKeeps

\* The view a page of earlier history publishes.
Browses(v) ==
    /\ v \in Views /\ v.phase = view.phase /\ v.page = view.page /\ v.now = view.now
    /\ v.covered = view.covered /\ v.past \subseteq Held
    /\ ShowsAhead \/ \A r \in v.past : r.seq <= view.covered

LEMMA EarlierPublishes ==
    ASSUME BoardInv, Earlier
    PROVE  \E v : Browses(v) /\ Publish(v)
<1>1. PICK from \in 0..(Len(journal) - 1) :
        /\ ShowsAhead \/ Least(from + TailLimit, Len(journal)) <= view.covered
        /\ Publish([view EXCEPT !.past =
                      RowsOf(journal, from + 1, Least(from + TailLimit, Len(journal)))])
  BY Zenon DEF Earlier
<1> DEFINE last == Least(from + TailLimit, Len(journal))
           p == RowsOf(journal, from + 1, last)
           v == [view EXCEPT !.past = p]
<1>2. from \in Nat /\ from + 1 \in Nat \ {0} /\ last \in Nat /\ last <= Len(journal)
  <2>1. from \in Nat /\ Len(journal) \in Nat /\ from + TailLimit \in Nat
    BY ViewIs, Numbers
  <2> QED BY <2>1 DEF Least
<1>3. /\ p \in SUBSET Rows /\ p \subseteq Held
      /\ \A r \in p : r.seq \in (from + 1)..last
  BY <1>2, RowsAreRows DEF BoardInv, Types
<1>4. ShowsAhead \/ \A r \in p : r.seq <= view.covered
  <2>1. ASSUME last <= view.covered, NEW r \in p
        PROVE  r.seq <= view.covered
    BY <1>2, <1>3, <2>1, ViewIs, Numbers
  <2> QED BY <1>1, <2>1
<1> HIDE DEF p
<1>5. /\ v \in Views /\ v.phase = view.phase /\ v.page = view.page /\ v.now = view.now
      /\ v.past = p /\ v.covered = view.covered
  BY <1>3, ViewIs DEF Views
<1>6. Publish(v)
  BY <1>1 DEF p
<1> HIDE DEF v
<1> QED BY <1>3, <1>4, <1>5, <1>6 DEF Browses

LEMMA EarlierKeeps ==
    ASSUME BoardInv, Earlier
    PROVE  BoardInv'
<1>1. PICK v : Browses(v) /\ Publish(v)
  BY EarlierPublishes
<1>2. view.phase \in {"cold", "following"} /\ UNCHANGED <<lowest, readVars, runs>>
  BY DEF Earlier
<1>3. /\ v \in Views /\ v.phase = view.phase /\ v.page = view.page /\ v.now = view.now
      /\ v.covered = view.covered
  BY <1>1 DEF Browses
<1>4. v.page.known
  BY <1>2, <1>3 DEF BoardInv, Phases
<1>5. Publishable(v)
  BY <1>3, <1>4 DEF Publishable
<1>6. view' = v
  BY <1>1, <1>5, Published
<1>7. Phases'
  BY <1>2, <1>3, <1>4, <1>6 DEF Phases, BoardInv
<1>8. CountTypes' /\ lowest' \in 0..MaxSeq /\ sample' = sample
  BY <1>2, ViewIs DEF BoardInv, Types, CountTypes, readVars
<1> QED BY <1>1, <1>5, <1>7, <1>8, PublicationKeeps

\* A refusal leaves no tombstone: the board of a page that was known is another journal's.
LEMMA RefusedForgets ==
    ASSUME BoardInv, Refused
    PROVE  /\ BoardInv'
           /\ view'.now = {} /\ view'.past = {} /\ cell'.resolved = {}
           /\ UNCHANGED <<journal, lowest>>
<1> DEFINE v == [phase |-> "off", page |-> NoPage, now |-> {}, past |-> {}, from |-> 1, covered |-> 0]
<1>1. view.phase # "off" /\ Publish(v) /\ sample' = NoPage /\ UNCHANGED <<lowest, reads, runs>>
  BY DEF Refused
<1>2. v \in Views /\ v.phase = "off" /\ v.page = NoPage /\ v.now = {} /\ v.past = {}
  BY NoPageIs, Numbers DEF Views
<1> HIDE DEF v
<1>3. Publishable(v)
  BY <1>2, NoPageIs DEF Publishable
<1>4. /\ view' = v /\ UNCHANGED journal
      /\ cell'.resolved = (IF NewGeneration(v) THEN {} ELSE cell.resolved) \union ResolvedIn(Window(v))
  BY <1>1, <1>3, Published
<1>5. cell'.resolved = {}
  <2>1. Window(v) = {}
    BY <1>2 DEF Window
  <2>2. ResolvedIn(Window(v)) = {}
    BY <2>1 DEF ResolvedIn
  <2>3. cell.resolved = {} \/ cell.known
    BY ViewIs DEF BoardInv, Phases
  <2>4. cell.known => NewGeneration(v)
    BY <1>2, NoPageIs DEF NewGeneration
  <2> QED BY <1>4, <2>2, <2>3, <2>4
<1>6. Phases'
  BY <1>2, <1>4, <1>5, NoPageIs DEF Phases
<1>7. CountTypes' /\ lowest' \in 0..MaxSeq
  BY <1>1, ViewIs DEF BoardInv, Types, CountTypes
<1>8. BoardInv'
  BY <1>1, <1>3, <1>6, <1>7, PublicationKeeps
<1> QED BY <1>1, <1>2, <1>4, <1>5, <1>8

LEMMA BoardStep ==
    ASSUME BoardInv, [Next]_vars
    PROVE  BoardInv'
<1>1. CASE Next
  BY <1>1, CommitKeeps, TruncateKeeps, ReadPageKeeps, StartKeeps, ColdKeeps, PageArrivesKeeps,
     ProjectionKeeps, PublicKeeps, EarlierKeeps, RefusedForgets DEF Next
<1>2. CASE UNCHANGED vars
  BY <1>2 DEF vars, factoryVars, readVars, BoardInv, Types, JournalTypes, CountTypes, PageTypes,
     ViewTypes, CellTypes, FoldedFrom, Window, Phases
<1> QED BY <1>1, <1>2

LEMMA BoardInvariant == Spec => []BoardInv
<1> QED BY BoardInit, BoardStep, PTL DEF Spec

\* The board, the view, the page in flight and the journal have their types, and
\* no gate is at once on the board and gone.
THEOREM TypeCorrect == Spec => []TypeOK
<1>1. BoardInv => TypeOK
  BY DEF BoardInv, Types, JournalTypes, CountTypes, PageTypes, ViewTypes, CellTypes, Pages, Views, Cells, TypeOK
<1> QED BY <1>1, BoardInvariant, PTL

\* A gate the view watched being resolved, in the journal as it stands, is not on
\* the board: no page read before the resolution and merged after it brings it
\* back, however the journal was truncated in between.
THEOREM ResolvedIsGone == Spec => []ResolvedStaysGone
<1>1. BoardInv => ResolvedStaysGone
  BY DEF BoardInv, Types, CellTypes, ResolvedStaysGone
<1> QED BY <1>1, BoardInvariant, PTL

-----------------------------------------------------------------------------
(* Where a truncation takes no record the view shows before it covers it.  *)

\* The journal reaches p as far as the view knows: it covers p, or shows a record from p on.
Reached(p) == p <= view.covered \/ \E q \in view.now : q.seq >= p

\* What the view shows is in the journal, but for what a truncation it was not told of took.
Followed ==
    /\ \A r \in view.now \union view.past : r.seq <= lowest => r \in Held
    /\ \A r \in view.now : r.seq <= view.covered \/ r \in Held
    /\ \A r \in view.past : r.seq <= view.covered
                             \/ (r \in Held /\ \E q \in view.now : q.seq >= r.seq)

LEMMA HeldIs ==
    ASSUME BoardInv
    PROVE  \A r : r \in Held <=> /\ r.seq \in 1..Len(journal)
                                /\ r = [seq |-> r.seq, event |-> journal[r.seq]]
BY DEF Held, RowsOf

\* A view that was told shows the journal, and its rows are where it reaches.
LEMMA ShowsTheJournal ==
    ASSUME BoardInv, Followed, lowest >= view.covered
    PROVE  \A r \in Window(view) : r \in Held /\ Reached(r.seq)
<1> SUFFICES ASSUME NEW r \in Window(view)
             PROVE  r \in Held /\ Reached(r.seq)
  OBVIOUS
<1>1. r \in view.now \union view.past /\ r.seq \in Nat
  BY ViewIs, WindowIsRows, Numbers DEF Rows
<1>2. lowest \in Nat /\ view.covered \in Nat
  BY ViewIs, Numbers
<1>3. r.seq <= view.covered => r.seq <= lowest
  BY <1>1, <1>2
<1>4. r \in Held
  BY <1>1, <1>3 DEF Followed
<1>5. r \in view.now => Reached(r.seq)
  BY <1>1 DEF Reached
<1>6. r \in view.past => Reached(r.seq)
  BY DEF Followed, Reached
<1> QED BY <1>1, <1>4, <1>5, <1>6

\* A gate of S was resolved where the view reaches.
ResolvedInReach(S) ==
    \A g \in S : \E p \in 1..Len(journal) :
       journal[p].kind = "GateResolved" /\ journal[p].gate = g /\ Reached(p)

\* Once it was told, a gate that is gone was resolved where the view reaches.
Tombstones == lowest >= view.covered => ResolvedInReach(cell.resolved)

FollowInv == BoardInv /\ Followed /\ Tombstones

LEMMA WindowsResolve ==
    BoardInv /\ Followed /\ lowest >= view.covered => ResolvedInReach(ResolvedIn(Window(view)))
<1> SUFFICES ASSUME BoardInv, Followed, lowest >= view.covered, NEW g \in ResolvedIn(Window(view))
             PROVE  \E p \in 1..Len(journal) :
                      journal[p].kind = "GateResolved" /\ journal[p].gate = g /\ Reached(p)
  BY DEF ResolvedInReach
<1>1. PICK r \in Window(view) : r.event.kind = "GateResolved" /\ r.event.gate = g
  BY DEF ResolvedIn
<1>2. r \in Held /\ Reached(r.seq)
  BY <1>1, ShowsTheJournal
<1>3. r.seq \in 1..Len(journal) /\ r.event = journal[r.seq]
  BY <1>2 DEF Held, RowsOf
<1> QED BY <1>1, <1>2, <1>3

\* A publication leaves the tombstones true where the old ones it keeps are.
LEMMA TombstonesPublished ==
    ASSUME BoardInv, BoardInv', Followed', NEW v, Publishable(v), Publish(v),
           NEW CONSTANT S, S = cell.resolved,
           lowest' >= view'.covered /\ ~NewGeneration(v) => ResolvedInReach(S)'
    PROVE  Tombstones'
<1>1. view' = v /\ cell'.resolved = (IF NewGeneration(v) THEN {} ELSE S) \union ResolvedIn(Window(v))
  BY Published
<1>2. ResolvedIn(Window(v)) = ResolvedIn(Window(view))'
  BY <1>1 DEF ResolvedIn, Window
<1>3. (BoardInv /\ Followed /\ lowest >= view.covered => ResolvedInReach(ResolvedIn(Window(view))))'
  BY WindowsResolve, PTL
<1>4. lowest' >= view'.covered => ResolvedInReach(ResolvedIn(Window(view)))'
  BY <1>3
<1>5. ASSUME lowest' >= view'.covered, NEW g \in cell'.resolved
      PROVE  \E p \in 1..Len(journal') :
               journal'[p].kind = "GateResolved" /\ journal'[p].gate = g /\ Reached(p)'
  <2>1. CASE g \in ResolvedIn(Window(view))'
    BY <2>1, <1>4, <1>5 DEF ResolvedInReach
  <2>2. CASE g \in S /\ ~NewGeneration(v)
    BY <2>2, <1>5 DEF ResolvedInReach
  <2> QED BY <2>1, <2>2, <1>1, <1>2, <1>5
<1> QED BY <1>5 DEF Tombstones, ResolvedInReach

LEMMA FollowInit ==
    ASSUME Init
    PROVE  Followed /\ Tombstones
BY DEF Init, Followed, Tombstones, ResolvedInReach

LEMMA CommitFollows ==
    ASSUME FollowInv, Commit
    PROVE  Followed' /\ Tombstones'
<1>1. PICK e : journal' = Append(journal, e) /\ e \in Events
  <2>1. PICK kind \in {"GateOpened", "GateResolved"}, g \in Gates :
           journal' = Append(journal, [kind |-> kind, gate |-> g, epoch |-> truncated])
    BY DEF Commit
  <2>2. [kind |-> kind, gate |-> g, epoch |-> truncated] \in Events
    BY DEF Events, FollowInv, BoardInv, Types, JournalTypes
  <2> QED BY <2>1, <2>2
<1>2. journal \in Seq(Events) /\ Len(journal) \in Nat
  BY ViewIs DEF FollowInv
<1>3. /\ Len(journal') = Len(journal) + 1
      /\ \A s \in 1..Len(journal) : journal'[s] = journal[s]
  BY <1>1, <1>2, AppendProperties
<1>4. \A s \in 1..Len(journal) : s \in 1..Len(journal') /\ journal'[s] = journal[s]
  BY <1>2, <1>3
<1>5. Held \subseteq Held'
  BY <1>4 DEF Held, RowsOf
<1>6. UNCHANGED <<lowest, view, cell>>
  BY DEF Commit
<1>7. Followed'
  BY <1>5, <1>6 DEF FollowInv, Followed
<1>8. Tombstones'
  <2>1. \A p : Reached(p) => Reached(p)'
    BY <1>6 DEF Reached
  <2> QED BY <1>4, <1>6, <2>1 DEF FollowInv, Tombstones, ResolvedInReach
<1> QED BY <1>7, <1>8

\* A truncation leaves what the view shows above its coverage.
LEMMA TruncateFollows ==
    ASSUME FollowInv, Truncate, ~ShowsAhead
    PROVE  Followed' /\ Tombstones'
<1>1. PICK tip \in 0..(Len(journal) - 1) :
        /\ \A r \in view.now : r.seq > view.covered => r.seq <= tip
        /\ journal' = SubSeq(journal, 1, tip)
        /\ lowest' = Least(lowest, tip)
  BY DEF Truncate
<1>2. /\ journal \in Seq(Events) /\ Len(journal) \in Nat /\ lowest \in Nat /\ view.covered \in Nat
      /\ tip \in Nat /\ tip < Len(journal)
  BY ViewIs, Numbers DEF FollowInv
<1>3. /\ Len(journal') = tip
      /\ \A s \in 1..tip : journal'[s] = journal[s]
  BY <1>1, <1>2, SubSeqProperties
<1>4. \A r \in Held : r.seq <= tip => r \in Held'
  BY <1>2, <1>3 DEF Held, RowsOf
<1>5. UNCHANGED <<view, cell>>
  BY DEF Truncate
<1>6. \A r \in view.now \union view.past : r.seq \in Nat
  BY ViewIs, Numbers DEF FollowInv, Rows
<1>7. lowest' \in Nat /\ lowest' <= lowest /\ lowest' <= tip
  BY <1>1, <1>2 DEF Least
<1>8. ASSUME NEW r \in view.now \union view.past, r.seq <= lowest'
      PROVE  r \in Held'
  <2>1. r.seq <= lowest /\ r.seq <= tip
    BY <1>2, <1>6, <1>7, <1>8
  <2> QED BY <1>4, <2>1 DEF FollowInv, Followed
<1>9. ASSUME NEW r \in view.now, ~(r.seq <= view.covered)
      PROVE  r \in Held'
  <2>1. r.seq <= tip
    BY <1>1, <1>2, <1>6, <1>9
  <2> QED BY <1>4, <1>9, <2>1 DEF FollowInv, Followed
<1>10. ASSUME NEW r \in view.past, ~(r.seq <= view.covered)
       PROVE  r \in Held' /\ \E q \in view.now : q.seq >= r.seq
  <2>1. PICK q \in view.now : r \in Held /\ q.seq >= r.seq
    BY <1>10 DEF FollowInv, Followed
  <2>2. r.seq <= tip
    BY <1>1, <1>2, <1>6, <1>10, <2>1
  <2> QED BY <1>4, <2>1, <2>2
<1>11. Followed'
  BY <1>5, <1>8, <1>9, <1>10 DEF Followed
<1>12. ASSUME lowest' >= view.covered, NEW g \in cell.resolved
       PROVE  \E p \in 1..Len(journal') :
                journal'[p].kind = "GateResolved" /\ journal'[p].gate = g /\ Reached(p)'
  <2>1. lowest >= view.covered /\ tip >= view.covered
    BY <1>2, <1>7, <1>12
  <2>2. PICK p \in 1..Len(journal) :
          journal[p].kind = "GateResolved" /\ journal[p].gate = g /\ Reached(p)
    BY <1>12, <2>1 DEF FollowInv, Tombstones, ResolvedInReach
  <2>3. p <= tip
    <3>1. CASE p <= view.covered
      BY <1>2, <2>1, <3>1
    <3>2. CASE ~(p <= view.covered)
      <4>1. PICK q \in view.now : q.seq >= p
        BY <2>2, <3>2 DEF Reached
      <4> QED BY <1>1, <1>2, <1>6, <3>2, <4>1
    <3> QED BY <3>1, <3>2
  <2>4. p \in 1..Len(journal') /\ journal'[p] = journal[p]
    BY <1>2, <1>3, <2>3
  <2>5. Reached(p)'
    BY <1>5, <2>2 DEF Reached
  <2> QED BY <2>2, <2>4, <2>5
<1>13. Tombstones'
  BY <1>5, <1>12 DEF Tombstones, ResolvedInReach
<1> QED BY <1>11, <1>13

\* The types of what the window is compared by.
LEMMA Sequences ==
    ASSUME BoardInv
    PROVE  /\ lowest \in Nat /\ view.covered \in Nat /\ Len(journal) \in Nat
           /\ \A r \in view.now \union view.past : r.seq \in Nat
           /\ \A r \in Held : r.seq \in 1..Len(journal)
           /\ cell.covered = view.covered
BY ViewIs, Numbers DEF Rows, Held, RowsOf

LEMMA StartFollows ==
    ASSUME FollowInv, Start
    PROVE  Followed' /\ Tombstones'
<1> DEFINE v == [view EXCEPT !.phase = "joining"]
<1>1. view.phase = "off" /\ Publish(v)
  BY DEF Start
<1>2. /\ v \in Views /\ v.phase = "joining" /\ v.page = view.page /\ v.now = view.now /\ v.past = view.past
  BY ViewIs DEF Views, FollowInv
<1>3. view.now = {} /\ view.past = {} /\ ~view.page.known /\ ~cell.known /\ cell.resolved = {}
  BY <1>1, ViewIs DEF FollowInv, BoardInv, Phases
<1>4. Publishable(v)
  BY <1>2, <1>3, ViewIs DEF Publishable, FollowInv
<1> HIDE DEF v
<1>5. view' = v
  BY <1>1, <1>4, Published DEF FollowInv
<1>6. Followed'
  BY <1>2, <1>3, <1>5 DEF Followed
<1>7. ResolvedInReach({})'
  BY DEF ResolvedInReach
<1>8. BoardInv'
  BY StartKeeps DEF FollowInv
<1> QED BY <1>1, <1>3, <1>4, <1>6, <1>7, <1>8, TombstonesPublished DEF FollowInv

LEMMA ColdFollows ==
    ASSUME FollowInv, Cold
    PROVE  Followed' /\ Tombstones'
<1>1. PICK v : Captures(v) /\ Publish(v)
  BY ColdPublishes DEF FollowInv
<1>2. view.phase = "joining" /\ sample.known
  BY DEF Cold
<1>3. Publishable(v)
  BY <1>1, <1>2 DEF Publishable, Captures
<1>4. view' = v /\ journal' = journal
  BY <1>1, <1>3, Published DEF FollowInv
<1>5. Followed'
  BY <1>1, <1>4 DEF Followed, Captures, Held
<1>6. cell.resolved = {}
  BY <1>2 DEF FollowInv, BoardInv, Phases
<1>7. ResolvedInReach({})'
  BY DEF ResolvedInReach
<1>8. BoardInv'
  BY ColdKeeps DEF FollowInv
<1> QED BY <1>1, <1>3, <1>5, <1>6, <1>7, <1>8, TombstonesPublished DEF FollowInv

LEMMA PageArrivesFollows ==
    ASSUME FollowInv, PageArrives
    PROVE  Followed' /\ Tombstones'
<1> DEFINE v == [view EXCEPT !.page = sample]
<1>1. sample.known /\ Publish(v) /\ UNCHANGED lowest
  BY DEF PageArrives
<1>2. /\ v \in Views /\ v.phase = view.phase /\ v.page = sample /\ v.now = view.now
      /\ v.past = view.past /\ v.covered = view.covered
  BY ViewIs DEF Views, FollowInv
<1> HIDE DEF v
<1>3. Publishable(v)
  BY <1>1, <1>2 DEF Publishable
<1>4. view' = v /\ journal' = journal
  BY <1>1, <1>3, Published DEF FollowInv
<1>5. Followed'
  BY <1>1, <1>2, <1>4 DEF FollowInv, Followed, Held
<1>6. PICK S : S = cell.resolved
  OBVIOUS
<1>7. lowest' >= view'.covered => ResolvedInReach(S)'
  BY <1>1, <1>2, <1>4, <1>6 DEF FollowInv, Tombstones, ResolvedInReach, Reached
<1>8. BoardInv'
  BY PageArrivesKeeps DEF FollowInv
<1> QED BY <1>1, <1>3, <1>5, <1>6, <1>7, <1>8, TombstonesPublished DEF FollowInv

LEMMA EarlierFollows ==
    ASSUME FollowInv, Earlier, ~ShowsAhead
    PROVE  Followed' /\ Tombstones'
<1>1. PICK v : Browses(v) /\ Publish(v)
  BY EarlierPublishes DEF FollowInv
<1>2. view.phase \in {"cold", "following"} /\ UNCHANGED lowest
  BY DEF Earlier
<1>3. Publishable(v)
  BY <1>1, <1>2 DEF Browses, FollowInv, BoardInv, Phases, Publishable
<1>4. view' = v /\ journal' = journal
  BY <1>1, <1>3, Published DEF FollowInv
<1>5. Followed'
  BY <1>1, <1>2, <1>4 DEF FollowInv, Followed, Browses, Held
<1>6. PICK S : S = cell.resolved
  OBVIOUS
<1>7. lowest' >= view'.covered => ResolvedInReach(S)'
  BY <1>1, <1>2, <1>4, <1>6 DEF FollowInv, Tombstones, ResolvedInReach, Reached, Browses
<1>8. BoardInv'
  BY EarlierKeeps DEF FollowInv
<1> QED BY <1>1, <1>3, <1>5, <1>6, <1>7, <1>8, TombstonesPublished DEF FollowInv

LEMMA RefusedFollows ==
    ASSUME FollowInv, Refused
    PROVE  Followed' /\ Tombstones'
BY RefusedForgets DEF FollowInv, Followed, Tombstones, ResolvedInReach

LEMMA PublicFollows ==
    ASSUME FollowInv, Public
    PROVE  Followed' /\ Tombstones'
<1>1. PICK v : Advances(v) /\ Publish(v)
  BY PublicPublishes DEF FollowInv
<1>2. view.phase = "following" /\ lowest >= NextRecord /\ UNCHANGED lowest
  BY DEF Public, NextRecord
<1>3. Publishable(v)
  BY <1>1, <1>2 DEF Advances, FollowInv, BoardInv, Phases, Publishable
<1>4. view' = v /\ journal' = journal
  BY <1>1, <1>3, Published DEF FollowInv
<1> DEFINE r0 == [seq |-> NextRecord, event |-> journal[NextRecord]]
<1>5. /\ v.now = {r0} \union {r \in view.now : r.seq # NextRecord} /\ v.past = view.past
      /\ v.covered = NextRecord /\ view.covered < NextRecord /\ r0 \in Held /\ r0.seq = NextRecord
  BY <1>1 DEF Advances
<1>6. NextRecord \in Nat /\ \A r \in view.now \union view.past : r.seq \in Nat
  BY <1>5, Sequences DEF FollowInv
<1> HIDE DEF r0
<1>7. /\ \A r \in v.now \union v.past : r.seq <= lowest => r \in Held
      /\ \A r \in v.now : r.seq <= v.covered \/ r \in Held
  BY <1>5, <1>6, Sequences DEF FollowInv, Followed
<1>8. ASSUME NEW r \in v.past, ~(r.seq <= v.covered)
      PROVE  r \in Held /\ \E q \in v.now : q.seq >= r.seq
  <2>1. ~(r.seq <= view.covered)
    BY <1>5, <1>6, <1>8, Sequences DEF FollowInv
  <2>2. PICK q \in view.now : r \in Held /\ q.seq >= r.seq
    BY <1>5, <1>8, <2>1 DEF FollowInv, Followed
  <2>3. q.seq # NextRecord
    BY <1>5, <1>6, <1>8, <2>2
  <2> QED BY <1>5, <2>2, <2>3
<1>9. Followed'
  BY <1>2, <1>4, <1>7, <1>8 DEF Followed, Held
<1>10. PICK S : S = cell.resolved
  OBVIOUS
<1>11. ASSUME NEW g \in S
       PROVE  \E p \in 1..Len(journal) : /\ journal[p].kind = "GateResolved" /\ journal[p].gate = g
                                         /\ p <= v.covered \/ \E q \in v.now : q.seq >= p
  <2>1. lowest >= view.covered
    BY <1>2, <1>5, <1>6, Sequences DEF FollowInv
  <2>2. PICK p \in 1..Len(journal) :
          journal[p].kind = "GateResolved" /\ journal[p].gate = g /\ Reached(p)
    BY <1>10, <1>11, <2>1 DEF FollowInv, Tombstones, ResolvedInReach
  <2>3. p \in Nat
    BY <2>2
  <2>4. CASE p <= NextRecord
    BY <1>5, <2>2, <2>4
  <2>5. CASE ~(p <= NextRecord)
    <3>1. ~(p <= view.covered)
      BY <1>5, <1>6, <2>3, <2>5, Sequences DEF FollowInv
    <3>2. PICK q \in view.now : q.seq >= p
      BY <2>2, <3>1 DEF Reached
    <3>3. q.seq # NextRecord
      BY <1>6, <2>3, <2>5, <3>2
    <3> QED BY <1>5, <2>2, <3>2, <3>3
  <2> QED BY <2>4, <2>5
<1>12. ResolvedInReach(S)'
  BY <1>4, <1>11 DEF ResolvedInReach, Reached
<1>13. BoardInv'
  BY PublicKeeps DEF FollowInv
<1> QED BY <1>1, <1>3, <1>9, <1>10, <1>12, <1>13, TombstonesPublished DEF FollowInv

\* A projection leaves in the window what the journal holds, where the view reaches.
Trimmed(v) ==
    /\ \A r \in v.now \union v.past : r \in Held
    /\ \A r \in v.past : r.seq <= v.covered \/ \E q \in v.now : q.seq >= r.seq

\* One that does not lower the coverage keeps where the view reached.
Keeps(v) ==
    v.covered >= view.covered =>
      \/ cell.resolved = {}
      \/ /\ lowest >= view.covered
         /\ \A p \in 1..Len(journal) : Reached(p) => p <= v.covered \/ \E q \in v.now : q.seq >= p

LEMMA ColdTrimmed ==
    ASSUME FollowInv, view.phase = "cold", NEW v, Projects(v),
           lowest >= Least(view.covered, Len(journal))
    PROVE  Trimmed(v) /\ Keeps(v)
<1>1. /\ Initial \in Nat /\ Initial <= view.covered
      /\ \A r \in view.now : r.seq <= view.covered
      /\ view.covered = Initial \/ \E r \in view.now : r.seq = view.covered
  BY Numbers DEF FollowInv, BoardInv, Phases
<1>2. /\ FirstProjection /\ ProjectionBase = Initial
      /\ \A c : Lowers(c) <=> Len(journal) < view.covered
  BY DEF FirstProjection, ProjectionBase, Lowers
<1>3. /\ v.now = {r \in view.now : r.seq <= Len(journal)}
      /\ v.past = IF Len(journal) < view.covered THEN {} ELSE view.past
      /\ v.covered \in Nat /\ v.covered <= Initial
      /\ IF ProjectionTip < Initial THEN v.covered <= ProjectionTip ELSE v.covered = Initial
  BY <1>2, Numbers DEF Projects, Views
<1>4. /\ lowest \in Nat /\ view.covered \in Nat /\ Len(journal) \in Nat
      /\ \A r \in view.now \union view.past : r.seq \in Nat
  BY Sequences DEF FollowInv
<1>5. CASE Len(journal) < view.covered
  <2>1. lowest >= Len(journal) /\ v.past = {}
    BY <1>3, <1>4, <1>5 DEF Least
  <2>2. \A r \in v.now : r \in Held
    <3> TAKE r \in v.now
    <3>1. r \in view.now /\ r.seq <= Len(journal)
      BY <1>3
    <3>2. r.seq <= lowest
      BY <1>4, <2>1, <3>1
    <3> QED BY <3>1, <3>2 DEF FollowInv, Followed
  <2>3. Trimmed(v)
    BY <2>1, <2>2 DEF Trimmed
  <2>4. v.covered < view.covered
    <3>1. ProjectionTip <= Len(journal)
      BY <1>4 DEF ProjectionTip, Least
    <3>2. ProjectionTip \in Nat
      BY <1>4 DEF ProjectionTip, Least
    <3> QED BY <1>1, <1>3, <1>4, <1>5, <3>1, <3>2
  <2> QED BY <1>3, <1>4, <2>3, <2>4 DEF Keeps
<1>6. CASE ~(Len(journal) < view.covered)
  <2>1. lowest >= view.covered /\ Len(journal) >= view.covered /\ v.past = view.past
    BY <1>3, <1>4, <1>6 DEF Least
  <2>2. v.now = view.now
    BY <1>1, <1>3, <1>4, <2>1
  <2>3. \A r \in v.now \union v.past : r \in Held
    <3> TAKE r \in v.now \union v.past
    <3>1. CASE r.seq <= view.covered
      <4>1. r.seq <= lowest
        BY <1>4, <2>1, <2>2, <3>1
      <4> QED BY <2>1, <2>2, <4>1 DEF FollowInv, Followed
    <3>2. CASE ~(r.seq <= view.covered)
      BY <2>1, <2>2, <3>2 DEF FollowInv, Followed
    <3> QED BY <3>1, <3>2
  <2>4. v.covered = Initial
    <3>1. ProjectionTip >= Initial /\ ProjectionTip \in Nat
      BY <1>1, <1>4, <2>1 DEF ProjectionTip, Least
    <3> QED BY <1>1, <1>3, <3>1
  <2>5. ASSUME NEW r \in v.past
        PROVE  r.seq <= v.covered \/ \E q \in v.now : q.seq >= r.seq
    <3>1. CASE r.seq <= view.covered
      <4>1. CASE view.covered = Initial
        BY <2>4, <3>1, <4>1
      <4>2. CASE \E q \in view.now : q.seq = view.covered
        BY <1>4, <2>1, <2>2, <3>1, <4>2
      <4> QED BY <1>1, <4>1, <4>2
    <3>2. CASE ~(r.seq <= view.covered)
      BY <2>1, <2>2, <2>5, <3>2 DEF FollowInv, Followed
    <3> QED BY <3>1, <3>2
  <2>6. Keeps(v)
    <3>1. ASSUME v.covered >= view.covered, NEW p \in 1..Len(journal), Reached(p)
          PROVE  p <= v.covered \/ \E q \in v.now : q.seq >= p
      BY <1>1, <1>3, <1>4, <2>2, <3>1, <2>4 DEF Reached
    <3> QED BY <2>1, <3>1 DEF Keeps
  <2> QED BY <2>3, <2>5, <2>6 DEF Trimmed
<1> QED BY <1>5, <1>6

LEMMA FollowingTrimmed ==
    ASSUME FollowInv, view.phase = "following", NEW v, Projects(v)
    PROVE  Trimmed(v) /\ Keeps(v)
<1>1. /\ ~FirstProjection /\ ProjectionBase = view.covered
      /\ \A c : Lowers(c) <=> c < view.covered
  BY DEF FirstProjection, ProjectionBase, Lowers
<1>2. /\ v.now = {r \in view.now : r.seq <= IF v.covered < view.covered THEN v.covered ELSE Len(journal)}
      /\ v.past = IF v.covered < view.covered THEN {} ELSE view.past
      /\ v.covered \in Nat /\ v.covered <= view.covered
      /\ IF ProjectionTip < view.covered THEN v.covered <= ProjectionTip ELSE v.covered = view.covered
  BY <1>1, Numbers DEF Projects, Views
<1>3. /\ lowest \in Nat /\ view.covered \in Nat /\ Len(journal) \in Nat
      /\ \A r \in view.now \union view.past : r.seq \in Nat
      /\ \A r \in Held : r.seq \in 1..Len(journal)
  BY Sequences DEF FollowInv
<1>4. ProjectionTip \in Nat /\ ProjectionTip <= lowest /\ ProjectionTip <= Len(journal)
  BY <1>3 DEF ProjectionTip, Least
<1>5. CASE v.covered < view.covered
  <2>1. v.covered <= lowest
    BY <1>2, <1>3, <1>4, <1>5
  <2>2. \A r \in v.now : r \in Held
    <3> TAKE r \in v.now
    <3>1. r \in view.now /\ r.seq <= v.covered
      BY <1>2, <1>5
    <3>2. r.seq <= lowest
      BY <1>2, <1>3, <2>1, <3>1
    <3> QED BY <3>1, <3>2 DEF FollowInv, Followed
  <2>3. Trimmed(v)
    BY <1>2, <1>5, <2>2 DEF Trimmed
  <2> QED BY <1>2, <1>3, <1>5, <2>3 DEF Keeps
<1>6. CASE ~(v.covered < view.covered)
  <2>1. /\ v.covered = view.covered /\ lowest >= view.covered /\ Len(journal) >= view.covered
        /\ v.past = view.past /\ v.now = {r \in view.now : r.seq <= Len(journal)}
    BY <1>2, <1>3, <1>4, <1>6
  <2>2. \A r \in view.now \union view.past : r \in Held
    <3> TAKE r \in view.now \union view.past
    <3>1. CASE r.seq <= view.covered
      <4>1. r.seq <= lowest
        BY <1>3, <2>1, <3>1
      <4> QED BY <4>1 DEF FollowInv, Followed
    <3>2. CASE ~(r.seq <= view.covered)
      BY <3>2 DEF FollowInv, Followed
    <3> QED BY <3>1, <3>2
  <2>3. v.now = view.now
    BY <1>3, <2>1, <2>2
  <2>4. \A r \in v.past : r.seq <= v.covered \/ \E q \in v.now : q.seq >= r.seq
    BY <2>1, <2>3 DEF FollowInv, Followed
  <2>5. Keeps(v)
    BY <2>1, <2>3 DEF Keeps, Reached
  <2> QED BY <2>1, <2>2, <2>3, <2>4, <2>5 DEF Trimmed
<1> QED BY <1>5, <1>6

LEMMA ProjectionFollows ==
    ASSUME FollowInv, Projection, ~ShowsAhead
    PROVE  Followed' /\ Tombstones'
<1>1. PICK v : Projects(v) /\ Publish(v)
  BY ProjectionPublishes DEF FollowInv
<1>2. /\ view.phase = "following" \/ view.phase = "cold" \/ sample.known
      /\ view.phase # "off"
      /\ view.phase = "following" \/ lowest >= Least(view.covered, Len(journal))
  BY DEF Projection
<1>3. v \in Views /\ v.page.known
  <2>1. view.phase # "joining" => view.page.known
    BY <1>2, ViewIs DEF FollowInv, BoardInv, Phases
  <2> QED BY <1>1, <1>2, <2>1 DEF Projects
<1>4. Publishable(v)
  BY <1>3 DEF Publishable
<1>5. view' = v /\ journal' = journal
  BY <1>1, <1>4, Published DEF FollowInv
<1>6. ASSUME view.phase = "joining"
      PROVE  Trimmed(v) /\ Keeps(v)
  <2>1. view.now = {} /\ view.past = {} /\ cell.resolved = {}
    BY <1>6 DEF FollowInv, BoardInv, Phases
  <2>2. v.now = {} /\ v.past = {}
    BY <1>1, <2>1 DEF Projects
  <2> QED BY <2>1, <2>2 DEF Trimmed, Keeps
<1>7. Trimmed(v) /\ Keeps(v)
  BY <1>1, <1>2, <1>6, ViewIs, ColdTrimmed, FollowingTrimmed DEF FollowInv
<1>8. Followed'
  BY <1>5, <1>7 DEF Trimmed, Followed, Held
<1>9. PICK S : S = cell.resolved
  OBVIOUS
<1>10. ASSUME ~NewGeneration(v)
       PROVE  ResolvedInReach(S)'
  <2>1. v.covered >= view.covered
    <3>1. v.covered \in Nat /\ view.covered \in Nat /\ ~(v.covered < view.covered)
      BY <1>3, <1>10, Sequences, Numbers DEF NewGeneration, Views, FollowInv
    <3> QED BY <3>1
  <2>2. CASE S = {}
    BY <2>2 DEF ResolvedInReach
  <2>3. CASE S # {}
    <3>1. /\ lowest >= view.covered
          /\ \A p \in 1..Len(journal) : Reached(p) => p <= v.covered \/ \E q \in v.now : q.seq >= p
      BY <1>7, <1>9, <2>1, <2>3 DEF Keeps
    <3>2. ResolvedInReach(S)
      BY <1>9, <3>1 DEF FollowInv, Tombstones
    <3>3. \A p \in 1..Len(journal) : Reached(p) => Reached(p)'
      BY <1>5, <3>1 DEF Reached
    <3> QED BY <1>5, <3>2, <3>3 DEF ResolvedInReach
  <2> QED BY <2>2, <2>3
<1>11. BoardInv'
  BY ProjectionKeeps DEF FollowInv
<1> QED BY <1>1, <1>4, <1>8, <1>9, <1>10, <1>11, TombstonesPublished DEF FollowInv

LEMMA FollowStep ==
    ASSUME FollowInv, [Next]_vars, ~ShowsAhead
    PROVE  FollowInv'
<1>1. BoardInv'
  BY BoardStep DEF FollowInv
<1>2. CASE ReadPage \/ UNCHANGED vars
  <2>1. UNCHANGED <<journal, lowest, view, cell>>
    BY <1>2 DEF ReadPage, vars, factoryVars
  <2> QED BY <1>1, <2>1 DEF FollowInv, Followed, Held, Tombstones, ResolvedInReach, Reached
<1>3. CASE Next /\ ~ReadPage
  BY <1>1, <1>3, CommitFollows, TruncateFollows, StartFollows, ColdFollows, PageArrivesFollows,
     ProjectionFollows, PublicFollows, EarlierFollows, RefusedFollows DEF Next, FollowInv
<1> QED BY <1>2, <1>3

\* An open gate of the window or the page is on the board: no tombstone hides it.
LEMMA OpenIsNotGone == FollowInv => OpenIsListed
<1> SUFFICES ASSUME FollowInv, Abreast, NEW g \in OpenGates
             PROVE  /\ OpenRows(Window(view), g) # {} => g \in DOMAIN cell.board
                    /\ g \in DOMAIN view.page.gates => /\ g \in DOMAIN cell.board
                                                       /\ cell.board[g].answer = view.page.gates[g].answer
  BY DEF OpenIsListed
<1>1. g \in Gates /\ ~Resolved(journal, g)
  BY DEF OpenGates
<1>2. g \notin cell.resolved
  <2>1. ResolvedInReach(cell.resolved)
    BY DEF FollowInv, Tombstones, Abreast
  <2>2. DOMAIN journal = 1..Len(journal)
    BY ViewIs, LenProperties DEF FollowInv
  <2> QED BY <1>1, <2>1, <2>2 DEF ResolvedInReach, Resolved
<1>3. FoldedFrom(cell, view)
  BY DEF FollowInv, BoardInv
<1>4. OpenRows(Window(view), g) # {} => g \in DOMAIN cell.board
  BY <1>1, <1>2, <1>3 DEF FoldedFrom
<1>5. g \in DOMAIN view.page.gates => /\ g \in DOMAIN cell.board
                                     /\ cell.board[g].answer = view.page.gates[g].answer
  BY <1>2, <1>3 DEF FoldedFrom
<1> QED BY <1>4, <1>5

\* Where a truncation takes no record the view shows before it covers it, the
\* board tells the truth: what the view saw resolved stays gone, and an open gate
\* that its window or its page shows is listed with the page's word on it.
THEOREM BoardIsTrue ==
    ASSUME ~ShowsAhead
    PROVE  Spec => []BoardTrue
<1>1. Init => FollowInv
  BY BoardInit, FollowInit DEF FollowInv
<1>2. FollowInv /\ [Next]_vars => FollowInv'
  BY FollowStep
<1>3. FollowInv => BoardTrue
  BY OpenIsNotGone DEF FollowInv, BoardInv, Types, CellTypes, BoardTrue, ResolvedStaysGone
<1> QED BY <1>1, <1>2, <1>3, PTL DEF Spec

-----------------------------------------------------------------------------
(* The viewer of a retained tool output.                                   *)

\* The records a step takes apart have the fields they were made with.
IsReader(r) == r = [phase |-> r.phase, props |-> r.props, aborted |-> r.aborted, digest |-> r.digest,
                    range |-> r.range, rest |-> r.rest, got |-> r.got, bytes |-> r.bytes]

Began(r) == r.phase \in {"refused", "metadata", "range", "body", "digest"}
PastHead(r) == r.phase \in {"range", "body", "digest"}

ViewerTypes ==
    /\ DOMAIN store = Places /\ DOMAIN held = Places
    /\ props \in Props /\ mounted \in BOOLEAN
    /\ state = [kind |-> state.kind, props |-> state.props, content |-> state.content]
    /\ current \in Loads \union {0}
    /\ reader = [g \in Loads |-> reader[g]]
    /\ \A g \in Loads : IsReader(reader[g]) /\ (Began(reader[g]) \/ reader[g].phase \in {"none", "over", "dropped"})

\* An object was once what it is now.
HeldOnce == \A o \in Places : store[o] \in held[o]

\* A whole content of what `p` names.
WholeOf(p, content) == /\ p \in Props /\ p.object # NoObject
                       /\ Len(content) = p.bytes /\ content \in held[At(p)]

\* A read past its guards is of a retained object, and the digest it will be
\* held to is of one content of that object, of the length the label tells.
ReadsOne(r) ==
    /\ Began(r) => r.props \in Props
    /\ r.phase = "metadata" => r.props.object # NoObject
    /\ PastHead(r) => WholeOf(r.props, r.digest)

ShowsWhole == state.kind = "loaded" => WholeOf(state.props, state.content)

\* The read that may still set the state is the last one started; while the
\* viewer waits, that read is of the props it waits for, and is still to end or
\* was dropped.
OneWaits ==
    /\ \A g \in Loads : Active(g) => g = current
    /\ current # 0 => mounted /\ ~reader[current].aborted
    /\ mounted /\ state.kind = "loading"
         => /\ current # 0 /\ reader[current].props = state.props
            /\ Active(current) \/ reader[current].phase = "dropped"

ViewerInv == /\ ViewerTypes /\ HeldOnce /\ (\A g \in Loads : ReadsOne(reader[g]))
             /\ ShowsWhole /\ OneWaits

\* Aborting a read changes nothing of it but that.
LEMMA AbortedReads ==
    ASSUME ViewerInv
    PROVE  /\ Abort = [g \in Loads |-> Abort[g]]
           /\ \A g \in Loads :
                /\ IsReader(Abort[g]) /\ Abort[g].phase = reader[g].phase
                /\ Abort[g].props = reader[g].props /\ Abort[g].digest = reader[g].digest
                /\ Unfinished(g) <=> Abort[g].aborted
<1> SUFFICES ASSUME NEW g \in Loads
             PROVE  /\ IsReader(Abort[g]) /\ Abort[g].phase = reader[g].phase
                    /\ Abort[g].props = reader[g].props /\ Abort[g].digest = reader[g].digest
                    /\ Unfinished(g) <=> Abort[g].aborted
  BY DEF Abort
<1>1. PICK b \in BOOLEAN : b = Unfinished(g)
  BY DEF Unfinished
<1>2. PICK e : e = reader[g]
  OBVIOUS
<1>3. e = [phase |-> e.phase, props |-> e.props, aborted |-> e.aborted, digest |-> e.digest,
           range |-> e.range, rest |-> e.rest, got |-> e.got, bytes |-> e.bytes]
  BY <1>2 DEF ViewerInv, ViewerTypes, IsReader
<1>4. PICK r : r = Abort[g]
  OBVIOUS
<1>5. r = [e EXCEPT !.aborted = b]
  BY <1>1, <1>2, <1>4 DEF Abort
<1>6. r = [phase |-> e.phase, props |-> e.props, aborted |-> b, digest |-> e.digest,
           range |-> e.range, rest |-> e.rest, got |-> e.got, bytes |-> e.bytes]
  BY <1>3, <1>5
<1>7. IsReader(r) /\ r.phase = e.phase /\ r.props = e.props /\ r.digest = e.digest /\ r.aborted = b
  BY <1>6 DEF IsReader
<1> QED BY <1>1, <1>2, <1>4, <1>7

LEMMA EndedReads ==
    /\ IsReader(NotStarted) /\ NotStarted.phase = "none"
    /\ IsReader(ReadOver) /\ ReadOver.phase = "over" /\ ~ReadOver.aborted
<1>1. PICK p : NotStarted = [phase |-> "none", props |-> p, aborted |-> FALSE, digest |-> <<>>,
                             range |-> <<>>, rest |-> <<>>, got |-> <<>>, bytes |-> <<>>]
  BY DEF NotStarted
<1>2. PICK o : o = [NotStarted EXCEPT !.phase = "over"]
  OBVIOUS
<1>3. o = [phase |-> "over", props |-> p, aborted |-> FALSE, digest |-> <<>>,
           range |-> <<>>, rest |-> <<>>, got |-> <<>>, bytes |-> <<>>]
  BY <1>1, <1>2
<1>4. IsReader(NotStarted) /\ NotStarted.phase = "none"
  BY <1>1 DEF IsReader
<1>5. IsReader(o) /\ o.phase = "over" /\ ~o.aborted
  BY <1>3 DEF IsReader
<1>6. o = ReadOver
  BY <1>2 DEF ReadOver
<1> QED BY <1>4, <1>5, <1>6

LEMMA ViewerInit == CaptureInit => ViewerInv
<1> SUFFICES ASSUME CaptureInit PROVE ViewerInv
  OBVIOUS
<1>1. \A g \in Loads : reader[g] = NotStarted
  BY DEF CaptureInit
<1>2. IsReader(NotStarted) /\ NotStarted.phase = "none"
  BY EndedReads
<1>3. state = [kind |-> "idle", props |-> props, content |-> <<>>]
  BY DEF CaptureInit, Idle
<1>4. ViewerTypes
  BY <1>1, <1>2, <1>3 DEF CaptureInit, ViewerTypes
<1>5. HeldOnce
  BY DEF CaptureInit, HeldOnce
<1>6. \A g \in Loads : ReadsOne(reader[g])
  BY <1>1, <1>2 DEF ReadsOne, Began, PastHead
<1>7. ShowsWhole
  BY <1>3 DEF ShowsWhole
<1>8. OneWaits
  BY <1>1, <1>2, <1>3 DEF CaptureInit, OneWaits, Active, Unfinished
<1> QED BY <1>4, <1>5, <1>6, <1>7, <1>8 DEF ViewerInv

LEMMA ShowStep == ASSUME ViewerInv, NEW p \in Props, Show(p) PROVE ViewerInv'
BY DEF ViewerInv, ViewerTypes, IsReader, Began, PastHead, HeldOnce, ReadsOne, WholeOf, ShowsWhole,
       OneWaits, Active, Unfinished, Show, objectVars

\* The effects of a render, and those of an unmounted viewer, leave no read that counts.
LEMMA LeavesStep ==
    ASSUME ViewerInv, current' = 0, reader' = Abort, mounted' \in BOOLEAN, UNCHANGED <<objectVars, props>>,
           state' = Idle \/ (state' = state /\ ~mounted')
    PROVE  ViewerInv'
<1>1. /\ reader' = [g \in Loads |-> reader'[g]]
      /\ \A g \in Loads : /\ IsReader(reader'[g]) /\ reader'[g].phase = reader[g].phase
                          /\ reader'[g].props = reader[g].props /\ reader'[g].digest = reader[g].digest
                          /\ Unfinished(g) => reader'[g].aborted
  BY AbortedReads
<1>2. /\ state' = [kind |-> state'.kind, props |-> state'.props, content |-> state'.content]
      /\ state'.kind = "idle" \/ state' = state
  BY DEF Idle, ViewerInv, ViewerTypes
<1>3. ViewerTypes'
  BY <1>1, <1>2 DEF ViewerInv, ViewerTypes, IsReader, Began, objectVars
<1>4. HeldOnce'
  BY DEF ViewerInv, HeldOnce, objectVars
<1>5. (\A g \in Loads : ReadsOne(reader[g]))'
  BY <1>1 DEF ViewerInv, ReadsOne, Began, PastHead, WholeOf, objectVars
<1>6. ShowsWhole'
  BY <1>2 DEF ViewerInv, ShowsWhole, WholeOf, objectVars
<1>7. OneWaits'
  BY <1>1, <1>2 DEF OneWaits, Active, Unfinished, Idle
<1> QED BY <1>3, <1>4, <1>5, <1>6, <1>7 DEF ViewerInv

LEMMA RunEffectsStep == ASSUME ViewerInv, RunEffects PROVE ViewerInv'
BY LeavesStep DEF RunEffects, ViewerInv, ViewerTypes

LEMMA UnmountStep == ASSUME ViewerInv, Unmount PROVE ViewerInv'
BY LeavesStep DEF Unmount

LEMMA LoadStep == ASSUME ViewerInv, Load PROVE ViewerInv'
<1>1. PICK g \in Loads :
        /\ reader' = [Abort EXCEPT ![g] = [NotStarted EXCEPT
                        !.phase = IF Unreadable(props) THEN "refused" ELSE "metadata", !.props = props]]
        /\ current' = g
        /\ state' = [Idle EXCEPT !.kind = "loading"]
  BY DEF Load
<1>2. mounted /\ UNCHANGED <<objectVars, props, mounted>>
  BY DEF Load
<1>3. PICK r : r = [NotStarted EXCEPT !.phase = IF Unreadable(props) THEN "refused" ELSE "metadata",
                                      !.props = props]
  OBVIOUS
<1>4. /\ r = [phase |-> r.phase, props |-> props, aborted |-> FALSE, digest |-> <<>>,
              range |-> <<>>, rest |-> <<>>, got |-> <<>>, bytes |-> <<>>]
      /\ r.phase = IF Unreadable(props) THEN "refused" ELSE "metadata"
  BY <1>3 DEF NotStarted
<1>5. IsReader(r) /\ Began(r) /\ ~r.aborted /\ r.props = props
  BY <1>4 DEF IsReader, Began
<1>6. /\ reader' = [h \in Loads |-> reader'[h]] /\ reader'[g] = r
      /\ \A h \in Loads \ {g} :
           /\ IsReader(reader'[h]) /\ reader'[h].phase = reader[h].phase
           /\ reader'[h].props = reader[h].props /\ reader'[h].digest = reader[h].digest
           /\ Unfinished(h) => reader'[h].aborted
  BY <1>1, <1>3, AbortedReads
<1>7. state' = [kind |-> "loading", props |-> props, content |-> <<>>]
  BY <1>1 DEF Idle
<1>8. props \in Props /\ g # 0
  BY CaptureAssumption DEF ViewerInv, ViewerTypes, Loads
<1>9. ViewerTypes'
  <2>1. /\ DOMAIN store' = Places /\ DOMAIN held' = Places
        /\ props' \in Props /\ mounted' \in BOOLEAN /\ current' \in Loads \union {0}
    BY <1>1, <1>2 DEF ViewerInv, ViewerTypes, objectVars
  <2>2. ASSUME NEW h \in Loads
        PROVE  IsReader(reader'[h]) /\ (Began(reader'[h]) \/ reader'[h].phase \in {"none", "over", "dropped"})
    <3>1. CASE h = g
      BY <1>5, <1>6, <3>1
    <3>2. CASE h # g
      BY <1>6, <3>2 DEF ViewerInv, ViewerTypes, Began
    <3> QED BY <3>1, <3>2
  <2>3. state' = [kind |-> state'.kind, props |-> state'.props, content |-> state'.content]
    BY <1>7
  <2>4. reader' = [h \in Loads |-> reader'[h]]
    BY <1>6
  <2>5. ASSUME NEW h \in Loads
        PROVE  IsReader(reader[h])' /\ (Began(reader[h])' \/ reader[h].phase' \in {"none", "over", "dropped"})
    BY <2>2 DEF IsReader, Began
  <2> QED BY <2>1, <2>3, <2>4, <2>5 DEF ViewerTypes
<1>10. HeldOnce'
  BY <1>2 DEF ViewerInv, HeldOnce, objectVars
<1>11. ReadsOne(r)'
  BY <1>2, <1>4, <1>5, <1>8 DEF ReadsOne, PastHead, Unreadable
<1>12. (\A h \in Loads : ReadsOne(reader[h]))'
  BY <1>2, <1>6, <1>11 DEF ViewerInv, ReadsOne, Began, PastHead, WholeOf, objectVars
<1>13. ShowsWhole'
  BY <1>7 DEF ShowsWhole
<1>14. OneWaits'
  <2>1. Active(g)'
    BY <1>5, <1>6 DEF Active, Unfinished, Began
  <2>2. \A h \in Loads \ {g} : ~Active(h)'
    BY <1>6 DEF Active, Unfinished
  <2>3. mounted' /\ ~reader'[g].aborted /\ reader'[g].props = state'.props
    BY <1>2, <1>5, <1>6, <1>7
  <2> QED BY <1>1, <1>8, <2>1, <2>2, <2>3 DEF OneWaits
<1> QED BY <1>9, <1>10, <1>12, <1>13, <1>14 DEF ViewerInv

\* A read that goes on is of the same props, and is no more aborted than it was.
LEMMA GoesOn ==
    ASSUME ViewerInv, NEW g \in Loads, Active(g), NEW r, Proceed(g, r), IsReader(r), Began(r),
           r.props = reader[g].props, r.aborted = reader[g].aborted, ReadsOne(r)
    PROVE  ViewerInv'
<1>1. /\ reader' = [h \in Loads |-> reader'[h]] /\ reader'[g] = r
      /\ \A h \in Loads : h # g => reader'[h] = reader[h]
      /\ UNCHANGED <<objectVars, props, mounted, state, current>>
  BY DEF Proceed, ViewerInv, ViewerTypes
<1>2. ViewerTypes'
  BY <1>1 DEF ViewerInv, ViewerTypes, IsReader, Began, objectVars
<1>3. HeldOnce' /\ ShowsWhole'
  BY <1>1 DEF ViewerInv, HeldOnce, ShowsWhole, WholeOf, objectVars
<1>4. (\A h \in Loads : ReadsOne(reader[h]))'
  BY <1>1 DEF ViewerInv, ReadsOne, Began, PastHead, WholeOf, objectVars
<1>5. \A h \in Loads : Active(h)' <=> Active(h)
  BY <1>1 DEF Active, Unfinished, Began
<1>6. OneWaits'
  BY <1>1, <1>5 DEF ViewerInv, ViewerTypes, OneWaits
<1> QED BY <1>2, <1>3, <1>4, <1>6 DEF ViewerInv

\* A read that is over may set the state, with a whole content or none.
LEMMA Settles ==
    ASSUME ViewerInv, NEW g \in Loads, Active(g), NEW kind \in {"loaded", "failed"}, NEW content,
           Settle(g, kind, content), kind = "loaded" => WholeOf(reader[g].props, content)
    PROVE  ViewerInv'
<1>1. /\ reader' = [h \in Loads |-> reader'[h]] /\ reader'[g] = ReadOver
      /\ \A h \in Loads : h # g => reader'[h] = reader[h]
      /\ UNCHANGED <<objectVars, props, mounted, current>>
  BY DEF Settle, ViewerInv, ViewerTypes
<1>2. IsReader(ReadOver) /\ ReadOver.phase = "over" /\ ~ReadOver.aborted
  BY EndedReads
<1>3. g = current
  BY DEF ViewerInv, OneWaits
<1>4. state' = [kind |-> kind, props |-> reader[g].props, content |-> content]
  BY <1>3 DEF Settle
<1>5. ViewerTypes'
  BY <1>1, <1>2, <1>4 DEF ViewerInv, ViewerTypes, IsReader, Began, objectVars
<1>6. HeldOnce'
  BY <1>1 DEF ViewerInv, HeldOnce, objectVars
<1>7. ShowsWhole'
  BY <1>1, <1>4 DEF ShowsWhole, WholeOf, objectVars
<1>8. (\A h \in Loads : ReadsOne(reader[h]))'
  BY <1>1, <1>2 DEF ViewerInv, ReadsOne, Began, PastHead, WholeOf, objectVars
<1>9. OneWaits'
  <2>1. \A h \in Loads : ~Active(h)'
    BY <1>1, <1>2, <1>3 DEF ViewerInv, OneWaits, Active, Unfinished
  <2>2. state'.kind # "loading"
    BY <1>4
  <2>3. current' # 0 /\ mounted' /\ ~reader'[current'].aborted
    BY <1>1, <1>2, <1>3, CaptureAssumption DEF ViewerInv, OneWaits, Loads
  <2> QED BY <2>1, <2>2, <2>3 DEF OneWaits
<1> QED BY <1>5, <1>6, <1>7, <1>8, <1>9 DEF ViewerInv

LEMMA Fails == ASSUME ViewerInv, NEW g \in Loads, Active(g), Fail(g) PROVE ViewerInv'
BY Settles DEF Fail

LEMMA AbortedStep == ASSUME ViewerInv, NEW g \in Loads, Aborted(g) PROVE ViewerInv'
<1>1. /\ reader' = [h \in Loads |-> reader'[h]] /\ reader'[g] = ReadOver
      /\ \A h \in Loads : h # g => reader'[h] = reader[h]
      /\ UNCHANGED <<objectVars, props, mounted, current, state>>
  BY DEF Aborted, ViewerInv, ViewerTypes
<1>2. IsReader(ReadOver) /\ ReadOver.phase = "over"
  BY EndedReads
<1>3. ViewerTypes'
  BY <1>1, <1>2 DEF ViewerInv, ViewerTypes, IsReader, Began, objectVars
<1>4. HeldOnce' /\ ShowsWhole'
  BY <1>1 DEF ViewerInv, HeldOnce, ShowsWhole, WholeOf, objectVars
<1>5. (\A h \in Loads : ReadsOne(reader[h]))'
  BY <1>1, <1>2 DEF ViewerInv, ReadsOne, Began, PastHead, WholeOf, objectVars
<1>6. OneWaits'
  <2>1. current # 0 => current # g
    BY DEF Aborted, ViewerInv, OneWaits
  <2> QED BY <1>1, <1>2, <2>1 DEF ViewerInv, ViewerTypes, OneWaits, Active, Unfinished
<1> QED BY <1>3, <1>4, <1>5, <1>6 DEF ViewerInv

\* What is read next is read with the digest that is held.
LEMMA NextPageKeeps ==
    ASSUME NEW r, IsReader(r), r.props \in Props, WholeOf(r.props, r.digest)
    PROVE  LET s == NextPage(r) IN
             /\ IsReader(s) /\ Began(s) /\ s.props = r.props /\ s.aborted = r.aborted /\ ReadsOne(s)
<1> DEFINE s == NextPage(r)
<1>1. \/ s = [r EXCEPT !.phase = "digest"]
      \/ \E range : s = [r EXCEPT !.phase = "range", !.got = <<>>, !.range = range]
  BY DEF NextPage
<1> HIDE DEF s
<1>2. /\ IsReader(s) /\ s.phase \in {"range", "digest"}
      /\ s.props = r.props /\ s.aborted = r.aborted /\ s.digest = r.digest
  BY <1>1 DEF IsReader
<1>3. Began(s) /\ ReadsOne(s)
  BY <1>2 DEF Began, PastHead, ReadsOne
<1> QED BY <1>2, <1>3 DEF s

LEMMA RequestFailsStep == ASSUME ViewerInv, NEW g \in Loads, RequestFails(g) PROVE ViewerInv'
BY Fails DEF RequestFails

\* A dropped read leaves the viewer as it was, waiting for its props.
LEMMA RequestDroppedStep == ASSUME ViewerInv, NEW g \in Loads, RequestDropped(g) PROVE ViewerInv'
<1>1. PICK r : r = Dropped(reader[g])
  OBVIOUS
<1>2. r = [phase |-> "dropped", props |-> reader[g].props, aborted |-> FALSE, digest |-> <<>>,
           range |-> <<>>, rest |-> <<>>, got |-> <<>>, bytes |-> <<>>]
  BY <1>1 DEF Dropped, NotStarted
<1>3. IsReader(r) /\ r.phase = "dropped" /\ r.props = reader[g].props /\ ~r.aborted
  BY <1>2 DEF IsReader
<1>4. Active(g) /\ Proceed(g, r)
  BY <1>1 DEF RequestDropped
<1>5. /\ reader' = [h \in Loads |-> reader'[h]] /\ reader'[g] = r
      /\ \A h \in Loads : h # g => reader'[h] = reader[h]
      /\ UNCHANGED <<objectVars, props, mounted, current, state>>
  BY <1>4 DEF Proceed, ViewerInv, ViewerTypes
<1>6. ViewerTypes'
  BY <1>3, <1>5 DEF ViewerInv, ViewerTypes, IsReader, Began, objectVars
<1>7. HeldOnce' /\ ShowsWhole'
  BY <1>5 DEF ViewerInv, HeldOnce, ShowsWhole, WholeOf, objectVars
<1>8. (\A h \in Loads : ReadsOne(reader[h]))'
  BY <1>3, <1>5 DEF ViewerInv, ReadsOne, Began, PastHead, WholeOf, objectVars
<1>9. OneWaits'
  <2>1. g = current
    BY <1>4 DEF ViewerInv, OneWaits
  <2>2. \A h \in Loads : ~Active(h)'
    BY <1>3, <1>5, <2>1 DEF ViewerInv, OneWaits, Active, Unfinished
  <2> QED BY <1>3, <1>5, <2>1, <2>2 DEF ViewerInv, OneWaits
<1> QED BY <1>6, <1>7, <1>8, <1>9 DEF ViewerInv

LEMMA MetadataStep == ASSUME ViewerInv, NEW g \in Loads, Metadata(g) PROVE ViewerInv'
<1>1. Active(g) /\ reader[g].phase = "metadata"
  BY DEF Metadata
<1>2. CASE Fail(g)
  BY <1>1, <1>2, Fails
<1>3. CASE ~Fail(g)
  <2>1. PICK r : r = [reader[g] EXCEPT !.digest = Object(g)]
    OBVIOUS
  <2>2. Len(Object(g)) = reader[g].props.bytes /\ Proceed(g, NextPage(r))
    BY <1>3, <2>1 DEF Metadata
  <2>3. IsReader(reader[g]) /\ reader[g].props \in Props /\ reader[g].props.object # NoObject
    BY <1>1 DEF ViewerInv, ViewerTypes, ReadsOne, Began
  <2>4. /\ IsReader(r) /\ r.props = reader[g].props /\ r.aborted = reader[g].aborted
        /\ r.digest = Object(g)
    BY <2>1, <2>3 DEF IsReader
  <2>5. WholeOf(r.props, r.digest)
    BY <2>2, <2>3, <2>4 DEF WholeOf, Object, ViewerInv, HeldOnce, Places
  <2>6. PICK s : s = NextPage(r)
    OBVIOUS
  <2>7. IsReader(s) /\ Began(s) /\ s.props = r.props /\ s.aborted = r.aborted /\ ReadsOne(s)
    BY <2>3, <2>4, <2>5, <2>6, NextPageKeeps
  <2> QED BY <1>1, <2>2, <2>4, <2>6, <2>7, GoesOn
<1> QED BY <1>2, <1>3

LEMMA ObjectRangeStep == ASSUME ViewerInv, NEW g \in Loads, ObjectRange(g) PROVE ViewerInv'
<1>1. Active(g) /\ reader[g].phase = "range"
  BY DEF ObjectRange
<1>2. CASE Fail(g)
  BY <1>1, <1>2, Fails
<1>3. CASE ~Fail(g)
  <2>1. PICK rest : Proceed(g, [reader[g] EXCEPT !.phase = "body", !.rest = rest])
    BY <1>3 DEF ObjectRange
  <2>2. PICK r : r = [reader[g] EXCEPT !.phase = "body", !.rest = rest]
    OBVIOUS
  <2>3. IsReader(reader[g]) /\ reader[g].props \in Props /\ WholeOf(reader[g].props, reader[g].digest)
    BY <1>1 DEF ViewerInv, ViewerTypes, ReadsOne, Began, PastHead
  <2>4. /\ IsReader(r) /\ r.phase = "body" /\ r.props = reader[g].props
        /\ r.aborted = reader[g].aborted /\ r.digest = reader[g].digest
    BY <2>2, <2>3 DEF IsReader
  <2>5. Began(r) /\ ReadsOne(r)
    BY <2>3, <2>4 DEF Began, PastHead, ReadsOne
  <2> QED BY <1>1, <2>1, <2>2, <2>4, <2>5, GoesOn
<1> QED BY <1>2, <1>3

LEMMA ChunkStep == ASSUME ViewerInv, NEW g \in Loads, Chunk(g) PROVE ViewerInv'
<1>1. Active(g) /\ reader[g].phase = "body"
  BY DEF Chunk
<1>2. CASE Fail(g)
  BY <1>1, <1>2, Fails
<1>3. CASE ~Fail(g)
  <2>1. PICK n : LET r == reader[g]
                     size == r.range[2] - r.range[1] + 1
                     more == [r EXCEPT !.got = @ \o SubSeq(r.rest, 1, n),
                                       !.rest = SubSeq(@, n + 1, Len(@))]
                 IN  \/ Proceed(g, more)
                     \/ Proceed(g, NextPage([more EXCEPT !.bytes = @ \o more.got, !.rest = <<>>]))
    BY <1>3, Zenon DEF Chunk
  <2>2. IsReader(reader[g]) /\ reader[g].props \in Props /\ WholeOf(reader[g].props, reader[g].digest)
    BY <1>1 DEF ViewerInv, ViewerTypes, ReadsOne, Began, PastHead
  <2>3. PICK r : r = [reader[g] EXCEPT !.got = @ \o SubSeq(reader[g].rest, 1, n),
                                      !.rest = SubSeq(@, n + 1, Len(@))]
    OBVIOUS
  <2>4. /\ IsReader(r) /\ r.phase = "body" /\ r.props = reader[g].props
        /\ r.aborted = reader[g].aborted /\ r.digest = reader[g].digest
    BY <1>1, <2>2, <2>3 DEF IsReader
  <2>5. CASE Proceed(g, r)
    <3>1. Began(r) /\ ReadsOne(r)
      BY <2>2, <2>4 DEF Began, PastHead, ReadsOne
    <3> QED BY <1>1, <2>4, <2>5, <3>1, GoesOn
  <2>6. PICK q : q = [r EXCEPT !.bytes = @ \o r.got, !.rest = <<>>]
    OBVIOUS
  <2>7. CASE Proceed(g, NextPage(q))
    <3>1. /\ IsReader(q) /\ q.props = reader[g].props
          /\ q.aborted = reader[g].aborted /\ q.digest = reader[g].digest
      BY <2>4, <2>6 DEF IsReader
    <3>2. PICK s : s = NextPage(q)
      OBVIOUS
    <3>3. IsReader(s) /\ Began(s) /\ s.props = q.props /\ s.aborted = q.aborted /\ ReadsOne(s)
      BY <2>2, <3>1, <3>2, NextPageKeeps
    <3> QED BY <1>1, <2>7, <3>1, <3>2, <3>3, GoesOn
  <2> QED BY <2>1, <2>3, <2>5, <2>6, <2>7
<1> QED BY <1>2, <1>3

\* Only bytes that are the content of the digest are shown.
LEMMA DigestStep == ASSUME ViewerInv, NEW g \in Loads, Digest(g) PROVE ViewerInv'
<1>1. Active(g) /\ reader[g].phase = "digest"
  BY DEF Digest
<1>2. CASE Verified(reader[g])
  <2>1. Settle(g, "loaded", reader[g].bytes)
    BY <1>2 DEF Digest
  <2>2. WholeOf(reader[g].props, reader[g].bytes)
    BY <1>1, <1>2 DEF ViewerInv, ReadsOne, PastHead, Verified
  <2> QED BY <1>1, <2>1, <2>2, Settles
<1>3. CASE ~Verified(reader[g])
  BY <1>1, <1>3, Fails DEF Digest
<1> QED BY <1>2, <1>3

LEMMA RewriteStep == ASSUME ViewerInv, Rewrite PROVE ViewerInv'
<1>1. PICK o \in Places : \E c : /\ store' = [store EXCEPT ![o] = c]
                                 /\ held' = [held EXCEPT ![o] = @ \union {c}]
  BY DEF Rewrite
<1>2. UNCHANGED <<props, mounted, state, current, reader>>
  BY DEF Rewrite
<1>3. /\ DOMAIN store' = Places /\ DOMAIN held' = Places
      /\ \A q \in Places : held[q] \subseteq held'[q] /\ store'[q] \in held'[q]
  BY <1>1 DEF ViewerInv, ViewerTypes, HeldOnce
<1>4. \A p, content : WholeOf(p, content) => WholeOf(p, content)'
  BY <1>3 DEF WholeOf, Places
<1>5. ViewerTypes' /\ HeldOnce'
  BY <1>2, <1>3 DEF ViewerInv, ViewerTypes, HeldOnce, IsReader, Began
<1>6. (\A g \in Loads : ReadsOne(reader[g]))' /\ ShowsWhole'
  BY <1>2, <1>4 DEF ViewerInv, ReadsOne, Began, PastHead, ShowsWhole
<1>7. OneWaits'
  BY <1>2 DEF ViewerInv, OneWaits, Active, Unfinished
<1> QED BY <1>5, <1>6, <1>7 DEF ViewerInv

LEMMA ViewerStep == ViewerInv /\ [CaptureNext]_captureVars => ViewerInv'
<1> SUFFICES ASSUME ViewerInv, [CaptureNext]_captureVars PROVE ViewerInv'
  OBVIOUS
<1>1. ASSUME NEW p \in Props, Show(p) PROVE ViewerInv'
  BY <1>1, ShowStep
<1>2. CASE RunEffects
  BY <1>2, RunEffectsStep
<1>3. CASE Unmount
  BY <1>3, UnmountStep
<1>4. CASE Load
  BY <1>4, LoadStep
<1>5. CASE Rewrite
  BY <1>5, RewriteStep
<1>6. ASSUME NEW g \in Loads,
             Aborted(g) \/ RequestFails(g) \/ RequestDropped(g) \/ Metadata(g) \/ ObjectRange(g) \/ Chunk(g) \/ Digest(g)
      PROVE  ViewerInv'
  BY <1>6, AbortedStep, RequestFailsStep, RequestDroppedStep, MetadataStep, ObjectRangeStep, ChunkStep, DigestStep
<1>7. CASE UNCHANGED captureVars
  BY <1>7 DEF captureVars, objectVars, ViewerInv, ViewerTypes, IsReader, Began, PastHead, HeldOnce,
              ReadsOne, WholeOf, ShowsWhole, OneWaits, Active, Unfinished
<1> QED BY <1>1, <1>2, <1>3, <1>4, <1>5, <1>6, <1>7 DEF CaptureNext

LEMMA ViewerIsHonest == ViewerInv => ViewerHonest
<1> SUFFICES ASSUME ViewerInv PROVE ViewerHonest
  OBVIOUS
<1>1. ShownIsWhole
  BY DEF ViewerInv, ShownIsWhole, VisibleState, Idle, ShowsWhole, WholeOf
<1>2. ~mounted => ~\E g \in Loads : Active(g)
  BY CaptureAssumption DEF ViewerInv, OneWaits, Loads
<1>3. LoadingIsReal
  BY <1>2 DEF ViewerInv, LoadingIsReal, VisibleState, Idle, OneWaits
<1> QED BY <1>1, <1>3 DEF ViewerHonest

\* However a retained result changes between the requests of a read, and whatever
\* the viewer is given meanwhile, it shows as verified only one whole content of
\* the result its label names; and while it says it is loading, the one read that
\* is not aborted is of those props and will tell it -- unless a request of that
\* read ended in an AbortError that was not the viewer's, the one way the code has
\* of leaving it loading with no read.
THEOREM ViewerShowsOneContent == CaptureSpec => []ViewerHonest
<1>1. CaptureInit => ViewerInv
  BY ViewerInit
<1>2. ViewerInv /\ [CaptureNext]_captureVars => ViewerInv'
  BY ViewerStep
<1>3. ViewerInv => ViewerHonest
  BY ViewerIsHonest
<1> QED BY <1>1, <1>2, <1>3, PTL DEF CaptureSpec

-----------------------------------------------------------------------------
(* The parse boundary of the Factory plane.                                *)

\* What a schema lets through has these fields and no other.
LEMMA DocumentShapes ==
    ASSUME NEW d \in Document
    PROVE  /\ d.ids \in Seq(Nat)
           /\ d.kind = "journal" => /\ DOMAIN d = {"kind", "ids", "tip", "covered", "seqs"}
                                    /\ d.tip \in Nat /\ d.covered \in Nat /\ d.seqs \in Seq(Nat)
           /\ d.kind = "gates" => /\ DOMAIN d = {"kind", "ids", "tip", "count", "seqs"}
                                  /\ d.tip \in Nat /\ d.count \in Nat /\ d.seqs \in Seq(Nat)
           /\ d.kind = "reset" => /\ DOMAIN d = {"kind", "ids", "last", "tip"}
                                  /\ d.last \in Nat /\ d.tip \in Nat
           /\ d.kind \in {"tip", "status"} => DOMAIN d = {"kind", "ids", "tip"} /\ d.tip \in Nat
           /\ d.kind = "enduring" => /\ DOMAIN d = {"kind", "ids", "seq", "covered"}
                                     /\ d.seq \in Nat /\ d.covered \in Nat
           /\ d.kind \in {"agent", "department", "object"} => DOMAIN d = {"kind", "ids"}
           /\ d.kind = "ephemeral" => DOMAIN d = {"kind", "ids", "durable"} /\ d.durable \in BOOLEAN
           /\ d.kind = "command" => DOMAIN d = {"kind", "ids", "status", "error"} /\ d.error \in BOOLEAN
           /\ d.kind = "recent" => DOMAIN d = {"kind", "ids", "times"} /\ d.times \in Seq(Instant)
           /\ d.kind \in {"journal", "gates", "reset", "tip", "status", "enduring", "agent", "department",
                          "object", "ephemeral", "command", "recent"}
BY DEF Document

\* A double below the last exact integer is the integer itself.
LEMMA DoubleIsExact ==
    ASSUME NEW n \in Nat
    PROVE  /\ Double(n) \in Nat
           /\ Double(n) < Exact <=> n < Exact
           /\ n < Exact => Double(n) = n
<1>1. CASE n < Exact
  BY <1>1 DEF Double
<1>2. CASE n % 2 = 0
  BY <1>2 DEF Double
<1>3. CASE n >= Exact /\ n % 2 # 0
  <2>1. n - 1 >= Exact
    BY <1>3, ContractAssumption
  <2> QED BY <1>3, <2>1, ContractAssumption DEF Double
<1> QED BY <1>1, <1>2, <1>3, ContractAssumption

\* Sequences of which each is above the one before it rise, and reach their index.
LEMMA AscendingRises ==
    ASSUME NEW seqs \in Seq(Nat), NEW limit \in Nat, Ascending(seqs, limit)
    PROVE  Rising(seqs) /\ ToSet(seqs) \subseteq 1..limit
<1> DEFINE Wrong == {j \in DOMAIN seqs : \E i \in DOMAIN seqs : i < j /\ seqs[i] >= seqs[j]}
<1>1. DOMAIN seqs = 1..Len(seqs) /\ Len(seqs) \in Nat /\ \A i \in DOMAIN seqs : seqs[i] \in Nat
  BY LenProperties, ElementOfSeq
<1>2. Wrong = {}
  <2> SUFFICES ASSUME Wrong # {} PROVE FALSE
    OBVIOUS
  <2>1. Wrong \in SUBSET Nat
    BY <1>1
  <2> HIDE DEF Wrong
  <2>2. PICK j \in Wrong : \A y \in Wrong : y >= j
    BY <2>1, LeastSequence
  <2>3. PICK i \in DOMAIN seqs : i < j /\ seqs[i] >= seqs[j]
    BY DEF Wrong
  <2>4. j \in DOMAIN seqs /\ j > 1 /\ j - 1 \in DOMAIN seqs /\ i <= j - 1
    <3>1. j \in DOMAIN seqs
      BY DEF Wrong
    <3> QED BY <1>1, <2>3, <3>1
  <2>5. seqs[j - 1] < seqs[j]
    BY <2>4 DEF Ascending
  <2>6. CASE i = j - 1
    BY <1>1, <2>3, <2>4, <2>5, <2>6
  <2>7. CASE i < j - 1
    <3>1. seqs[i] >= seqs[j - 1]
      BY <1>1, <2>3, <2>4, <2>5
    <3>2. j - 1 \in Wrong
      BY <2>4, <2>7, <3>1 DEF Wrong
    <3>3. j - 1 >= j /\ j \in Nat
      BY <2>1, <2>2, <3>2
    <3> QED BY <3>3
  <2> QED BY <1>1, <2>4, <2>6, <2>7
<1>3. Rising(seqs)
  <2> SUFFICES ASSUME NEW i \in DOMAIN seqs, NEW j \in DOMAIN seqs, i < j
               PROVE  seqs[i] < seqs[j]
    BY DEF Rising
  <2>1. ~(seqs[i] >= seqs[j])
    BY <1>2
  <2> QED BY <1>1, <2>1
<1>4. ToSet(seqs) \subseteq 1..limit
  BY <1>1 DEF Ascending, SafeJournalCoordinate, ToSet
<1> QED BY <1>3, <1>4

\* Rising sequences from one on are no more than the last of them.
LEMMA RisingIsLong ==
    ASSUME NEW seqs \in Seq(Nat), NEW limit \in Nat, Rising(seqs), ToSet(seqs) \subseteq 1..limit
    PROVE  Len(seqs) <= limit
<1> DEFINE Low == {j \in DOMAIN seqs : seqs[j] < j}
<1>1. DOMAIN seqs = 1..Len(seqs) /\ Len(seqs) \in Nat /\ \A i \in DOMAIN seqs : seqs[i] \in 1..limit
  BY LenProperties DEF ToSet
<1>2. Low = {}
  <2> SUFFICES ASSUME Low # {} PROVE FALSE
    OBVIOUS
  <2>1. Low \in SUBSET Nat
    BY <1>1
  <2> HIDE DEF Low
  <2>2. PICK j \in Low : \A y \in Low : y >= j
    BY <2>1, LeastSequence
  <2> USE DEF Low
  <2>3. j \in DOMAIN seqs /\ j \in Nat /\ seqs[j] < j /\ seqs[j] \in 1..limit
    BY <1>1
  <2>4. j > 1 /\ j - 1 \in DOMAIN seqs
    BY <1>1, <2>3
  <2>5. seqs[j - 1] < seqs[j] /\ seqs[j - 1] \in 1..limit
    BY <1>1, <2>3, <2>4 DEF Rising
  <2>6. j - 1 \in Low
    BY <2>3, <2>4, <2>5
  <2>7. j - 1 >= j
    BY <2>2, <2>6
  <2> QED BY <2>3, <2>7
<1>3. CASE Len(seqs) = 0
  BY <1>3
<1>4. CASE Len(seqs) # 0
  <2>1. Len(seqs) \in DOMAIN seqs
    BY <1>1, <1>4
  <2>2. seqs[Len(seqs)] >= Len(seqs) /\ seqs[Len(seqs)] <= limit
    BY <1>1, <1>2, <2>1
  <2> QED BY <1>1, <2>1, <2>2
<1> QED BY <1>3, <1>4

\* The converse, for sequences that are exact.
LEMMA RisingAscends ==
    ASSUME NEW seqs \in Seq(Nat), NEW limit \in Nat, limit < Exact, Rising(seqs), ToSet(seqs) \subseteq 1..limit
    PROVE  Ascending(seqs, limit)
<1>1. DOMAIN seqs = 1..Len(seqs) /\ Len(seqs) \in Nat /\ \A i \in DOMAIN seqs : seqs[i] \in 1..limit
  BY LenProperties DEF ToSet
<1>2. ASSUME NEW i \in DOMAIN seqs, i > 1 PROVE seqs[i - 1] < seqs[i]
  <2>1. i - 1 \in DOMAIN seqs /\ i - 1 < i
    BY <1>1, <1>2
  <2> QED BY <2>1 DEF Rising
<1> QED BY <1>1, <1>2, ContractAssumption DEF Ascending, SafeJournalCoordinate

\* The sequences of a page as the client holds them.
LEMMA DoubledSeqs ==
    ASSUME NEW seqs \in Seq(Nat), NEW doubled, doubled = [i \in DOMAIN seqs |-> Double(seqs[i])]
    PROVE  /\ doubled \in Seq(Nat) /\ Len(doubled) = Len(seqs)
           /\ \A limit \in Nat : Ascending(doubled, limit) => doubled = seqs
           /\ (\A i \in DOMAIN seqs : seqs[i] < Exact) => doubled = seqs
<1>1. DOMAIN seqs = 1..Len(seqs) /\ Len(seqs) \in Nat /\ \A i \in DOMAIN seqs : seqs[i] \in Nat
  BY LenProperties, ElementOfSeq
<1>2. DOMAIN doubled = 1..Len(seqs) /\ \A i \in 1..Len(seqs) : doubled[i] \in Nat /\ doubled[i] = Double(seqs[i])
  BY <1>1, DoubleIsExact
<1>3. doubled \in Seq(Nat) /\ Len(doubled) = Len(seqs)
  <2>1. doubled \in [1..Len(seqs) -> Nat]
    BY <1>1, DoubleIsExact
  <2> QED BY <1>1, <2>1, SeqDef, LenProperties
<1>4. ASSUME \A i \in DOMAIN seqs : seqs[i] < Exact PROVE doubled = seqs
  <2>1. \A i \in DOMAIN seqs : doubled[i] = seqs[i]
    BY <1>1, <1>2, <1>4, DoubleIsExact
  <2>2. DOMAIN doubled = DOMAIN seqs
    OBVIOUS
  <2> QED BY <1>3, <2>1, <2>2, <1>1, SeqEqual
<1>5. ASSUME NEW limit \in Nat, Ascending(doubled, limit) PROVE doubled = seqs
  <2>1. \A i \in DOMAIN seqs : Double(seqs[i]) < Exact
    BY <1>1, <1>2, <1>5 DEF Ascending, SafeJournalCoordinate
  <2> QED BY <1>1, <1>4, <2>1, DoubleIsExact
<1> QED BY <1>3, <1>4, <1>5

\* What JSON.parse changes of a document.
LEMMA ParsedFields ==
    ASSUME NEW d \in Document, NEW p, p = AsParsed(d)
    PROVE  /\ DOMAIN p = DOMAIN d /\ p.kind = d.kind /\ p.ids = d.ids
           /\ \A f \in DOMAIN d :
                p[f] = IF f \in {"tip", "covered", "last", "seq", "count"} THEN Double(d[f])
                       ELSE IF f = "seqs" THEN [i \in DOMAIN d.seqs |-> Double(d.seqs[i])] ELSE d[f]
<1>1. "kind" \in DOMAIN d /\ "ids" \in DOMAIN d
  BY DEF Document
<1>2. /\ DOMAIN p = DOMAIN d
      /\ \A f \in DOMAIN d :
           p[f] = IF f \in {"tip", "covered", "last", "seq", "count"} THEN Double(d[f])
                  ELSE IF f = "seqs" THEN [i \in DOMAIN d.seqs |-> Double(d.seqs[i])] ELSE d[f]
  BY DEF AsParsed
<1> QED BY <1>1, <1>2

\* A document that satisfies the client is as it was sent, and as Core promises it.
LEMMA TakenIsPromised ==
    ASSUME NEW d \in Document, NEW p, p = AsParsed(d), ValidateFactorySemantics(p)
    PROVE  /\ \A f \in DOMAIN d : f # "count" => p[f] = d[f]
           /\ d.kind # "recent" => Promised(d)
<1>1. /\ DOMAIN p = DOMAIN d /\ p.kind = d.kind /\ p.ids = d.ids
      /\ \A f \in DOMAIN d :
           p[f] = IF f \in {"tip", "covered", "last", "seq", "count"} THEN Double(d[f])
                  ELSE IF f = "seqs" THEN [i \in DOMAIN d.seqs |-> Double(d.seqs[i])] ELSE d[f]
  BY ParsedFields
<1>2. CASE d.kind \in {"journal", "gates"}
  <2>1. /\ DOMAIN d \in {{"kind", "ids", "tip", "covered", "seqs"}, {"kind", "ids", "tip", "count", "seqs"}}
        /\ d.tip \in Nat /\ d.seqs \in Seq(Nat)
        /\ d.kind = "journal" => d.covered \in Nat /\ "covered" \in DOMAIN d
        /\ d.kind = "gates" => d.count \in Nat /\ "count" \in DOMAIN d
    BY <1>2, DocumentShapes
  <2>2. p.tip = Double(d.tip) /\ p.seqs = [i \in DOMAIN d.seqs |-> Double(d.seqs[i])]
    BY <1>1, <2>1
  <2>3. p.tip < Exact /\ IdsWithinCoreLimit(ToSet(d.ids))
    BY <1>1, <1>2 DEF ValidateFactorySemantics, JournalPageTaken, GatePageTaken, SafeJournalCoordinate
  <2>4. p.tip = d.tip
    BY <2>1, <2>2, <2>3, DoubleIsExact
  <2>5. CASE d.kind = "journal"
    <3>1. p.covered = Double(d.covered)
      BY <1>1, <2>1, <2>5
    <3>2. p.covered < Exact /\ p.covered <= p.tip /\ Ascending(p.seqs, p.covered)
      BY <1>1, <2>5 DEF ValidateFactorySemantics, JournalPageTaken, SafeJournalCoordinate
    <3>3. p.covered = d.covered
      BY <2>1, <2>5, <3>1, <3>2, DoubleIsExact
    <3>4. p.seqs = d.seqs
      BY <2>1, <2>2, <2>5, <3>2, <3>3, DoubledSeqs
    <3>5. Rising(d.seqs) /\ ToSet(d.seqs) \subseteq 1..d.covered
      BY <2>1, <2>5, <3>2, <3>3, <3>4, AscendingRises
    <3>6. Promised(d)
      BY <2>3, <2>4, <2>5, <3>2, <3>3, <3>5 DEF Promised, IdsWithinCoreLimit
    <3>7. DOMAIN d = {"kind", "ids", "tip", "covered", "seqs"}
      BY <2>5, DocumentShapes
    <3> QED BY <1>1, <2>4, <3>3, <3>4, <3>6, <3>7
  <2>6. CASE d.kind = "gates"
    <3>1. p.count = Double(d.count) /\ Double(d.count) \in Nat
      BY <1>1, <2>1, <2>6, DoubleIsExact
    <3>2. Ascending(p.seqs, p.tip) /\ Len(p.seqs) <= p.count
      BY <1>1, <2>6 DEF ValidateFactorySemantics, GatePageTaken
    <3>3. p.seqs = d.seqs
      BY <2>1, <2>2, <2>4, <3>2, DoubledSeqs
    <3>4. Rising(d.seqs) /\ ToSet(d.seqs) \subseteq 1..d.tip
      BY <2>1, <2>4, <3>2, <3>3, AscendingRises
    <3>5. Len(d.seqs) <= d.count
      <4>1. Len(d.seqs) \in Nat /\ Len(d.seqs) <= d.tip /\ d.tip < Exact
        BY <2>1, <2>3, <2>4, <3>4, RisingIsLong, LenProperties
      <4>2. CASE d.count < Exact
        BY <2>1, <2>6, <3>1, <3>2, <3>3, <4>2, DoubleIsExact
      <4>3. CASE ~(d.count < Exact)
        BY <2>1, <2>6, <4>1, <4>3, ContractAssumption
      <4> QED BY <4>2, <4>3
    <3>6. Promised(d)
      BY <2>3, <2>6, <3>4, <3>5 DEF Promised, IdsWithinCoreLimit
    <3>7. DOMAIN d = {"kind", "ids", "tip", "count", "seqs"}
      BY <2>6, DocumentShapes
    <3> QED BY <1>1, <2>4, <3>3, <3>6, <3>7
  <2> QED BY <1>2, <2>5, <2>6
<1>3. CASE d.kind = "reset"
  <2>1. DOMAIN d = {"kind", "ids", "last", "tip"} /\ d.last \in Nat /\ d.tip \in Nat
    BY <1>3, DocumentShapes
  <2>2. p.tip = Double(d.tip) /\ p.last = Double(d.last)
    BY <1>1, <2>1
  <2>3. p.tip < Exact /\ p.last < Exact /\ p.last <= p.tip /\ IdsWithinCoreLimit(ToSet(d.ids))
    BY <1>1, <1>3 DEF ValidateFactorySemantics, SessionResetTaken, SafeJournalCoordinate
  <2>4. p.tip = d.tip /\ p.last = d.last
    BY <2>1, <2>2, <2>3, DoubleIsExact
  <2>5. Promised(d)
    BY <1>3, <2>3, <2>4 DEF Promised, IdsWithinCoreLimit
  <2> QED BY <1>1, <2>1, <2>4, <2>5
<1>4. CASE d.kind \in {"tip", "status"}
  <2>1. DOMAIN d = {"kind", "ids", "tip"} /\ d.tip \in Nat
    BY <1>4, DocumentShapes
  <2>2. p.tip = Double(d.tip)
    BY <1>1, <2>1
  <2>3. p.tip < Exact /\ IdsWithinCoreLimit(ToSet(d.ids))
    BY <1>1, <1>4 DEF ValidateFactorySemantics, JournalTipTaken, SessionStatusTaken, SafeJournalCoordinate
  <2>4. p.tip = d.tip
    BY <2>1, <2>2, <2>3, DoubleIsExact
  <2>5. Promised(d)
    BY <1>4, <2>3 DEF Promised, IdsWithinCoreLimit
  <2> QED BY <1>1, <2>1, <2>4, <2>5
<1>5. CASE d.kind = "enduring"
  <2>1. DOMAIN d = {"kind", "ids", "seq", "covered"} /\ d.seq \in Nat /\ d.covered \in Nat
    BY <1>5, DocumentShapes
  <2>2. p.seq = Double(d.seq) /\ p.covered = Double(d.covered)
    BY <1>1, <2>1
  <2>3. /\ p.seq < Exact /\ p.seq >= 1 /\ p.covered < Exact /\ p.covered = p.seq
        /\ IdsWithinCoreLimit(ToSet(d.ids))
    BY <1>1, <1>5 DEF ValidateFactorySemantics, EnduringTaken, SafeJournalCoordinate
  <2>4. p.seq = d.seq /\ p.covered = d.covered
    BY <2>1, <2>2, <2>3, DoubleIsExact
  <2>5. Promised(d)
    BY <1>5, <2>3, <2>4 DEF Promised, IdsWithinCoreLimit
  <2> QED BY <1>1, <2>1, <2>4, <2>5
<1>6. CASE d.kind \in {"agent", "department", "object", "ephemeral", "command", "recent"}
  <2>1. DOMAIN d \in {{"kind", "ids"}, {"kind", "ids", "durable"}, {"kind", "ids", "status", "error"},
                      {"kind", "ids", "times"}}
    BY <1>6, DocumentShapes
  <2>2. \A f \in DOMAIN d : p[f] = d[f]
    BY <1>1, <2>1
  <2>3. IdsWithinCoreLimit(ToSet(d.ids))
    BY <1>1, <1>6 DEF ValidateFactorySemantics, EphemeralTaken, CommandStatusTaken, RecentPageTaken
  <2>4. CASE d.kind = "ephemeral"
    <3>1. p.durable = d.durable /\ ~p.durable
      BY <1>1, <2>2, <2>4, DocumentShapes DEF ValidateFactorySemantics, EphemeralTaken
    <3> QED BY <2>2, <2>3, <2>4, <3>1 DEF Promised, IdsWithinCoreLimit
  <2>5. CASE d.kind = "command"
    <3>1. p.status = d.status /\ p.error = d.error /\ d.error \in BOOLEAN
      BY <2>2, <2>5, DocumentShapes
    <3>2. (p.status = "rejected") <=> p.error
      BY <1>1, <2>5 DEF ValidateFactorySemantics, CommandStatusTaken
    <3> QED BY <2>2, <2>3, <2>5, <3>1, <3>2 DEF Promised, IdsWithinCoreLimit
  <2>6. CASE d.kind = "recent"
    BY <2>2, <2>6
  <2>7. CASE d.kind \in {"agent", "department", "object"}
    BY <2>2, <2>3, <2>7 DEF Promised, IdsWithinCoreLimit
  <2> QED BY <1>6, <2>4, <2>5, <2>6, <2>7
<1> QED BY <1>2, <1>3, <1>4, <1>5, <1>6, DocumentShapes

\* A page of times in Core's order is in the order of their milliseconds.
LEMMA LaterIsNoEarlier ==
    ASSUME NEW times \in Seq(Instant), \A i, j \in DOMAIN times : i < j => Later(times[i], times[j])
    PROVE  NewestFirst(times)
<1> SUFFICES ASSUME NEW i \in 2..Len(times) PROVE times[i].ms <= times[i - 1].ms
  BY DEF NewestFirst, Milliseconds
<1>1. Len(times) \in Nat /\ i \in DOMAIN times /\ i - 1 \in DOMAIN times /\ i - 1 < i
  BY LenProperties
<1>2. times[i] \in Instant /\ times[i - 1] \in Instant
  BY <1>1, ElementOfSeq, LenProperties
<1>3. Later(times[i - 1], times[i])
  BY <1>1
<1>4. times[i].ms \in Nat /\ times[i - 1].ms \in Nat
  BY <1>2 DEF Instant
<1> QED BY <1>3, <1>4 DEF Later

\* What Core sends with coordinates that fit satisfies the client.
LEMMA PromisedIsTaken ==
    ASSUME NEW d \in Document, NEW p, p = AsParsed(d), Promised(d), Fits(d)
    PROVE  ValidateFactorySemantics(p)
<1>1. /\ DOMAIN p = DOMAIN d /\ p.kind = d.kind /\ p.ids = d.ids
      /\ \A f \in DOMAIN d :
           p[f] = IF f \in {"tip", "covered", "last", "seq", "count"} THEN Double(d[f])
                  ELSE IF f = "seqs" THEN [i \in DOMAIN d.seqs |-> Double(d.seqs[i])] ELSE d[f]
  BY ParsedFields
<1>2. IdsWithinCoreLimit(ToSet(p.ids))
  BY <1>1 DEF Promised, IdsWithinCoreLimit
<1>3. CASE d.kind \in {"journal", "gates"}
  <2>1. /\ d.tip \in Nat /\ d.seqs \in Seq(Nat) /\ "tip" \in DOMAIN d /\ "seqs" \in DOMAIN d
        /\ d.kind = "journal" => d.covered \in Nat /\ "covered" \in DOMAIN d
        /\ d.kind = "gates" => d.count \in Nat /\ "count" \in DOMAIN d
    BY <1>3, DocumentShapes
  <2>2. d.tip < Exact /\ (\A i \in DOMAIN d.seqs : d.seqs[i] < Exact)
    BY <2>1 DEF Fits
  <2>3. p.tip = d.tip
    BY <1>1, <2>1, <2>2, DoubleIsExact
  <2>4. p.seqs = d.seqs
    <3>1. p.seqs = [i \in DOMAIN d.seqs |-> Double(d.seqs[i])]
      BY <1>1, <2>1
    <3> QED BY <2>1, <2>2, <3>1, DoubledSeqs
  <2>5. CASE d.kind = "journal"
    <3>1. d.covered < Exact
      BY <2>1, <2>5 DEF Fits
    <3>2. p.covered = d.covered
      BY <1>1, <2>1, <2>5, <3>1, DoubleIsExact
    <3>3. d.covered <= d.tip /\ Ascending(d.seqs, d.covered)
      BY <2>1, <2>5, <3>1, RisingAscends DEF Promised
    <3>4. JournalPageTaken(p)
      BY <1>2, <2>1, <2>2, <2>3, <2>4, <2>5, <3>1, <3>2, <3>3 DEF JournalPageTaken, SafeJournalCoordinate
    <3> QED BY <1>1, <2>5, <3>4 DEF ValidateFactorySemantics
  <2>6. CASE d.kind = "gates"
    <3>1. Rising(d.seqs) /\ ToSet(d.seqs) \subseteq 1..d.tip /\ Len(d.seqs) <= d.count
      BY <2>6 DEF Promised
    <3>2. Ascending(d.seqs, d.tip) /\ Len(d.seqs) <= d.tip /\ Len(d.seqs) \in Nat
      BY <2>1, <2>2, <3>1, RisingAscends, RisingIsLong, LenProperties
    <3>3. Len(d.seqs) <= p.count
      <4>1. p.count = Double(d.count) /\ d.count \in Nat
        BY <1>1, <2>1, <2>6
      <4>2. CASE d.count < Exact
        BY <3>1, <4>1, <4>2, DoubleIsExact
      <4>3. CASE ~(d.count < Exact)
        <5>1. p.count \in Nat /\ p.count >= Exact
          BY <4>1, <4>3, DoubleIsExact, ContractAssumption
        <5> QED BY <2>1, <2>2, <3>2, <5>1, ContractAssumption
      <4> QED BY <4>2, <4>3
    <3>4. GatePageTaken(p)
      BY <1>2, <2>1, <2>2, <2>3, <2>4, <3>2, <3>3 DEF GatePageTaken, SafeJournalCoordinate
    <3> QED BY <1>1, <2>6, <3>4 DEF ValidateFactorySemantics
  <2> QED BY <1>3, <2>5, <2>6
<1>4. CASE d.kind \in {"reset", "tip", "status", "enduring"}
  <2>1. \A f \in DOMAIN d \ {"kind", "ids"} :
          d[f] \in Nat /\ f \in {"tip", "covered", "last", "seq"}
    BY <1>4, DocumentShapes
  <2>2. \A f \in DOMAIN d \ {"kind", "ids"} : d[f] < Exact /\ p[f] = d[f]
    BY <1>1, <2>1, DoubleIsExact DEF Fits
  <2>3. CASE d.kind = "reset"
    <3>1. DOMAIN d = {"kind", "ids", "last", "tip"} /\ d.last <= d.tip
      BY <2>3, DocumentShapes DEF Promised
    <3>2. SessionResetTaken(p)
      BY <1>2, <2>1, <2>2, <3>1 DEF SessionResetTaken, SafeJournalCoordinate
    <3> QED BY <1>1, <2>3, <3>2 DEF ValidateFactorySemantics
  <2>4. CASE d.kind \in {"tip", "status"}
    <3>1. DOMAIN d = {"kind", "ids", "tip"}
      BY <2>4, DocumentShapes
    <3>2. JournalTipTaken(p) /\ SessionStatusTaken(p)
      BY <1>2, <2>1, <2>2, <3>1 DEF JournalTipTaken, SessionStatusTaken, SafeJournalCoordinate
    <3> QED BY <1>1, <2>4, <3>2 DEF ValidateFactorySemantics
  <2>5. CASE d.kind = "enduring"
    <3>1. DOMAIN d = {"kind", "ids", "seq", "covered"} /\ d.seq >= 1 /\ d.covered = d.seq
      BY <2>5, DocumentShapes DEF Promised
    <3>2. EnduringTaken(p)
      BY <1>2, <2>1, <2>2, <3>1 DEF EnduringTaken, SafeJournalCoordinate
    <3> QED BY <1>1, <2>5, <3>2 DEF ValidateFactorySemantics
  <2> QED BY <1>4, <2>3, <2>4, <2>5
<1>5. CASE d.kind \in {"agent", "department", "object"}
  BY <1>1, <1>2, <1>5 DEF ValidateFactorySemantics
<1>6. CASE d.kind = "ephemeral"
  <2>1. p.durable = d.durable /\ ~d.durable
    BY <1>1, <1>6, DocumentShapes DEF Promised
  <2> QED BY <1>1, <1>2, <1>6, <2>1 DEF ValidateFactorySemantics, EphemeralTaken
<1>7. CASE d.kind = "command"
  <2>1. p.status = d.status /\ p.error = d.error /\ ((d.status = "rejected") = d.error)
    BY <1>1, <1>7, DocumentShapes DEF Promised
  <2> QED BY <1>1, <1>2, <1>7, <2>1 DEF ValidateFactorySemantics, CommandStatusTaken
<1>8. CASE d.kind = "recent"
  <2>1. p.times = d.times /\ d.times \in Seq(Instant)
    BY <1>1, <1>8, DocumentShapes
  <2>2. NewestFirst(d.times)
    BY <1>8, <2>1, LaterIsNoEarlier DEF Promised
  <2> QED BY <1>1, <1>2, <1>8, <2>1, <2>2 DEF ValidateFactorySemantics, RecentPageTaken
<1> QED BY <1>3, <1>4, <1>5, <1>6, <1>7, <1>8, DocumentShapes

\* The verdict is on the document as it was parsed.
JudgedAsParsed ==
    /\ wire \in Document
    /\ verdict \in {"none", "accepted", "refused"}
    /\ verdict # "none" => /\ taken = AsParsed(wire)
                           /\ (verdict = "accepted") <=> ValidateFactorySemantics(taken)

\* For documents of any kind, size and number, a longest id and a last exact
\* integer: one that a client takes is as it was sent, digit by digit, and (but for
\* the order of a page's times) as Core promises it, and one that Core sends with
\* coordinates that fit is not refused (validateFactory).
THEOREM DocumentsTakenAsSent == ContractSpec => []TakenAsSent
<1>1. ContractInit => JudgedAsParsed
  BY ContractAssumption DEF ContractInit, JudgedAsParsed
<1>2. JudgedAsParsed /\ [ValidateFactory]_contractVars => JudgedAsParsed'
  <2>1. ASSUME JudgedAsParsed, ValidateFactory PROVE JudgedAsParsed'
    <3>1. wire' = wire /\ taken' = AsParsed(wire)
      BY <2>1 DEF ValidateFactory
    <3>2. verdict' = IF ValidateFactorySemantics(taken') THEN "accepted" ELSE "refused"
      BY <2>1 DEF ValidateFactory
    <3> QED BY <2>1, <3>1, <3>2 DEF JudgedAsParsed
  <2>2. ASSUME JudgedAsParsed, UNCHANGED contractVars PROVE JudgedAsParsed'
    BY <2>2 DEF JudgedAsParsed, contractVars
  <2> QED BY <2>1, <2>2
<1>3. JudgedAsParsed => TakenAsSent
  <2> SUFFICES ASSUME JudgedAsParsed PROVE TakenAsSent
    OBVIOUS
  <2>1. verdict = "accepted" => /\ \A f \in DOMAIN wire : f # "count" => taken[f] = wire[f]
                                /\ wire.kind # "recent" => Promised(wire)
    BY TakenIsPromised DEF JudgedAsParsed
  <2>2. Promised(wire) /\ Fits(wire) => verdict # "refused"
    BY PromisedIsTaken DEF JudgedAsParsed
  <2> QED BY <2>1, <2>2 DEF TakenAsSent
<1> QED BY <1>1, <1>2, <1>3, PTL DEF ContractSpec

-----------------------------------------------------------------------------
(* The preview of uncommitted text (FactoryLiveText).                      *)

(* Sums, and the bytes of a text.                                          *)

\* One chunk of a step.
Piece == [step : Nat, chunk : DOMAIN Stream]

LEMMA StreamIs ==
    \A c \in DOMAIN Stream :
      /\ Stream[c] \in Seq({"x", "hi", "lo"}) /\ Len(Stream[c]) \in Nat \ {0}
      /\ DOMAIN Stream[c] = 1..Len(Stream[c])
<1> TAKE c \in DOMAIN Stream
<1>1. Stream[c] \in Seq({"x", "hi", "lo"}) \ {<<>>}
  BY LiveTextAssumption
<1> QED BY <1>1

\* A set as long as {n} \X J is J.
LEMMA Column ==
    ASSUME NEW n, NEW J, IsFiniteSet(J)
    PROVE  IsFiniteSet({n} \X J) /\ Cardinality({n} \X J) = Cardinality(J)
<1>1. IsFiniteSet({n}) /\ Cardinality({n}) = 1
  BY FS_Singleton
<1>2. Cardinality(J) \in Nat
  BY FS_CardinalityType
<1>3. IsFiniteSet({n} \X J) /\ Cardinality({n} \X J) = Cardinality({n}) * Cardinality(J)
  BY <1>1, FS_Product
<1> QED BY <1>1, <1>2, <1>3

\* Two sets that share nothing.
LEMMA DisjointUnion ==
    ASSUME NEW S, NEW T, IsFiniteSet(S), IsFiniteSet(T), S \intersect T = {}
    PROVE  /\ IsFiniteSet(S \union T) /\ Cardinality(S \union T) = Cardinality(S) + Cardinality(T)
           /\ Cardinality(S) \in Nat /\ Cardinality(T) \in Nat
<1>1. Cardinality(S \intersect T) = 0
  BY FS_EmptySet
<1>2. /\ IsFiniteSet(S \union T)
      /\ Cardinality(S \union T) = Cardinality(S) + Cardinality(T) - Cardinality(S \intersect T)
  BY FS_Union
<1>3. Cardinality(S) \in Nat /\ Cardinality(T) \in Nat
  BY FS_CardinalityType
<1> QED BY <1>1, <1>2, <1>3

\* Finitely many finite columns.
LEMMA FiniteColumns ==
    ASSUME NEW D, NEW f, IsFiniteSet(D), \A k \in D : IsFiniteSet(f[k])
    PROVE  IsFiniteSet(UNION {{k} \X f[k] : k \in D})
<1> DEFINE g == [k \in D |-> {k} \X f[k]]
           T == {{k} \X f[k] : k \in D}
<1>1. g \in Surjection(D, T)
  BY DEF Surjection
<1>2. IsFiniteSet(T)
  BY <1>1, FS_Surjection
<1>3. \A t \in T : IsFiniteSet(t)
  BY Column
<1> HIDE DEF T
<1>4. IsFiniteSet(UNION T)
  BY <1>2, <1>3, FS_UNION
<1> QED BY <1>4 DEF T

-----------------------------------------------------------------------------
(* The sum of a function's values.                                         *)

Summand(f) == UNION {{k} \X (1..f[k]) : k \in DOMAIN f}

LEMMA TotalFinite ==
    ASSUME NEW f, IsFiniteSet(DOMAIN f), \A k \in DOMAIN f : f[k] \in Nat
    PROVE  IsFiniteSet(Summand(f)) /\ Total(f) = Cardinality(Summand(f)) /\ Total(f) \in Nat
<1> DEFINE g == [k \in DOMAIN f |-> 1..f[k]]
<1>1. \A k \in DOMAIN f : IsFiniteSet(g[k])
  BY FS_Interval
<1>2. IsFiniteSet(UNION {{k} \X g[k] : k \in DOMAIN f})
  <2> HIDE DEF g
  <2> QED BY <1>1, FiniteColumns
<1>3. Summand(f) = UNION {{k} \X g[k] : k \in DOMAIN f}
  BY DEF Summand
<1>4. IsFiniteSet(Summand(f))
  BY <1>2, <1>3
<1>5. Total(f) = Cardinality(Summand(f))
  BY DEF Total, Summand
<1> QED BY <1>4, <1>5, FS_CardinalityType

\* The sum over two parts of the domain.
LEMMA TotalSplit ==
    ASSUME NEW f, NEW g, NEW h,
           IsFiniteSet(DOMAIN g), IsFiniteSet(DOMAIN h),
           DOMAIN f = DOMAIN g \union DOMAIN h, DOMAIN g \intersect DOMAIN h = {},
           \A k \in DOMAIN g : g[k] \in Nat /\ f[k] = g[k],
           \A k \in DOMAIN h : h[k] \in Nat /\ f[k] = h[k]
    PROVE  /\ Total(f) = Total(g) + Total(h)
           /\ Total(f) \in Nat /\ Total(g) \in Nat /\ Total(h) \in Nat
<1>1. IsFiniteSet(DOMAIN f)
  BY FS_Union
<1>2. \A k \in DOMAIN f : f[k] \in Nat
  OBVIOUS
<1>3. /\ IsFiniteSet(Summand(g)) /\ Total(g) = Cardinality(Summand(g)) /\ Total(g) \in Nat
      /\ IsFiniteSet(Summand(h)) /\ Total(h) = Cardinality(Summand(h)) /\ Total(h) \in Nat
      /\ Total(f) = Cardinality(Summand(f)) /\ Total(f) \in Nat
  BY <1>1, <1>2, TotalFinite
<1>4. Summand(f) = Summand(g) \union Summand(h)
  <2>1. ASSUME NEW x \in Summand(f) PROVE x \in Summand(g) \union Summand(h)
    <3>1. PICK k \in DOMAIN f : x \in {k} \X (1..f[k])
      BY DEF Summand
    <3> QED BY <3>1 DEF Summand
  <2>2. ASSUME NEW x \in Summand(g) PROVE x \in Summand(f)
    <3>1. PICK k \in DOMAIN g : x \in {k} \X (1..g[k])
      BY <2>2 DEF Summand
    <3> QED BY <3>1 DEF Summand
  <2>3. ASSUME NEW x \in Summand(h) PROVE x \in Summand(f)
    <3>1. PICK k \in DOMAIN h : x \in {k} \X (1..h[k])
      BY <2>3 DEF Summand
    <3> QED BY <3>1 DEF Summand
  <2> QED BY <2>1, <2>2, <2>3
<1>5. Summand(g) \intersect Summand(h) = {}
  <2> SUFFICES ASSUME NEW x \in Summand(g), x \in Summand(h) PROVE FALSE
    OBVIOUS
  <2>1. PICK k \in DOMAIN g : x \in {k} \X (1..g[k])
    BY DEF Summand
  <2>2. PICK m \in DOMAIN h : x \in {m} \X (1..h[m])
    BY DEF Summand
  <2>3. x[1] = k /\ x[1] = m
    BY <2>1, <2>2
  <2> QED BY <2>3
<1> QED BY <1>3, <1>4, <1>5, DisjointUnion

LEMMA TotalOfOne ==
    ASSUME NEW f, NEW a, DOMAIN f = {a}, f[a] \in Nat
    PROVE  Total(f) = f[a]
<1>1. UNION {{k} \X (1..f[k]) : k \in DOMAIN f} = {a} \X (1..f[a])
  OBVIOUS
<1>2. IsFiniteSet(1..f[a]) /\ Cardinality(1..f[a]) = f[a]
  BY FS_Interval
<1>3. Cardinality({a} \X (1..f[a])) = Cardinality(1..f[a])
  BY <1>2, Column
<1> QED BY <1>1, <1>2, <1>3 DEF Total

LEMMA TotalOfNone ==
    ASSUME NEW f, DOMAIN f = {}
    PROVE  Total(f) = 0
<1>1. UNION {{k} \X (1..f[k]) : k \in DOMAIN f} = {}
  OBVIOUS
<1> QED BY <1>1, FS_EmptySet DEF Total

LEMMA UnitsAre ==
    ASSUME NEW text \in Seq(Piece)
    PROVE  /\ IsFiniteSet(Units(text))
           /\ \A p : p \in Units(text) <=>
                \E i \in 1..Len(text) : \E j \in 1..Len(Stream[text[i].chunk]) : p = <<i, j>>
           /\ \A i \in 1..Len(text) : text[i] \in Piece /\ text[i].chunk \in DOMAIN Stream
<1> DEFINE D == [i \in 1..Len(text) |-> DOMAIN Stream[text[i].chunk]]
<1>1. DOMAIN text = 1..Len(text) /\ Len(text) \in Nat
  OBVIOUS
<1>2. \A i \in 1..Len(text) : text[i] \in Piece /\ text[i].chunk \in DOMAIN Stream
  <2> TAKE i \in 1..Len(text)
  <2>1. text[i] \in Piece
    OBVIOUS
  <2> QED BY <2>1 DEF Piece
<1>3. \A i \in 1..Len(text) : D[i] = 1..Len(Stream[text[i].chunk])
                                /\ Len(Stream[text[i].chunk]) \in Nat
  BY <1>2, StreamIs
<1>4. IsFiniteSet(1..Len(text)) /\ \A i \in 1..Len(text) : IsFiniteSet(D[i])
  <2>1. \A n \in Nat : IsFiniteSet(1..n)
    BY FS_Interval
  <2> HIDE DEF D
  <2> QED BY <1>1, <1>3, <2>1
<1>5. IsFiniteSet(UNION {{i} \X D[i] : i \in 1..Len(text)})
  <2> DEFINE I == 1..Len(text)
  <2>1. IsFiniteSet(I) /\ \A i \in I : IsFiniteSet(D[i])
    BY <1>4
  <2> HIDE DEF D, I
  <2>2. IsFiniteSet(UNION {{i} \X D[i] : i \in I})
    BY <2>1, FiniteColumns
  <2> QED BY <2>2 DEF I
<1>6. Units(text) = UNION {{i} \X D[i] : i \in 1..Len(text)}
  BY <1>1 DEF Units
<1>7. \A p : p \in Units(text) <=>
        \E i \in 1..Len(text) : \E j \in 1..Len(Stream[text[i].chunk]) : p = <<i, j>>
  <2> TAKE p
  <2>1. p \in Units(text) <=> \E i \in 1..Len(text) : p \in {i} \X D[i]
    BY <1>6
  <2>2. ASSUME NEW i \in 1..Len(text)
        PROVE  p \in {i} \X D[i] <=> \E j \in 1..Len(Stream[text[i].chunk]) : p = <<i, j>>
    BY <1>3
  <2> QED BY <2>1, <2>2
<1> QED BY <1>2, <1>5, <1>6, <1>7

EncodedParts(text) ==
    /\ IsFiniteSet(Units(text)) /\ IsFiniteSet(Halves(text))
    /\ IsFiniteSet({p \in Units(text) : Paired(text, p)})
    /\ Cardinality(Units(text)) \in Nat /\ Cardinality(Halves(text)) \in Nat
    /\ Cardinality({p \in Units(text) : Paired(text, p)}) \in Nat
    /\ Encoded(text) \in Nat

LEMMA EncodedIsNat ==
    ASSUME NEW text \in Seq(Piece)
    PROVE  EncodedParts(text)
<1> DEFINE P == {p \in Units(text) : Paired(text, p)}
<1>1. IsFiniteSet(Units(text))
  BY UnitsAre
<1>2. Halves(text) \in SUBSET Units(text) /\ P \in SUBSET Halves(text)
  BY DEF Halves, Paired
<1>3. IsFiniteSet(Halves(text)) /\ Cardinality(Halves(text)) <= Cardinality(Units(text))
  BY <1>1, <1>2, FS_Subset
<1>4. IsFiniteSet(P) /\ Cardinality(P) <= Cardinality(Halves(text))
  BY <1>2, <1>3, FS_Subset
<1>5. Cardinality(Units(text)) \in Nat /\ Cardinality(Halves(text)) \in Nat /\ Cardinality(P) \in Nat
  BY <1>1, <1>3, <1>4, FS_CardinalityType
<1>6. Encoded(text) = Cardinality(Units(text)) + 2 * Cardinality(Halves(text)) - 2 * Cardinality(P)
  BY DEF Encoded
<1> HIDE DEF P
<1>7. Encoded(text) \in Nat
  BY <1>4, <1>5, <1>6
<1> QED BY <1>1, <1>3, <1>4, <1>5, <1>7 DEF EncodedParts, P

\* A pair is split between what is held and what comes.
Splits(prior, item) ==
    /\ prior # <<>>
    /\ Last(Stream[Last(prior).chunk]) = "hi" /\ Head(Stream[item.chunk]) = "lo"

\* What a chunk adds: its own bytes, less what a joined pair saves.
LEMMA EncodedAppend ==
    ASSUME NEW prior \in Seq(Piece), NEW item \in Piece
    PROVE  Encoded(prior \o <<item>>) =
             Encoded(prior) + Encoded(<<item>>) - (IF Splits(prior, item) THEN 2 ELSE 0)
<1> DEFINE n == Len(prior)
           T == prior \o <<item>>
           one == <<item>>
           S == Stream[item.chunk]
           m == Len(S)
           H == {j \in 1..m : S[j] # "x"}
           J == {j \in 1..m : j < m /\ S[j] = "hi" /\ S[j + 1] = "lo"}
           Pd == {p \in Units(prior) : Paired(prior, p)}
           Po == {p \in Units(one) : Paired(one, p)}
           Pt == {p \in Units(T) : Paired(T, p)}
           Joint == IF Splits(prior, item) THEN {<<n, Len(Stream[prior[n].chunk])>>} ELSE {}
<1>1. /\ item.chunk \in DOMAIN Stream /\ S \in Seq({"x", "hi", "lo"}) /\ m \in Nat \ {0}
      /\ Head(S) = S[1]
  BY StreamIs DEF Piece
<1>2. /\ one \in Seq(Piece) /\ Len(one) = 1 /\ one[1] = item
      /\ T \in Seq(Piece) /\ Len(T) = n + 1 /\ n \in Nat /\ T[n + 1] = item
      /\ \A i \in 1..n : T[i] = prior[i]
  OBVIOUS
<1>3. /\ \A p : p \in Units(prior) <=> \E i \in 1..n : \E j \in 1..Len(Stream[prior[i].chunk]) : p = <<i, j>>
      /\ \A p : p \in Units(one) <=> \E j \in 1..m : p = <<1, j>>
      /\ \A p : p \in Units(T) <=> \/ p \in Units(prior)
                                   \/ \E j \in 1..m : p = <<n + 1, j>>
  <2> HIDE DEF T, one, m
  <2>1. \A p : p \in Units(prior) <=> \E i \in 1..n : \E j \in 1..Len(Stream[prior[i].chunk]) : p = <<i, j>>
    BY UnitsAre
  <2>2. \A p : p \in Units(one) <=> \E i \in 1..Len(one) : \E j \in 1..Len(Stream[one[i].chunk]) : p = <<i, j>>
    BY <1>2, UnitsAre
  <2>3. \A p : p \in Units(T) <=> \E i \in 1..Len(T) : \E j \in 1..Len(Stream[T[i].chunk]) : p = <<i, j>>
    BY <1>2, UnitsAre
  <2>4. \A p : p \in Units(one) <=> \E j \in 1..m : p = <<1, j>>
    BY <1>2, <2>2 DEF m
  <2>5. ASSUME NEW p
        PROVE  p \in Units(T) <=> \/ p \in Units(prior)
                                  \/ \E j \in 1..m : p = <<n + 1, j>>
    <3> HIDE DEF n
    <3>1. \A i : i \in 1..Len(T) <=> i \in 1..n \/ i = n + 1
      BY <1>2
    <3>2. Stream[T[n + 1].chunk] = S
      BY <1>2
    <3>3. ASSUME p \in Units(T)
          PROVE  p \in Units(prior) \/ \E j \in 1..m : p = <<n + 1, j>>
      <4>1. PICK i \in 1..Len(T) : \E j \in 1..Len(Stream[T[i].chunk]) : p = <<i, j>>
        BY <3>3, <2>3
      <4>2. CASE i \in 1..n
        BY <4>1, <4>2, <1>2, <2>1
      <4>3. CASE i = n + 1
        BY <4>1, <4>3, <3>2 DEF m
      <4> QED BY <3>1, <4>2, <4>3
    <3>4. ASSUME p \in Units(prior) PROVE p \in Units(T)
      <4>1. PICK i \in 1..n : \E j \in 1..Len(Stream[prior[i].chunk]) : p = <<i, j>>
        BY <3>4, <2>1
      <4>2. i \in 1..Len(T) /\ T[i] = prior[i]
        BY <3>1, <1>2
      <4> QED BY <4>1, <4>2, <2>3
    <3>5. ASSUME NEW j \in 1..m, p = <<n + 1, j>> PROVE p \in Units(T)
      <4>1. n + 1 \in 1..Len(T) /\ j \in 1..Len(Stream[T[n + 1].chunk])
        BY <3>1, <3>2 DEF m
      <4> QED BY <3>5, <4>1, <2>3
    <3> QED BY <3>3, <3>4, <3>5
  <2> QED BY <2>1, <2>4, <2>5
<1>4. \A i \in 1..n : /\ Len(Stream[prior[i].chunk]) \in Nat \ {0}
                      /\ Stream[prior[i].chunk] \in Seq({"x", "hi", "lo"})
  BY UnitsAre, StreamIs
<1> HIDE DEF S, n, m, T, one
<1>5. Units(T) = Units(prior) \union ({n + 1} \X (1..m)) /\ Units(one) = {1} \X (1..m)
  BY <1>3
<1>6. ASSUME NEW j PROVE <<n + 1, j>> \notin Units(prior)
  BY <1>2, <1>3
<1>7. /\ \A j \in 1..m : UnitAt(T, <<n + 1, j>>) = S[j] /\ UnitAt(one, <<1, j>>) = S[j]
      /\ \A p \in Units(prior) : UnitAt(T, p) = UnitAt(prior, p) /\ NextUnit(T, p) = NextUnit(prior, p)
      /\ \A j \in 1..m : /\ NextUnit(T, <<n + 1, j>>) = IF j < m THEN <<n + 1, j + 1>> ELSE <<n + 2, 1>>
                         /\ NextUnit(one, <<1, j>>) = IF j < m THEN <<1, j + 1>> ELSE <<2, 1>>
  <2>1. \A j \in 1..m : UnitAt(T, <<n + 1, j>>) = S[j] /\ UnitAt(one, <<1, j>>) = S[j]
    BY <1>2 DEF UnitAt, S
  <2>2. \A p \in Units(prior) : UnitAt(T, p) = UnitAt(prior, p) /\ NextUnit(T, p) = NextUnit(prior, p)
    <3> TAKE p \in Units(prior)
    <3>0. PICK i \in 1..n : \E q \in 1..Len(Stream[prior[i].chunk]) : p = <<i, q>>
      BY <1>3
    <3>1. PICK j \in 1..Len(Stream[prior[i].chunk]) : p = <<i, j>>
      BY <3>0
    <3>2. p[1] = i /\ T[p[1]] = prior[p[1]]
      BY <1>2, <3>1
    <3> QED BY <3>2 DEF UnitAt, NextUnit
  <2>3. ASSUME NEW j \in 1..m
        PROVE  /\ NextUnit(T, <<n + 1, j>>) = IF j < m THEN <<n + 1, j + 1>> ELSE <<n + 2, 1>>
               /\ NextUnit(one, <<1, j>>) = IF j < m THEN <<1, j + 1>> ELSE <<2, 1>>
    BY <1>2 DEF NextUnit, m, S
  <2> QED BY <2>1, <2>2, <2>3
<1>8. Halves(T) = Halves(prior) \union ({n + 1} \X H) /\ Halves(one) = {1} \X H
  <2>1. /\ \A p : p \in Halves(one) <=> p \in Units(one) /\ UnitAt(one, p) # "x"
        /\ \A p : p \in Halves(T) <=> p \in Units(T) /\ UnitAt(T, p) # "x"
        /\ \A p : p \in Halves(prior) <=> p \in Units(prior) /\ UnitAt(prior, p) # "x"
        /\ \A j : j \in H <=> j \in 1..m /\ S[j] # "x"
    BY DEF Halves
  <2> HIDE DEF H
  <2>2. ASSUME NEW p PROVE p \in Halves(one) <=> p \in {1} \X H
    <3>1. \A j \in 1..m : UnitAt(one, <<1, j>>) = S[j]
      BY <1>7
    <3> QED BY <2>1, <3>1, <1>5
  <2>3. ASSUME NEW p PROVE p \in Halves(T) <=> p \in Halves(prior) \union ({n + 1} \X H)
    <3>1. /\ \A j \in 1..m : UnitAt(T, <<n + 1, j>>) = S[j]
          /\ \A q \in Units(prior) : UnitAt(T, q) = UnitAt(prior, q)
      BY <1>7
    <3> QED BY <2>1, <3>1, <1>5, <1>6
  <2> QED BY <2>2, <2>3
<1>9. Po = {1} \X J
  <2>1. ASSUME NEW j \in 1..m PROVE Paired(one, <<1, j>>) <=> j \in J
    <3>1. CASE j < m
      <4>0. j + 1 \in 1..m
        BY <3>1, <1>1
      <4>1. j + 1 \in 1..m /\ NextUnit(one, <<1, j>>) = <<1, j + 1>>
        BY <3>1, <4>0, <1>7
      <4>2. <<1, j + 1>> \in Units(one)
        BY <1>5, <4>1
      <4> QED BY <3>1, <4>1, <4>2, <1>7 DEF Paired
    <3>2. CASE ~(j < m)
      <4>1. NextUnit(one, <<1, j>>) = <<2, 1>>
        BY <3>2, <1>7
      <4>2. <<2, 1>> \notin Units(one)
        BY <1>5
      <4> QED BY <3>2, <4>1, <4>2 DEF Paired
    <3> QED BY <3>1, <3>2
  <2>2. \A p : p \in Po <=> p \in Units(one) /\ Paired(one, p)
    OBVIOUS
  <2>3. J \subseteq 1..m
    OBVIOUS
  <2> HIDE DEF Po, J
  <2>4. ASSUME NEW p PROVE p \in Po <=> p \in {1} \X J
    <3>1. p \in Units(one) <=> \E j \in 1..m : p = <<1, j>>
      BY <1>3
    <3>2. p \in {1} \X J <=> \E j \in J : p = <<1, j>>
      OBVIOUS
    <3> QED BY <3>1, <3>2, <2>1, <2>2, <2>3
  <2> QED BY <2>4
<1>10. Pt = (Pd \union ({n + 1} \X J)) \union Joint
  <2>1. ASSUME NEW j \in 1..m PROVE Paired(T, <<n + 1, j>>) <=> j \in J
    <3>1. CASE j < m
      <4>0. j + 1 \in 1..m
        BY <3>1, <1>1
      <4>1. j + 1 \in 1..m /\ NextUnit(T, <<n + 1, j>>) = <<n + 1, j + 1>>
        BY <3>1, <4>0, <1>7
      <4>2. <<n + 1, j + 1>> \in Units(T)
        BY <1>5, <4>1
      <4> QED BY <3>1, <4>1, <4>2, <1>7 DEF Paired
    <3>2. CASE ~(j < m)
      <4>1. NextUnit(T, <<n + 1, j>>) = <<n + 2, 1>>
        BY <3>2, <1>7
      <4>2. <<n + 2, 1>> \notin Units(T)
        BY <1>2, <1>3
      <4> QED BY <3>2, <4>1, <4>2 DEF Paired
    <3> QED BY <3>1, <3>2
  <2>2. ASSUME NEW p \in Units(prior)
        PROVE  Paired(T, p) <=> Paired(prior, p) \/ p \in Joint
    <3>0. PICK i \in 1..n : \E q \in 1..Len(Stream[prior[i].chunk]) : p = <<i, q>>
      BY <1>3
    <3>1. PICK j \in 1..Len(Stream[prior[i].chunk]) : p = <<i, j>>
      BY <3>0
    <3>2. /\ UnitAt(T, p) = UnitAt(prior, p) /\ NextUnit(T, p) = NextUnit(prior, p)
          /\ UnitAt(prior, p) = Stream[prior[i].chunk][j]
          /\ NextUnit(prior, p) = IF j < Len(Stream[prior[i].chunk]) THEN <<i, j + 1>> ELSE <<i + 1, 1>>
      BY <1>7, <3>1 DEF UnitAt, NextUnit
    <3>3. CASE i < n \/ j < Len(Stream[prior[i].chunk])
      <4>1. NextUnit(prior, p) \in Units(prior)
        <5>1. CASE j < Len(Stream[prior[i].chunk])
          <6>1. j + 1 \in 1..Len(Stream[prior[i].chunk])
            BY <1>4, <5>1
          <6> QED BY <1>3, <3>2, <5>1, <6>1
        <5>2. CASE ~(j < Len(Stream[prior[i].chunk]))
          <6>1. i + 1 \in 1..n
            BY <1>2, <3>3, <5>2
          <6>2. 1 \in 1..Len(Stream[prior[i + 1].chunk])
            BY <1>4, <6>1
          <6> QED BY <1>3, <3>2, <5>2, <6>1, <6>2
        <5> QED BY <5>1, <5>2
      <4>2. NextUnit(prior, p) \in Units(T) /\ UnitAt(T, NextUnit(prior, p)) = UnitAt(prior, NextUnit(prior, p))
        BY <4>1, <1>5, <1>7
      <4>3. p \notin Joint
        BY <3>1, <3>3, <1>2, <1>4
      <4> HIDE DEF Joint
      <4> QED BY <3>2, <4>1, <4>2, <4>3 DEF Paired
    <3>4. CASE ~(i < n \/ j < Len(Stream[prior[i].chunk]))
      <4>1. i = n /\ j = Len(Stream[prior[i].chunk]) /\ n >= 1
        BY <3>4, <1>2, <1>4
      <4>2. NextUnit(prior, p) = <<n + 1, 1>> /\ 1 \in 1..m
        BY <3>2, <4>1, <1>1, <1>4
      <4>3. <<n + 1, 1>> \notin Units(prior) /\ <<n + 1, 1>> \in Units(T) /\ UnitAt(T, <<n + 1, 1>>) = S[1]
        BY <4>2, <1>5, <1>6, <1>7
      <4>4. prior # <<>> /\ Last(prior) = prior[n] /\ Last(Stream[prior[n].chunk]) = Stream[prior[i].chunk][j]
        BY <4>1 DEF Last, n
      <4>5. Splits(prior, item) <=> UnitAt(T, p) = "hi" /\ S[1] = "lo"
        BY <3>2, <4>4, <1>1 DEF Splits, S
      <4>6. p \in Joint <=> Splits(prior, item)
        BY <3>1, <4>1
      <4>7. ~Paired(prior, p)
        BY <4>2, <4>3 DEF Paired
      <4>8. Paired(T, p) <=> UnitAt(T, p) = "hi" /\ S[1] = "lo"
        BY <3>2, <4>2, <4>3 DEF Paired
      <4> QED BY <4>5, <4>6, <4>7, <4>8
    <3> QED BY <3>3, <3>4
  <2>3. Joint \subseteq Units(prior)
    <3>1. CASE Splits(prior, item)
      <4>1. n \in 1..n
        BY <3>1, <1>2 DEF Splits, n
      <4>2. Len(Stream[prior[n].chunk]) \in 1..Len(Stream[prior[n].chunk])
        BY <4>1, <1>4
      <4> QED BY <4>1, <4>2, <1>3
    <3>2. CASE ~Splits(prior, item)
      BY <3>2
    <3> QED BY <3>1, <3>2
  <2>4. /\ \A p : p \in Pt <=> p \in Units(T) /\ Paired(T, p)
        /\ \A p : p \in Pd <=> p \in Units(prior) /\ Paired(prior, p)
        /\ J \subseteq 1..m
    OBVIOUS
  <2> HIDE DEF Pt, Pd, J, Joint
  <2>5. ASSUME NEW p PROVE p \in Pt <=> p \in (Pd \union ({n + 1} \X J)) \union Joint
    <3>1. p \in {n + 1} \X J <=> \E j \in J : p = <<n + 1, j>>
      OBVIOUS
    <3>2. CASE p \in Units(prior)
      <4>1. p \in Units(T) /\ p \notin {n + 1} \X J
        BY <3>1, <3>2, <1>3, <1>6
      <4> QED BY <3>2, <4>1, <2>2, <2>4
    <3>3. CASE p \notin Units(prior)
      <4>1. p \notin Pd /\ p \notin Joint
        BY <3>3, <2>3, <2>4
      <4>2. p \in Units(T) <=> \E j \in 1..m : p = <<n + 1, j>>
        BY <3>3, <1>3
      <4> QED BY <3>1, <4>1, <4>2, <2>1, <2>4
    <3> QED BY <3>2, <3>3
  <2> QED BY <2>5
<1>11. /\ Units(prior) \intersect ({n + 1} \X (1..m)) = {}
       /\ Halves(prior) \intersect ({n + 1} \X H) = {}
       /\ Pd \intersect ({n + 1} \X J) = {}
       /\ (Pd \union ({n + 1} \X J)) \intersect Joint = {}
  <2>1. Halves(prior) \subseteq Units(prior) /\ Pd \subseteq Units(prior)
    BY DEF Halves
  <2>2. ASSUME NEW p \in Joint PROVE p \notin Pd /\ \A j : p # <<n + 1, j>>
    <3>1. p = <<n, Len(Stream[prior[n].chunk])>> /\ Splits(prior, item)
      OBVIOUS
    <3>2. n >= 1
      BY <3>1, <1>2 DEF Splits, n
    <3>3. NextUnit(prior, p) = <<n + 1, 1>>
      BY <3>1, <3>2, <1>2, <1>4 DEF NextUnit
    <3>4. p \notin Pd
      BY <3>3, <1>6 DEF Paired
    <3> QED BY <3>1, <3>4, <1>2
  <2> HIDE DEF Pd, Joint, H, J
  <2> QED BY <1>6, <2>1, <2>2
<1>12. /\ IsFiniteSet(1..m) /\ IsFiniteSet(H) /\ IsFiniteSet(J)
  <2>1. IsFiniteSet(1..m)
    BY <1>1, FS_Interval
  <2>2. H \in SUBSET (1..m) /\ J \in SUBSET (1..m)
    OBVIOUS
  <2> HIDE DEF H, J
  <2> QED BY <2>1, <2>2, FS_Subset
<1>13. IsFiniteSet(Joint) /\ Cardinality(Joint) = IF Splits(prior, item) THEN 1 ELSE 0
  BY FS_Singleton, FS_EmptySet
<1>14. EncodedParts(prior)
  BY EncodedIsNat
<1>15. /\ Cardinality(Units(T)) = Cardinality(Units(prior)) + Cardinality(1..m)
       /\ Cardinality(Units(one)) = Cardinality(1..m) /\ Cardinality(1..m) \in Nat
  <2>1. IsFiniteSet(Units(prior))
    BY <1>14 DEF EncodedParts
  <2>2. /\ IsFiniteSet({n + 1} \X (1..m)) /\ Cardinality({n + 1} \X (1..m)) = Cardinality(1..m)
        /\ Cardinality({1} \X (1..m)) = Cardinality(1..m)
    BY <1>12, Column
  <2>3. Cardinality(Units(prior) \union ({n + 1} \X (1..m))) = Cardinality(Units(prior)) + Cardinality({n + 1} \X (1..m))
    BY <2>1, <2>2, <1>11, DisjointUnion
  <2> QED BY <2>2, <2>3, <1>5, <1>12, FS_CardinalityType
<1>16. /\ Cardinality(Halves(T)) = Cardinality(Halves(prior)) + Cardinality(H)
       /\ Cardinality(Halves(one)) = Cardinality(H) /\ Cardinality(H) \in Nat
  <2> HIDE DEF H
  <2>1. IsFiniteSet(Halves(prior))
    BY <1>14 DEF EncodedParts
  <2>2. /\ IsFiniteSet({n + 1} \X H) /\ Cardinality({n + 1} \X H) = Cardinality(H)
        /\ Cardinality({1} \X H) = Cardinality(H)
    BY <1>12, Column
  <2>3. Cardinality(Halves(prior) \union ({n + 1} \X H)) = Cardinality(Halves(prior)) + Cardinality({n + 1} \X H)
    BY <2>1, <2>2, <1>11, DisjointUnion
  <2> QED BY <2>2, <2>3, <1>8, <1>12, FS_CardinalityType
<1>17. /\ Cardinality(Pt) = Cardinality(Pd) + Cardinality(J) + Cardinality(Joint)
       /\ Cardinality(Po) = Cardinality(J) /\ Cardinality(J) \in Nat
       /\ Cardinality(Pd) \in Nat /\ Cardinality(Joint) \in Nat
  <2>1. IsFiniteSet(Pd)
    BY <1>14 DEF EncodedParts
  <2> HIDE DEF Pt, Pd, Po, J, Joint
  <2>2. IsFiniteSet({n + 1} \X J) /\ Cardinality({n + 1} \X J) = Cardinality(J)
        /\ Cardinality({1} \X J) = Cardinality(J)
    BY <1>12, Column
  <2>3. /\ IsFiniteSet(Pd \union ({n + 1} \X J))
        /\ Cardinality(Pd \union ({n + 1} \X J)) = Cardinality(Pd) + Cardinality(J)
        /\ Cardinality(Pd) \in Nat /\ Cardinality(J) \in Nat
    <3>1. Pd \intersect ({n + 1} \X J) = {}
      BY <1>11
    <3>2. /\ IsFiniteSet(Pd \union ({n + 1} \X J))
          /\ Cardinality(Pd \union ({n + 1} \X J)) = Cardinality(Pd) + Cardinality({n + 1} \X J)
          /\ Cardinality(Pd) \in Nat /\ Cardinality({n + 1} \X J) \in Nat
      BY <2>1, <2>2, <3>1, DisjointUnion
    <3> QED BY <2>2, <3>2
  <2>4. /\ Cardinality(Pt) = Cardinality(Pd \union ({n + 1} \X J)) + Cardinality(Joint)
        /\ Cardinality(Joint) \in Nat
    BY <2>3, <1>10, <1>11, <1>13, DisjointUnion
  <2> QED BY <2>2, <2>3, <2>4, <1>9
<1>18. /\ Encoded(T) = Cardinality(Units(T)) + 2 * Cardinality(Halves(T)) - 2 * Cardinality(Pt)
       /\ Encoded(prior) = Cardinality(Units(prior)) + 2 * Cardinality(Halves(prior)) - 2 * Cardinality(Pd)
       /\ Encoded(one) = Cardinality(Units(one)) + 2 * Cardinality(Halves(one)) - 2 * Cardinality(Po)
  BY DEF Encoded
<1>19. Cardinality(Units(prior)) \in Nat /\ Cardinality(Halves(prior)) \in Nat
  BY <1>14 DEF EncodedParts
<1> HIDE DEF Pt, Pd, Po, H, J, Joint
<1>20. Encoded(T) = Encoded(prior) + Encoded(one) - 2 * Cardinality(Joint)
  <2> DEFINE a == Cardinality(Units(prior))
             b == Cardinality(1..m)
             c == Cardinality(Halves(prior))
             d == Cardinality(H)
             e == Cardinality(Pd)
             f == Cardinality(J)
             g == Cardinality(Joint)
  <2>1. /\ a \in Nat /\ b \in Nat /\ c \in Nat /\ d \in Nat
        /\ e \in Nat /\ f \in Nat /\ g \in Nat
    BY <1>15, <1>16, <1>17, <1>19
  <2>2. Encoded(T) = (a + b) + 2 * (c + d) - 2 * (e + f + g)
    BY <1>15, <1>16, <1>17, <1>18
  <2>3. Encoded(prior) = a + 2 * c - 2 * e
    BY <1>18
  <2>4. Encoded(one) = b + 2 * d - 2 * f
    <3>1. /\ Cardinality(Units(one)) = b /\ Cardinality(Halves(one)) = d
          /\ Cardinality(Po) = f
      BY <1>15, <1>16, <1>17
    <3> HIDE DEF a, b, c, d, e, f, g
    <3> QED BY <3>1, <1>18
  <2> HIDE DEF a, b, c, d, e, f, g
  <2>5. Encoded(T) = (a + 2 * c - 2 * e) + (b + 2 * d - 2 * f) - 2 * g
    BY <2>1, <2>2
  <2>6. Encoded(T) = Encoded(prior) + Encoded(one) - 2 * g
    BY <2>3, <2>4, <2>5
  <2> QED BY <2>6 DEF g
<1>21. Encoded(prior) \in Nat /\ Encoded(one) \in Nat
  BY <1>2, <1>14, EncodedIsNat DEF EncodedParts
<1> HIDE DEF T, one
<1>22. CASE Splits(prior, item)
  <2>1. Cardinality(Joint) = 1
    BY <1>13, <1>22
  <2>2. Encoded(T) = Encoded(prior) + Encoded(one) - 2
    BY <2>1, <1>20, <1>21
  <2> QED BY <2>2, <1>22 DEF T, one
<1>23. CASE ~Splits(prior, item)
  <2>1. Cardinality(Joint) = 0
    BY <1>13, <1>23
  <2>2. Encoded(T) = Encoded(prior) + Encoded(one)
    BY <2>1, <1>20, <1>21
  <2> QED BY <2>2, <1>21, <1>23 DEF T, one
<1> QED BY <1>22, <1>23

-----------------------------------------------------------------------------
(* The sets of turns, kept in the order of their insertion.                *)

Turn == Loops \X Nat

\* One turn of a loop.
OnePerLoop(set) == \A m, n \in DOMAIN set : set[m][1] = set[n][1] => m = n

LEMMA RemoveAtIs ==
    ASSUME NEW S, NEW box \in Seq(S), NEW p \in 1..Len(box)
    PROVE  /\ RemoveAt(box, p) \in Seq(S) /\ Len(RemoveAt(box, p)) = Len(box) - 1
           /\ \A j \in 1..(Len(box) - 1) :
                RemoveAt(box, p)[j] = IF j < p THEN box[j] ELSE box[j + 1]
<1> DEFINE a == SubSeq(box, 1, p - 1)
           b == SubSeq(box, p + 1, Len(box))
<1>1. /\ a \in Seq(S) /\ Len(a) = p - 1 /\ \A j \in 1..(p - 1) : a[j] = box[j]
  BY SubSeqProperties
<1>2. /\ b \in Seq(S) /\ Len(b) = Len(box) - p /\ \A j \in 1..(Len(box) - p) : b[j] = box[p + j]
  BY SubSeqProperties
<1> HIDE DEF a, b
<1>3. /\ a \o b \in Seq(S) /\ Len(a \o b) = Len(box) - 1
      /\ \A j \in 1..(Len(box) - 1) : (a \o b)[j] = IF j <= p - 1 THEN a[j] ELSE b[j - (p - 1)]
  BY <1>1, <1>2, ConcatProperties
<1>4. ASSUME NEW j \in 1..(Len(box) - 1)
      PROVE  (a \o b)[j] = IF j < p THEN box[j] ELSE box[j + 1]
  <2>1. CASE j < p
    BY <2>1, <1>1, <1>3
  <2>2. CASE ~(j < p)
    <3>1. j - (p - 1) \in 1..(Len(box) - p) /\ p + (j - (p - 1)) = j + 1
      BY <2>2
    <3> QED BY <2>2, <3>1, <1>2, <1>3
  <2> QED BY <2>1, <2>2
<1>5. RemoveAt(box, p) = a \o b
  BY DEF RemoveAt, a, b
<1> QED BY <1>3, <1>4, <1>5

LEMMA OtherLoopsAre ==
    ASSUME NEW set \in Seq(Turn), NEW l
    PROVE  /\ OtherLoops(set, l) \in Seq(Turn)
           /\ \A k : k \in ToSet(OtherLoops(set, l)) <=> k \in ToSet(set) /\ k[1] # l
           /\ OnePerLoop(set) => OnePerLoop(OtherLoops(set, l))
<1> DEFINE others == {i \in DOMAIN set : set[i][1] # l}
           C == Cardinality(others)
           upto(i) == {j \in others : j <= i}
           nth(n) == CHOOSE i \in others : Cardinality({j \in others : j <= i}) = n
           rank == [i \in others |-> Cardinality(upto(i))]
           R == OtherLoops(set, l)
<1>1. others \in SUBSET (1..Len(set)) /\ Len(set) \in Nat
  OBVIOUS
<1>2. IsFiniteSet(others) /\ C \in Nat
  <2>1. IsFiniteSet(1..Len(set))
    BY <1>1, FS_Interval
  <2> HIDE DEF others
  <2> QED BY <2>1, <1>1, FS_Subset, FS_CardinalityType
<1>3. ASSUME NEW i \in others
      PROVE  IsFiniteSet(upto(i)) /\ Cardinality(upto(i)) \in 1..C /\ i \in upto(i)
  <2>1. upto(i) \in SUBSET others /\ i \in upto(i)
    BY <1>1
  <2>2. IsFiniteSet(upto(i)) /\ Cardinality(upto(i)) <= C /\ Cardinality(upto(i)) \in Nat
    <3> HIDE DEF upto, others
    <3> QED BY <2>1, <1>2, FS_Subset, FS_CardinalityType
  <2>3. Cardinality(upto(i)) # 0
    <3> HIDE DEF upto, others
    <3> QED BY <2>1, <2>2, FS_EmptySet
  <2> HIDE DEF upto, others
  <2> QED BY <1>2, <2>1, <2>2, <2>3
<1>4. ASSUME NEW i \in others, NEW j \in others, i < j
      PROVE  Cardinality(upto(i)) < Cardinality(upto(j))
  <2>1. upto(i) \in SUBSET (upto(j) \ {j})
    BY <1>1, <1>4
  <2>2. IsFiniteSet(upto(j) \ {j}) /\ Cardinality(upto(j) \ {j}) = Cardinality(upto(j)) - 1
    <3> HIDE DEF upto, others
    <3> QED BY <1>3, FS_RemoveElement
  <2>3. Cardinality(upto(i)) <= Cardinality(upto(j)) - 1
    <3> HIDE DEF upto, others
    <3> QED BY <2>1, <2>2, FS_Subset
  <2>4. Cardinality(upto(i)) \in Nat /\ Cardinality(upto(j)) \in Nat
    <3> HIDE DEF upto, others
    <3> QED BY <1>2, <1>3
  <2> HIDE DEF upto
  <2> QED BY <2>3, <2>4
<1>5. rank \in [others -> 1..C] /\ \A i, j \in others : rank[i] = rank[j] => i = j
  <2>1. rank \in [others -> 1..C]
    <3> HIDE DEF upto, others, C
    <3> QED BY <1>3
  <2>2. ASSUME NEW i \in others, NEW j \in others, rank[i] = rank[j] PROVE i = j
    <3>1. i \in Nat /\ j \in Nat
      BY <1>1
    <3>2. rank[i] = Cardinality(upto(i)) /\ rank[j] = Cardinality(upto(j))
      OBVIOUS
    <3>3. Cardinality(upto(i)) \in 1..C /\ Cardinality(upto(j)) \in 1..C
      BY <1>3
    <3> HIDE DEF upto, others, rank, C
    <3>4. Cardinality(upto(i)) = Cardinality(upto(j)) /\ Cardinality(upto(j)) \in Int
      <4>1. Cardinality(upto(i)) = Cardinality(upto(j))
        BY <2>2, <3>2
      <4>2. C \in Int
        BY <1>2
      <4>3. 1..C \subseteq Int
        BY <4>2
      <4> QED BY <3>3, <4>1, <4>3
    <3>5. ~(i < j)
      <4>1. i < j => Cardinality(upto(i)) < Cardinality(upto(j))
        BY <1>4
      <4> QED BY <3>4, <4>1
    <3>6. ~(j < i)
      <4>1. j < i => Cardinality(upto(j)) < Cardinality(upto(i))
        BY <1>4
      <4> QED BY <3>4, <4>1
    <3> QED BY <3>1, <3>5, <3>6
  <2> QED BY <2>1, <2>2
<1>6. \A n \in 1..C : \E i \in others : rank[i] = n
  <2> DEFINE I == 1..C
  <2>1. IsFiniteSet(I) /\ Cardinality(I) = C
    BY <1>2, FS_Interval
  <2> HIDE DEF rank, others
  <2>2. rank \in Injection(others, I)
    BY <1>5 DEF Injection, IsInjective
  <2>3. rank \in Surjection(others, I)
    <3> HIDE DEF I
    <3> QED BY <2>1, <2>2, FS_Injection
  <2> QED BY <2>3 DEF Surjection
<1>7. ASSUME NEW n \in 1..C PROVE nth(n) \in others /\ rank[nth(n)] = n
  <2>1. \E i \in others : Cardinality({j \in others : j <= i}) = n
    BY <1>6
  <2>2. nth(n) \in others /\ Cardinality({j \in others : j <= nth(n)}) = n
    <3> HIDE DEF others
    <3> QED BY <2>1
  <2> QED BY <2>2
<1>8. R = [n \in 1..C |-> set[nth(n)]]
  BY DEF OtherLoops
<1> HIDE DEF R, nth, rank
<1>9. \A i \in others : set[i] \in Turn /\ set[i][1] # l /\ i \in DOMAIN set
  OBVIOUS
<1>10. /\ R \in Seq(Turn) /\ Len(R) = C /\ DOMAIN R = 1..C
       /\ \A n \in 1..C : R[n] = set[nth(n)]
  <2> HIDE DEF others, C
  <2>1. \A n \in 1..C : set[nth(n)] \in Turn
    BY <1>7, <1>9
  <2>2. R \in [1..C -> Turn]
    BY <1>8, <2>1
  <2>3. R \in Seq(Turn) /\ Len(R) = C
    BY <1>2, <2>2
  <2> QED BY <1>8, <2>3
<1>11. ASSUME NEW k PROVE k \in ToSet(R) <=> k \in ToSet(set) /\ k[1] # l
  <2>1. ASSUME k \in ToSet(R) PROVE k \in ToSet(set) /\ k[1] # l
    <3>1. PICK n \in 1..C : k = set[nth(n)]
      BY <2>1, <1>10 DEF ToSet
    <3> HIDE DEF others, C
    <3> QED BY <3>1, <1>7, <1>9 DEF ToSet
  <2>2. ASSUME k \in ToSet(set), k[1] # l PROVE k \in ToSet(R)
    <3>1. PICK i \in DOMAIN set : k = set[i]
      BY <2>2 DEF ToSet
    <3>2. i \in others
      BY <2>2, <3>1
    <3> HIDE DEF others, C
    <3>3. rank[i] \in 1..C
      BY <3>2, <1>5
    <3>4. nth(rank[i]) = i
      BY <3>2, <3>3, <1>5, <1>7
    <3>5. R[rank[i]] = k /\ rank[i] \in DOMAIN R
      BY <3>1, <3>3, <3>4, <1>10
    <3> QED BY <3>5 DEF ToSet
  <2> QED BY <2>1, <2>2
<1>12. ASSUME OnePerLoop(set) PROVE OnePerLoop(R)
  <2> SUFFICES ASSUME NEW m \in 1..C, NEW n \in 1..C, R[m][1] = R[n][1] PROVE m = n
    BY <1>10 DEF OnePerLoop
  <2> HIDE DEF others, C
  <2>1. nth(m) = nth(n)
    BY <1>7, <1>9, <1>10, <1>12 DEF OnePerLoop
  <2> QED BY <2>1, <1>7
<1> QED BY <1>10, <1>11, <1>12 DEF R

Grown(set, key) == IF Contains(set, key) THEN set ELSE Append(set, key)

LEMMA GrownIs ==
    ASSUME NEW set \in Seq(Turn), NEW key \in Turn
    PROVE  /\ Grown(set, key) \in Seq(Turn)
           /\ ToSet(Grown(set, key)) = ToSet(set) \union {key}
           /\ (\A k \in ToSet(set) : k[1] # key[1]) /\ OnePerLoop(set) => OnePerLoop(Grown(set, key))
<1>1. CASE Contains(set, key)
  <2>1. key \in ToSet(set)
    BY <1>1 DEF Contains, ToSet
  <2> QED BY <1>1, <2>1 DEF Grown
<1>2. CASE ~Contains(set, key)
  <2> DEFINE G == Append(set, key)
  <2>1. /\ G \in Seq(Turn) /\ Len(G) = Len(set) + 1 /\ G[Len(set) + 1] = key
        /\ \A i \in 1..Len(set) : G[i] = set[i]
    OBVIOUS
  <2>2. DOMAIN G = 1..(Len(set) + 1) /\ DOMAIN set = 1..Len(set) /\ Len(set) \in Nat
    BY <2>1
  <2>3. Grown(set, key) = G
    BY <1>2 DEF Grown
  <2> HIDE DEF G
  <2>4. ToSet(G) = ToSet(set) \union {key}
    <3>1. ASSUME NEW k PROVE k \in ToSet(G) <=> k \in ToSet(set) \union {key}
      <4>1. \A i : i \in 1..(Len(set) + 1) <=> i \in 1..Len(set) \/ i = Len(set) + 1
        BY <2>2
      <4> QED BY <4>1, <2>1, <2>2 DEF ToSet
    <3> QED BY <3>1
  <2>5. ASSUME \A k \in ToSet(set) : k[1] # key[1], OnePerLoop(set) PROVE OnePerLoop(G)
    <3> SUFFICES ASSUME NEW m \in 1..(Len(set) + 1), NEW n \in 1..(Len(set) + 1), G[m][1] = G[n][1]
                 PROVE  m = n
      BY <2>2 DEF OnePerLoop
    <3>1. \A i \in 1..Len(set) : G[i][1] # key[1]
      BY <2>1, <2>2, <2>5 DEF ToSet
    <3>2. CASE m \in 1..Len(set) /\ n \in 1..Len(set)
      BY <3>2, <2>1, <2>2, <2>5 DEF OnePerLoop
    <3>3. CASE m = Len(set) + 1 \/ n = Len(set) + 1
      BY <3>1, <3>3, <2>1, <2>2
    <3> QED BY <3>2, <3>3, <2>2
  <2> QED BY <2>1, <2>3, <2>4, <2>5
<1> QED BY <1>1, <1>2

LEMMA RememberIs ==
    ASSUME NEW set \in Seq(Turn), NEW key \in Turn, NEW bound, NEW shown
    PROVE  /\ Remember(set, key, bound, shown) \in Seq(Turn)
           /\ ToSet(Remember(set, key, bound, shown)) \subseteq ToSet(set) \union {key}
           /\ (ToSet(set) \union {key}) \intersect shown \subseteq ToSet(Remember(set, key, bound, shown))
           /\ ~(Len(Grown(set, key)) > bound) => Remember(set, key, bound, shown) = Grown(set, key)
           /\ OnePerLoop(Grown(set, key)) => OnePerLoop(Remember(set, key, bound, shown))
<1> DEFINE G == Grown(set, key)
           loose == {i \in DOMAIN G : G[i] \notin shown}
           R == Remember(set, key, bound, shown)
<1>1. G \in Seq(Turn) /\ ToSet(G) = ToSet(set) \union {key}
  BY GrownIs
<1>2. R = IF Len(G) > bound /\ loose # {} THEN RemoveAt(G, Min(loose)) ELSE G
  BY DEF Remember, Grown
<1> HIDE DEF R, G
<1>3. CASE Len(G) > bound /\ loose # {}
  <2> DEFINE p == Min(loose)
             n == Len(G) - 1
  <2>1. p \in loose
    <3>1. loose \in SUBSET Nat
      BY <1>1
    <3> HIDE DEF loose
    <3>2. \E x \in loose : \A y \in loose : x =< y
      BY <1>3, <3>1, LeastSequence
    <3> QED BY <3>2 DEF Min
  <2> HIDE DEF p
  <2>2. p \in 1..Len(G) /\ G[p] \notin shown
    BY <1>1, <2>1
  <2>3. /\ R \in Seq(Turn) /\ Len(R) = n
        /\ \A j \in 1..n : R[j] = IF j < p THEN G[j] ELSE G[j + 1]
    <3>1. R = RemoveAt(G, p)
      BY <1>2, <1>3 DEF p
    <3> QED BY <3>1, <2>2, <1>1, RemoveAtIs
  <2>4. DOMAIN R = 1..n /\ DOMAIN G = 1..(n + 1) /\ n \in Nat
    BY <2>2, <2>3, <1>1
  <2> HIDE DEF n
  <2>5. \A j \in 1..n : (IF j < p THEN j ELSE j + 1) \in 1..(n + 1)
    BY <2>4
  <2>6. ASSUME NEW k \in ToSet(R) PROVE k \in ToSet(G)
    <3>1. PICK j \in 1..n : k = R[j]
      BY <2>4 DEF ToSet
    <3> QED BY <3>1, <2>3, <2>4, <2>5 DEF ToSet
  <2>7. ASSUME NEW k \in ToSet(G), k \in shown PROVE k \in ToSet(R)
    <3>1. PICK j \in 1..(n + 1) : k = G[j]
      BY <2>4 DEF ToSet
    <3>2. j # p
      BY <2>2, <2>7, <3>1
    <3>3. CASE j < p
      <4>1. j \in 1..n /\ R[j] = k
        BY <3>1, <3>3, <2>2, <2>3, <2>4 DEF n
      <4> QED BY <4>1, <2>4 DEF ToSet
    <3>4. CASE j > p
      <4>1. j - 1 \in 1..n /\ ~(j - 1 < p) /\ (j - 1) + 1 = j
        BY <3>1, <3>4, <2>2, <2>4
      <4>2. R[j - 1] = k
        BY <4>1, <3>1, <2>3
      <4> QED BY <4>1, <4>2, <2>4 DEF ToSet
    <3> QED BY <3>2, <3>3, <3>4, <2>2, <2>4
  <2>8. ASSUME OnePerLoop(G) PROVE OnePerLoop(R)
    <3> SUFFICES ASSUME NEW i \in 1..n, NEW j \in 1..n, R[i][1] = R[j][1] PROVE i = j
      BY <2>4 DEF OnePerLoop
    <3> DEFINE at(q) == IF q < p THEN q ELSE q + 1
    <3>1. at(i) \in DOMAIN G /\ at(j) \in DOMAIN G /\ R[i] = G[at(i)] /\ R[j] = G[at(j)]
      BY <2>3, <2>4, <2>5
    <3>2. at(i) = at(j)
      <4> HIDE DEF at
      <4> QED BY <3>1, <2>8 DEF OnePerLoop
    <3> QED BY <3>2, <2>2, <2>4
  <2> QED BY <1>1, <1>3, <2>3, <2>6, <2>7, <2>8 DEF R, G
<1>4. CASE ~(Len(G) > bound /\ loose # {})
  <2>1. R = G
    BY <1>2, <1>4
  <2> QED BY <2>1, <1>1 DEF R, G
<1> QED BY <1>3, <1>4

\* One turn of each loop is no more than the loops.
LEMMA OnePerLoopIsFew ==
    ASSUME NEW set \in Seq(Turn), OnePerLoop(set)
    PROVE  Len(set) <= Cardinality(Loops)
<1> DEFINE f == [i \in DOMAIN set |-> set[i][1]]
<1>1. IsFiniteSet(Loops)
  BY LiveTextAssumption
<1>2. f \in [DOMAIN set -> Loops]
  BY DEF Turn
<1>3. \A i, j \in DOMAIN set : f[i] = f[j] => i = j
  BY DEF OnePerLoop
<1>4. f \in Injection(DOMAIN set, Loops)
  <2> HIDE DEF f
  <2> QED BY <1>2, <1>3 DEF Injection, IsInjective
<1>5. Cardinality(DOMAIN set) <= Cardinality(Loops)
  <2> HIDE DEF f
  <2> QED BY <1>1, <1>4, FS_Injection
<1> HIDE DEF f
<1> DEFINE D == DOMAIN set
           n == Len(set)
<1>6. n \in Nat /\ D = 1..n
  OBVIOUS
<1>7. Cardinality(D) <= Cardinality(Loops)
  BY <1>5
<1> HIDE DEF D, n
<1>8. Cardinality(1..n) = n
  <2>1. \A a, b \in Int : Cardinality(a..b) = IF a > b THEN 0 ELSE b - a + 1
    BY FS_Interval
  <2> QED BY <2>1, <1>6
<1>9. n <= Cardinality(Loops)
  BY <1>6, <1>7, <1>8
<1> QED BY <1>9 DEF n

-----------------------------------------------------------------------------
(* What is published and not handled yet.                                  *)

Deltas == [type : {"TokenDelta"}, key : Turn, step : Nat, chunk : DOMAIN Stream, sound : BOOLEAN]
TurnRecords == [type : {"TurnStarted", "StepDone", "TurnEnd"}, key : Turn, step : Nat,
                chunk : {0}, sound : {TRUE}]
SessionRecords == [type : {"SessionStopped", "RestoreDone"}, key : {<<>>}, step : Nat,
                   chunk : {0}, sound : {TRUE}]
Items == Deltas \union TurnRecords \union SessionRecords
Progress == [running : BOOLEAN, turn : Nat, step : Nat, chunk : 0..Len(Stream)]

DeltaOf(item, k) == item.type = "TokenDelta" /\ item.key = k
\* After such a record a turn's text starts anew.
Breaks(item, k) ==
    \/ item.type = "SessionStopped"
    \/ item.type = "StepDone" /\ item.key[1] = k[1]
    \/ item.type = "TurnEnd" /\ item.key = k
Concerns(item, k) == DeltaOf(item, k) \/ Breaks(item, k)

\* A turn runs, and so much of its step was streamed.
StandsAt(lp, k, s, c) == lp[k[1]].running /\ lp[k[1]].turn = k[2] /\ lp[k[1]].step = s /\ lp[k[1]].chunk = c

Clear(box, k, i, j) == \A m \in DOMAIN box : i < m /\ m < j => ~Concerns(box[m], k)

\* Past position i, what comes of a turn goes on where chunk c of step s ended,
\* until something breaks it.
Resumes(box, lp, k, s, c, i) ==
    /\ \A j \in DOMAIN box : i < j /\ Clear(box, k, i, j) /\ DeltaOf(box[j], k)
                               => box[j].step = s /\ box[j].chunk = c + 1
    /\ Clear(box, k, i, Len(box) + 1) => StandsAt(lp, k, s, c)

LEMMA AppendedItem ==
    ASSUME NEW box \in Seq(Items), NEW item \in Items
    PROVE  /\ Append(box, item) \in Seq(Items) /\ Len(Append(box, item)) = Len(box) + 1
           /\ Append(box, item)[Len(box) + 1] = item
           /\ \A i \in 1..Len(box) : Append(box, item)[i] = box[i]
           /\ DOMAIN Append(box, item) = 1..(Len(box) + 1)
           /\ DOMAIN box = 1..Len(box) /\ Len(box) \in Nat
  OBVIOUS

LEMMA ResumesAppend ==
    ASSUME NEW box \in Seq(Items), NEW item \in Items, NEW i \in 0..Len(box),
           NEW lp, NEW lp2, NEW k, NEW s, NEW c, Resumes(box, lp, k, s, c, i),
           StandsAt(lp, k, s, c) => \/ DeltaOf(item, k) /\ item.step = s /\ item.chunk = c + 1
                                    \/ ~DeltaOf(item, k) /\ (Breaks(item, k) \/ StandsAt(lp2, k, s, c))
    PROVE  Resumes(Append(box, item), lp2, k, s, c, i)
<1> DEFINE B == Append(box, item)
           n == Len(box)
<1>1. /\ B[n + 1] = item /\ \A j \in 1..n : B[j] = box[j]
      /\ DOMAIN B = 1..(n + 1) /\ DOMAIN box = 1..n /\ n \in Nat /\ Len(B) = n + 1
  BY AppendedItem
<1> HIDE DEF B, n
<1>2. ASSUME NEW j \in 1..(n + 1), Clear(B, k, i, j) PROVE Clear(box, k, i, j)
  BY <1>1, <1>2 DEF Clear
<1>3. ASSUME NEW j \in DOMAIN B, i < j, Clear(B, k, i, j), DeltaOf(B[j], k)
      PROVE  B[j].step = s /\ B[j].chunk = c + 1
  <2>1. Clear(box, k, i, j)
    BY <1>1, <1>2, <1>3
  <2>2. CASE j \in 1..n
    BY <2>1, <2>2, <1>1, <1>3 DEF Resumes
  <2>3. CASE j = n + 1
    <3>1. StandsAt(lp, k, s, c)
      BY <2>1, <2>3 DEF Resumes, n
    <3> QED BY <3>1, <2>3, <1>1, <1>3
  <2> QED BY <2>2, <2>3, <1>1
<1>4. ASSUME Clear(B, k, i, n + 2) PROVE StandsAt(lp2, k, s, c)
  <2>1. Clear(B, k, i, n + 1)
    BY <1>1, <1>4 DEF Clear
  <2>2. StandsAt(lp, k, s, c)
    <3>1. Clear(box, k, i, n + 1)
      BY <2>1, <1>1, <1>2
    <3> QED BY <3>1 DEF Resumes, n
  <2>3. ~Concerns(item, k)
    <3>1. n + 1 \in DOMAIN B /\ i < n + 1 /\ n + 1 < n + 2
      BY <1>1 DEF n
    <3> QED BY <3>1, <1>1, <1>4 DEF Clear
  <2> QED BY <2>2, <2>3 DEF Concerns
<1>5. Len(B) + 1 = n + 2
  BY <1>1
<1> QED BY <1>3, <1>4, <1>5 DEF Resumes, B

LEMMA ResumesLast ==
    ASSUME NEW box \in Seq(Items), NEW lp, NEW k, NEW s, NEW c, StandsAt(lp, k, s, c)
    PROVE  Resumes(box, lp, k, s, c, Len(box))
  BY DEF Resumes

\* The first is handled.
LEMMA ResumesShift ==
    ASSUME NEW box \in Seq(Items), box # <<>>, NEW i \in 1..Len(box),
           NEW lp, NEW k, NEW s, NEW c, Resumes(box, lp, k, s, c, i)
    PROVE  Resumes(RemoveAt(box, 1), lp, k, s, c, i - 1)
<1> DEFINE R == RemoveAt(box, 1)
           n == Len(box) - 1
<1>1. /\ R \in Seq(Items) /\ Len(R) = n /\ n \in Nat /\ Len(box) = n + 1
      /\ \A j \in 1..n : R[j] = box[j + 1]
  <2>1. 1 \in 1..Len(box)
    OBVIOUS
  <2> QED BY <2>1, RemoveAtIs
<1>2. DOMAIN R = 1..n /\ DOMAIN box = 1..(n + 1)
  BY <1>1
<1> HIDE DEF R, n
<1>3. ASSUME NEW j \in 1..(n + 1), Clear(R, k, i - 1, j) PROVE Clear(box, k, i, j + 1)
  <2> SUFFICES ASSUME NEW m \in 1..(n + 1), i < m, m < j + 1 PROVE ~Concerns(box[m], k)
    BY <1>2 DEF Clear
  <2>1. m - 1 \in 1..n /\ i - 1 < m - 1 /\ m - 1 < j /\ (m - 1) + 1 = m
    BY <1>1
  <2>2. R[m - 1] = box[m]
    BY <2>1, <1>1
  <2> QED BY <2>1, <2>2, <1>2, <1>3 DEF Clear
<1>4. ASSUME NEW j \in DOMAIN R, i - 1 < j, Clear(R, k, i - 1, j), DeltaOf(R[j], k)
      PROVE  R[j].step = s /\ R[j].chunk = c + 1
  <2>1. j \in 1..n /\ j + 1 \in DOMAIN box /\ i < j + 1 /\ R[j] = box[j + 1]
    BY <1>1, <1>2, <1>4
  <2>2. Clear(box, k, i, j + 1)
    BY <2>1, <1>1, <1>3, <1>4
  <2> QED BY <2>1, <2>2, <1>4 DEF Resumes
<1>5. ASSUME Clear(R, k, i - 1, n + 1) PROVE StandsAt(lp, k, s, c)
  <2>1. Clear(box, k, i, n + 2)
    BY <1>1, <1>3, <1>5
  <2> QED BY <2>1, <1>1 DEF Resumes
<1> QED BY <1>1, <1>4, <1>5 DEF Resumes, R

\* The first is of another turn.
LEMMA ResumesSkip ==
    ASSUME NEW box \in Seq(Items), box # <<>>,
           NEW lp, NEW k, NEW s, NEW c, Resumes(box, lp, k, s, c, 0), ~Concerns(box[1], k)
    PROVE  Resumes(box, lp, k, s, c, 1)
<1>1. DOMAIN box = 1..Len(box) /\ Len(box) \in Nat
  OBVIOUS
<1>2. ASSUME NEW j, Clear(box, k, 1, j) PROVE Clear(box, k, 0, j)
  <2> SUFFICES ASSUME NEW m \in 1..Len(box), m < j PROVE ~Concerns(box[m], k)
    BY <1>1 DEF Clear
  <2>1. CASE m = 1
    BY <2>1
  <2>2. CASE m > 1
    BY <2>2, <1>1, <1>2 DEF Clear
  <2> QED BY <2>1, <2>2, <1>1
<1>3. \A j \in DOMAIN box : 1 < j => 0 < j
  BY <1>1
<1> QED BY <1>2, <1>3 DEF Resumes

-----------------------------------------------------------------------------
(* A turn ends once before its loop starts another.                        *)

Ends(item, l) == item.type = "TurnEnd" /\ item.key[1] = l
Starts(item, l) == item.type = "TurnStarted" /\ item.key[1] = l
\* At position 0, what is remembered.
Told(box, set, l, i) == IF i = 0 THEN \E k \in ToSet(set) : k[1] = l ELSE Ends(box[i], l)
StartsBetween(box, l, i, j) == \E m \in DOMAIN box : i < m /\ m < j /\ Starts(box[m], l)

EndsOnce(box, set, lp) ==
    \A l \in Loops : \A i \in 0..Len(box) : Told(box, set, l, i) =>
      /\ \A j \in DOMAIN box : i < j /\ Ends(box[j], l) => StartsBetween(box, l, i, j)
      /\ lp[l].running => StartsBetween(box, l, i, Len(box) + 1)

LEMMA EndsOnceAppend ==
    ASSUME NEW box \in Seq(Items), NEW item \in Items, NEW set, NEW lp, NEW lp2, EndsOnce(box, set, lp),
           \A l \in Loops : /\ Ends(item, l) => lp[l].running /\ ~lp2[l].running
                            /\ lp2[l].running => lp[l].running \/ Starts(item, l)
    PROVE  EndsOnce(Append(box, item), set, lp2)
<1> DEFINE B == Append(box, item)
           n == Len(box)
<1>1. /\ B[n + 1] = item /\ \A j \in 1..n : B[j] = box[j]
      /\ DOMAIN B = 1..(n + 1) /\ DOMAIN box = 1..n /\ n \in Nat /\ Len(B) = n + 1
  BY AppendedItem
<1> HIDE DEF B, n
<1> SUFFICES ASSUME NEW l \in Loops, NEW i \in 0..(n + 1), Told(B, set, l, i)
             PROVE  /\ \A j \in 1..(n + 1) : i < j /\ Ends(B[j], l) => StartsBetween(B, l, i, j)
                    /\ lp2[l].running => StartsBetween(B, l, i, n + 2)
  <2>1. Len(B) + 1 = n + 2
    BY <1>1
  <2> QED BY <2>1, <1>1 DEF EndsOnce, B
<1>2. ASSUME NEW j \in 1..(n + 2), StartsBetween(box, l, i, j) PROVE StartsBetween(B, l, i, j)
  BY <1>1, <1>2 DEF StartsBetween
<1>3. CASE i \in 0..n
  <2>1. Told(box, set, l, i)
    BY <1>1, <1>3 DEF Told
  <2>2. /\ \A j \in 1..n : i < j /\ Ends(box[j], l) => StartsBetween(box, l, i, j)
        /\ lp[l].running => StartsBetween(box, l, i, n + 1)
    BY <2>1, <1>1, <1>3 DEF EndsOnce, n
  <2>3. ASSUME NEW j \in 1..(n + 1), i < j, Ends(B[j], l) PROVE StartsBetween(B, l, i, j)
    <3>1. CASE j \in 1..n
      BY <3>1, <2>2, <2>3, <1>1, <1>2
    <3>2. CASE j = n + 1
      BY <3>2, <2>2, <2>3, <1>1, <1>2
    <3> QED BY <3>1, <3>2, <1>1
  <2>4. ASSUME lp2[l].running PROVE StartsBetween(B, l, i, n + 2)
    <3>1. CASE lp[l].running
      <4>1. StartsBetween(B, l, i, n + 1)
        BY <3>1, <2>2, <1>1, <1>2
      <4> QED BY <4>1, <1>1 DEF StartsBetween
    <3>2. CASE Starts(item, l)
      <4>1. n + 1 \in DOMAIN B /\ i < n + 1 /\ n + 1 < n + 2 /\ Starts(B[n + 1], l)
        BY <3>2, <1>1, <1>3
      <4> QED BY <4>1 DEF StartsBetween
    <3> QED BY <2>4, <3>1, <3>2
  <2> QED BY <2>3, <2>4
<1>4. CASE i = n + 1
  <2>1. Ends(item, l)
    BY <1>1, <1>4 DEF Told
  <2>2. ~lp2[l].running
    BY <2>1
  <2>3. \A j \in 1..(n + 1) : ~(i < j)
    BY <1>1, <1>4
  <2> QED BY <2>2, <2>3
<1> QED BY <1>1, <1>3, <1>4

LEMMA EndsOnceRemove ==
    ASSUME NEW box \in Seq(Items), NEW p \in 1..Len(box), NEW set, NEW set2, NEW lp, EndsOnce(box, set, lp),
           \A j \in 1..Len(box) : j < p => box[j].type = "TokenDelta",
           \A l \in Loops : (\E k \in ToSet(set2) : k[1] = l) =>
              \/ (\E k \in ToSet(set) : k[1] = l) /\ ~Starts(box[p], l)
              \/ Ends(box[p], l)
    PROVE  EndsOnce(RemoveAt(box, p), set2, lp)
<1> DEFINE R == RemoveAt(box, p)
           n == Len(box) - 1
<1>1. /\ R \in Seq(Items) /\ Len(R) = n /\ n \in Nat /\ Len(box) = n + 1
      /\ \A j \in 1..n : R[j] = IF j < p THEN box[j] ELSE box[j + 1]
  BY RemoveAtIs
<1>2. DOMAIN R = 1..n /\ DOMAIN box = 1..(n + 1) /\ p \in 1..(n + 1)
  BY <1>1
<1> HIDE DEF R, n
<1>3. ASSUME NEW l, NEW j \in 1..n, Ends(R[j], l) \/ Starts(R[j], l)
      PROVE  p <= j /\ R[j] = box[j + 1] /\ j + 1 \in 1..(n + 1)
  BY <1>1, <1>2, <1>3 DEF Ends, Starts
<1> SUFFICES ASSUME NEW l \in Loops, NEW i \in 0..n, Told(R, set2, l, i)
             PROVE  /\ \A j \in 1..n : i < j /\ Ends(R[j], l) => StartsBetween(R, l, i, j)
                    /\ lp[l].running => StartsBetween(R, l, i, n + 1)
  BY <1>1, <1>2 DEF EndsOnce, R
\* Where that was told before.
<1>4. PICK o \in 0..(n + 1) :
        /\ Told(box, set, l, o) /\ (o <= i + 1 \/ o = p)
        /\ \A m \in 1..(n + 1) : o < m /\ Starts(box[m], l) => p < m /\ i < m - 1
  <2>1. CASE i = 0
    <3>1. \E k \in ToSet(set2) : k[1] = l
      BY <2>1 DEF Told
    <3>2. CASE (\E k \in ToSet(set) : k[1] = l) /\ ~Starts(box[p], l)
      <4>1. Told(box, set, l, 0)
        BY <3>2 DEF Told
      <4>2. ASSUME NEW m \in 1..(n + 1), Starts(box[m], l) PROVE p < m /\ i < m - 1
        <5>1. m # p
          BY <3>2, <4>2
        <5>2. ~(m < p)
          BY <4>2, <1>1 DEF Starts
        <5> QED BY <5>1, <5>2, <2>1, <1>2
      <4> QED BY <4>1, <4>2, <2>1, <1>1, <1>2
    <3>3. CASE Ends(box[p], l)
      <4>1. Told(box, set, l, p)
        BY <3>3, <1>2 DEF Told
      <4>2. ASSUME NEW m \in 1..(n + 1), p < m PROVE i < m - 1
        BY <4>2, <2>1, <1>2
      <4> QED BY <4>1, <4>2, <1>2
    <3> QED BY <3>1, <3>2, <3>3
  <2>2. CASE i # 0
    <3>1. i \in 1..n /\ Ends(R[i], l)
      BY <2>2, <1>1 DEF Told
    <3>2. p <= i /\ R[i] = box[i + 1] /\ i + 1 \in 1..(n + 1)
      BY <3>1, <1>3
    <3>3. Told(box, set, l, i + 1)
      BY <3>1, <3>2 DEF Told
    <3> QED BY <3>2, <3>3, <2>2, <1>1, <1>2
  <2> QED BY <2>1, <2>2
<1>5. /\ \A j \in 1..(n + 1) : o < j /\ Ends(box[j], l) => StartsBetween(box, l, o, j)
      /\ lp[l].running => StartsBetween(box, l, o, n + 2)
  <2>1. o \in 0..Len(box) /\ Told(box, set, l, o) /\ Len(box) + 1 = n + 2
    BY <1>1, <1>4
  <2>2. /\ \A j \in DOMAIN box : o < j /\ Ends(box[j], l) => StartsBetween(box, l, o, j)
        /\ lp[l].running => StartsBetween(box, l, o, Len(box) + 1)
    BY <2>1 DEF EndsOnce
  <2> QED BY <2>1, <2>2, <1>2
<1>6. ASSUME NEW j \in 1..(n + 1), StartsBetween(box, l, o, j + 1) PROVE StartsBetween(R, l, i, j)
  <2>1. PICK m \in 1..(n + 1) : o < m /\ m < j + 1 /\ Starts(box[m], l)
    BY <1>2, <1>6 DEF StartsBetween
  <2>2. p < m /\ i < m - 1
    BY <2>1, <1>4
  <2>3. m - 1 \in 1..n /\ ~(m - 1 < p) /\ (m - 1) + 1 = m /\ m - 1 < j
    BY <2>1, <2>2, <1>1, <1>2
  <2>4. R[m - 1] = box[m]
    BY <2>3, <1>1
  <2> QED BY <2>1, <2>2, <2>3, <2>4, <1>2 DEF StartsBetween
<1>7. ASSUME NEW j \in 1..n, i < j, Ends(R[j], l) PROVE StartsBetween(R, l, i, j)
  <2>1. p <= j /\ R[j] = box[j + 1] /\ j + 1 \in 1..(n + 1)
    BY <1>3, <1>7
  <2>2. o < j + 1
    BY <2>1, <1>1, <1>2, <1>4, <1>7
  <2>3. StartsBetween(box, l, o, j + 1)
    BY <2>1, <2>2, <1>5, <1>7
  <2> QED BY <2>3, <1>1, <1>6
<1>8. ASSUME lp[l].running PROVE StartsBetween(R, l, i, n + 1)
  <2>1. StartsBetween(box, l, o, (n + 1) + 1)
    BY <1>1, <1>5, <1>8
  <2> QED BY <2>1, <1>1, <1>6
<1> QED BY <1>7, <1>8

-----------------------------------------------------------------------------
(* The invariant of the preview.                                           *)

PreviewOf == [text : Seq(Piece), bytes : Nat]

HeldTypes ==
    /\ KeysHeld \subseteq Turn /\ IsFiniteSet(KeysHeld)
    /\ liveText \in [KeysHeld -> PreviewOf]
    /\ \A k \in KeysHeld : liveText[k].text # <<>>
    /\ endedTurns \in Seq(Turn) /\ suppressedLiveKeys \in Seq(Turn)

FlowTypes ==
    /\ loop \in [Loops -> Progress] /\ inbox \in Seq(Items)
    /\ late \in Nat /\ limits \in Limits
    /\ phase \in {"joining", "following", "over"}
    /\ sessionStopped \in BOOLEAN /\ liveFrame \in BOOLEAN

\* The bytes counted are those of the texts.
Counted ==
    /\ \A k \in KeysHeld : liveText[k].bytes = Encoded(liveText[k].text)
    /\ liveTextBytes = Total([k \in KeysHeld |-> liveText[k].bytes])
    /\ liveTextBytes <= limits.bytes /\ Cardinality(KeysHeld) <= limits.keys

ShownOrOwed == ~liveFrame => preview = VisibleLiveText(liveText)

\* Nothing is held of a subscription before its projection, or of a stopped session.
Quiet ==
    /\ phase # "following" => /\ KeysHeld = {} /\ over = {}
                              /\ \A i \in DOMAIN inbox : inbox[i].type # "TokenDelta"
    /\ sessionStopped => KeysHeld = {}

\* No turn is forgotten to have ended while the loops are no more than the bound.
Remembered ==
    /\ KeysHeld \intersect ToSet(endedTurns) = {}
    /\ OnePerLoop(endedTurns)
    /\ Cardinality(Loops) <= limits.tombstones => over \subseteq ToSet(endedTurns)
    /\ EndsOnce(inbox, endedTurns, loop)

\* A text is whole, and what comes of its turn goes on at its end, unless it is
\* kept away.
GoesOnWhole ==
    late = 0 =>
      /\ \A k \in KeysHeld :
           /\ Unbroken(liveText[k].text)
           /\ k \notin ToSet(suppressedLiveKeys) =>
                Resumes(inbox, loop, k, Last(liveText[k].text).step, Last(liveText[k].text).chunk, 0)
      /\ \A i \in DOMAIN inbox : inbox[i].type = "TokenDelta" =>
           Resumes(inbox, loop, inbox[i].key, inbox[i].step, inbox[i].chunk, i)

PreviewInv ==
    /\ HeldTypes /\ FlowTypes /\ Counted /\ ShownOrOwed /\ Quiet /\ Remembered /\ GoesOnWhole

LEMMA BoundsAre ==
    /\ IsFiniteSet(Loops) /\ Len(Stream) \in Nat /\ DOMAIN Stream = 1..Len(Stream)
    /\ \A l \in Limits : l.keys \in Nat \ {0} /\ l.bytes \in Nat \ {0} /\ l.tombstones \in Nat \ {0}
<1>1. Stream \in Seq(Seq({"x", "hi", "lo"}) \ {<<>>})
  BY LiveTextAssumption
<1>2. Len(Stream) \in Nat /\ DOMAIN Stream = 1..Len(Stream)
  BY <1>1
<1> QED BY <1>2, LiveTextAssumption

LEMMA NoText ==
    /\ DOMAIN <<>> = {} /\ <<>> \in [{} -> PreviewOf]
    /\ VisibleLiveText(<<>>) = <<>>
    /\ Total([k \in {} |-> <<>>[k].bytes]) = 0
    /\ IsFiniteSet({}) /\ Cardinality({}) = 0
    /\ <<>> \in Seq(Turn) /\ ToSet(<<>>) = {} /\ OnePerLoop(<<>>)
<1>1. DOMAIN <<>> = {} /\ <<>> \in [{} -> PreviewOf]
  OBVIOUS
<1>2. VisibleLiveText(<<>>) = <<>>
  BY <1>1 DEF VisibleLiveText
<1>3. DOMAIN [k \in {} |-> <<>>[k].bytes] = {}
  OBVIOUS
<1>4. Total([k \in {} |-> <<>>[k].bytes]) = 0
  <2> DEFINE f == [k \in {} |-> <<>>[k].bytes]
  <2>1. DOMAIN f = {}
    OBVIOUS
  <2> HIDE DEF f
  <2>2. Total(f) = 0
    BY <2>1, TotalOfNone
  <2> QED BY <2>2 DEF f
<1>5. IsFiniteSet({}) /\ Cardinality({}) = 0
  BY FS_EmptySet
<1>6. <<>> \in Seq(Turn) /\ ToSet(<<>>) = {} /\ OnePerLoop(<<>>)
  BY DEF ToSet, OnePerLoop
<1> QED BY <1>1, <1>2, <1>4, <1>5, <1>6

LEMMA NothingWaits ==
    ASSUME NEW set \in Seq(Turn), ToSet(set) = {}, NEW lp
    PROVE  EndsOnce(<<>>, set, lp)
<1>1. Len(<<>>) = 0 /\ DOMAIN <<>> = {}
  OBVIOUS
<1>2. \A l \in Loops : ~Told(<<>>, set, l, 0)
  BY DEF Told
<1> QED BY <1>1, <1>2 DEF EndsOnce

LEMMA PreviewInit == LiveTextInit => PreviewInv
<1> SUFFICES ASSUME LiveTextInit PROVE PreviewInv
  OBVIOUS
<1> USE DEF LiveTextInit
<1>1. KeysHeld = {} /\ liveText = <<>>
  BY NoText DEF KeysHeld
<1>2. HeldTypes
  BY <1>1, NoText DEF HeldTypes
<1>3. FlowTypes
  <2>1. 0 \in 0..Len(Stream)
    BY BoundsAre
  <2>2. loop \in [Loops -> Progress]
    BY <2>1 DEF Progress
  <2>3. inbox \in Seq(Items)
    BY EmptySeq
  <2> QED BY <2>2, <2>3 DEF FlowTypes
<1>4. Counted
  BY <1>1, NoText, BoundsAre DEF Counted
<1>5. ShownOrOwed
  BY NoText DEF ShownOrOwed
<1>6. Quiet
  BY <1>1 DEF Quiet
<1>7. Remembered
  BY <1>1, NoText, NothingWaits DEF Remembered
<1>8. GoesOnWhole
  BY <1>1 DEF GoesOnWhole
<1> QED BY <1>2, <1>3, <1>4, <1>5, <1>6, <1>7, <1>8 DEF PreviewInv

\* What is held is dropped; what waits is dropped with it, or holds no delta.
LEMMA Resets ==
    ASSUME PreviewInv, ResetLiveText, preview' = <<>>, over' = {}, UNCHANGED <<loop, late, limits>>,
           inbox' = <<>> \/ (inbox' = inbox /\ phase # "following"),
           phase' \in {"joining", "following", "over"}
    PROVE  PreviewInv'
<1>1. /\ liveText' = <<>> /\ liveTextBytes' = 0 /\ endedTurns' = <<>> /\ suppressedLiveKeys' = <<>>
      /\ sessionStopped' = FALSE /\ liveFrame' = FALSE
  BY DEF ResetLiveText
<1>2. KeysHeld' = {}
  BY <1>1, NoText DEF KeysHeld
<1>3. HeldTypes'
  BY <1>1, <1>2, NoText DEF HeldTypes
<1>4. FlowTypes'
  <2>1. inbox' \in Seq(Items)
    <3>1. inbox \in Seq(Items) /\ <<>> \in Seq(Items)
      BY EmptySeq DEF PreviewInv, FlowTypes
    <3> QED BY <3>1
  <2> QED BY <1>1, <2>1 DEF PreviewInv, FlowTypes
<1>5. Counted'
  <2>1. limits' = limits /\ limits \in Limits
    BY DEF PreviewInv, FlowTypes
  <2> QED BY <1>1, <1>2, <2>1, NoText, BoundsAre DEF Counted
<1>6. ShownOrOwed'
  BY <1>1, NoText DEF ShownOrOwed
<1>7. \A i \in DOMAIN inbox' : inbox'[i].type # "TokenDelta"
  BY DEF PreviewInv, Quiet
<1>8. Quiet'
  BY <1>2, <1>7 DEF Quiet
<1>9. Remembered'
  <2>1. EndsOnce(inbox', <<>>, loop)
    <3>1. CASE inbox' = <<>>
      BY <3>1, NoText, NothingWaits
    <3>2. CASE inbox' = inbox
      <4>1. EndsOnce(inbox, endedTurns, loop)
        BY DEF PreviewInv, Remembered
      <4>2. \A l, i : Told(inbox, <<>>, l, i) => Told(inbox, endedTurns, l, i)
        BY NoText DEF Told
      <4>3. EndsOnce(inbox, <<>>, loop)
        BY <4>1, <4>2 DEF EndsOnce
      <4> QED BY <3>2, <4>3
    <3> QED BY <3>1, <3>2
  <2> QED BY <1>1, <1>2, <2>1, NoText DEF Remembered
<1>10. GoesOnWhole'
  BY <1>2, <1>7 DEF GoesOnWhole
<1> QED BY <1>3, <1>4, <1>5, <1>6, <1>8, <1>9, <1>10 DEF PreviewInv

LEMMA FlushKeeps == ASSUME PreviewInv, Flush PROVE PreviewInv'
<1> USE DEF Flush, hostVars, heldVars
<1>1. KeysHeld' = KeysHeld
  BY DEF KeysHeld
<1>2. HeldTypes'
  BY <1>1 DEF PreviewInv, HeldTypes
<1>3. FlowTypes'
  BY DEF PreviewInv, FlowTypes
<1>4. Counted'
  BY <1>1 DEF PreviewInv, Counted
<1>5. ShownOrOwed'
  BY DEF ShownOrOwed, VisibleLiveText
<1>6. Quiet' /\ Remembered' /\ GoesOnWhole'
  BY <1>1 DEF PreviewInv, Quiet, Remembered, GoesOnWhole
<1> QED BY <1>2, <1>3, <1>4, <1>5, <1>6 DEF PreviewInv

LEMMA PreviewStutters == ASSUME PreviewInv, UNCHANGED liveTextVars PROVE PreviewInv'
<1> USE DEF liveTextVars, hostVars, heldVars
<1>1. KeysHeld' = KeysHeld
  BY DEF KeysHeld
<1>2. HeldTypes' /\ FlowTypes'
  BY <1>1 DEF PreviewInv, HeldTypes, FlowTypes
<1>3. Counted'
  BY <1>1 DEF PreviewInv, Counted
<1>4. ShownOrOwed'
  BY DEF PreviewInv, ShownOrOwed, VisibleLiveText
<1>5. Quiet' /\ Remembered' /\ GoesOnWhole'
  BY <1>1 DEF PreviewInv, Quiet, Remembered, GoesOnWhole
<1> QED BY <1>2, <1>3, <1>4, <1>5 DEF PreviewInv

-----------------------------------------------------------------------------
(* What the Host publishes.                                                *)

Says(item) ==
    /\ item \in Items /\ loop' \in [Loops -> Progress]
    /\ \A k \in Turn : \A s, c : StandsAt(loop, k, s, c) =>
         \/ DeltaOf(item, k) /\ item.step = s /\ item.chunk = c + 1
         \/ ~DeltaOf(item, k) /\ (Breaks(item, k) \/ StandsAt(loop', k, s, c))
    /\ item.type = "TokenDelta" => StandsAt(loop', item.key, item.step, item.chunk)
    /\ \A l \in Loops : /\ Ends(item, l) => loop[l].running /\ ~loop'[l].running
                        /\ loop'[l].running => loop[l].running \/ Starts(item, l)

LEMMA SaysKeeps ==
    ASSUME PreviewInv, NEW item, Says(item), Publishes(item),
           UNCHANGED <<late, limits, generation, phase, heldVars, liveFrame, preview, over>>
    PROVE  PreviewInv'
<1> USE DEF heldVars
<1> DEFINE n == Len(inbox)
           B == Append(inbox, item)
<1>1. KeysHeld' = KeysHeld /\ item \in Items /\ inbox \in Seq(Items)
  BY DEF KeysHeld, Says, PreviewInv, FlowTypes
<1>2. /\ inbox' = IF phase = "joining" /\ item.type = "TokenDelta" THEN inbox ELSE B
      /\ phase # "over"
  BY DEF Publishes
<1>3. /\ B \in Seq(Items) /\ B[n + 1] = item /\ \A j \in 1..n : B[j] = inbox[j]
      /\ DOMAIN B = 1..(n + 1) /\ DOMAIN inbox = 1..n /\ n \in Nat
  BY <1>1, AppendedItem
<1> HIDE DEF B, n
<1>4. HeldTypes'
  BY <1>1 DEF PreviewInv, HeldTypes
<1>5. FlowTypes'
  BY <1>1, <1>2, <1>3 DEF PreviewInv, FlowTypes, Says
<1>6. Counted'
  BY <1>1 DEF PreviewInv, Counted
<1>7. ShownOrOwed'
  BY DEF PreviewInv, ShownOrOwed, VisibleLiveText
<1>8. Quiet'
  <2>1. ASSUME phase # "following", NEW i \in DOMAIN inbox' PROVE inbox'[i].type # "TokenDelta"
    <3>1. phase = "joining"
      BY <1>2, <2>1 DEF PreviewInv, FlowTypes
    <3>2. \A j \in 1..n : inbox[j].type # "TokenDelta"
      BY <1>3, <2>1 DEF PreviewInv, Quiet
    <3>3. CASE item.type = "TokenDelta"
      BY <3>1, <3>2, <3>3, <1>2, <1>3, <2>1
    <3>4. CASE item.type # "TokenDelta"
      BY <3>2, <3>4, <1>2, <1>3, <2>1
    <3> QED BY <3>3, <3>4
  <2> QED BY <1>1, <2>1 DEF PreviewInv, Quiet
<1>9. Remembered'
  <2>1. EndsOnce(inbox, endedTurns, loop)
    BY DEF PreviewInv, Remembered
  <2>2. \A l \in Loops : /\ Ends(item, l) => loop[l].running /\ ~loop'[l].running
                         /\ loop'[l].running => loop[l].running \/ Starts(item, l)
    BY DEF Says
  <2>3. EndsOnce(inbox', endedTurns, loop')
    <3>1. CASE inbox' = B
      <4>1. EndsOnce(B, endedTurns, loop')
        BY <1>1, <2>1, <2>2, EndsOnceAppend DEF B
      <4> QED BY <3>1, <4>1
    <3>2. CASE inbox' = inbox /\ item.type = "TokenDelta"
      <4>1. \A l \in Loops : loop'[l].running => loop[l].running
        BY <2>2, <3>2 DEF Starts
      <4>2. EndsOnce(inbox, endedTurns, loop')
        BY <2>1, <4>1 DEF EndsOnce
      <4> QED BY <3>2, <4>2
    <3> QED BY <3>1, <3>2, <1>2
  <2> QED BY <1>1, <2>3 DEF PreviewInv, Remembered
<1>10. GoesOnWhole'
  <2>1. CASE inbox' = inbox /\ phase = "joining"
    BY <2>1, <1>1 DEF PreviewInv, Quiet, GoesOnWhole
  <2>2. CASE inbox' = B
    <3> SUFFICES ASSUME late = 0
                 PROVE  /\ \A k \in KeysHeld :
                             /\ Unbroken(liveText[k].text)
                             /\ k \notin ToSet(suppressedLiveKeys) =>
                                  Resumes(B, loop', k, Last(liveText[k].text).step, Last(liveText[k].text).chunk, 0)
                        /\ \A i \in DOMAIN B : B[i].type = "TokenDelta" =>
                             Resumes(B, loop', B[i].key, B[i].step, B[i].chunk, i)
      BY <1>1, <2>2 DEF GoesOnWhole
    <3>1. ASSUME NEW k \in Turn, NEW s, NEW c, NEW i \in 0..n, Resumes(inbox, loop, k, s, c, i)
          PROVE  Resumes(B, loop', k, s, c, i)
      <4>1. StandsAt(loop, k, s, c) => \/ DeltaOf(item, k) /\ item.step = s /\ item.chunk = c + 1
                                       \/ ~DeltaOf(item, k) /\ (Breaks(item, k) \/ StandsAt(loop', k, s, c))
        BY DEF Says
      <4> QED BY <1>1, <3>1, <4>1, ResumesAppend DEF B, n
    <3>2. ASSUME NEW k \in KeysHeld
          PROVE  /\ Unbroken(liveText[k].text)
                 /\ k \notin ToSet(suppressedLiveKeys) =>
                      Resumes(B, loop', k, Last(liveText[k].text).step, Last(liveText[k].text).chunk, 0)
      <4>1. k \in Turn /\ 0 \in 0..n
        BY <1>3 DEF PreviewInv, HeldTypes
      <4>2. /\ Unbroken(liveText[k].text)
            /\ k \notin ToSet(suppressedLiveKeys) =>
                 Resumes(inbox, loop, k, Last(liveText[k].text).step, Last(liveText[k].text).chunk, 0)
        BY DEF PreviewInv, GoesOnWhole
      <4> QED BY <3>1, <4>1, <4>2
    <3>3. ASSUME NEW i \in DOMAIN B, B[i].type = "TokenDelta"
          PROVE  Resumes(B, loop', B[i].key, B[i].step, B[i].chunk, i)
      <4>1. CASE i \in 1..n
        <5>1. B[i] = inbox[i] /\ i \in DOMAIN inbox /\ i \in 0..n
          BY <1>3, <4>1
        <5>2. Resumes(inbox, loop, B[i].key, B[i].step, B[i].chunk, i)
          BY <3>3, <5>1 DEF PreviewInv, GoesOnWhole
        <5>3. B[i].key \in Turn
          <6>1. B[i] \in Items
            BY <1>3
          <6> QED BY <6>1, <3>3 DEF Items, Deltas, TurnRecords, SessionRecords
        <5> QED BY <3>1, <5>1, <5>2, <5>3
      <4>2. CASE i = n + 1
        <5>1. B[i] = item /\ StandsAt(loop', item.key, item.step, item.chunk)
          BY <1>3, <3>3, <4>2 DEF Says
        <5>2. Len(B) = i
          BY <1>3, <4>2
        <5> QED BY <1>3, <5>1, <5>2, ResumesLast
      <4> QED BY <1>3, <4>1, <4>2
    <3> QED BY <3>2, <3>3
  <2> QED BY <1>2, <2>1, <2>2
<1> QED BY <1>4, <1>5, <1>6, <1>7, <1>8, <1>9, <1>10 DEF PreviewInv

LEMMA HostKeeps == ASSUME PreviewInv, Host PROVE PreviewInv'
<1>0. loop \in [Loops -> Progress]
  BY DEF PreviewInv, FlowTypes
<1>1. \E item : Says(item) /\ Publishes(item)
  <2>1. ASSUME NEW l \in Loops, StartTurn(l) PROVE \E item : Says(item) /\ Publishes(item)
    <3> DEFINE item == Record("TurnStarted", <<l, loop[l].turn + 1>>, 0)
    <3>1. /\ ~loop[l].running /\ Publishes(item)
          /\ loop' = [loop EXCEPT ![l] = [running |-> TRUE, turn |-> @.turn + 1, step |-> 1, chunk |-> 0]]
      BY <2>1 DEF StartTurn
    <3>2. loop[l].turn \in Nat /\ Len(Stream) \in Nat
      BY <1>0, BoundsAre DEF Progress
    <3>3. item \in Items
      BY <3>2 DEF Items, TurnRecords, Record, Turn
    <3>4. /\ loop' \in [Loops -> Progress] /\ loop'[l].running
          /\ \A m \in Loops \ {l} : loop'[m] = loop[m]
      BY <1>0, <3>1, <3>2 DEF Progress
    <3>5. item.type = "TurnStarted" /\ item.key = <<l, loop[l].turn + 1>> /\ item.key[1] = l
      BY DEF Record
    <3>6. \A k \in Turn : \A s, c : StandsAt(loop, k, s, c) => ~DeltaOf(item, k) /\ StandsAt(loop', k, s, c)
      BY <3>1, <3>4, <3>5 DEF StandsAt, DeltaOf, Turn
    <3> HIDE DEF item
    <3>7. Says(item)
      BY <3>3, <3>4, <3>5, <3>6 DEF Says, Ends, Starts
    <3> QED BY <3>1, <3>7
  <2>2. ASSUME NEW l \in Loops, StreamChunk(l) PROVE \E item : Says(item) /\ Publishes(item)
    <3>0. PICK sound \in BOOLEAN :
            Publishes([type |-> "TokenDelta", key |-> KeyOf(l), step |-> loop[l].step,
                       chunk |-> loop[l].chunk + 1, sound |-> sound])
      BY <2>2 DEF StreamChunk
    <3> DEFINE item == [type |-> "TokenDelta", key |-> KeyOf(l), step |-> loop[l].step,
                        chunk |-> loop[l].chunk + 1, sound |-> sound]
    <3>1. /\ loop[l].running /\ loop[l].chunk < Len(Stream)
          /\ loop' = [loop EXCEPT ![l].chunk = @ + 1]
      BY <2>2 DEF StreamChunk
    <3>2. /\ loop[l] \in Progress /\ loop[l].turn \in Nat /\ loop[l].step \in Nat
          /\ loop[l].chunk \in Nat /\ loop[l].chunk + 1 \in 1..Len(Stream)
      BY <1>0, <3>1, BoundsAre DEF Progress
    <3>3. item \in Items
      BY <3>2, BoundsAre DEF Items, Deltas, KeyOf, Turn
    <3>4. /\ loop'[l] = [loop[l] EXCEPT !.chunk = @ + 1]
          /\ \A m \in Loops \ {l} : loop'[m] = loop[m]
          /\ loop' \in [Loops -> Progress]
      <4>1. [loop[l] EXCEPT !.chunk = @ + 1] \in Progress
        <5>1. loop[l].chunk + 1 \in 0..Len(Stream)
          BY <3>2
        <5> QED BY <3>2, <5>1 DEF Progress
      <4>2. loop' = [loop EXCEPT ![l] = [loop[l] EXCEPT !.chunk = @ + 1]]
        BY <1>0, <3>1
      <4> QED BY <1>0, <4>1, <4>2
    <3>5. loop'[l].running /\ loop'[l].turn = loop[l].turn /\ loop'[l].step = loop[l].step
            /\ loop'[l].chunk = loop[l].chunk + 1
      BY <3>1, <3>2, <3>4 DEF Progress
    <3>6. item.type = "TokenDelta" /\ item.key = <<l, loop[l].turn>> /\ item.step = loop[l].step
            /\ item.chunk = loop[l].chunk + 1 /\ item.key[1] = l /\ item.key[2] = loop[l].turn
      BY DEF KeyOf
    <3> HIDE DEF item
    <3>7. ASSUME NEW k \in Turn, NEW s, NEW c, StandsAt(loop, k, s, c)
          PROVE  \/ DeltaOf(item, k) /\ item.step = s /\ item.chunk = c + 1
                 \/ ~DeltaOf(item, k) /\ (Breaks(item, k) \/ StandsAt(loop', k, s, c))
      <4>1. k = <<k[1], k[2]>> /\ k[1] \in Loops
        BY DEF Turn
      <4>2. CASE k[1] = l
        BY <3>6, <3>7, <4>1, <4>2 DEF StandsAt, DeltaOf
      <4>3. CASE k[1] # l
        BY <3>4, <3>6, <3>7, <4>1, <4>3 DEF StandsAt, DeltaOf
      <4> QED BY <4>2, <4>3
    <3>8. StandsAt(loop', item.key, item.step, item.chunk)
      BY <3>5, <3>6 DEF StandsAt
    <3>9. \A m \in Loops : /\ Ends(item, m) => FALSE
                           /\ loop'[m].running => loop[m].running
      BY <3>1, <3>4, <3>6 DEF Ends
    <3>10. Says(item)
      BY <3>3, <3>4, <3>7, <3>8, <3>9 DEF Says
    <3> QED BY <3>0, <3>10 DEF item
  <2>3. ASSUME NEW l \in Loops, CommitStep(l) PROVE \E item : Says(item) /\ Publishes(item)
    <3> DEFINE item == Record("StepDone", KeyOf(l), loop[l].step)
    <3>1. /\ loop[l].running /\ Publishes(item)
          /\ loop' = [loop EXCEPT ![l].step = @ + 1, ![l].chunk = 0]
      BY <2>3 DEF CommitStep
    <3>2. loop[l] \in Progress /\ loop[l].turn \in Nat /\ loop[l].step \in Nat /\ Len(Stream) \in Nat
      BY <1>0, BoundsAre DEF Progress
    <3>3. item \in Items
      BY <3>2 DEF Items, TurnRecords, Record, Turn, KeyOf
    <3>4. loop' \in [Loops -> Progress] /\ \A m \in Loops \ {l} : loop'[m] = loop[m]
      <4>1. [loop[l] EXCEPT !.step = @ + 1, !.chunk = 0] \in Progress
        <5>1. loop[l].step + 1 \in Nat /\ 0 \in 0..Len(Stream)
          BY <3>2
        <5> QED BY <3>2, <5>1 DEF Progress
      <4>2. loop' = [loop EXCEPT ![l] = [loop[l] EXCEPT !.step = @ + 1, !.chunk = 0]]
        BY <1>0, <3>1
      <4> QED BY <1>0, <4>1, <4>2
    <3>5. item.type = "StepDone" /\ item.key[1] = l
      BY DEF Record, KeyOf
    <3> HIDE DEF item
    <3>6. \A k \in Turn : \A s, c : StandsAt(loop, k, s, c) =>
            ~DeltaOf(item, k) /\ (Breaks(item, k) \/ StandsAt(loop', k, s, c))
      BY <3>4, <3>5 DEF StandsAt, DeltaOf, Breaks, Turn
    <3>7. \A m \in Loops : /\ Ends(item, m) => FALSE
                           /\ loop'[m].running => loop[m].running
      BY <3>1, <3>4, <3>5 DEF Ends
    <3>8. Says(item)
      BY <3>3, <3>4, <3>5, <3>6, <3>7 DEF Says
    <3> QED BY <3>1, <3>8
  <2>4. ASSUME NEW l \in Loops, EndTurn(l) PROVE \E item : Says(item) /\ Publishes(item)
    <3> DEFINE item == Record("TurnEnd", KeyOf(l), loop[l].step)
    <3>1. /\ loop[l].running /\ Publishes(item)
          /\ loop' = [loop EXCEPT ![l].running = FALSE]
      BY <2>4 DEF EndTurn
    <3>2. loop[l] \in Progress /\ loop[l].turn \in Nat /\ loop[l].step \in Nat /\ Len(Stream) \in Nat
      BY <1>0, BoundsAre DEF Progress
    <3>3. item \in Items
      BY <3>2 DEF Items, TurnRecords, Record, Turn, KeyOf
    <3>4. /\ loop' \in [Loops -> Progress] /\ \A m \in Loops \ {l} : loop'[m] = loop[m]
          /\ ~loop'[l].running
      <4>1. [loop[l] EXCEPT !.running = FALSE] \in Progress /\ ~[loop[l] EXCEPT !.running = FALSE].running
        BY <3>2 DEF Progress
      <4>2. loop' = [loop EXCEPT ![l] = [loop[l] EXCEPT !.running = FALSE]]
        BY <1>0, <3>1
      <4> QED BY <1>0, <4>1, <4>2
    <3>5. item.type = "TurnEnd" /\ item.key = <<l, loop[l].turn>> /\ item.key[1] = l
      BY DEF Record, KeyOf
    <3> HIDE DEF item
    <3>6. ASSUME NEW k \in Turn, NEW s, NEW c, StandsAt(loop, k, s, c)
          PROVE  ~DeltaOf(item, k) /\ (Breaks(item, k) \/ StandsAt(loop', k, s, c))
      <4>1. k = <<k[1], k[2]>> /\ k[1] \in Loops
        BY DEF Turn
      <4>2. CASE k[1] = l
        BY <3>5, <3>6, <4>1, <4>2 DEF StandsAt, DeltaOf, Breaks
      <4>3. CASE k[1] # l
        BY <3>4, <3>5, <3>6, <4>1, <4>3 DEF StandsAt, DeltaOf
      <4> QED BY <4>2, <4>3
    <3>7. \A m \in Loops : /\ Ends(item, m) => m = l
                           /\ loop'[m].running => loop[m].running
      BY <3>1, <3>4, <3>5 DEF Ends
    <3>8. Says(item)
      BY <3>1, <3>3, <3>4, <3>5, <3>6, <3>7 DEF Says
    <3> QED BY <3>1, <3>8
  <2>5. ASSUME StopSession PROVE \E item : Says(item) /\ Publishes(item)
    <3> DEFINE item == Record("SessionStopped", <<>>, 0)
    <3>1. /\ Publishes(item) /\ loop' = [l \in Loops |-> [loop[l] EXCEPT !.running = FALSE]]
      BY <2>5 DEF StopSession
    <3>2. item \in Items /\ item.type = "SessionStopped"
      BY DEF Items, SessionRecords, Record
    <3>3. loop' \in [Loops -> Progress] /\ \A m \in Loops : ~loop'[m].running
      BY <1>0, <3>1 DEF Progress
    <3> HIDE DEF item
    <3>4. Says(item)
      BY <3>2, <3>3 DEF Says, DeltaOf, Breaks, Ends
    <3> QED BY <3>1, <3>4
  <2>6. ASSUME RestoreSession PROVE \E item : Says(item) /\ Publishes(item)
    <3> DEFINE item == Record("RestoreDone", <<>>, 0)
    <3>1. Publishes(item) /\ loop' = loop
      BY <2>6 DEF RestoreSession
    <3>2. item \in Items /\ item.type = "RestoreDone"
      BY DEF Items, SessionRecords, Record
    <3> HIDE DEF item
    <3>3. Says(item)
      BY <1>0, <3>1, <3>2 DEF Says, DeltaOf, Breaks, Ends
    <3> QED BY <3>1, <3>3
  <2> QED BY <2>1, <2>2, <2>3, <2>4, <2>5, <2>6 DEF Host
<1>2. UNCHANGED <<late, limits, generation, phase, heldVars, liveFrame, preview, over>>
  BY DEF Host
<1> QED BY <1>1, <1>2, SaysKeeps

-----------------------------------------------------------------------------
(* What the view does with it.                                             *)

LEMMA ContainsIs ==
    ASSUME NEW S, NEW set \in Seq(S), NEW k
    PROVE  Contains(set, k) <=> k \in ToSet(set)
  BY DEF Contains, ToSet

\* A function changed, or grown, at one place.
LEMMA TotalPut ==
    ASSUME NEW f, NEW f2, NEW a, IsFiniteSet(DOMAIN f), DOMAIN f2 = DOMAIN f \union {a},
           \A k \in DOMAIN f : f[k] \in Nat, f2[a] \in Nat,
           \A k \in DOMAIN f \ {a} : f2[k] = f[k]
    PROVE  /\ Total(f2) = Total(f) + f2[a] - (IF a \in DOMAIN f THEN f[a] ELSE 0)
           /\ Total(f2) \in Nat /\ Total(f) \in Nat
<1> DEFINE D == DOMAIN f
           g == [k \in D \ {a} |-> f[k]]
           one2 == [k \in {a} |-> f2[k]]
           one == [k \in D \intersect {a} |-> f[k]]
<1>1. /\ DOMAIN g = D \ {a} /\ DOMAIN one2 = {a} /\ DOMAIN one = D \intersect {a}
      /\ \A k \in D \ {a} : g[k] = f[k] /\ g[k] \in Nat
      /\ one2[a] = f2[a] /\ \A k \in D \intersect {a} : one[k] = f[k] /\ one[k] \in Nat
  OBVIOUS
<1>2. IsFiniteSet(D \ {a}) /\ IsFiniteSet({a}) /\ IsFiniteSet(D \intersect {a})
  BY FS_RemoveElement, FS_Singleton, FS_Intersection
<1> HIDE DEF g, one2, one
<1>3. Total(f2) = Total(g) + Total(one2) /\ Total(f2) \in Nat /\ Total(g) \in Nat /\ Total(one2) \in Nat
  <2>1. DOMAIN f2 = DOMAIN g \union DOMAIN one2 /\ DOMAIN g \intersect DOMAIN one2 = {}
    BY <1>1
  <2>2. /\ \A k \in DOMAIN g : g[k] \in Nat /\ f2[k] = g[k]
        /\ \A k \in DOMAIN one2 : one2[k] \in Nat /\ f2[k] = one2[k]
    BY <1>1
  <2>3. IsFiniteSet(DOMAIN g) /\ IsFiniteSet(DOMAIN one2)
    BY <1>1, <1>2
  <2> QED BY <2>1, <2>2, <2>3, TotalSplit
<1>4. Total(f) = Total(g) + Total(one) /\ Total(f) \in Nat /\ Total(one) \in Nat
  <2>1. DOMAIN f = DOMAIN g \union DOMAIN one /\ DOMAIN g \intersect DOMAIN one = {}
    BY <1>1
  <2>2. /\ \A k \in DOMAIN g : g[k] \in Nat /\ f[k] = g[k]
        /\ \A k \in DOMAIN one : one[k] \in Nat /\ f[k] = one[k]
    BY <1>1
  <2>3. IsFiniteSet(DOMAIN g) /\ IsFiniteSet(DOMAIN one)
    BY <1>1, <1>2
  <2> QED BY <2>1, <2>2, <2>3, TotalSplit
<1>5. Total(one2) = f2[a]
  BY <1>1, TotalOfOne
<1>6. Total(one) = IF a \in D THEN f[a] ELSE 0
  <2>1. CASE a \in D
    <3>1. DOMAIN one = {a} /\ one[a] = f[a] /\ one[a] \in Nat
      BY <1>1, <2>1
    <3> QED BY <3>1, <2>1, TotalOfOne
  <2>2. CASE a \notin D
    <3>1. DOMAIN one = {}
      BY <1>1, <2>2
    <3> QED BY <3>1, <2>2, TotalOfNone
  <2> QED BY <2>1, <2>2
<1>7. CASE a \in D
  BY <1>3, <1>4, <1>5, <1>6, <1>7
<1>8. CASE a \notin D
  BY <1>3, <1>4, <1>5, <1>6, <1>8
<1> QED BY <1>7, <1>8

\* The first was handled; what waits behind it goes on as it did.
LEMMA BehindTheFirst ==
    ASSUME PreviewInv, late = 0, inbox # <<>>
    PROVE  /\ \A k \in KeysHeld : k \notin ToSet(suppressedLiveKeys) /\ ~Concerns(inbox[1], k) =>
                Resumes(RemoveAt(inbox, 1), loop, k,
                        Last(liveText[k].text).step, Last(liveText[k].text).chunk, 0)
           /\ inbox[1].type = "TokenDelta" =>
                Resumes(RemoveAt(inbox, 1), loop, inbox[1].key, inbox[1].step, inbox[1].chunk, 0)
           /\ \A i \in DOMAIN RemoveAt(inbox, 1) : RemoveAt(inbox, 1)[i].type = "TokenDelta" =>
                Resumes(RemoveAt(inbox, 1), loop, RemoveAt(inbox, 1)[i].key,
                        RemoveAt(inbox, 1)[i].step, RemoveAt(inbox, 1)[i].chunk, i)
<1> DEFINE R == RemoveAt(inbox, 1)
           n == Len(inbox) - 1
<1>1. inbox \in Seq(Items) /\ 1 \in 1..Len(inbox) /\ 1 \in DOMAIN inbox
  BY DEF PreviewInv, FlowTypes
<1>2. /\ R \in Seq(Items) /\ Len(R) = n /\ n \in Nat /\ Len(inbox) = n + 1
      /\ \A j \in 1..n : R[j] = inbox[j + 1]
  BY <1>1, RemoveAtIs
<1>3. ASSUME NEW i \in 1..Len(inbox), NEW k, NEW s, NEW c, Resumes(inbox, loop, k, s, c, i)
      PROVE  Resumes(R, loop, k, s, c, i - 1)
  BY <1>1, <1>3, ResumesShift
<1> HIDE DEF R, n
<1>4. ASSUME NEW k \in KeysHeld, k \notin ToSet(suppressedLiveKeys), ~Concerns(inbox[1], k)
      PROVE  Resumes(R, loop, k, Last(liveText[k].text).step, Last(liveText[k].text).chunk, 0)
  <2> DEFINE s == Last(liveText[k].text).step
             c == Last(liveText[k].text).chunk
  <2>1. Resumes(inbox, loop, k, s, c, 0)
    BY <1>4 DEF PreviewInv, GoesOnWhole
  <2> HIDE DEF s, c
  <2>2. Resumes(inbox, loop, k, s, c, 1)
    BY <1>1, <1>4, <2>1, ResumesSkip
  <2>3. Resumes(R, loop, k, s, c, 1 - 1)
    BY <1>1, <1>3, <2>2
  <2> QED BY <2>3 DEF s, c
<1>5. ASSUME inbox[1].type = "TokenDelta"
      PROVE  Resumes(R, loop, inbox[1].key, inbox[1].step, inbox[1].chunk, 0)
  <2>1. Resumes(inbox, loop, inbox[1].key, inbox[1].step, inbox[1].chunk, 1)
    BY <1>1, <1>5 DEF PreviewInv, GoesOnWhole
  <2>2. Resumes(R, loop, inbox[1].key, inbox[1].step, inbox[1].chunk, 1 - 1)
    BY <1>1, <1>3, <2>1
  <2> QED BY <2>2
<1>6. ASSUME NEW i \in DOMAIN R, R[i].type = "TokenDelta"
      PROVE  Resumes(R, loop, R[i].key, R[i].step, R[i].chunk, i)
  <2>1. i + 1 \in 1..Len(inbox) /\ i + 1 \in DOMAIN inbox /\ R[i] = inbox[i + 1] /\ (i + 1) - 1 = i
    BY <1>1, <1>2
  <2>2. Resumes(inbox, loop, R[i].key, R[i].step, R[i].chunk, i + 1)
    BY <1>6, <2>1 DEF PreviewInv, GoesOnWhole
  <2>3. Resumes(R, loop, R[i].key, R[i].step, R[i].chunk, (i + 1) - 1)
    BY <1>3, <2>1, <2>2
  <2> QED BY <2>1, <2>3
<1> QED BY <1>4, <1>5, <1>6 DEF R

\* One of what waits is taken from its place.
Takes(p) ==
    /\ phase = "following" /\ p \in 1..Len(inbox)
    /\ \A j \in 1..Len(inbox) : j < p => inbox[j].type = "TokenDelta"
    /\ late' = late + (p - 1) /\ inbox' = RemoveAt(inbox, p)
    /\ UNCHANGED <<loop, limits, phase>>

LEMMA TakesFlows ==
    ASSUME PreviewInv, NEW p, Takes(p), sessionStopped' \in BOOLEAN, liveFrame' \in BOOLEAN
    PROVE  /\ FlowTypes' /\ inbox[p] \in Items /\ p \in Nat
           /\ late' = 0 => p = 1 /\ late = 0 /\ inbox # <<>>
<1>1. inbox \in Seq(Items) /\ p \in 1..Len(inbox) /\ Len(inbox) \in Nat /\ late \in Nat
  BY DEF PreviewInv, FlowTypes, Takes
<1>2. inbox' \in Seq(Items)
  BY <1>1, RemoveAtIs DEF Takes
<1>3. late' \in Nat /\ (late' = 0 => p = 1 /\ late = 0)
  BY <1>1 DEF Takes
<1>4. FlowTypes'
  BY <1>2, <1>3 DEF PreviewInv, FlowTypes, Takes
<1>5. inbox # <<>> /\ inbox[p] \in Items /\ p \in Nat
  BY <1>1
<1> QED BY <1>3, <1>4, <1>5

Prior(k) == IF k \in KeysHeld THEN liveText[k].text ELSE <<>>
Piecewise(item) == [step |-> item.step, chunk |-> item.chunk]
Added(item) == Encoded(<<Piecewise(item)>>) - (IF Splits(Prior(item.key), Piecewise(item)) THEN 2 ELSE 0)

Ignored(item) ==
    /\ sessionStopped \/ item.key \in ToSet(endedTurns) \/ item.key \in ToSet(suppressedLiveKeys)
    /\ UNCHANGED <<liveText, liveTextBytes, suppressedLiveKeys, liveFrame>>
KeptAway(item) ==
    /\ suppressedLiveKeys' = Remember(suppressedLiveKeys, item.key, limits.tombstones, KeysHeld)
    /\ UNCHANGED <<liveText, liveTextBytes, liveFrame>>
TakenIn(item) ==
    /\ ~sessionStopped /\ item.key \notin ToSet(endedTurns) /\ item.key \notin ToSet(suppressedLiveKeys)
    /\ ~(liveTextBytes + Added(item) > limits.bytes)
    /\ item.key \in KeysHeld \/ ~(Cardinality(KeysHeld) >= limits.keys)
    /\ liveText' = [k \in KeysHeld \union {item.key} |->
         IF k # item.key THEN liveText[k]
         ELSE [text |-> Prior(item.key) \o <<Piecewise(item)>>,
               bytes |-> Added(item) + IF item.key \in KeysHeld THEN liveText[k].bytes ELSE 0]]
    /\ liveTextBytes' = liveTextBytes + Added(item)
    /\ liveFrame' = TRUE /\ UNCHANGED suppressedLiveKeys

LEMMA DeltaIs ==
    ASSUME PreviewInv, NEW item \in Items, Delta(item)
    PROVE  /\ Ignored(item) \/ KeptAway(item) \/ TakenIn(item)
           /\ UNCHANGED <<endedTurns, sessionStopped, preview, over>>
<1> DEFINE delta == DecodeFactoryLiveText(item)
           known == delta.key \in KeysHeld
           prior == IF known THEN liveText[delta.key].text ELSE <<>>
           split == /\ known /\ Last(Stream[Last(prior).chunk]) = "hi"
                    /\ Head(Stream[Head(delta.text).chunk]) = "lo"
           addedBytes == Encoded(delta.text) - (IF split THEN 2 ELSE 0)
<1>1. delta.key = item.key /\ delta.text = <<Piecewise(item)>>
  BY DEF DecodeFactoryLiveText, Piecewise
<1>2. prior = Prior(item.key) /\ (known <=> item.key \in KeysHeld)
  BY <1>1 DEF Prior
<1>3. split <=> Splits(Prior(item.key), Piecewise(item))
  <2>1. known <=> Prior(item.key) # <<>>
    BY <1>1 DEF Prior, PreviewInv, HeldTypes
  <2>2. Head(delta.text) = Piecewise(item)
    BY <1>1
  <2> QED BY <1>2, <2>1, <2>2 DEF Splits
<1>4. addedBytes = Added(item)
  BY <1>1, <1>3 DEF Added
<1>5. /\ Contains(endedTurns, item.key) <=> item.key \in ToSet(endedTurns)
      /\ Contains(suppressedLiveKeys, item.key) <=> item.key \in ToSet(suppressedLiveKeys)
  <2>1. endedTurns \in Seq(Turn) /\ suppressedLiveKeys \in Seq(Turn)
    BY DEF PreviewInv, HeldTypes
  <2> QED BY <2>1, ContainsIs
<1>6. /\ IF \/ sessionStopped
            \/ Contains(endedTurns, delta.key) \/ Contains(suppressedLiveKeys, delta.key)
         THEN UNCHANGED <<liveText, liveTextBytes, suppressedLiveKeys, liveFrame>>
         ELSE IF \/ delta.rejected
                 \/ liveTextBytes + addedBytes > limits.bytes
                 \/ ~known /\ Cardinality(KeysHeld) >= limits.keys
         THEN Suppress(delta.key) /\ UNCHANGED <<liveText, liveTextBytes, liveFrame>>
         ELSE /\ liveText' = [k \in KeysHeld \union {delta.key} |->
                   IF k # delta.key THEN liveText[k]
                   ELSE [text |-> prior \o delta.text,
                         bytes |-> addedBytes + IF known THEN liveText[k].bytes ELSE 0]]
              /\ liveTextBytes' = liveTextBytes + addedBytes
              /\ liveFrame' = TRUE
              /\ UNCHANGED suppressedLiveKeys
      /\ UNCHANGED <<endedTurns, sessionStopped, preview, over>>
  BY DEF Delta
<1> HIDE DEF delta, known, prior, split, addedBytes
<1>7. CASE \/ sessionStopped
           \/ Contains(endedTurns, delta.key) \/ Contains(suppressedLiveKeys, delta.key)
  BY <1>1, <1>5, <1>6, <1>7 DEF Ignored
<1>8. CASE ~(\/ sessionStopped
             \/ Contains(endedTurns, delta.key) \/ Contains(suppressedLiveKeys, delta.key))
  <2>1. CASE \/ delta.rejected
             \/ liveTextBytes + addedBytes > limits.bytes
             \/ ~known /\ Cardinality(KeysHeld) >= limits.keys
    BY <1>1, <1>6, <1>8, <2>1 DEF KeptAway, Suppress
  <2>2. CASE ~(\/ delta.rejected
               \/ liveTextBytes + addedBytes > limits.bytes
               \/ ~known /\ Cardinality(KeysHeld) >= limits.keys)
    <3>1. /\ liveText' = [k \in KeysHeld \union {delta.key} |->
                IF k # delta.key THEN liveText[k]
                ELSE [text |-> prior \o delta.text,
                      bytes |-> addedBytes + IF known THEN liveText[k].bytes ELSE 0]]
          /\ liveTextBytes' = liveTextBytes + addedBytes
          /\ liveFrame' = TRUE
          /\ UNCHANGED suppressedLiveKeys
      BY <1>6, <1>8, <2>2
    <3>2. /\ liveText' = [k \in KeysHeld \union {item.key} |->
               IF k # item.key THEN liveText[k]
               ELSE [text |-> Prior(item.key) \o <<Piecewise(item)>>,
                     bytes |-> Added(item) + IF item.key \in KeysHeld THEN liveText[k].bytes ELSE 0]]
          /\ liveTextBytes' = liveTextBytes + Added(item)
      BY <3>1, <1>1, <1>2, <1>4
    <3> QED BY <3>1, <3>2, <1>1, <1>2, <1>4, <1>5, <1>6, <1>8, <2>2 DEF TakenIn
  <2> QED BY <2>1, <2>2
<1> QED BY <1>6, <1>7, <1>8

LEMMA ItemIs ==
    ASSUME NEW item \in Items
    PROVE  /\ item.type = "TokenDelta" =>
                item.key \in Turn /\ Piecewise(item) \in Piece
           /\ item.type \in {"TurnStarted", "StepDone", "TurnEnd"} => item.key \in Turn
           /\ item.type \in {"TokenDelta", "TurnStarted", "StepDone", "TurnEnd", "SessionStopped", "RestoreDone"}
<1>1. item.type = "TokenDelta" => item \in Deltas
  BY DEF Items, TurnRecords, SessionRecords
<1>2. item \in Deltas => item.key \in Turn /\ Piecewise(item) \in Piece
  BY DEF Deltas, Piecewise, Piece
<1> QED BY <1>1, <1>2 DEF Items, Deltas, TurnRecords, SessionRecords

\* Not shown: what is held stays.
LEMMA DeltaNotShown ==
    ASSUME PreviewInv, NEW p, Takes(p), inbox[p].type = "TokenDelta",
           Ignored(inbox[p]) \/ KeptAway(inbox[p]),
           UNCHANGED <<endedTurns, sessionStopped, preview, over>>
    PROVE  PreviewInv'
<1> DEFINE item == inbox[p]
<1>1. UNCHANGED <<liveText, liveTextBytes, liveFrame>>
  BY DEF Ignored, KeptAway
<1>2. KeysHeld' = KeysHeld
  BY <1>1 DEF KeysHeld
<1>4. FlowTypes' /\ item \in Items /\ (late' = 0 => p = 1 /\ late = 0 /\ inbox # <<>>)
  <2>1. sessionStopped' \in BOOLEAN /\ liveFrame' \in BOOLEAN
    BY <1>1 DEF PreviewInv, FlowTypes
  <2> QED BY <2>1, TakesFlows
<1>5. item.key \in Turn
  BY <1>4, ItemIs
<1> HIDE DEF item
<1>6. /\ suppressedLiveKeys' \in Seq(Turn)
      /\ \A k \in KeysHeld : k \notin ToSet(suppressedLiveKeys') =>
           k \notin ToSet(suppressedLiveKeys) /\ k # item.key
  <2>0. suppressedLiveKeys \in Seq(Turn)
    BY DEF PreviewInv, HeldTypes
  <2>1. CASE Ignored(item)
    <3>1. sessionStopped => KeysHeld = {}
      BY DEF PreviewInv, Quiet
    <3>2. KeysHeld \intersect ToSet(endedTurns) = {}
      BY DEF PreviewInv, Remembered
    <3> QED BY <2>0, <2>1, <3>1, <3>2 DEF Ignored
  <2>2. CASE KeptAway(item)
    <3> DEFINE R == Remember(suppressedLiveKeys, item.key, limits.tombstones, KeysHeld)
    <3>1. R \in Seq(Turn) /\ (ToSet(suppressedLiveKeys) \union {item.key}) \intersect KeysHeld \subseteq ToSet(R)
      BY <2>0, <1>5, RememberIs
    <3>2. suppressedLiveKeys' = R
      BY <2>2 DEF KeptAway
    <3> HIDE DEF R
    <3> QED BY <3>1, <3>2
  <2> QED BY <2>1, <2>2 DEF item
<1>7. HeldTypes'
  BY <1>1, <1>2, <1>6 DEF PreviewInv, HeldTypes
<1>8. Counted'
  BY <1>1, <1>2 DEF PreviewInv, Counted, Takes
<1>9. ShownOrOwed'
  BY <1>1 DEF PreviewInv, ShownOrOwed, VisibleLiveText
<1>10. Quiet'
  BY <1>1, <1>2 DEF PreviewInv, Quiet, Takes
<1>11. Remembered'
  <2>1. EndsOnce(RemoveAt(inbox, p), endedTurns, loop)
    <3>1. \A l \in Loops : ~Starts(inbox[p], l)
      BY DEF Starts
    <3>2. inbox \in Seq(Items) /\ EndsOnce(inbox, endedTurns, loop)
      BY DEF PreviewInv, FlowTypes, Remembered
    <3> QED BY <3>1, <3>2, EndsOnceRemove DEF Takes
  <2> QED BY <1>1, <1>2, <2>1 DEF PreviewInv, Remembered, Takes
<1>12. GoesOnWhole'
  <2> SUFFICES ASSUME late' = 0
               PROVE  /\ \A k \in KeysHeld :
                           /\ Unbroken(liveText[k].text)
                           /\ k \notin ToSet(suppressedLiveKeys') =>
                                Resumes(inbox', loop, k, Last(liveText[k].text).step, Last(liveText[k].text).chunk, 0)
                      /\ \A i \in DOMAIN inbox' : inbox'[i].type = "TokenDelta" =>
                           Resumes(inbox', loop, inbox'[i].key, inbox'[i].step, inbox'[i].chunk, i)
    BY <1>1, <1>2 DEF GoesOnWhole, Takes
  <2>1. p = 1 /\ late = 0 /\ inbox # <<>> /\ inbox' = RemoveAt(inbox, 1)
    BY <1>4 DEF Takes
  <2>2. /\ \A k \in KeysHeld : k \notin ToSet(suppressedLiveKeys) /\ ~Concerns(inbox[1], k) =>
             Resumes(inbox', loop, k, Last(liveText[k].text).step, Last(liveText[k].text).chunk, 0)
        /\ \A i \in DOMAIN inbox' : inbox'[i].type = "TokenDelta" =>
             Resumes(inbox', loop, inbox'[i].key, inbox'[i].step, inbox'[i].chunk, i)
    BY <2>1, BehindTheFirst
  <2>3. \A k \in KeysHeld : k # item.key => ~Concerns(inbox[1], k)
    BY <2>1 DEF Concerns, DeltaOf, Breaks, item
  <2>4. \A k \in KeysHeld : Unbroken(liveText[k].text)
    BY <2>1 DEF PreviewInv, GoesOnWhole
  <2> QED BY <2>2, <2>3, <2>4, <1>6
<1> QED BY <1>4, <1>7, <1>8, <1>9, <1>10, <1>11, <1>12 DEF PreviewInv

\* A text that goes on at its end stays whole.
LEMMA GrownText ==
    ASSUME NEW text \in Seq(Piece), NEW item \in Piece, Unbroken(text),
           text # <<>> => item.step = Last(text).step /\ item.chunk = Last(text).chunk + 1
    PROVE  /\ Unbroken(text \o <<item>>) /\ text \o <<item>> \in Seq(Piece)
           /\ text \o <<item>> # <<>> /\ Last(text \o <<item>>) = item
<1> DEFINE T == text \o <<item>>
           n == Len(text)
<1>1. /\ T \in Seq(Piece) /\ Len(T) = n + 1 /\ T[n + 1] = item /\ n \in Nat
      /\ \A i \in 1..n : T[i] = text[i]
  OBVIOUS
<1> HIDE DEF T
<1>2. T # <<>> /\ Last(T) = item
  BY <1>1 DEF Last
<1> HIDE DEF n
<1>3. ASSUME NEW i \in 1..n PROVE T[i + 1].step = T[i].step /\ T[i + 1].chunk = T[i].chunk + 1
  <2>1. CASE i = n
    <3>1. text # <<>> /\ Last(text) = text[n] /\ T[i] = text[n] /\ T[i + 1] = item
      BY <2>1, <1>1 DEF Last, n
    <3> QED BY <3>1
  <2>2. CASE i # n
    <3>1. i \in 1..(n - 1) /\ i + 1 \in 1..n
      BY <2>2, <1>1
    <3>2. text[i + 1].step = text[i].step /\ text[i + 1].chunk = text[i].chunk + 1
      BY <3>1 DEF Unbroken, n
    <3> QED BY <3>1, <3>2, <1>1
  <2> QED BY <2>1, <2>2
<1>4. Unbroken(T)
  BY <1>1, <1>3 DEF Unbroken
<1> QED BY <1>1, <1>2, <1>4 DEF T

LEMMA DeltaTakenIn ==
    ASSUME PreviewInv, NEW p, Takes(p), inbox[p].type = "TokenDelta", TakenIn(inbox[p]),
           UNCHANGED <<endedTurns, sessionStopped, preview, over>>
    PROVE  PreviewInv'
<1> DEFINE item == inbox[p]
           a == item.key
           piece == Piecewise(item)
           text == Prior(a) \o <<piece>>
<1>1. liveFrame' = TRUE /\ suppressedLiveKeys' = suppressedLiveKeys
  BY DEF TakenIn
<1>2. FlowTypes' /\ item \in Items /\ (late' = 0 => p = 1 /\ late = 0 /\ inbox # <<>>)
  <2>1. sessionStopped' \in BOOLEAN /\ liveFrame' \in BOOLEAN
    BY <1>1 DEF PreviewInv, FlowTypes
  <2> QED BY <2>1, TakesFlows
<1>3. a \in Turn /\ piece \in Piece
  BY <1>2, ItemIs
<1>4. Prior(a) \in Seq(Piece) /\ (a \in KeysHeld => Prior(a) = liveText[a].text /\ Prior(a) # <<>>)
        /\ (a \notin KeysHeld => Prior(a) = <<>>)
  <2>1. a \in KeysHeld => liveText[a] \in PreviewOf /\ liveText[a].text # <<>>
    BY DEF PreviewInv, HeldTypes
  <2>2. <<>> \in Seq(Piece)
    BY EmptySeq
  <2> QED BY <2>1, <2>2 DEF Prior, PreviewOf
<1>5. /\ KeysHeld' = KeysHeld \union {a}
      /\ liveText' = [k \in KeysHeld \union {a} |->
           IF k # a THEN liveText[k]
           ELSE [text |-> text, bytes |-> Added(item) + IF a \in KeysHeld THEN liveText[k].bytes ELSE 0]]
      /\ liveTextBytes' = liveTextBytes + Added(item)
  BY DEF TakenIn, KeysHeld
<1>6. /\ \A k \in KeysHeld \ {a} : liveText'[k] = liveText[k]
      /\ liveText'[a].text = text
      /\ liveText'[a].bytes = Added(item) + IF a \in KeysHeld THEN liveText[a].bytes ELSE 0
      /\ liveText'[a] = [text |-> liveText'[a].text, bytes |-> liveText'[a].bytes]
      /\ liveText' = [k \in KeysHeld' |-> liveText'[k]]
  BY <1>5
<1> HIDE DEF piece, text, a, item
\* The bytes of the text are those it had and those that were added.
<1>7. liveText'[a].bytes = Encoded(text) /\ Encoded(text) \in Nat /\ text \in Seq(Piece) /\ text # <<>>
        /\ Added(item) \in Int
  <2>1. text \in Seq(Piece) /\ text # <<>> /\ <<piece>> \in Seq(Piece)
    BY <1>3, <1>4 DEF text
  <2>2. Encoded(text) \in Nat /\ Encoded(<<piece>>) \in Nat
    BY <2>1, EncodedIsNat DEF EncodedParts
  <2>3. Encoded(text) = Encoded(Prior(a)) + Encoded(<<piece>>) - (IF Splits(Prior(a), piece) THEN 2 ELSE 0)
    BY <1>3, <1>4, EncodedAppend DEF text
  <2>4. Added(item) = Encoded(<<piece>>) - (IF Splits(Prior(a), piece) THEN 2 ELSE 0)
    BY DEF Added, a, piece
  <2>5. Added(item) \in Int
    BY <2>2, <2>4
  <2>6. CASE a \in KeysHeld
    <3>1. liveText[a].bytes = Encoded(Prior(a))
      BY <1>4, <2>6 DEF PreviewInv, Counted
    <3>2. Encoded(Prior(a)) \in Nat
      BY <1>4, EncodedIsNat DEF EncodedParts
    <3>3. CASE Splits(Prior(a), piece)
      BY <3>1, <3>2, <3>3, <2>1, <2>2, <2>3, <2>4, <2>5, <2>6, <1>6
    <3>4. CASE ~Splits(Prior(a), piece)
      BY <3>1, <3>2, <3>4, <2>1, <2>2, <2>3, <2>4, <2>5, <2>6, <1>6
    <3> QED BY <3>3, <3>4
  <2>7. CASE a \notin KeysHeld
    <3>1. Prior(a) = <<>> /\ ~Splits(Prior(a), piece)
      BY <1>4, <2>7 DEF Splits
    <3>2. text = <<piece>>
      BY <3>1, <2>1 DEF text
    <3>3. Added(item) = Encoded(text)
      BY <3>1, <3>2, <2>2, <2>4
    <3> QED BY <3>3, <2>1, <2>2, <2>5, <2>7, <1>6
  <2> QED BY <2>6, <2>7
<1>8. HeldTypes'
  <2>1. KeysHeld' \subseteq Turn /\ IsFiniteSet(KeysHeld')
    <3>1. KeysHeld \subseteq Turn /\ IsFiniteSet(KeysHeld)
      BY DEF PreviewInv, HeldTypes
    <3> QED BY <3>1, <1>3, <1>5, FS_AddElement
  <2>2. \A k \in KeysHeld' : liveText'[k] \in PreviewOf /\ liveText'[k].text # <<>>
    <3>1. \A k \in KeysHeld : liveText[k] \in PreviewOf /\ liveText[k].text # <<>>
      BY DEF PreviewInv, HeldTypes
    <3>2. liveText'[a] \in PreviewOf /\ liveText'[a].text # <<>>
      BY <1>6, <1>7 DEF PreviewOf
    <3> QED BY <3>1, <3>2, <1>5, <1>6
  <2>3. liveText' \in [KeysHeld' -> PreviewOf]
    BY <2>2, <1>6
  <2> QED BY <2>1, <2>2, <2>3, <1>1 DEF PreviewInv, HeldTypes
<1>9. Counted'
  <2> DEFINE f == [k \in KeysHeld |-> liveText[k].bytes]
             f2 == [k \in KeysHeld' |-> liveText'[k].bytes]
  <2>1. IsFiniteSet(KeysHeld) /\ \A k \in KeysHeld : liveText[k].bytes \in Nat
    BY DEF PreviewInv, HeldTypes, PreviewOf
  <2>2. /\ IsFiniteSet(DOMAIN f) /\ DOMAIN f2 = DOMAIN f \union {a}
        /\ \A k \in DOMAIN f : f[k] \in Nat
        /\ f2[a] = liveText'[a].bytes /\ f2[a] \in Nat
        /\ \A k \in DOMAIN f \ {a} : f2[k] = f[k]
        /\ DOMAIN f = KeysHeld /\ \A k \in KeysHeld : f[k] = liveText[k].bytes
    BY <2>1, <1>5, <1>6, <1>7
  <2> HIDE DEF f, f2
  <2>3. /\ Total(f2) = Total(f) + f2[a] - (IF a \in DOMAIN f THEN f[a] ELSE 0)
        /\ Total(f2) \in Nat /\ Total(f) \in Nat
    BY <2>2, TotalPut
  <2>4. liveTextBytes = Total(f)
    BY DEF PreviewInv, Counted, f
  <2>5. liveTextBytes' = Total(f2)
    <3>1. CASE a \in KeysHeld
      <4>1. f2[a] = Added(item) + f[a] /\ f[a] \in Nat
        BY <3>1, <2>2, <1>6
      <4> QED BY <4>1, <3>1, <2>2, <2>3, <2>4, <1>5, <1>7
    <3>2. CASE a \notin KeysHeld
      <4>1. f2[a] = Added(item)
        BY <3>2, <2>2, <1>6, <1>7
      <4>2. a \notin DOMAIN f
        BY <3>2, <2>2
      <4>3. Total(f2) = Total(f) + f2[a] - 0
        BY <4>2, <2>3
      <4>4. Total(f2) = Total(f) + f2[a]
        BY <4>3, <2>2, <2>3
      <4>5. liveTextBytes' = Total(f) + Added(item)
        BY <2>4, <1>5
      <4> QED BY <4>1, <4>4, <4>5
    <3> QED BY <3>1, <3>2
  <2>6. /\ ~(liveTextBytes + Added(item) > limits.bytes) /\ limits' = limits
        /\ limits.bytes \in Nat /\ limits.keys \in Nat
    BY BoundsAre DEF TakenIn, Takes, PreviewInv, FlowTypes, item
  <2>7. liveTextBytes' <= limits'.bytes
    BY <2>3, <2>4, <2>6, <1>5, <1>7
  <2>8. Cardinality(KeysHeld') <= limits'.keys
    <3>1. /\ Cardinality(KeysHeld) \in Nat /\ Cardinality(KeysHeld) <= limits.keys
          /\ Cardinality(KeysHeld \union {a}) =
               IF a \in KeysHeld THEN Cardinality(KeysHeld) ELSE Cardinality(KeysHeld) + 1
      BY <2>1, FS_CardinalityType, FS_AddElement DEF PreviewInv, Counted
    <3>2. a \in KeysHeld \/ ~(Cardinality(KeysHeld) >= limits.keys)
      BY DEF TakenIn, a, item
    <3> QED BY <3>1, <3>2, <2>6, <1>5
  <2>9. \A k \in KeysHeld' : liveText'[k].bytes = Encoded(liveText'[k].text)
    <3>1. \A k \in KeysHeld : liveText[k].bytes = Encoded(liveText[k].text)
      BY DEF PreviewInv, Counted
    <3>2. liveText'[a].bytes = Encoded(liveText'[a].text)
      BY <1>6, <1>7
    <3> QED BY <3>1, <3>2, <1>5, <1>6
  <2> QED BY <2>5, <2>7, <2>8, <2>9 DEF Counted, f2
<1>10. ShownOrOwed'
  BY <1>1 DEF ShownOrOwed
<1>11. Quiet'
  BY DEF PreviewInv, Quiet, Takes, TakenIn
<1>12. Remembered'
  <2>1. EndsOnce(RemoveAt(inbox, p), endedTurns, loop)
    <3>1. \A l \in Loops : ~Starts(inbox[p], l)
      BY DEF Starts
    <3>2. inbox \in Seq(Items) /\ EndsOnce(inbox, endedTurns, loop)
      BY DEF PreviewInv, FlowTypes, Remembered
    <3> QED BY <3>1, <3>2, EndsOnceRemove DEF Takes
  <2>2. a \notin ToSet(endedTurns)
    BY DEF TakenIn, a, item
  <2> QED BY <1>5, <2>1, <2>2 DEF PreviewInv, Remembered, Takes
<1>13. GoesOnWhole'
  <2> SUFFICES ASSUME late' = 0
               PROVE  /\ \A k \in KeysHeld \union {a} :
                           /\ Unbroken(liveText'[k].text)
                           /\ k \notin ToSet(suppressedLiveKeys) =>
                                Resumes(inbox', loop, k, Last(liveText'[k].text).step, Last(liveText'[k].text).chunk, 0)
                      /\ \A i \in DOMAIN inbox' : inbox'[i].type = "TokenDelta" =>
                           Resumes(inbox', loop, inbox'[i].key, inbox'[i].step, inbox'[i].chunk, i)
    BY <1>1, <1>5 DEF GoesOnWhole, Takes
  <2>1. p = 1 /\ late = 0 /\ inbox # <<>> /\ inbox' = RemoveAt(inbox, 1)
    BY <1>2 DEF Takes
  <2>2. /\ \A k \in KeysHeld : k \notin ToSet(suppressedLiveKeys) /\ ~Concerns(inbox[1], k) =>
             Resumes(inbox', loop, k, Last(liveText[k].text).step, Last(liveText[k].text).chunk, 0)
        /\ Resumes(inbox', loop, item.key, item.step, item.chunk, 0)
        /\ \A i \in DOMAIN inbox' : inbox'[i].type = "TokenDelta" =>
             Resumes(inbox', loop, inbox'[i].key, inbox'[i].step, inbox'[i].chunk, i)
    BY <2>1, BehindTheFirst DEF item
  <2>3. \A k \in KeysHeld : k # a => ~Concerns(inbox[1], k)
    BY <2>1 DEF Concerns, DeltaOf, Breaks, item, a
  <2>4. \A k \in KeysHeld : Unbroken(liveText[k].text)
    BY <2>1 DEF PreviewInv, GoesOnWhole
  <2>5. piece.step = item.step /\ piece.chunk = item.chunk
    BY DEF piece, Piecewise
  <2>6. Unbroken(text) /\ Last(text) = piece
    <3>1. CASE a \in KeysHeld
      <4>1. Resumes(inbox, loop, a, Last(Prior(a)).step, Last(Prior(a)).chunk, 0)
        BY <3>1, <2>1, <1>4 DEF PreviewInv, GoesOnWhole, TakenIn, a, item
      <4>2. DeltaOf(inbox[1], a) /\ Clear(inbox, a, 0, 1) /\ 1 \in DOMAIN inbox
        <5>1. inbox \in Seq(Items)
          BY DEF PreviewInv, FlowTypes
        <5> QED BY <5>1, <2>1 DEF DeltaOf, Clear, a, item
      <4>3. item.step = Last(Prior(a)).step /\ item.chunk = Last(Prior(a)).chunk + 1
        BY <4>1, <4>2, <2>1 DEF Resumes, item
      <4>4. Unbroken(Prior(a))
        BY <3>1, <2>4, <1>4
      <4> QED BY <4>3, <4>4, <2>5, <1>3, <1>4, GrownText DEF text
    <3>2. CASE a \notin KeysHeld
      <4>1. Prior(a) = <<>> /\ Unbroken(Prior(a))
        BY <3>2, <1>4 DEF Unbroken
      <4> QED BY <4>1, <1>3, <1>4, GrownText DEF text
    <3> QED BY <3>1, <3>2
  <2>7. ASSUME NEW k \in KeysHeld \union {a}
        PROVE  /\ Unbroken(liveText'[k].text)
               /\ k \notin ToSet(suppressedLiveKeys) =>
                    Resumes(inbox', loop, k, Last(liveText'[k].text).step, Last(liveText'[k].text).chunk, 0)
    <3>1. CASE k = a
      <4>1. liveText'[k].text = text
        BY <3>1, <1>6
      <4>2. Resumes(inbox', loop, k, item.step, item.chunk, 0)
        BY <3>1, <2>2 DEF a
      <4> QED BY <4>1, <4>2, <2>5, <2>6
    <3>2. CASE k # a
      <4>1. k \in KeysHeld /\ liveText'[k] = liveText[k]
        BY <3>2, <1>6
      <4> QED BY <3>2, <4>1, <2>2, <2>3, <2>4
    <3> QED BY <3>1, <3>2
  <2> QED BY <2>2, <2>7
<1> QED BY <1>2, <1>8, <1>9, <1>10, <1>11, <1>12, <1>13 DEF PreviewInv

-----------------------------------------------------------------------------
(* Records.                                                                *)

\* What a record leaves nothing of.
Lost(item) == {k \in KeysHeld : Breaks(item, k)}
Kept(gone) ==
    /\ liveText' = [k \in KeysHeld \ gone |-> liveText[k]]
    /\ liveTextBytes' = Total([k \in KeysHeld \ gone |-> liveText[k].bytes])

LEMMA FewerBytes ==
    ASSUME PreviewInv, NEW gone \in SUBSET KeysHeld
    PROVE  /\ Total([k \in KeysHeld \ gone |-> liveText[k].bytes]) = liveTextBytes - BytesOf(gone)
           /\ Total([k \in KeysHeld \ gone |-> liveText[k].bytes]) <= liveTextBytes
           /\ Total([k \in KeysHeld \ gone |-> liveText[k].bytes]) \in Nat /\ liveTextBytes \in Nat
<1> DEFINE f == [k \in KeysHeld |-> liveText[k].bytes]
           g == [k \in KeysHeld \ gone |-> liveText[k].bytes]
           h == [k \in gone |-> liveText[k].bytes]
<1>1. IsFiniteSet(KeysHeld) /\ \A k \in KeysHeld : liveText[k].bytes \in Nat
  BY DEF PreviewInv, HeldTypes, PreviewOf
<1>2. IsFiniteSet(KeysHeld \ gone) /\ IsFiniteSet(gone)
  BY <1>1, FS_Subset, FS_Difference
<1>3. /\ DOMAIN g = KeysHeld \ gone /\ DOMAIN h = gone /\ DOMAIN f = DOMAIN g \union DOMAIN h
      /\ DOMAIN g \intersect DOMAIN h = {}
      /\ \A k \in DOMAIN g : g[k] \in Nat /\ f[k] = g[k]
      /\ \A k \in DOMAIN h : h[k] \in Nat /\ f[k] = h[k]
  BY <1>1
<1>4. liveTextBytes = Total(f) /\ BytesOf(gone) = Total(h)
  BY DEF PreviewInv, Counted, BytesOf
<1> HIDE DEF f, g, h
<1>5. Total(f) = Total(g) + Total(h) /\ Total(f) \in Nat /\ Total(g) \in Nat /\ Total(h) \in Nat
  <2>1. /\ IsFiniteSet(DOMAIN g) /\ IsFiniteSet(DOMAIN h)
        /\ DOMAIN f = DOMAIN g \union DOMAIN h /\ DOMAIN g \intersect DOMAIN h = {}
        /\ \A k \in DOMAIN g : g[k] \in Nat /\ f[k] = g[k]
        /\ \A k \in DOMAIN h : h[k] \in Nat /\ f[k] = h[k]
    BY <1>2, <1>3
  <2> QED BY ONLY <2>1, TotalSplit
<1>6. Total(g) = liveTextBytes - BytesOf(gone) /\ Total(g) <= liveTextBytes
        /\ Total(g) \in Nat /\ liveTextBytes \in Nat
  BY <1>4, <1>5
<1> QED BY <1>6 DEF g

LEMMA DeletesKeys ==
    ASSUME PreviewInv, NEW keys, DeleteLiveKeys(keys)
    PROVE  Kept(keys \intersect KeysHeld)
<1> DEFINE gone == keys \intersect KeysHeld
<1>1. KeysHeld \ keys = KeysHeld \ gone
  OBVIOUS
<1>2. gone \in SUBSET KeysHeld
  OBVIOUS
<1>3. liveTextBytes' = Total([k \in KeysHeld \ gone |-> liveText[k].bytes])
  <2>1. liveTextBytes' = liveTextBytes - BytesOf(gone)
    BY DEF DeleteLiveKeys
  <2> HIDE DEF gone
  <2> QED BY <2>1, <1>2, FewerBytes
<1>4. liveText' = [k \in KeysHeld \ gone |-> liveText[k]]
  BY <1>1 DEF DeleteLiveKeys, Without
<1> QED BY <1>3, <1>4 DEF Kept

LEMMA KeepsAll == ASSUME PreviewInv, UNCHANGED <<liveText, liveTextBytes>> PROVE Kept({})
<1>1. KeysHeld \ {} = KeysHeld
  OBVIOUS
<1>2. liveText = [k \in KeysHeld |-> liveText[k]]
  BY DEF PreviewInv, HeldTypes
<1>3. liveTextBytes = Total([k \in KeysHeld |-> liveText[k].bytes])
  BY DEF PreviewInv, Counted
<1> QED BY <1>1, <1>2, <1>3 DEF Kept

LEMMA KeepsNone == ASSUME PreviewInv, liveText' = <<>>, liveTextBytes' = 0 PROVE Kept(KeysHeld)
<1>1. KeysHeld \ KeysHeld = {}
  OBVIOUS
<1>2. <<>> = [k \in {} |-> liveText[k]]
  OBVIOUS
<1>3. Total([k \in {} |-> liveText[k].bytes]) = 0
  <2> DEFINE f == [k \in {} |-> liveText[k].bytes]
  <2>1. DOMAIN f = {}
    OBVIOUS
  <2> HIDE DEF f
  <2>2. Total(f) = 0
    BY <2>1, TotalOfNone
  <2> QED BY <2>2 DEF f
<1> QED BY <1>1, <1>2, <1>3 DEF Kept

LEMMA RecordIs ==
    ASSUME PreviewInv, NEW item \in Items, item.type # "TokenDelta", ReconcileLiveText(item)
    PROVE  /\ Kept(Lost(item))
           /\ sessionStopped' \in BOOLEAN
           /\ sessionStopped' => KeysHeld \ Lost(item) = {}
           /\ suppressedLiveKeys' \in Seq(Turn)
           /\ \A k \in KeysHeld \ Lost(item) :
                k \notin ToSet(suppressedLiveKeys') => k \notin ToSet(suppressedLiveKeys)
           /\ CASE item.type = "TurnEnd" ->
                     endedTurns' = Remember(endedTurns, item.key, limits.tombstones, {})
                [] item.type = "TurnStarted" -> endedTurns' = OtherLoops(endedTurns, item.key[1])
                [] OTHER -> endedTurns' = endedTurns
<1>0. /\ suppressedLiveKeys \in Seq(Turn) /\ sessionStopped \in BOOLEAN
      /\ sessionStopped => KeysHeld = {}
  BY DEF PreviewInv, HeldTypes, FlowTypes, Quiet
<1>1. CASE item.type = "SessionStopped"
  <2>1. Lost(item) = KeysHeld
    BY <1>1 DEF Lost, Breaks
  <2>2. /\ liveText' = <<>> /\ liveTextBytes' = 0 /\ sessionStopped' = TRUE
        /\ UNCHANGED <<endedTurns, suppressedLiveKeys>>
    BY <1>1 DEF ReconcileLiveText
  <2>3. Kept(KeysHeld)
    BY <2>2, KeepsNone
  <2> QED BY <2>1, <2>2, <2>3, <1>0, <1>1
<1>2. CASE item.type = "StepDone"
  <2> DEFINE gone == {k \in KeysHeld : k[1] = item.key[1]}
  <2>1. Lost(item) = gone /\ gone \intersect KeysHeld = gone
    BY <1>2 DEF Lost, Breaks
  <2>2. /\ DeleteLiveKeys(gone)
        /\ suppressedLiveKeys' = OtherLoops(suppressedLiveKeys, item.key[1])
        /\ UNCHANGED <<endedTurns, sessionStopped>>
    BY <1>2 DEF ReconcileLiveText
  <2>3. Kept(gone)
    <3> HIDE DEF gone
    <3> QED BY <2>1, <2>2, DeletesKeys
  <2>4. suppressedLiveKeys' \in Seq(Turn)
    BY <2>2, <1>0, OtherLoopsAre
  <2>5. ASSUME NEW k \in KeysHeld \ gone, k \notin ToSet(suppressedLiveKeys')
        PROVE  k \notin ToSet(suppressedLiveKeys)
    <3>1. k[1] # item.key[1]
      OBVIOUS
    <3>2. k \in ToSet(suppressedLiveKeys') <=> k \in ToSet(suppressedLiveKeys) /\ k[1] # item.key[1]
      BY <2>2, <1>0, OtherLoopsAre
    <3> QED BY <3>1, <3>2, <2>5
  <2> HIDE DEF gone
  <2> QED BY <2>1, <2>2, <2>3, <2>4, <2>5, <1>0, <1>2
<1>3. CASE item.type = "TurnEnd"
  <2>1. Lost(item) = {item.key} \intersect KeysHeld
    BY <1>3 DEF Lost, Breaks
  <2>2. /\ DeleteLiveKeys({item.key})
        /\ endedTurns' = Remember(endedTurns, item.key, limits.tombstones, {})
        /\ UNCHANGED <<sessionStopped, suppressedLiveKeys>>
    BY <1>3 DEF ReconcileLiveText
  <2>3. Kept({item.key} \intersect KeysHeld)
    BY <2>2, DeletesKeys
  <2> QED BY <2>1, <2>2, <2>3, <1>0, <1>3
<1>4. CASE item.type = "TurnStarted" \/ item.type = "RestoreDone"
  <2>1. Lost(item) = {}
    BY <1>4 DEF Lost, Breaks
  <2>2. /\ UNCHANGED <<liveText, liveTextBytes, suppressedLiveKeys>> /\ sessionStopped' = FALSE
        /\ item.type = "TurnStarted" => endedTurns' = OtherLoops(endedTurns, item.key[1])
        /\ item.type # "TurnStarted" => endedTurns' = endedTurns
    BY <1>4 DEF ReconcileLiveText
  <2>3. Kept({})
    BY <2>2, KeepsAll
  <2> QED BY <2>1, <2>2, <2>3, <1>0, <1>4
<1> QED BY <1>1, <1>2, <1>3, <1>4 DEF Items, Deltas, TurnRecords, SessionRecords

\* Nothing is told to have ended twice of a loop that did not start again.
LEMMA NotToldBefore ==
    ASSUME PreviewInv, NEW p, Takes(p), inbox[p].type = "TurnEnd", inbox[p].key[1] \in Loops
    PROVE  \A k \in ToSet(endedTurns) : k[1] # inbox[p].key[1]
<1> DEFINE l == inbox[p].key[1]
<1> SUFFICES ASSUME NEW k \in ToSet(endedTurns), k[1] = l PROVE FALSE
  OBVIOUS
<1>1. /\ inbox \in Seq(Items) /\ Len(inbox) \in Nat /\ DOMAIN inbox = 1..Len(inbox)
      /\ p \in DOMAIN inbox /\ 0 < p /\ 0 \in 0..Len(inbox)
  BY DEF PreviewInv, FlowTypes, Takes
<1>2. Told(inbox, endedTurns, l, 0)
  BY DEF Told
<1>3. Ends(inbox[p], l)
  BY DEF Ends
<1>4. StartsBetween(inbox, l, 0, p)
  BY <1>1, <1>2, <1>3 DEF PreviewInv, Remembered, EndsOnce
<1> QED BY <1>1, <1>4 DEF StartsBetween, Starts, Takes

LEMMA RecordRemembered ==
    ASSUME PreviewInv, NEW p, Takes(p), inbox[p] \in Items, inbox[p].type # "TokenDelta",
           Kept(Lost(inbox[p])),
           CASE inbox[p].type = "TurnEnd" ->
                  endedTurns' = Remember(endedTurns, inbox[p].key, limits.tombstones, {})
             [] inbox[p].type = "TurnStarted" -> endedTurns' = OtherLoops(endedTurns, inbox[p].key[1])
             [] OTHER -> endedTurns' = endedTurns,
           over' = CASE inbox[p].type = "TurnEnd" -> over \union {inbox[p].key}
                     [] inbox[p].type = "TurnStarted" -> {k \in over : k[1] # inbox[p].key[1]}
                     [] OTHER -> over
    PROVE  Remembered' /\ endedTurns' \in Seq(Turn)
<1> DEFINE item == inbox[p]
<1>1. /\ KeysHeld' = KeysHeld \ Lost(item) /\ endedTurns \in Seq(Turn) /\ limits' = limits
      /\ KeysHeld \intersect ToSet(endedTurns) = {} /\ OnePerLoop(endedTurns)
      /\ Cardinality(Loops) <= limits.tombstones => over \subseteq ToSet(endedTurns)
      /\ EndsOnce(inbox, endedTurns, loop)
  BY DEF PreviewInv, Remembered, HeldTypes, Kept, KeysHeld, Takes
<1>2. ASSUME \A l \in Loops : (\E k \in ToSet(endedTurns') : k[1] = l) =>
                \/ (\E k \in ToSet(endedTurns) : k[1] = l) /\ ~Starts(item, l)
                \/ Ends(item, l)
      PROVE  EndsOnce(inbox', endedTurns', loop')
  <2>1. /\ inbox \in Seq(Items) /\ p \in 1..Len(inbox) /\ loop' = loop
        /\ inbox' = RemoveAt(inbox, p)
        /\ \A j \in 1..Len(inbox) : j < p => inbox[j].type = "TokenDelta"
    BY DEF PreviewInv, FlowTypes, Takes
  <2> HIDE DEF item
  <2>2. EndsOnce(RemoveAt(inbox, p), endedTurns', loop)
    BY <1>1, <1>2, <2>1, EndsOnceRemove DEF item
  <2> QED BY <2>1, <2>2
<1>3. CASE item.type = "TurnEnd"
  <2> DEFINE G == Grown(endedTurns, item.key)
  <2>1. /\ endedTurns' = Remember(endedTurns, item.key, limits.tombstones, {})
        /\ over' = over \union {item.key}
        /\ item.key \in Turn /\ item.key[1] \in Loops
    BY <1>3 DEF Items, Deltas, TurnRecords, SessionRecords, Turn
  <2>2. \A k \in ToSet(endedTurns) : k[1] # item.key[1]
    BY <1>3, <2>1, NotToldBefore
  <2> HIDE DEF item
  <2>3. G \in Seq(Turn) /\ ToSet(G) = ToSet(endedTurns) \union {item.key} /\ OnePerLoop(G)
    BY <1>1, <2>1, <2>2, GrownIs
  <2>4. /\ endedTurns' \in Seq(Turn) /\ OnePerLoop(endedTurns')
        /\ ToSet(endedTurns') \subseteq ToSet(endedTurns) \union {item.key}
        /\ ~(Len(G) > limits.tombstones) => endedTurns' = G
    BY <1>1, <2>1, <2>3, RememberIs
  <2>5. ASSUME Cardinality(Loops) <= limits'.tombstones PROVE over' \subseteq ToSet(endedTurns')
    <3>1. Len(G) <= Cardinality(Loops) /\ Len(G) \in Nat
      BY <2>3, OnePerLoopIsFew
    <3>2. Cardinality(Loops) \in Nat /\ limits.tombstones \in Nat
      BY BoundsAre, FS_CardinalityType DEF PreviewInv, FlowTypes
    <3>3. endedTurns' = G
      BY <3>1, <3>2, <2>4, <2>5, <1>1
    <3> QED BY <3>3, <2>1, <2>3, <2>5, <1>1
  <2>6. item.key \notin KeysHeld'
    BY <1>1, <1>3 DEF Lost, Breaks
  <2>7. KeysHeld' \intersect ToSet(endedTurns') = {}
    BY <2>4, <2>6, <1>1
  <2>8. EndsOnce(inbox', endedTurns', loop')
    <3>1. \A l : ~Starts(item, l)
      BY <1>3 DEF Starts
    <3>2. \A l : item.key[1] = l => Ends(item, l)
      BY <1>3 DEF Ends
    <3> QED BY <3>1, <3>2, <2>4, <1>2
  <2> QED BY <2>4, <2>5, <2>7, <2>8 DEF Remembered
<1>4. CASE item.type = "TurnStarted"
  <2>1. /\ endedTurns' = OtherLoops(endedTurns, item.key[1])
        /\ over' = {k \in over : k[1] # item.key[1]}
    BY <1>4
  <2> HIDE DEF item
  <2>2. /\ endedTurns' \in Seq(Turn) /\ OnePerLoop(endedTurns')
        /\ \A k : k \in ToSet(endedTurns') <=> k \in ToSet(endedTurns) /\ k[1] # item.key[1]
    BY <1>1, <2>1, OtherLoopsAre
  <2>3. EndsOnce(inbox', endedTurns', loop')
    BY <2>2, <1>2 DEF Starts
  <2> QED BY <2>1, <2>2, <2>3, <1>1 DEF Remembered
<1>5. CASE item.type \notin {"TurnEnd", "TurnStarted"}
  <2>1. endedTurns' = endedTurns /\ over' = over
    BY <1>5
  <2> HIDE DEF item
  <2>2. EndsOnce(inbox', endedTurns', loop')
    BY <2>1, <1>2, <1>5 DEF Starts
  <2> QED BY <2>1, <2>2, <1>1 DEF Remembered
<1> QED BY <1>3, <1>4, <1>5

LEMMA RecordKeeps ==
    ASSUME PreviewInv, NEW p, Takes(p), inbox[p].type # "TokenDelta", PublicRecord(inbox[p])
    PROVE  PreviewInv'
<1> DEFINE item == inbox[p]
<1>1. /\ ReconcileLiveText(item) /\ liveFrame' = FALSE /\ preview' = VisibleLiveText(liveText')
      /\ over' = CASE item.type = "TurnEnd" -> over \union {item.key}
                   [] item.type = "TurnStarted" -> {k \in over : k[1] # item.key[1]}
                   [] OTHER -> over
  BY DEF PublicRecord
<1>2. item \in Items
  BY DEF PreviewInv, FlowTypes, Takes
<1>3. /\ Kept(Lost(item))
      /\ sessionStopped' \in BOOLEAN
      /\ sessionStopped' => KeysHeld \ Lost(item) = {}
      /\ suppressedLiveKeys' \in Seq(Turn)
      /\ \A k \in KeysHeld \ Lost(item) :
           k \notin ToSet(suppressedLiveKeys') => k \notin ToSet(suppressedLiveKeys)
      /\ CASE item.type = "TurnEnd" ->
                endedTurns' = Remember(endedTurns, item.key, limits.tombstones, {})
           [] item.type = "TurnStarted" -> endedTurns' = OtherLoops(endedTurns, item.key[1])
           [] OTHER -> endedTurns' = endedTurns
  <2> HIDE DEF item
  <2>1. item.type # "TokenDelta"
    BY DEF item
  <2> QED BY <2>1, <1>1, <1>2, RecordIs
<1>4. Remembered' /\ endedTurns' \in Seq(Turn)
  BY <1>1, <1>2, <1>3, RecordRemembered
<1>5. FlowTypes' /\ (late' = 0 => p = 1 /\ late = 0 /\ inbox # <<>>)
  BY <1>1, <1>3, TakesFlows
<1> HIDE DEF item
<1> DEFINE rest == KeysHeld \ Lost(item)
<1>6. /\ KeysHeld' = rest /\ liveText' = [k \in rest |-> liveText[k]]
      /\ \A k \in rest : liveText'[k] = liveText[k]
      /\ liveTextBytes' = Total([k \in rest |-> liveText[k].bytes])
  BY <1>3 DEF Kept, KeysHeld
<1>7. rest \subseteq KeysHeld /\ Lost(item) \subseteq KeysHeld
  BY DEF Lost
<1>8. IsFiniteSet(KeysHeld) /\ IsFiniteSet(rest) /\ Cardinality(rest) <= Cardinality(KeysHeld)
        /\ Cardinality(rest) \in Nat /\ Cardinality(KeysHeld) \in Nat
  <2>1. IsFiniteSet(KeysHeld)
    BY DEF PreviewInv, HeldTypes
  <2> HIDE DEF rest
  <2> QED BY <2>1, <1>7, FS_Subset, FS_CardinalityType
<1>9. HeldTypes'
  <2>1. /\ \A k \in KeysHeld : liveText[k] \in PreviewOf /\ liveText[k].text # <<>>
        /\ KeysHeld \subseteq Turn
    BY DEF PreviewInv, HeldTypes
  <2> HIDE DEF rest
  <2>2. liveText' \in [rest -> PreviewOf]
    BY <2>1, <1>6, <1>7
  <2> QED BY <2>1, <2>2, <1>3, <1>4, <1>6, <1>7, <1>8 DEF HeldTypes
<1>10. Counted'
  <2>1. liveTextBytes' <= liveTextBytes /\ liveTextBytes' \in Nat /\ liveTextBytes \in Nat
    BY <1>6, <1>7, FewerBytes
  <2>2. /\ limits' = limits /\ limits.bytes \in Nat /\ limits.keys \in Nat
        /\ liveTextBytes <= limits.bytes /\ Cardinality(KeysHeld) <= limits.keys
    BY BoundsAre DEF PreviewInv, Counted, FlowTypes, Takes
  <2>3. liveTextBytes' <= limits'.bytes /\ Cardinality(KeysHeld') <= limits'.keys
    BY <2>1, <2>2, <1>6, <1>8
  <2>4. [k \in rest |-> liveText[k].bytes] = [k \in KeysHeld' |-> liveText'[k].bytes]
    BY <1>6
  <2>5. \A k \in KeysHeld' : liveText'[k].bytes = Encoded(liveText'[k].text)
    BY <1>6, <1>7 DEF PreviewInv, Counted
  <2> QED BY <2>3, <2>4, <2>5, <1>6 DEF Counted
<1>11. ShownOrOwed'
  BY <1>1 DEF ShownOrOwed
<1>12. Quiet'
  <2>1. phase' = "following"
    BY DEF Takes
  <2> QED BY <2>1, <1>3, <1>6 DEF Quiet
<1>13. GoesOnWhole'
  <2> SUFFICES ASSUME late' = 0
               PROVE  /\ \A k \in rest :
                           /\ Unbroken(liveText[k].text)
                           /\ k \notin ToSet(suppressedLiveKeys') =>
                                Resumes(inbox', loop, k, Last(liveText[k].text).step, Last(liveText[k].text).chunk, 0)
                      /\ \A i \in DOMAIN inbox' : inbox'[i].type = "TokenDelta" =>
                           Resumes(inbox', loop, inbox'[i].key, inbox'[i].step, inbox'[i].chunk, i)
    BY <1>6 DEF GoesOnWhole, Takes
  <2>1. p = 1 /\ late = 0 /\ inbox # <<>> /\ inbox' = RemoveAt(inbox, 1)
    BY <1>5 DEF Takes
  <2>2. /\ \A k \in KeysHeld : k \notin ToSet(suppressedLiveKeys) /\ ~Concerns(inbox[1], k) =>
             Resumes(inbox', loop, k, Last(liveText[k].text).step, Last(liveText[k].text).chunk, 0)
        /\ \A i \in DOMAIN inbox' : inbox'[i].type = "TokenDelta" =>
             Resumes(inbox', loop, inbox'[i].key, inbox'[i].step, inbox'[i].chunk, i)
    BY <2>1, BehindTheFirst
  <2>3. \A k \in rest : ~Concerns(inbox[1], k)
    BY <2>1 DEF Concerns, DeltaOf, Lost, item
  <2>4. \A k \in KeysHeld : Unbroken(liveText[k].text)
    BY <2>1 DEF PreviewInv, GoesOnWhole
  <2> QED BY <2>2, <2>3, <2>4, <1>3
<1> QED BY <1>4, <1>5, <1>9, <1>10, <1>11, <1>12, <1>13 DEF PreviewInv

-----------------------------------------------------------------------------
(* The preview is true.                                                    *)

LEMMA DeliverKeeps == ASSUME PreviewInv, Deliver PROVE PreviewInv'
<1>1. PICK p \in DOMAIN inbox :
        /\ p = 1 \/ (p = 2 /\ inbox[1].type = "TokenDelta" /\ late < MaxLate)
        /\ late' = late + (p - 1)
        /\ inbox' = RemoveAt(inbox, p)
        /\ Handle(inbox[p])
  BY DEF Deliver
<1>2. Takes(p)
  <2>1. inbox \in Seq(Items)
    BY DEF PreviewInv, FlowTypes
  <2>2. p \in 1..Len(inbox)
    BY <2>1
  <2>3. ASSUME NEW j \in 1..Len(inbox), j < p PROVE inbox[j].type = "TokenDelta"
    <3>1. p = 2 /\ j = 1 /\ inbox[1].type = "TokenDelta"
      BY <1>1, <2>2, <2>3
    <3> QED BY <3>1
  <2> QED BY <2>2, <2>3, <1>1 DEF Takes, Deliver, hostVars
<1>3. CASE inbox[p].type = "TokenDelta"
  <2>1. Delta(inbox[p]) /\ inbox[p] \in Items
    BY <1>1, <1>3 DEF Handle, PreviewInv, FlowTypes
  <2> QED BY <2>1, <1>2, <1>3, DeltaIs, DeltaNotShown, DeltaTakenIn
<1>4. CASE inbox[p].type # "TokenDelta"
  BY <1>1, <1>2, <1>4, RecordKeeps DEF Handle
<1> QED BY <1>3, <1>4

LEMMA PreviewStep == ASSUME PreviewInv, [LiveTextNext]_liveTextVars PROVE PreviewInv'
<1>1. CASE Host
  BY <1>1, HostKeeps
<1>2. CASE Resubscribe \/ TailProjected \/ EndView
  <2>1. /\ ResetLiveText /\ preview' = <<>> /\ UNCHANGED <<loop, late, limits>>
        /\ inbox' = <<>> \/ (inbox' = inbox /\ phase # "following")
        /\ phase' \in {"joining", "following", "over"}
    BY <1>2 DEF Resubscribe, TailProjected, EndView, hostVars
  <2>2. over' = {}
    BY <1>2 DEF Resubscribe, TailProjected, EndView, PreviewInv, Quiet
  <2> QED BY <2>1, <2>2, Resets
<1>3. CASE Deliver
  BY <1>3, DeliverKeeps
<1>4. CASE Flush
  BY <1>4, FlushKeeps
<1>5. CASE UNCHANGED liveTextVars
  BY <1>5, PreviewStutters
<1> QED BY <1>1, <1>2, <1>3, <1>4, <1>5 DEF LiveTextNext

LEMMA PreviewHolds == ASSUME PreviewInv PROVE PreviewTrue
<1>1. \A k \in KeysHeld : late = 0 => Unbroken(liveText[k].text)
  BY DEF PreviewInv, GoesOnWhole
<1>2. Cardinality(Loops) <= limits.tombstones => over \intersect KeysHeld = {}
  BY DEF PreviewInv, Remembered
<1>3. liveTextBytes = Total([k \in KeysHeld |-> Encoded(liveText[k].text)])
  <2>1. [k \in KeysHeld |-> Encoded(liveText[k].text)] = [k \in KeysHeld |-> liveText[k].bytes]
    BY DEF PreviewInv, Counted
  <2> QED BY <2>1 DEF PreviewInv, Counted
<1>4. /\ liveTextBytes <= limits.bytes /\ Cardinality(KeysHeld) <= limits.keys
      /\ ~liveFrame => preview = VisibleLiveText(liveText)
  BY DEF PreviewInv, Counted, ShownOrOwed
<1> QED BY <1>1, <1>2, <1>3, <1>4 DEF PreviewTrue

\* What is shown of a turn before it commits is one unbroken stretch of one step,
\* a turn that was told to have ended shows nothing, the budget counts the bytes
\* that are held, and what no frame is going to show is shown already: whatever is
\* published and however often the view subscribes.
THEOREM PreviewIsTrue == LiveTextSpec => []PreviewTrue
<1>1. LiveTextInit => PreviewInv
  BY PreviewInit
<1>2. PreviewInv /\ [LiveTextNext]_liveTextVars => PreviewInv'
  BY PreviewStep
<1>3. PreviewInv => PreviewTrue
  BY PreviewHolds
<1> QED BY <1>1, <1>2, <1>3, PTL DEF LiveTextSpec
=============================================================================
