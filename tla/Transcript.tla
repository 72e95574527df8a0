----------------------------- MODULE Transcript -----------------------------
(***************************************************************************)
(* The transcript of a legacy session: fold (packages/protocol/src/fold.ts)*)
(* over what the join hands it.  The durable record -- the journal, each   *)
(* event once and in order, SessionJoin's promise -- and the frames of     *)
(* work in progress, which are never stored, meet in one list of rows: a   *)
(* step's commit replaces the rows its frames built, and the end of a turn *)
(* keeps what no step committed.                                           *)
(*                                                                         *)
(* The session writes the journal and the frames.  A connection queues     *)
(* what it writes from the moment it attaches, reads the journal to its    *)
(* tip, and then folds the queue (join.ts); frames written while nobody is *)
(* attached are gone.  Text is the set of the steps it comes from; the     *)
(* lists nothing reads (content, queued inputs, compactions, the status    *)
(* events) and turn ids are left out.                                      *)
(***************************************************************************)
EXTENDS Naturals, Sequences

CONSTANTS
    Root, Child,    \* the loops
    NoLoop,         \* the zero loop id
    Commands,       \* command ids
    NoCommand,
    Gate,
    Firsts,         \* the journal positions a client may start behind
    Quiets,         \* whether the session may write while a connection attaches
    MaxRecords,     \* bound: the journal's length
    Allowances      \* bounds: what one behaviour may do of each thing

Loops == {Root, Child}
Spendable == {"turns", "steps", "spawns", "refusals", "gates", "deltas", "tools", "drops", "submits", "late"}

ASSUME TranscriptAssumption ==
    /\ Root # Child /\ NoLoop \notin Loops /\ NoCommand \notin Commands /\ MaxRecords \in Nat
    /\ Firsts \subseteq 0..MaxRecords /\ Quiets \subseteq BOOLEAN
    /\ Allowances \subseteq [Spendable -> Nat]

VARIABLES
    journal,    \* the session's durable events
    work,       \* the session: the step each loop is at, and whether a turn runs
    execs,      \* the session: the tool executions it announced
    budget,     \* what is left of each bound
    quiet,      \* the session writes nothing between an attach and its cold read
    phase,      \* the connection
    coldTip,    \* the journal's tip at its cold read
    stream,     \* what it queued and did not fold
    folded,     \* how much of the journal was folded
    view,
    durable     \* history: the view of a client that got no frames

sessionVars == <<journal, work, execs>>
linkVars == <<phase, coldTip, stream>>
transcriptVars == <<sessionVars, budget, quiet, linkVars, folded, view, durable>>

Spend(what) == budget[what] > 0 /\ budget' = [budget EXCEPT ![what] = @ - 1]

-----------------------------------------------------------------------------
(* Rows.  The array of the code only ever grows at its end, by a row with  *)
(* the next ordinal, is filtered, or has rows replaced in their places: it *)
(* is the function of its rows by their ordinals.                          *)

NoRow == [kind |-> "", loop |-> NoLoop, seq |-> 0, live |-> FALSE, orphan |-> FALSE,
          text |-> {}, use |-> 0, exec |-> 0, status |-> "", spawned |-> NoLoop]

emptySessionView ==
    [rows |-> <<>>, next |-> 0, loops |-> <<>>, gates |-> {},
     pending |-> <<>>, outcomes |-> <<>>, cards |-> <<>>]

\* The function f, with key k set to value x, and without the keys in K.
Set(f, k, x) == [y \in DOMAIN f \union {k} |-> IF y = k THEN x ELSE f[y]]
Without(f, K) == [y \in DOMAIN f \ K |-> f[y]]

\* The ordinals of the rows that pass a test; the first and the last of some.
Ordinals(v, test(_)) == {o \in DOMAIN v.rows : test(v.rows[o])}
Earliest(S) == {o \in S : \A p \in S : o <= p}
Latest(S) == {o \in S : \A p \in S : o >= p}

\* The rows at some ordinals are replaced; the rows at some are filtered out.
ReplaceRows(v, at, op(_)) ==
    [v EXCEPT !.rows = [o \in DOMAIN v.rows |-> IF o \in at THEN op(v.rows[o]) ELSE v.rows[o]]]
DropRows(v, at) == [v EXCEPT !.rows = Without(v.rows, at)]

\* appendRow(): the only place an ordinal is taken.
AppendRow(v, row) == [v EXCEPT !.rows = Set(v.rows, v.next, row), !.next = v.next + 1]

\* ensureLoop(): a loop is known from the first mention, as unobserved.
EnsureLoop(v, l) ==
    IF l = NoLoop \/ l \in DOMAIN v.loops THEN v
    ELSE [v EXCEPT !.loops = Set(v.loops, l, [observed |-> FALSE, parent |-> NoLoop, use |-> 0])]

IsOrphanLoop(v, l) == l \in DOMAIN v.loops /\ ~v.loops[l].observed

\* A new row of loop l; seq 0 and live for the frames.
Draft(v, kind, l, seq) ==
    [NoRow EXCEPT !.kind = kind, !.loop = l, !.seq = seq, !.live = (seq = 0),
                  !.orphan = IsOrphanLoop(v, l)]

\* childLoopFor(): the loop a tool call of l spawned.
ChildLoopFor(v, l, use) ==
    LET born == {c \in DOMAIN v.loops : /\ v.loops[c].observed /\ use # 0
                                        /\ v.loops[c].parent = l /\ v.loops[c].use = use}
    IN  IF born = {} THEN NoLoop ELSE CHOOSE c \in born : TRUE

-----------------------------------------------------------------------------
(* Frames.                                                                  *)

\* Seeded fault: the loop's last row is extended, whoever wrote it.
LastRow(v, l) ==
    Latest(Ordinals(v, LAMBDA r : r.loop = l)) \intersect Ordinals(v, LAMBDA r : r.kind = "assistant")

\* liveAssistantIndex(): the loop's last row, if it is live prose.
LiveAssistantIndex(v, l) ==
    Latest(Ordinals(v, LAMBDA r : r.loop = l))
      \intersect Ordinals(v, LAMBDA r : r.live /\ r.kind = "assistant")

\* applyLiveChunk(): an empty chunk opens a row too.
FoldDelta(v, f) ==
    LET at == LiveAssistantIndex(v, f.loop)
        text == IF f.blank THEN {} ELSE {f.step}
    IN  IF at = {} THEN AppendRow(v, [Draft(v, "assistant", f.loop, 0) EXCEPT !.text = text])
        ELSE ReplaceRows(v, at, LAMBDA r : [r EXCEPT !.text = r.text \union text])

\* The card of an execution, whichever of its two frames comes first.
FoldCard(v, f) ==
    [v EXCEPT !.cards = Set(v.cards, f.exec,
        IF f.exec \in DOMAIN v.cards /\ f.kind = "started" THEN v.cards[f.exec] ELSE f.kind)]

\* liveToolIndex(): two loops running one tool are two rows.
LiveToolIndex(v, f) ==
    Earliest(Ordinals(v, LAMBDA r : r.live /\ r.kind = "tool" /\ r.loop = f.loop /\ r.exec = f.exec))

\* tool_call_started and tool_call_completed: the card and the live row.
FoldTool(v, f) ==
    LET status == IF f.kind = "started" THEN "running" ELSE "ok"
        carded == FoldCard(v, f)
        at == LiveToolIndex(carded, f)
    IN  IF at = {}
        THEN AppendRow(carded, [Draft(v, "tool", f.loop, 0) EXCEPT !.exec = f.exec, !.status = status])
        ELSE IF f.kind = "started" THEN carded
        ELSE ReplaceRows(carded, at, LAMBDA r : [r EXCEPT !.status = status])

FoldEphemeral(input, f) ==
    LET v == EnsureLoop(input, f.loop) IN
    IF f.kind = "delta" THEN FoldDelta(v, f) ELSE FoldTool(v, f)

-----------------------------------------------------------------------------
(* Durable events.                                                          *)

IsLiveSegmentRow(r, l) == r.live /\ r.loop = l /\ r.kind # "user"
IsEmptyLiveProse(r, l) == r.live /\ r.loop = l /\ r.kind = "assistant" /\ r.text = {}

\* Seeded fault: the prose a step committed stays beside the frames'.
DropLiveTools(v, l) == DropRows(v, Ordinals(v, LAMBDA r : IsLiveSegmentRow(r, l) /\ r.kind = "tool"))

DropLiveRows(v, l) == DropRows(v, Ordinals(v, LAMBDA r : IsLiveSegmentRow(r, l)))

\* commitLiveRows(): a row that ran on ends as the turn did.
CommitLiveRows(v, l, seq, running) ==
    ReplaceRows(v, Ordinals(v, LAMBDA r : IsLiveSegmentRow(r, l)),
        LAMBDA r : [r EXCEPT !.live = FALSE, !.seq = seq,
                             !.status = IF r.status = "running" THEN running ELSE r.status])

CommitTerminalSegment(v, l, seq, running) ==
    CommitLiveRows(DropRows(v, Ordinals(v, LAMBDA r : IsEmptyLiveProse(r, l))), l, seq, running)

\* resolveCommand(): the acknowledged command's pending row goes.
ResolveCommand(v, c, outcome) ==
    IF c = NoCommand THEN v
    ELSE [DropRows(v, {o \in DOMAIN v.rows : c \in DOMAIN v.pending /\ o = v.pending[c]})
            EXCEPT !.outcomes = Set(v.outcomes, c, outcome), !.pending = Without(v.pending, {c})]

\* Seeded fault: the rows that came before the loop's record stay orphans.
AnchorOnly(v, e) ==
    ReplaceRows(v, Ordinals(v, LAMBDA r : r.kind = "tool" /\ e.use # 0 /\ r.loop = e.cause /\ r.use = e.use),
        LAMBDA r : [r EXCEPT !.spawned = e.loop])

\* relinkLoop(): the loop's rows are no orphans, and its parent's row names it.
RelinkLoop(v, e) ==
    ReplaceRows(v, DOMAIN v.rows, LAMBDA r :
        IF r.kind = "tool" /\ e.use # 0 /\ r.loop = e.cause /\ r.use = e.use
        THEN [r EXCEPT !.spawned = e.loop]
        ELSE IF r.loop = e.loop THEN [r EXCEPT !.orphan = FALSE] ELSE r)

FoldTurnStarted(v, e, seq) ==
    LET resolved == ResolveCommand(v, e.command, "started") IN
    IF e.cause # NoLoop THEN resolved
    ELSE AppendRow(resolved, Draft(resolved, "user", e.loop, seq))

\* The step's commit: what its frames built goes, its prose and tool call come.
FoldStepDone(v, e, seq) ==
    LET snapped == DropLiveRows(v, e.loop)
        told == IF ~e.prose THEN snapped
                ELSE AppendRow(snapped, [Draft(v, "assistant", e.loop, seq) EXCEPT !.text = {e.step}])
    IN  IF e.use = 0 THEN told
        ELSE AppendRow(told, [Draft(v, "tool", e.loop, seq) EXCEPT !.use = e.use, !.status = "ok",
                                !.spawned = ChildLoopFor(v, e.loop, e.use)])

FoldTerminal(v, e, seq) ==
    CASE e.kind = "TurnDone" -> CommitTerminalSegment(v, e.loop, seq, "ok")
      [] e.kind = "TurnInterrupted" ->
            AppendRow(CommitTerminalSegment(v, e.loop, seq, "cancelled"),
                      Draft(v, "tombstone", e.loop, seq))
      [] e.kind = "TurnFailed" ->
            AppendRow(CommitTerminalSegment(v, e.loop, seq, "error"),
                      Draft(v, "notice", e.loop, seq))

FoldRefusal(v, e, seq) ==
    IF e.kind = "InputCancelled" THEN ResolveCommand(v, e.command, "cancelled")
    ELSE AppendRow(ResolveCommand(v, e.command, "rejected"), Draft(v, "notice", e.loop, seq))

FoldLoopStarted(v, e) ==
    RelinkLoop([v EXCEPT !.loops =
        Set(v.loops, e.loop, [observed |-> TRUE, parent |-> e.cause, use |-> e.use])], e)

\* Only an answer whose principal is stamped leaves a notice.
FoldGate(v, e, seq) ==
    IF e.kind = "GateOpened" THEN [v EXCEPT !.gates = @ \union {Gate}]
    ELSE [IF e.signed THEN AppendRow(v, Draft(v, "notice", e.loop, seq)) ELSE v EXCEPT !.gates = @ \ {Gate}]

Terminals == {"TurnDone", "TurnInterrupted", "TurnFailed"}

FoldEnduring(input, e, seq) ==
    LET v == EnsureLoop(input, e.loop) IN
    CASE e.kind = "TurnStarted" -> FoldTurnStarted(v, e, seq)
      [] e.kind = "StepDone" -> FoldStepDone(v, e, seq)
      [] e.kind \in Terminals -> FoldTerminal(v, e, seq)
      [] e.kind \in {"TurnRejected", "InputCancelled"} -> FoldRefusal(v, e, seq)
      [] e.kind = "LoopStarted" -> FoldLoopStarted(v, e)
      [] e.kind \in {"GateOpened", "GateResolved"} -> FoldGate(v, e, seq)

-----------------------------------------------------------------------------
(* Selectors (rows.ts).                                                     *)

\* Seeded fault: a loop's rows in the order they were appended.
AsAppended(v, o, p) == o < p

\* rowsForLoop(): the loop's rows, and which of two is read first: by the event
\* that committed them, and what is live last.
RowsForLoop(v, l) == Ordinals(v, LAMBDA r : r.loop = l)
ReadFirst(v, o, p) ==
    LET a == v.rows[o]  b == v.rows[p] IN
    \/ ~a.live /\ b.live
    \/ (a.live <=> b.live) /\ (a.seq < b.seq \/ (a.seq = b.seq /\ o < p))

\* anchorOf(): the tool row the block of loop l hangs from.
AnchorOf(v, l) ==
    Earliest(Ordinals(v, LAMBDA r : /\ v.loops[l].observed /\ v.loops[l].use # 0
                                 /\ r.kind = "tool" /\ r.loop = v.loops[l].parent
                                 /\ r.use = v.loops[l].use))

-----------------------------------------------------------------------------
(* The session.                                                             *)

NoEvent == [kind |-> "", loop |-> NoLoop, cause |-> NoLoop, command |-> NoCommand,
            step |-> 0, prose |-> FALSE, use |-> 0, signed |-> FALSE]

Event(kind, l) == [NoEvent EXCEPT !.kind = kind, !.loop = l]

\* What is written while a connection reads or folds only waits in the queue,
\* behind what is there, so it may as well be written later.
MayWrite == \/ phase = "off"
            \/ phase = "attached" /\ ~quiet
            \/ phase = "live" /\ stream = <<>>

Write(e) ==
    /\ MayWrite /\ Len(journal) < MaxRecords
    /\ journal' = Append(journal, e)
    /\ stream' = IF phase = "off" THEN stream ELSE Append(stream, [NoEvent EXCEPT !.kind = "enduring", !.step = Len(journal) + 1])
    /\ UNCHANGED <<quiet, phase, coldTip, folded, view, durable>>

\* Every loop announces itself; a child, the tool call of the running step that
\* spawned it.  Its record may come after that step's own.
StartLoop ==
    /\ UNCHANGED execs
    /\ \/ /\ journal = <<>> /\ UNCHANGED budget
          /\ Write(Event("LoopStarted", Root))
          /\ work' = [work EXCEPT ![Root].started = TRUE]
       \/ /\ work[Root].step > 0 /\ ~work[Child].started /\ Spend("spawns")
          /\ \E use \in {1, work[Root].step} :
               Write([Event("LoopStarted", Child) EXCEPT !.cause = Root, !.use = use])
          /\ work' = [work EXCEPT ![Child].started = TRUE]

\* A loop works once its record is written -- or, with the allowance, a child
\* from the step that calls it: its record is written behind its first work, the
\* order fold.ts:1391-1406 is for.
MayWork(l) == work[l].started \/ (l = Child /\ work[Root].step > 0 /\ budget["late"] > 0)

\* A turn of the root answers a command, or a child's hand-back; a child's turn
\* is its parent's doing.
StartTurn(l) ==
    /\ MayWork(l) /\ ~work[l].running /\ Spend("turns")
    /\ \E c \in Commands \union {NoCommand} :
         /\ c = NoCommand \/ (l = Root /\ \A i \in DOMAIN journal : journal[i].command # c)
         /\ c = NoCommand => l = Child \/ work[Child].started
         /\ Write([Event("TurnStarted", l) EXCEPT !.command = c,
                     !.cause = IF c # NoCommand THEN NoLoop ELSE IF l = Root THEN Child ELSE Root])
    /\ work' = [work EXCEPT ![l].running = TRUE, ![l].step = @ + 1]
    /\ UNCHANGED execs

\* The step's group: prose, a tool call, or both; the next one begins.
CompleteStep(l) ==
    /\ work[l].running /\ Spend("steps")
    /\ \E prose \in BOOLEAN, calls \in BOOLEAN :
         /\ prose \/ calls
         /\ Write([Event("StepDone", l) EXCEPT !.step = work[l].step, !.prose = prose,
                     !.use = IF calls THEN work[l].step ELSE 0])
    /\ work' = [work EXCEPT ![l].step = @ + 1]
    /\ UNCHANGED execs

EndTurn(l) ==
    /\ work[l].running
    /\ \E kind \in Terminals : Write(Event(kind, l))
    /\ work' = [work EXCEPT ![l].running = FALSE]
    /\ UNCHANGED <<execs, budget>>

\* A submit that starts no turn.
Refuse ==
    /\ work[Root].started /\ Spend("refusals")
    /\ \E c \in Commands, kind \in {"TurnRejected", "InputCancelled"} :
         /\ \A i \in DOMAIN journal : journal[i].command # c
         /\ Write([Event(kind, Root) EXCEPT !.command = c])
    /\ UNCHANGED <<work, execs>>

MoveGate ==
    /\ \E l \in Loops : work[l].running
    /\ Spend("gates")
    /\ LET open == \E i \in DOMAIN journal : /\ journal[i].kind = "GateOpened"
                                             /\ \A j \in DOMAIN journal : j > i => journal[j].kind # "GateResolved"
       IN  \E signed \in BOOLEAN :
             /\ signed => open
             /\ Write([Event(IF open THEN "GateResolved" ELSE "GateOpened", Root) EXCEPT !.signed = signed])
    /\ UNCHANGED <<work, execs>>

\* A frame of the running step; lost when nobody is attached.
Emit(f) ==
    /\ MayWrite /\ work[f.loop].running
    /\ stream' = IF phase = "off" THEN stream ELSE Append(stream, f)
    /\ UNCHANGED <<journal, work, quiet, phase, coldTip, folded, view, durable>>

Stream(l) ==
    /\ Spend("deltas")
    /\ \E blank \in BOOLEAN :
         Emit([kind |-> "delta", loop |-> l, step |-> work[l].step, blank |-> blank])
    /\ UNCHANGED execs

\* A tool execution starts, or the one started last in this step completes.
RunTool(l) ==
    /\ Spend("tools")
    /\ \/ /\ execs' = Append(execs, [loop |-> l, step |-> work[l].step, over |-> FALSE])
          /\ Emit([kind |-> "started", loop |-> l, exec |-> Len(execs) + 1])
       \/ \E x \in DOMAIN execs :
            /\ execs[x].loop = l /\ execs[x].step = work[l].step /\ ~execs[x].over
            /\ execs' = [execs EXCEPT ![x].over = TRUE]
            /\ Emit([kind |-> "completed", loop |-> l, exec |-> x])

Session ==
    \/ StartLoop \/ Refuse \/ MoveGate
    \/ \E l \in Loops : StartTurn(l) \/ CompleteStep(l) \/ EndTurn(l) \/ Stream(l) \/ RunTool(l)

-----------------------------------------------------------------------------
(* The connection.                                                          *)

Attach ==
    /\ phase = "off"
    /\ phase' = "attached" /\ stream' = <<>>
    /\ UNCHANGED <<sessionVars, budget, quiet, coldTip, folded, view, durable>>

ColdRead ==
    /\ phase = "attached" /\ Len(journal) >= folded
    /\ phase' = "reading" /\ coldTip' = Len(journal)
    /\ UNCHANGED <<sessionVars, budget, quiet, stream, folded, view, durable>>

FoldNext ==
    /\ folded' = folded + 1
    /\ view' = FoldEnduring(view, journal[folded + 1], folded + 1)
    /\ durable' = FoldEnduring(durable, journal[folded + 1], folded + 1)

\* The journal to the tip, then the queue without what the journal gave.
FoldCold ==
    /\ phase = "reading"
    /\ IF folded < coldTip THEN FoldNext /\ UNCHANGED phase
       ELSE phase' = "live" /\ UNCHANGED <<folded, view, durable>>
    /\ UNCHANGED <<sessionVars, budget, quiet, coldTip, stream>>

FoldLive ==
    /\ phase = "live" /\ stream # <<>>
    /\ stream' = Tail(stream)
    /\ LET f == Head(stream) IN
         IF f.kind # "enduring"
         THEN view' = FoldEphemeral(view, f) /\ UNCHANGED <<folded, durable>>
         ELSE IF f.step <= folded THEN UNCHANGED <<folded, view, durable>>
         ELSE FoldNext
    /\ UNCHANGED <<sessionVars, budget, quiet, phase, coldTip>>

Drop ==
    /\ phase # "off" /\ Spend("drops")
    /\ phase' = "off" /\ stream' = <<>>
    /\ UNCHANGED <<sessionVars, quiet, coldTip, folded, view, durable>>

\* addPendingRow(): this tab's composer submits.
AddPendingRow ==
    /\ Spend("submits")
    /\ \E c \in Commands \ DOMAIN view.pending :
         /\ c \notin DOMAIN view.outcomes
         /\ view' = [AppendRow(view, [NoRow EXCEPT !.kind = "user", !.live = TRUE])
                       EXCEPT !.pending = Set(view.pending, c, view.next)]
    /\ UNCHANGED <<sessionVars, quiet, linkVars, folded, durable>>

-----------------------------------------------------------------------------
TranscriptInit ==
    /\ journal = <<>> /\ execs = <<>>
    /\ work = [l \in Loops |-> [started |-> FALSE, running |-> FALSE, step |-> 0]]
    /\ budget \in Allowances /\ quiet \in Quiets
    /\ phase = "off" /\ coldTip = 0 /\ stream = <<>>
    /\ folded \in Firsts
    /\ view = emptySessionView /\ durable = emptySessionView

TranscriptNext == Session \/ Attach \/ ColdRead \/ FoldCold \/ FoldLive \/ Drop \/ AddPendingRow

TranscriptSpec == TranscriptInit /\ [][TranscriptNext]_transcriptVars

-----------------------------------------------------------------------------
(* Properties.                                                             *)

\* The rows of pending commands are the live user rows; and a live tool row runs
\* as long as its card does.
TranscriptTypes ==
    /\ Len(journal) <= MaxRecords /\ folded \in 0..MaxRecords /\ coldTip \in 0..Len(journal)
    /\ phase \in {"off", "attached", "reading", "live"}
    /\ DOMAIN view.loops \subseteq Loops /\ view.gates \subseteq {Gate}
    /\ DOMAIN view.outcomes \subseteq Commands /\ DOMAIN view.pending \subseteq Commands
    /\ \A o \in DOMAIN view.rows : o \in 0..(view.next - 1)
    /\ {view.pending[c] : c \in DOMAIN view.pending}
         = Ordinals(view, LAMBDA r : r.live /\ r.kind = "user")
    /\ \A o \in Ordinals(view, LAMBDA r : r.live /\ r.kind = "tool") :
         LET r == view.rows[o]
         IN  r.exec \in DOMAIN view.cards /\ (r.status = "running" <=> view.cards[r.exec] = "started")

\* A row the journal wrote: not live, nor kept from the frames of a turn no step
\* of which committed it.
Durable(r) == ~r.live /\ (r.kind \in {"assistant", "tool"} => journal[r.seq].kind = "StepDone")

\* Whatever frames came, were lost or were late, what the journal says is shown
\* as a client that got no frames at all shows it: the same rows in the same
\* order, the same open gates, loops and outcomes.
ReplayAgrees ==
    LET kept == Ordinals(view, Durable)
        given == DOMAIN durable.rows
        observed(v) == {<<l, v.loops[l]>> : l \in {k \in DOMAIN v.loops : v.loops[k].observed}}
    IN  /\ {view.rows[o] : o \in kept} = {durable.rows[o] : o \in given}
        /\ \A o, p \in kept, x, y \in given :
             view.rows[o] = durable.rows[x] /\ view.rows[p] = durable.rows[y] => (o < p <=> x < y)
        /\ view.gates = durable.gates /\ view.outcomes = durable.outcomes
        /\ observed(view) = observed(durable)

\* A row is marked an orphan exactly while its loop's record was not seen -- the
\* rows of a page that starts behind the record, and the rows, live or committed,
\* that came before it until it came -- and a committed tool call names the loop
\* it spawned, in whichever order its row and that loop's record came.
TreeKnown ==
    \A o \in DOMAIN view.rows : LET r == view.rows[o] IN
      /\ r.orphan <=> IsOrphanLoop(view, r.loop)
      /\ r.kind = "tool" => r.spawned = ChildLoopFor(view, r.loop, r.use)
      /\ r.spawned # NoLoop => o \in AnchorOf(view, r.spawned)

\* The committed part of a loop's rows, as they are read, only grows at its end:
\* a row of a turn in progress that is kept when the turn ends is not slipped in
\* among what was committed while it ran, nor is anything committed rewritten.
Committed(v, l) == {o \in RowsForLoop(v, l) : ~v.rows[o].live}
Told(r) == <<r.kind, r.text, r.status>>
GrowsAtItsEnd(v, w, l) ==
    LET had == Committed(v, l) IN
    /\ had \subseteq Committed(w, l) /\ \A o \in had : Told(w.rows[o]) = Told(v.rows[o])
    /\ \A o, p \in had : ReadFirst(w, o, p) <=> ReadFirst(v, o, p)
    /\ \A o \in had, p \in Committed(w, l) \ had : ReadFirst(w, o, p)
PartitionGrows == [][\A l \in Loops : GrowsAtItsEnd(view, view', l)]_transcriptVars

\* What a step said is said once: after its commit was folded no other row, live
\* or kept at the end of the turn, holds any of its text.
ToldOnce ==
    \A i \in DOMAIN journal : journal[i].kind = "StepDone" /\ i <= folded =>
      \A o \in DOMAIN view.rows : LET r == view.rows[o] IN
        r.kind = "assistant" /\ r.loop = journal[i].loop /\ journal[i].step \in r.text => r.seq = i

\* It is while the session writes nothing between an attach and its cold read.
QuietlyToldOnce == quiet => ToldOnce
=============================================================================
