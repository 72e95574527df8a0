----------------------------- MODULE LiveStream -----------------------------
(***************************************************************************)
(* One live connection of the legacy transport: the response body, in      *)
(* whatever chunks it arrives, through the line parser (packages/protocol/ *)
(* src/sse.ts), and the connection around it that a join opens and returns *)
(* (live.ts).                                                              *)
(*                                                                         *)
(* The body is a sequence of symbols: "event", "id" and "data" begin a     *)
(* field line, ":" a comment, "x" is a piece of any text, "cr" and "lf" end*)
(* lines.  A payload is valid when it is whole, two pieces or more in one  *)
(* data line or two; a single piece is half of one.  The parser is the code's, step by step; what it should    *)
(* have yielded is defined below it, from the blocks the server sent.      *)
(***************************************************************************)
EXTENDS Integers, Sequences, SequencesExt, FiniteSets, FiniteSetsExt

CONSTANTS
    Blocks,         \* the blocks the server may send, each a sequence of lines
    Breaks,         \* the line ends it may use, each a sequence of symbols
    MaxBlocks,      \* bound: blocks of one connection
    MaxLine         \* MAX_BUFFERED_LINE_BYTES

Symbols == {"event", "other", "id", "data", ":", "x", "cr", "lf"}

ASSUME LiveAssumption ==
    /\ \A b \in Blocks : \A i \in DOMAIN b : ToSet(b[i]) \subseteq Symbols \ {"cr", "lf"}
    /\ Breaks \subseteq {<<"lf">>, <<"cr">>, <<"cr", "lf">>}
    /\ {MaxBlocks, MaxLine} \subseteq Nat
    \* A line that is too long is the last of its block: the server writes data last.
    /\ \A b \in Blocks : \A i \in DOMAIN b : Len(b[i]) > MaxLine => i = Len(b)

VARIABLES
    sent,       \* what the server has to send, pairs of a block and its line ends
    body,       \* the same as symbols
    read,       \* how many of the symbols the reader was given
    buffer, scanFrom,                           \* SseFrameParser
    event, id, data, sawFieldLine, sawCommentLine,
    frames,     \* parsed and not yet yielded
    yielded,
    pc,         \* the generator
    returned,   \* return() was called
    aborted,    \* the controller
    cuts        \* history: where a line was cut at the bound, in symbols read

serverVars == <<sent, body>>
blockVars == <<event, id, data, sawFieldLine, sawCommentLine>>
parserVars == <<buffer, scanFrom, blockVars, frames, cuts>>
vars == <<serverVars, read, parserVars, yielded, pc, returned, aborted>>

-----------------------------------------------------------------------------
(* The parser.                                                             *)

Frame(type) == [type |-> type]

\* nextLineBreak(): the first line end at or after from; a trailing CR is one
\* only when nothing more can come.
NextLineBreak(s, from, atEnd) ==
    LET ends == {i \in from..Len(s) : s[i] = "lf" \/ (s[i] = "cr" /\ (i < Len(s) \/ atEnd))}
    IN  IF ends = {} THEN [index |-> 0, length |-> 0]
        ELSE LET i == CHOOSE i \in ends : \A j \in ends : i <= j
             IN  [index |-> i, length |-> IF s[i] = "cr" /\ i < Len(s) /\ s[i + 1] = "lf" THEN 2 ELSE 1]

EmptyBlock == [event |-> "", id |-> FALSE, data |-> <<>>, lines |-> 0, field |-> FALSE, comment |-> FALSE]

ValidPayload(d) == Len(d) >= 2

\* dispatch(): what the block amounts to; nothing for one without lines.
Dispatch(b) ==
    IF ~b.field THEN (IF b.comment THEN <<Frame("heartbeat")>> ELSE <<>>)
    ELSE IF b.lines = 0 THEN <<Frame("error")>>
    ELSE IF b.event \notin {"event", "other"} THEN <<Frame("error")>>
    ELSE IF b.event = "event" /\ ~b.id THEN <<Frame("error")>>
    ELSE IF ~ValidPayload(b.data) THEN <<Frame("error")>>
    ELSE <<Frame(IF b.event = "event" THEN "enduring" ELSE "ephemeral")>>

\* processLine(): a line that is not blank.
ProcessLine(b, line) ==
    IF line[1] = ":" THEN [b EXCEPT !.comment = TRUE]
    ELSE LET seen == [b EXCEPT !.field = TRUE] IN
         CASE line[1] \in {"event", "other"} ->
                [seen EXCEPT !.event = IF Len(line) = 1 THEN line[1] ELSE "unknown"]
           [] line[1] = "id" -> [seen EXCEPT !.id = (Len(line) = 1)]
           [] line[1] = "data" -> [seen EXCEPT !.data = @ \o Tail(line), !.lines = @ + 1]
           [] OTHER -> seen

TooLong(text) == Len(text) > MaxLine

\* Seeded fault: the lines before the one that was too long are kept.
FailOversizedLineOnly(s) ==
    [s EXCEPT !.buffer = <<>>, !.scanFrom = 1, !.frames = Append(@, Frame("error")),
       !.cut = TRUE, !.over = TRUE]

\* failOversizedLine(): the block goes with its line.
FailOversizedLine(s) ==
    [s EXCEPT !.buffer = <<>>, !.scanFrom = 1, !.frames = Append(@, Frame("error")),
       !.cut = TRUE, !.over = TRUE, !.block = EmptyBlock]

\* Where the next scan begins: a trailing CR is looked at again.
Scanned(text) == IF text # <<>> /\ Last(text) = "cr" THEN Len(text) ELSE Len(text) + 1

\* drain(): one turn of the loop over the lines the text completes.
Turn(s, atEnd) ==
    LET at == NextLineBreak(s.buffer, s.scanFrom, atEnd) IN
    IF at.index = 0
    THEN IF TooLong(s.buffer) THEN FailOversizedLine(s)
         ELSE [s EXCEPT !.over = TRUE, !.scanFrom = Scanned(s.buffer)]
    ELSE LET line == SubSeq(s.buffer, 1, at.index - 1)
             next == [s EXCEPT !.scanFrom = 1,
                        !.buffer = SubSeq(@, at.index + at.length, Len(@))]
         IN  IF line = <<>> THEN [next EXCEPT !.block = EmptyBlock, !.frames = @ \o Dispatch(s.block)]
             ELSE [next EXCEPT !.block = ProcessLine(@, line)]

Drain(text, atEnd) ==
    LET start == [buffer |-> buffer \o text, scanFrom |-> scanFrom,
                  block |-> [event |-> event, id |-> id, data |-> data.text, lines |-> data.lines,
                             field |-> sawFieldLine, comment |-> sawCommentLine],
                  frames |-> <<>>, cut |-> FALSE, over |-> FALSE]
    IN  FoldLeft(LAMBDA s, n : IF s.over THEN s ELSE Turn(s, atEnd), start,
                 [n \in 1..(Len(start.buffer) + 1) |-> n])

Parsed(text, atEnd) ==
    \E s \in {Drain(text, atEnd)} :
    /\ buffer' = s.buffer /\ scanFrom' = s.scanFrom
    /\ event' = s.block.event /\ id' = s.block.id
    /\ data' = [text |-> s.block.data, lines |-> s.block.lines]
    /\ sawFieldLine' = s.block.field /\ sawCommentLine' = s.block.comment
    /\ frames' = frames \o s.frames
    /\ cuts' = IF s.cut THEN cuts \union {read'} ELSE cuts

-----------------------------------------------------------------------------
(* The server: pkg/serve's event stream.                                   *)

Wire(pair) == FoldLeft(LAMBDA text, line : text \o line \o pair[2], <<>>, pair[1]) \o pair[2]

-----------------------------------------------------------------------------
(* The connection.                                                         *)

\* run(): the request is refused, fails, or has a body; an abort makes it fail
\* quietly, unless its answer was there already.
Fetched ==
    /\ pc = "fetching"
    /\ pc' \in IF aborted THEN {"reading", "threw", "closed"} ELSE {"reading", "threw"}
    /\ UNCHANGED <<serverVars, read, parserVars, yielded, returned, aborted>>

\* feed(): one chunk of any size.
Feed ==
    /\ pc = "reading" /\ frames = <<>> /\ ~aborted
    /\ \E n \in (read + 1)..Len(body) :
         /\ read' = n
         /\ Parsed(SubSeq(body, read + 1, n), FALSE)
    /\ UNCHANGED <<serverVars, yielded, pc, returned, aborted>>

\* finish(): the response ends, wherever it is; a line it left open is discarded.
FinishBody ==
    /\ pc = "reading" /\ frames = <<>> /\ ~aborted
    /\ read' = read /\ Parsed(<<>>, TRUE)
    /\ pc' = "finishing"
    /\ UNCHANGED <<serverVars, yielded, returned, aborted>>

\* The read fails: after an abort that is no error.
ReadFails ==
    /\ pc = "reading" /\ frames = <<>>
    /\ pc' = IF aborted THEN "closed" ELSE "threw"
    /\ UNCHANGED <<serverVars, read, parserVars, yielded, returned, aborted>>

\* The consumer takes the next frame; a returned generator yields no more.
Yield ==
    /\ pc \in {"reading", "finishing"} /\ frames # <<>> /\ ~aborted
    /\ yielded' = Append(yielded, Head(frames)) /\ frames' = Tail(frames)
    /\ UNCHANGED <<serverVars, read, buffer, scanFrom, blockVars, cuts, pc, returned, aborted>>

Done ==
    /\ pc = "finishing" /\ frames = <<>> /\ pc' = "closed"
    /\ UNCHANGED <<serverVars, read, parserVars, yielded, returned, aborted>>

\* return(): aborts at once; a generator that waits for its consumer ends, one
\* that waits for the network is left to the abort.
Return ==
    /\ ~returned /\ returned' = TRUE /\ aborted' = TRUE
    /\ pc' \in IF pc = "threw" THEN {pc} ELSE IF frames # <<>> THEN {"closed"} ELSE {pc, "closed"}
    /\ UNCHANGED <<serverVars, read, parserVars, yielded>>

\* The same just after a read resolved: its first frame answers the pending
\* next(), then the generator ends.
ReturnBehindChunk ==
    /\ pc = "reading" /\ frames = <<>> /\ ~returned /\ returned' = TRUE /\ aborted' = TRUE
    /\ \E n \in (read + 1)..Len(body) : \E s \in {Drain(SubSeq(body, read + 1, n), FALSE)} :
         /\ s.frames # <<>> /\ yielded' = Append(yielded, Head(s.frames))
         /\ read' = n /\ cuts' = IF s.cut THEN cuts \union {n} ELSE cuts
    /\ pc' = "closed"
    /\ UNCHANGED <<serverVars, buffer, scanFrom, blockVars, frames>>

Init ==
    /\ sent \in [1..MaxBlocks -> Blocks \X Breaks]
    /\ body = FlattenSeq([i \in 1..MaxBlocks |-> Wire(sent[i])])
    /\ read = 0
    /\ buffer = <<>> /\ scanFrom = 1
    /\ event = "" /\ id = FALSE /\ data = [text |-> <<>>, lines |-> 0]
    /\ sawFieldLine = FALSE /\ sawCommentLine = FALSE
    /\ frames = <<>> /\ yielded = <<>>
    /\ pc = "fetching" /\ returned = FALSE /\ aborted = FALSE /\ cuts = {}

Generator == Fetched \/ Feed \/ FinishBody \/ ReadFails \/ Yield \/ Done

Next == Generator \/ Return \/ ReturnBehindChunk

Spec == Init /\ [][Next]_vars

-----------------------------------------------------------------------------
(* What the server meant.                                                  *)

\* The lines of a block that are of one of the kinds.
LinesOf(block, kinds) == SelectSeq(block, LAMBDA line : line[1] \in kinds)

Meant(block) ==
    LET names == LinesOf(block, {"event", "other"})
        named(line) == names # <<>> /\ Last(names) = line
        numbered == LinesOf(block, {"id"}) # <<>> /\ Last(LinesOf(block, {"id"})) = <<"id">>
        payloads == LinesOf(block, {"data"})
        valid == payloads # <<>> /\ ValidPayload(FlattenSeq([i \in DOMAIN payloads |-> Tail(payloads[i])]))
    IN  IF block = LinesOf(block, {":"}) THEN Frame("heartbeat")
        ELSE IF valid /\ named(<<"event">>) /\ numbered THEN Frame("enduring")
        ELSE IF valid /\ named(<<"other">>) THEN Frame("ephemeral")
        ELSE Frame("error")

\* Where the i-th block ends, its blank line with it.
EndOf(i) == Len(FlattenSeq([j \in 1..i |-> Wire(sent[j])]))

\* A block is there when its blank line is: one CR that may yet be followed by
\* its LF is not one, unless the response is over.
Arrived(i, atEnd) ==
    LET blank == EndOf(i) - Len(sent[i][2]) + 1
    IN  read > blank \/ (read = blank /\ (body[blank] = "lf" \/ atEnd))

\* What is left of a line behind where it was cut says nothing any more: it is
\* one broken block, or a comment if it looks like one.
Leftover(at) ==
    IF body[at + 1] \in {"cr", "lf"} THEN <<>>
    ELSE <<Frame(IF body[at + 1] = ":" THEN "heartbeat" ELSE "error")>>

\* What is told of the i-th block: an error wherever its line was cut, and what
\* the server meant by it, or what is left of it, once it is there.
Told(i, atEnd) ==
    LET own == {at \in cuts : EndOf(i - 1) < at /\ at <= EndOf(i)}
        there == IF sent[i][1] = <<>> \/ ~Arrived(i, atEnd) THEN <<>>
                 ELSE IF own = {} THEN <<Meant(sent[i][1])>> ELSE Leftover(Max(own))
    IN  [n \in 1..Cardinality(own) |-> Frame("error")] \o there

\* What is told of all of them; a lone blank line is none.
Expected(atEnd) == FlattenSeq([i \in DOMAIN sent |-> Told(i, atEnd)])

Parsing == pc \in {"reading", "finishing"}
Out == yielded \o frames

-----------------------------------------------------------------------------
(* Properties.                                                             *)

\* No more than one line is held, none of its text longer than the bound, and
\* no symbol that was scanned ends a line.
TypeOK ==
    /\ pc \in {"fetching", "reading", "finishing", "closed", "threw"}
    /\ read \in 0..Len(body) /\ Len(buffer) <= MaxLine
    /\ scanFrom \in 1..(Len(buffer) + 1)
    /\ \A i \in 1..(scanFrom - 1) : buffer[i] \notin {"cr", "lf"}

\* Whatever the chunks a body arrives in -- within a line, a block or a CR LF --
\* the frames are those of its blocks, in order, and what was yielded before a
\* return is the beginning of them.  A line cut at the bound costs its own block
\* and no other: an error is told where it was cut, no event is made of the
\* lines before it or of what is left of it, and the frames of the blocks after
\* it are all there (sse.ts:307-317, sse.test.ts:399-402).  Whether a line that
\* is too long is cut depends on the chunks: one that comes with its end is not.
FramesAsSent ==
    IF Parsing THEN Out = Expected(pc = "finishing") ELSE IsPrefix(yielded, Expected(TRUE))
=============================================================================
