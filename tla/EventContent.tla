---------------------------- MODULE EventContent ----------------------------
(***************************************************************************)
(* What the content of an event becomes in the transcript: the decoders of *)
(* packages/protocol/src/enduring.ts, blocks.ts and toolsummary.ts, the    *)
(* projections of rows.ts, and the chunks of work in progress that fold.ts *)
(* shows until the event commits.                                          *)
(*                                                                         *)
(* One event may be spelled in several ways: Go omits a zero field or      *)
(* writes it, the harness's normaliser writes the zero id out, a list may  *)
(* hold null, and a step's results come in the order they completed.  A    *)
(* spelled field says its JSON type; "nothing" is an absent one.  Text is  *)
(* a sequence of tokens, a newline one of them.                            *)
(***************************************************************************)
EXTENDS Integers, Sequences, SequencesExt, FiniteSets

CONSTANTS
    Records,        \* the events that may come, as they are spelled
    MaxAliens       \* bound: chunks no parser knows, per step

ASSUME ContentAssumption == MaxAliens \in Nat

VARIABLES
    record,     \* the event that is to come
    streamed,   \* how many of its chunks were folded
    aliens,     \* how many others were refused
    live,       \* the live row
    committed,
    shown       \* the rows the event committed, once it did

contentVars == <<record, streamed, aliens, live, committed, shown>>

-----------------------------------------------------------------------------
(* Fields.                                                                 *)

Str(f) == IF f.as = "string" THEN f.value ELSE ""
Num(f) == IF f.as = "number" THEN f.value ELSE "0"

\* Seeded fault: only an omitted id is zero.
Omitted(id) == id = ""

\* isZeroUUID()
IsZeroUUID(id) == id \in {"", "zeros"}

\* count() of a MessageInput: a negative number stands for all that is none.
Count(n) == IF n >= 0 THEN n ELSE 0

\* decodePrincipal()
NoPrincipal == [tenant |-> "", subject |-> "", kind |-> ""]
DecodePrincipal(p) ==
    LET d == [tenant |-> Str(p.tenant), subject |-> Str(p.subject), kind |-> Str(p.kind)]
    IN  IF d.tenant = "" \/ d.subject = "" \/ d.kind \notin {"actor", "service"} THEN NoPrincipal ELSE d

DecodeBlock(b) ==
    [type |-> IF b.tag \in {"text", "refusal", "thinking", "tool_use"} THEN b.tag ELSE "other",
     text |-> b.text, id |-> b.id, redacted |-> b.tag = "thinking" /\ b.state = "bytes"]

DecodeMessages(messages) ==
    LET records == SelectSeq(messages, LAMBDA m : m.role # "null")
    IN  [i \in DOMAIN records |->
           [records[i] EXCEPT !.blocks = [j \in DOMAIN @ |-> DecodeBlock(@[j])]]]

\* toolResultCaptures(): what is whole, by tool use; the last one of a use counts.
Kept(c) ==
    /\ c.use # "" /\ c.exec # "" /\ c.captured >= 0
    /\ c.encoding \in {"utf-8", "binary"} /\ (c.original = "null" \/ c.original = "count")

NoCapture == [exec |-> "", captured |-> 0, atCeiling |-> FALSE]

ToolResultCaptures(captures, use) ==
    LET own == SelectSeq(captures, LAMBDA c : Kept(c) /\ c.use = use)
        c == own[Len(own)]
    IN  IF own = <<>> THEN NoCapture
        ELSE [exec |-> c.exec, captured |-> c.captured, atCeiling |-> c.truncated /\ c.reason = "capture_ceiling"]

-----------------------------------------------------------------------------
(* A step's group.                                                         *)

OfType(blocks, type) == SelectSeq(blocks, LAMBDA b : b.type = type)

Newline == 0

\* A block under the one before it, as Array.join("\n") puts it.
Joined(blocks) ==
    FlattenSeq([i \in DOMAIN blocks |-> IF i = 1 THEN blocks[i].text ELSE <<Newline>> \o blocks[i].text])

\* toolResultText(): what a tool said is one output, and no newline is put in.
ToolResultText(blocks) ==
    LET texts == OfType(blocks, "text") IN FlattenSeq([i \in DOMAIN texts |-> texts[i].text])

\* narrationOf(), thinkingOf() and refusalOf(), under their headings.
Prose(blocks) ==
    [text |-> Joined(OfType(blocks, "text")), thinking |-> Joined(OfType(blocks, "thinking")),
     refusal |-> Joined(OfType(blocks, "refusal"))]

RedactedThinking(blocks) == \E b \in ToSet(blocks) : b.redacted

\* splitStepGroup(): the first message of the assistant, and the last result of each use.
NoMessage == [role |-> "", blocks |-> <<>>, use |-> "", error |-> FALSE]
Assistant(messages) ==
    LET own == SelectSeq(messages, LAMBDA m : m.role = "assistant")
    IN  IF own = <<>> THEN NoMessage ELSE own[1]

Result(messages, use) ==
    LET own == SelectSeq(messages, LAMBDA m : m.role = "tool" /\ m.use = use)
    IN  IF own = <<>> THEN NoMessage ELSE own[Len(own)]

ToolRow(messages, captures, use) ==
    LET result == Result(messages, use)
    IN  [kind |-> "tool", use |-> use, status |-> IF result.error THEN "error" ELSE "ok",
         result |-> ToolResultText(result.blocks), capture |-> ToolResultCaptures(captures, use)]

StepRows(r) ==
    LET messages == DecodeMessages(r.messages)
        blocks == Assistant(messages).blocks
        uses == OfType(blocks, "tool_use")
        says == Prose(blocks) # Prose(<<>>) \/ RedactedThinking(blocks)
        calls == [i \in DOMAIN uses |-> ToolRow(messages, r.captures, uses[i].id)]
    IN  IF says THEN <<[kind |-> "assistant", prose |-> Prose(blocks),
                        redactedThinking |-> RedactedThinking(blocks)]>> \o calls
        ELSE calls

-----------------------------------------------------------------------------
(* The other events.                                                       *)

\* frameOf(): what the presenter put around the user's own blocks.
FrameOf(n, prefix, suffix) ==
    IF prefix + suffix = 0 \/ prefix + suffix > n THEN [prefix |-> 0, suffix |-> 0]
    ELSE [prefix |-> prefix, suffix |-> suffix]

OpenerRows(r) ==
    IF ~IsZeroUUID(Str(r.cause)) \/ ~r.message THEN <<>>
    ELSE <<[kind |-> "user", blocks |-> r.blocks, principal |-> DecodePrincipal(r.principal),
            frame |-> FrameOf(r.blocks, Count(r.prefix), Count(r.suffix))]>>

\* turnFailureText(): the label, and the message.
FailureText(kind, message) == <<IF kind = "unknown" THEN "" ELSE kind, message>>

RejectReasonText(reason) == IF reason \in {"1", "2", "3"} THEN reason ELSE "unspecified"

\* A loop's record makes no row; what it says of the loop is shown where its rows are.
LoopInfo(r) ==
    <<[kind |-> "loop", parent |-> IF IsZeroUUID(Str(r.cause)) THEN "" ELSE Str(r.cause),
       use |-> Str(r.use), label |-> IF Str(r.name) # "" THEN Str(r.name) ELSE Str(r.agent)]>>

ResolvedRows(r) ==
    LET by == DecodePrincipal(r.principal) IN
    IF by = NoPrincipal THEN <<>>
    ELSE <<[kind |-> "notice", text |-> IF Str(r.action) = "" THEN "closed" ELSE Str(r.action), by |-> by]>>

\* decodeEnduring(), and the rows foldEnduringEnvelope() makes of it.
Rows(r) ==
    CASE r.kind = "StepDone" -> StepRows(r)
      [] r.kind = "TurnStarted" -> OpenerRows(r)
      [] r.kind = "TurnFailed" -> <<[kind |-> "notice", text |-> FailureText(Str(r.errorKind), Str(r.message))]>>
      [] r.kind = "TurnRejected" -> <<[kind |-> "notice", text |-> RejectReasonText(Num(r.reason))]>>
      [] r.kind = "LoopStarted" -> LoopInfo(r)
      [] r.kind = "GateResolved" -> ResolvedRows(r)

-----------------------------------------------------------------------------
(* Work in progress.                                                       *)

Headings == {"text", "thinking", "refusal"}
EmptyProse == [h \in Headings |-> <<>>]

\* External: what is streamed of a step, block by block, token by token.
Chunks(r) ==
    IF r.kind # "StepDone" THEN <<>>
    ELSE LET blocks == Assistant(r.messages).blocks
         IN  FlattenSeq([i \in DOMAIN blocks |->
               IF blocks[i].tag \in Headings
               THEN [t \in DOMAIN blocks[i].text |->
                       [type |-> blocks[i].tag, token |-> blocks[i].text[t], whole |-> TRUE]]
               ELSE <<[type |-> blocks[i].tag, token |-> 0, whole |-> TRUE]>>])

\* parseTokenDeltaChunk()
ParseTokenDeltaChunk(chunk) ==
    IF chunk.type \notin Headings \union {"tool_use", "image"} THEN "unknown_chunk_type"
    ELSE IF ~chunk.whole THEN "malformed_delta" ELSE "ok"

\* applyLiveChunk()
ApplyLiveChunk(row, chunk) ==
    IF chunk.type \in Headings THEN [row EXCEPT ![chunk.type] = Append(@, chunk.token)] ELSE row

FoldChunk(chunk) ==
    live' = IF ParseTokenDeltaChunk(chunk) = "ok" THEN ApplyLiveChunk(live, chunk) ELSE live

StreamNext ==
    /\ ~committed /\ streamed < Len(Chunks(record))
    /\ streamed' = streamed + 1 /\ FoldChunk(Chunks(record)[streamed + 1])
    /\ UNCHANGED <<record, aliens, committed, shown>>

\* A chunk of a type that is not known, or without one of its fields.
StreamAlien ==
    /\ ~committed /\ Chunks(record) # <<>> /\ aliens < MaxAliens
    /\ aliens' = aliens + 1
    /\ \E chunk \in {[type |-> "audio", token |-> 0, whole |-> TRUE], [type |-> "text", token |-> 0, whole |-> FALSE]} :
         FoldChunk(chunk)
    /\ UNCHANGED <<record, streamed, committed, shown>>

\* The event comes; what was streamed of a step goes.
Commit ==
    /\ ~committed /\ committed' = TRUE
    /\ shown' = Rows(record) /\ live' = EmptyProse
    /\ UNCHANGED <<record, streamed, aliens>>

ContentInit ==
    /\ record \in Records /\ streamed = 0 /\ aliens = 0
    /\ live = EmptyProse /\ committed = FALSE /\ shown = <<>>

ContentNext == StreamNext \/ StreamAlien \/ Commit

-----------------------------------------------------------------------------
(* Properties.                                                             *)

\* What the harness means by a field: nothing, a value of another type and the
\* zero value are the same, and the zero id is a zero value.
SpelledOut(f, as) == IF f.as = as /\ f.value # "zeros" THEN f.value ELSE IF as = "number" THEN "0" ELSE ""

\* A capture as the harness writes it.
Written(c) ==
    /\ "" \notin {c.use, c.exec} /\ c.captured \in Nat
    /\ c.encoding \in {"utf-8", "binary"} /\ c.original \in {"null", "count"}

MeantStep(r) ==
    LET messages == SelectSeq(r.messages, LAMBDA m : m.role # "null")
        plain(b) == [b EXCEPT !.state = IF b.tag = "thinking" /\ b.state = "bytes" THEN "bytes" ELSE "none"]
    IN  [says |-> LET m == Assistant(messages) IN [i \in DOMAIN m.blocks |-> plain(m.blocks[i])],
         results |-> {m \in ToSet(messages) : m.role = "tool"},
         captures |-> {c \in ToSet(r.captures) : Written(c)}]

Meaning(r) ==
    CASE r.kind = "StepDone" -> MeantStep(r)
      [] r.kind = "TurnStarted" -> <<SpelledOut(r.cause, "string"), r.message, r.blocks, Count(r.prefix), Count(r.suffix),
                                     [f \in DOMAIN r.principal |-> SpelledOut(r.principal[f], "string")]>>
      [] r.kind = "TurnFailed" -> <<SpelledOut(r.errorKind, "string"), SpelledOut(r.message, "string")>>
      [] r.kind = "TurnRejected" -> <<SpelledOut(r.reason, "number")>>
      [] r.kind = "LoopStarted" -> <<SpelledOut(r.cause, "string"), SpelledOut(r.use, "string"),
                                     SpelledOut(r.name, "string"), SpelledOut(r.agent, "string")>>
      [] r.kind = "GateResolved" -> <<SpelledOut(r.action, "string"),
                                      [f \in DOMAIN r.principal |-> SpelledOut(r.principal[f], "string")]>>

\* Two records that say the same are shown the same, however they spell it:
\* with zeros omitted or written out, nulls among the messages, captures nobody
\* can read, and results in whichever order they completed (enduring.ts:34-63,
\* fold.ts:1034-1040).
SameEventSameRows ==
    committed =>
      \A r \in Records : r.kind = record.kind /\ Meaning(r) = Meaning(record) => Rows(r) = shown

\* What is shown of a step while it is streamed is what its commit will show,
\* under the same headings, as far as it has come, whatever else is on the
\* stream: a refusal is never seen as an answer, nor taken back.  A heading that
\* one block fills reads the same to the letter.  Where several do, a chunk does
\* not say that a new block began (fold.ts:751-758) and the commit puts each on
\* a line of its own (rows.ts:244-291): there the words are the same, and the
\* lines are not.
WatchedThenCommitted ==
    ~committed /\ record.kind = "StepDone" =>
      LET said == SelectSeq(StepRows(record), LAMBDA row : row.kind = "assistant")
          prose == IF said = <<>> THEN EmptyProse ELSE said[1].prose
          blocks == Assistant(DecodeMessages(record.messages)).blocks
          words(text) == SelectSeq(text, LAMBDA token : token # Newline)
          seen(h, text) == IF Len(OfType(blocks, h)) <= 1 THEN text ELSE words(text)
      IN  \A h \in Headings :
            LET watched == seen(h, live[h])
                kept == seen(h, prose[h])
            IN  /\ IsPrefix(watched, kept)
                /\ streamed = Len(Chunks(record)) => watched = kept

\* An event is shown as what it means, before its commit and after.
ShownAsMeant == SameEventSameRows /\ WatchedThenCommitted
=============================================================================
