--------------------------- MODULE FactoryLiveText ---------------------------
(***************************************************************************)
(* The preview of uncommitted text FactoryColdJoin keeps beside its rows   *)
(* (packages/react/src/use-session-view.ts): token deltas of several turns *)
(* accumulate between the records that commit or end what they preview,    *)
(* and are dropped with the subscription they came on.                     *)
(*                                                                         *)
(* The join (FactoryJoin) delivers what one subscription publishes in      *)
(* order; before its projection it drops deltas and keeps records.  A      *)
(* delta may be overtaken by what is published after it.  A step streams a *)
(* prefix of Stream, chunk by chunk; a text is the chunks it is made of.   *)
(***************************************************************************)
EXTENDS Integers, Sequences, SequencesExt, FiniteSets, FiniteSetsExt

CONSTANTS
    Loops,
    Stream,         \* the chunks a step may stream, each a sequence of code units
    Limits,         \* MAX_LIVE_TEXT_KEYS, _BYTES and _TOMBSTONES, one of these
    MaxTurns, MaxSteps,     \* bounds: turns of a loop, steps of a turn
    MaxPublished,   \* bound: publications of one behaviour
    MaxWaiting,     \* bound: publications the view has not handled yet
    MaxBad, MaxLate, \* bounds: deltas that are malformed or oversized, that are overtaken
    MaxGenerations  \* bound: subscriptions

ASSUME LiveTextAssumption ==
    /\ IsFiniteSet(Loops)
    /\ Limits \subseteq [keys : Nat \ {0}, bytes : Nat \ {0}, tombstones : Nat \ {0}]
    /\ Stream \in Seq(Seq({"x", "hi", "lo"}) \ {<<>>})
    /\ {MaxTurns, MaxSteps, MaxPublished, MaxWaiting, MaxBad, MaxLate, MaxGenerations} \subseteq Nat

VARIABLES
    loop,       \* Host: the turn of each loop, its step, and how much of it was streamed
    inbox,       \* what was published to this subscription and not handled
    published,
    bad, late,  \* deltas that were malformed or oversized; that were overtaken
    limits, generation,
    phase,      \* "joining" until the projection, "following", "over"
    liveText, liveTextBytes, endedTurns, suppressedLiveKeys, sessionStopped,
    liveFrame,  \* #cancelLiveFrame
    preview,    \* liveText of the published snapshot
    over        \* history: turns told to have ended, until their loop starts another

hostVars == <<loop, published>>
heldVars == <<liveText, liveTextBytes, endedTurns, suppressedLiveKeys, sessionStopped>>
liveTextVars == <<hostVars, inbox, bad, late, limits, generation, phase, heldVars, liveFrame, preview, over>>

KeyOf(l) == <<l, loop[l].turn>>

-----------------------------------------------------------------------------
(* Host: what a session publishes.                                         *)

Record(type, key, step) == [type |-> type, key |-> key, step |-> step, chunk |-> 0, sound |-> TRUE]

\* A record waits for the projection; a delta before it is dropped.
Publishes(item) ==
    /\ published < MaxPublished /\ published' = published + 1
    /\ phase # "over" /\ Len(inbox) < MaxWaiting
    /\ inbox' = IF phase = "joining" /\ item.type = "TokenDelta" THEN inbox ELSE Append(inbox, item)

StartTurn(l) ==
    /\ ~loop[l].running /\ loop[l].turn < MaxTurns
    /\ loop' = [loop EXCEPT ![l] = [running |-> TRUE, turn |-> @.turn + 1, step |-> 1, chunk |-> 0]]
    /\ Publishes(Record("TurnStarted", <<l, loop[l].turn + 1>>, 0))
    /\ UNCHANGED bad

StreamChunk(l) ==
    /\ loop[l].running /\ loop[l].chunk < Len(Stream)
    /\ loop' = [loop EXCEPT ![l].chunk = @ + 1]
    /\ \E sound \in BOOLEAN :
         /\ sound \/ bad < MaxBad
         /\ bad' = IF sound THEN bad ELSE bad + 1
         /\ Publishes([type |-> "TokenDelta", key |-> KeyOf(l), step |-> loop[l].step,
                     chunk |-> loop[l].chunk + 1, sound |-> sound])

CommitStep(l) ==
    /\ loop[l].running /\ loop[l].step < MaxSteps
    /\ loop' = [loop EXCEPT ![l].step = @ + 1, ![l].chunk = 0]
    /\ Publishes(Record("StepDone", KeyOf(l), loop[l].step))
    /\ UNCHANGED bad

\* Done, failed or interrupted.
EndTurn(l) ==
    /\ loop[l].running
    /\ loop' = [loop EXCEPT ![l].running = FALSE]
    /\ Publishes(Record("TurnEnd", KeyOf(l), loop[l].step))
    /\ UNCHANGED bad

\* A session stops with what runs in it, and may be restored.
StopSession ==
    /\ loop' = [l \in Loops |-> [loop[l] EXCEPT !.running = FALSE]]
    /\ Publishes(Record("SessionStopped", <<>>, 0))
    /\ UNCHANGED bad

RestoreSession ==
    /\ \A l \in Loops : ~loop[l].running
    /\ Publishes(Record("RestoreDone", <<>>, 0))
    /\ UNCHANGED <<loop, bad>>

Host ==
    /\ \/ \E l \in Loops : StartTurn(l) \/ StreamChunk(l) \/ CommitStep(l) \/ EndTurn(l)
       \/ StopSession \/ RestoreSession
    /\ UNCHANGED <<late, limits, generation, phase, heldVars, liveFrame, preview, over>>

-----------------------------------------------------------------------------
(* What is held of a turn.                                                 *)

\* The code units of a text, each by its chunk and its place in that.
Units(text) == UNION {{i} \X DOMAIN Stream[text[i].chunk] : i \in DOMAIN text}
UnitAt(text, p) == Stream[text[p[1]].chunk][p[2]]
NextUnit(text, p) ==
    IF p[2] < Len(Stream[text[p[1]].chunk]) THEN <<p[1], p[2] + 1>> ELSE <<p[1] + 1, 1>>
Halves(text) == {p \in Units(text) : UnitAt(text, p) # "x"}
Paired(text, p) ==
    /\ UnitAt(text, p) = "hi"
    /\ NextUnit(text, p) \in Units(text) /\ UnitAt(text, NextUnit(text, p)) = "lo"

\* UTF-8: half a surrogate pair is replaced by three bytes, a whole one is four.
Encoded(text) ==
    Cardinality(Units(text)) + 2 * Cardinality(Halves(text))
        - 2 * Cardinality({p \in Units(text) : Paired(text, p)})

\* The sum of f's values.
Total(f) == Cardinality(UNION {{k} \X (1..f[k]) : k \in DOMAIN f})

KeysHeld == DOMAIN liveText
Without(keys) == [k \in KeysHeld \ keys |-> liveText[k]]
BytesOf(keys) == Total([k \in keys |-> liveText[k].bytes])
VisibleLiveText(texts) == [k \in DOMAIN texts |-> texts[k].text]

\* decodeFactoryLiveText(): a correlated delta that is unsound tells its turn.
DecodeFactoryLiveText(d) ==
    [key |-> d.key, rejected |-> ~d.sound, text |-> <<[step |-> d.step, chunk |-> d.chunk]>>]

\* #remember: past the bound the oldest goes, a frozen preview's mark never.
Remember(set, key, bound, shown) ==
    LET grown == IF Contains(set, key) THEN set ELSE Append(set, key)
        loose == {i \in DOMAIN grown : grown[i] \notin shown}
    IN  IF Len(grown) > bound /\ loose # {} THEN RemoveAt(grown, Min(loose)) ELSE grown

\* #resetLiveText
ResetLiveText ==
    /\ liveText' = <<>> /\ liveTextBytes' = 0
    /\ endedTurns' = <<>> /\ suppressedLiveKeys' = <<>>
    /\ sessionStopped' = FALSE /\ liveFrame' = FALSE

-----------------------------------------------------------------------------
(* #follow.                                                                *)

\* The join subscribes, again: the preview was of the last subscription.  (Its
\* projection, and the first event behind that, find nothing more to drop.)
Resubscribe ==
    /\ phase # "over" /\ generation < MaxGenerations
    /\ generation' = generation + 1
    /\ phase' = "joining" /\ inbox' = <<>>
    /\ ResetLiveText /\ preview' = <<>> /\ over' = {}
    /\ UNCHANGED <<hostVars, bad, late, limits>>

TailProjected ==
    /\ phase = "joining" /\ phase' = "following"
    /\ ResetLiveText /\ preview' = <<>>
    /\ UNCHANGED <<hostVars, inbox, bad, late, limits, generation, over>>

\* stop(), a refusal, or a join that gave up.
EndView ==
    /\ phase # "over" /\ phase' = "over"
    /\ inbox' = <<>>
    /\ ResetLiveText /\ preview' = <<>> /\ over' = {}
    /\ UNCHANGED <<hostVars, bad, late, limits, generation>>

\* Seeded fault: what was dropped leaves no mark.
SuppressOnce(key) == UNCHANGED suppressedLiveKeys

\* The rest of the step is not shown: it would not follow what is.
Suppress(key) ==
    suppressedLiveKeys' = Remember(suppressedLiveKeys, key, limits.tombstones, KeysHeld)

Delta(item) ==
    LET delta == DecodeFactoryLiveText(item)
        known == delta.key \in KeysHeld
        prior == IF known THEN liveText[delta.key].text ELSE <<>>
        text == prior \o delta.text
        split == /\ known /\ Last(Stream[Last(prior).chunk]) = "hi"
                 /\ Head(Stream[Head(delta.text).chunk]) = "lo"
        addedBytes == Encoded(delta.text) - (IF split THEN 2 ELSE 0)
    IN  /\ IF \/ sessionStopped
              \/ Contains(endedTurns, delta.key) \/ Contains(suppressedLiveKeys, delta.key)
           THEN UNCHANGED <<liveText, liveTextBytes, suppressedLiveKeys, liveFrame>>
           ELSE IF \/ delta.rejected
                   \/ liveTextBytes + addedBytes > limits.bytes
                   \/ ~known /\ Cardinality(KeysHeld) >= limits.keys
           THEN Suppress(delta.key) /\ UNCHANGED <<liveText, liveTextBytes, liveFrame>>
           ELSE /\ liveText' = [k \in KeysHeld \union {delta.key} |->
                     IF k # delta.key THEN liveText[k]
                     ELSE [text |-> text, bytes |-> addedBytes + IF known THEN liveText[k].bytes ELSE 0]]
                /\ liveTextBytes' = liveTextBytes + addedBytes
                /\ liveFrame' = TRUE
                /\ UNCHANGED suppressedLiveKeys
        /\ UNCHANGED <<endedTurns, sessionStopped, preview, over>>

\* #deleteLiveKey, of several
DeleteLiveKeys(keys) ==
    /\ liveText' = Without(keys)
    /\ liveTextBytes' = liveTextBytes - BytesOf(keys \intersect KeysHeld)

\* The members of other loops, in their order.
OtherLoops(set, l) ==
    LET others == {i \in DOMAIN set : set[i][1] # l}
        nth(n) == CHOOSE i \in others : Cardinality({j \in others : j <= i}) = n
    IN  [n \in 1..Cardinality(others) |-> set[nth(n)]]

\* #reconcileLiveText
ReconcileLiveText(record) ==
    CASE record.type = "SessionStopped" ->
           /\ liveText' = <<>> /\ liveTextBytes' = 0 /\ sessionStopped' = TRUE
           /\ UNCHANGED <<endedTurns, suppressedLiveKeys>>
      [] record.type = "StepDone" ->
           /\ DeleteLiveKeys({k \in KeysHeld : k[1] = record.key[1]})
           /\ suppressedLiveKeys' = OtherLoops(suppressedLiveKeys, record.key[1])
           /\ UNCHANGED <<endedTurns, sessionStopped>>
      [] record.type = "TurnStarted" ->
           /\ sessionStopped' = FALSE
           /\ endedTurns' = OtherLoops(endedTurns, record.key[1])
           /\ UNCHANGED <<liveText, liveTextBytes, suppressedLiveKeys>>
      [] record.type = "RestoreDone" ->
           /\ sessionStopped' = FALSE
           /\ UNCHANGED <<liveText, liveTextBytes, endedTurns, suppressedLiveKeys>>
      [] record.type = "TurnEnd" ->
           /\ DeleteLiveKeys({record.key})
           /\ endedTurns' = Remember(endedTurns, record.key, limits.tombstones, {})
           /\ UNCHANGED <<sessionStopped, suppressedLiveKeys>>

\* A record is published with what is left, so no frame is owed.
PublicRecord(record) ==
    /\ ReconcileLiveText(record)
    /\ liveFrame' = FALSE /\ preview' = VisibleLiveText(liveText')
    /\ over' = CASE record.type = "TurnEnd" -> over \union {record.key}
                 [] record.type = "TurnStarted" -> {k \in over : k[1] # record.key[1]}
                 [] OTHER -> over

Handle(item) == IF item.type = "TokenDelta" THEN Delta(item) ELSE PublicRecord(item)

\* The next publication, or the one behind a delta that is late.
Deliver ==
    /\ phase = "following"
    /\ \E i \in DOMAIN inbox :
         /\ i = 1 \/ (i = 2 /\ inbox[1].type = "TokenDelta" /\ late < MaxLate)
         /\ late' = late + (i - 1)
         /\ inbox' = RemoveAt(inbox, i)
         /\ Handle(inbox[i])
    /\ UNCHANGED <<hostVars, bad, limits, generation, phase>>

\* flush, on the next animation frame
Flush ==
    /\ liveFrame /\ liveFrame' = FALSE
    /\ preview' = VisibleLiveText(liveText)
    /\ UNCHANGED <<hostVars, inbox, bad, late, limits, generation, phase, heldVars, over>>

LiveTextInit ==
    /\ loop = [l \in Loops |-> [running |-> FALSE, turn |-> 0, step |-> 1, chunk |-> 0]]
    /\ inbox = <<>> /\ published = 0 /\ bad = 0 /\ late = 0
    /\ limits \in Limits /\ generation = 1 /\ phase = "joining"
    /\ liveText = <<>> /\ liveTextBytes = 0 /\ endedTurns = <<>> /\ suppressedLiveKeys = <<>>
    /\ sessionStopped = FALSE /\ liveFrame = FALSE
    /\ preview = <<>> /\ over = {}

LiveTextNext == Host \/ Resubscribe \/ TailProjected \/ EndView \/ Deliver \/ Flush

LiveTextSpec == LiveTextInit /\ [][LiveTextNext]_liveTextVars

-----------------------------------------------------------------------------
(* Properties.                                                             *)

\* One step's chunks, one after the other.
Unbroken(text) ==
    \A i \in 1..(Len(text) - 1) :
      text[i + 1].step = text[i].step /\ text[i + 1].chunk = text[i].chunk + 1

\* What is shown of a turn before it commits is one unbroken stretch of one step,
\* even when a delta of it was malformed or did not fit the budget: text past
\* such a gap is not joined to text before it, though the mark that keeps it away
\* is itself evicted from a bounded set.  A turn that was told to have ended
\* shows nothing, though a late delta of it follows, while the loops are no more
\* than the bound on what is remembered of them.  The budget counts the bytes
\* that are held, and a text that no frame is going to show is shown already.
PreviewTrue ==
    /\ \A k \in KeysHeld : late = 0 => Unbroken(liveText[k].text)
    /\ Cardinality(Loops) <= limits.tombstones => over \intersect KeysHeld = {}
    /\ liveTextBytes = Total([k \in KeysHeld |-> Encoded(liveText[k].text)])
    /\ liveTextBytes <= limits.bytes /\ Cardinality(KeysHeld) <= limits.keys
    /\ ~liveFrame => preview = VisibleLiveText(liveText)
=============================================================================
