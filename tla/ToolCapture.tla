----------------------------- MODULE ToolCapture -----------------------------
(***************************************************************************)
(* Loading a retained tool result: the viewer (app/src/components/          *)
(* transcript/tool-capture-viewer.tsx), the read it starts                 *)
(* (packages/protocol/src/tool-capture.ts) and the object requests under   *)
(* it (packages/protocol/src/factory-rest.ts).                             *)
(*                                                                         *)
(* The objects live at the Factory, one store per identity (reads).  An    *)
(* object is meant to be immutable; here it may be replaced or removed     *)
(* between any two requests.  A digest is the content it was taken of.     *)
(***************************************************************************)
EXTENDS Integers, Sequences, FiniteSets, FiniteSetsExt

CONSTANTS
    Props,          \* what the viewer may be given: [reads, object, bytes]
    Contents,       \* what an object may hold, sequences of bytes
    NoObject,       \* the object id of a result that was not retained
    Gone,           \* what a removed object holds
    PageBytes, CeilingBytes,
    MaxLoads,       \* bound: clicks on the button
    MaxRewrites     \* bound: replacements and removals of objects

ASSUME CaptureAssumption ==
    /\ \A p \in Props : p.bytes \in Nat
    /\ PageBytes \in Nat \ {0} /\ CeilingBytes \in Nat /\ PageBytes <= CeilingBytes
    /\ {MaxLoads, MaxRewrites} \subseteq Nat

Loads == 1..MaxLoads
\* Where an object is: the store of an identity, and its id.
At(p) == [reads |-> p.reads, object |-> p.object]
Places == {At(p) : p \in {q \in Props : q.object # NoObject}}

VARIABLES
    store, held,    \* Factory: what each object holds, and (history) ever held
    rewrites,
    props, mounted, effects,    \* React: the committed props, and whether their effects are due
    state,          \* LoadState: [kind, props, content]
    current,        \* request.current: the generation that may still set state, or 0
    reader          \* readToolCapturePages(), one per load

objectVars == <<store, held, rewrites>>
captureVars == <<objectVars, props, mounted, effects, state, current, reader>>

Idle == [kind |-> "idle", props |-> props, content |-> <<>>]
NotStarted == [phase |-> "none", props |-> CHOOSE p \in Props : TRUE, aborted |-> FALSE,
               digest |-> <<>>, range |-> <<>>, rest |-> <<>>, got |-> <<>>, bytes |-> <<>>]

\* A read that is over; "dropped" is one whose end was told to nobody.
ReadOver == [NotStarted EXCEPT !.phase = "over"]
Dropped(r) == [NotStarted EXCEPT !.phase = "dropped", !.props = r.props]

Unfinished(g) == reader[g].phase \notin {"none", "over", "dropped"}
Active(g) == Unfinished(g) /\ ~reader[g].aborted

CaptureInit ==
    /\ store \in [Places -> Contents] /\ \A q \in Props : q.object # NoObject => Len(store[At(q)]) = q.bytes
    /\ held = [o \in Places |-> {store[o]}] /\ rewrites = 0
    /\ props \in Props /\ mounted = TRUE /\ effects = FALSE
    /\ state = Idle /\ current = 0 /\ reader = [g \in Loads |-> NotStarted]

-----------------------------------------------------------------------------
(* The viewer.                                                             *)

\* visibleState: what was loaded for other props is never rendered under these.
VisibleState(s) == IF s.props = props THEN s ELSE Idle

\* The controller is always the last load's.
Abort == [g \in Loads |-> [reader[g] EXCEPT !.aborted = Unfinished(g)]]

\* A render with other props commits; its effects run later.
Show(p) ==
    /\ mounted /\ ~effects /\ p # props
    /\ props' = p /\ effects' = TRUE
    /\ UNCHANGED <<objectVars, mounted, state, current, reader>>

\* The cleanup of the effect and its body.
RunEffects ==
    /\ effects /\ effects' = FALSE
    /\ current' = 0 /\ reader' = Abort /\ state' = Idle
    /\ UNCHANGED <<objectVars, props, mounted>>

Unmount ==
    /\ mounted /\ mounted' = FALSE /\ effects' = FALSE
    /\ current' = 0 /\ reader' = Abort
    /\ UNCHANGED <<objectVars, props, state>>

\* The guards of the read before its first request.
Unreadable(p) == p.bytes > CeilingBytes \/ p.object = NoObject

\* load()
Load ==
    /\ mounted
    /\ \E g \in Loads :
         /\ reader[g].phase = "none" /\ \A h \in Loads : h < g => reader[h].phase # "none"
         /\ reader' = [Abort EXCEPT ![g] = [NotStarted EXCEPT
                          !.phase = IF Unreadable(props) THEN "refused" ELSE "metadata", !.props = props]]
         /\ current' = g
         /\ state' = [Idle EXCEPT !.kind = "loading"]
    /\ UNCHANGED <<objectVars, props, mounted, effects>>

-----------------------------------------------------------------------------
(* The read.                                                               *)

\* The promise of a load settles: what it comes to is shown if it is the last.
Settle(g, kind, content) ==
    /\ reader' = [reader EXCEPT ![g] = ReadOver]
    /\ state' = IF current = g THEN [kind |-> kind, props |-> reader[g].props, content |-> content] ELSE state
    /\ UNCHANGED <<objectVars, props, mounted, effects, current>>

Fail(g) == Settle(g, "failed", <<>>)

Proceed(g, r) ==
    /\ reader' = [reader EXCEPT ![g] = r]
    /\ UNCHANGED <<objectVars, props, mounted, effects, state, current>>

\* An aborted read: whatever it waits for, it ends in RequestAbortedError.
Aborted(g) ==
    /\ Unfinished(g) /\ reader[g].aborted
    /\ reader' = [reader EXCEPT ![g] = ReadOver]
    /\ UNCHANGED <<objectVars, props, mounted, effects, state, current>>

\* A request fails, is refused, or its answer is not what was asked for.
RequestFails(g) ==
    /\ Active(g) /\ reader[g].phase \in {"refused", "metadata", "range", "body"}
    /\ Fail(g)

\* A request ends in an AbortError nobody here asked for: it is taken for one of
\* the viewer's own, and the viewer passes over those.
RequestDropped(g) ==
    /\ Active(g) /\ reader[g].phase \in {"metadata", "range", "body"}
    /\ Proceed(g, Dropped(reader[g]))

Object(g) == store[At(reader[g].props)]

\* What is read next, the page behind the bytes that are there: the range, or
\* the digest once they are all there.
NextPage(r) ==
    IF Len(r.bytes) = r.props.bytes THEN [r EXCEPT !.phase = "digest"]
    ELSE [r EXCEPT !.phase = "range", !.got = <<>>,
            !.range = <<Len(r.bytes), Min({r.props.bytes, Len(r.bytes) + PageBytes}) - 1>>]

\* readObjectMetadata(): of another size, or without a digest, it is refused.
Metadata(g) ==
    /\ Active(g) /\ reader[g].phase = "metadata" /\ Object(g) # Gone
    /\ IF Len(Object(g)) # reader[g].props.bytes THEN Fail(g)
       ELSE Proceed(g, NextPage([reader[g] EXCEPT !.digest = Object(g)]))

\* readObjectRange(), its head: a 206 for the range asked for, with what the
\* object holds from there, cut to the range or not.
ObjectRange(g) ==
    /\ Active(g) /\ reader[g].phase = "range" /\ Object(g) # Gone
    /\ LET r == reader[g] IN
       /\ r.range[2] < Len(Object(g))
       /\ \E last \in {r.range[2], Len(Object(g)) - 1} :
            IF Len(Object(g)) # r.props.bytes THEN Fail(g)
            ELSE Proceed(g, [r EXCEPT !.phase = "body", !.rest = SubSeq(Object(g), r.range[1] + 1, last + 1)])

\* readBoundedBody(), one chunk, and the page when it is whole; a chunk that does
\* not fit fails the read.
Chunk(g) ==
    /\ Active(g) /\ reader[g].phase = "body"
    /\ \E n \in 1..Len(reader[g].rest) :
         LET r == reader[g]
             size == r.range[2] - r.range[1] + 1
             more == [r EXCEPT !.got = @ \o SubSeq(r.rest, 1, n), !.rest = SubSeq(@, n + 1, Len(@))]
         IN  IF n > size - Len(r.got) THEN Fail(g)
             ELSE IF Len(more.got) >= size THEN Proceed(g, NextPage([more EXCEPT !.bytes = @ \o more.got, !.rest = <<>>]))
             ELSE Proceed(g, more)

\* Seeded fault: a result of the right length is taken as verified.
SizeVerifies(r) == Len(r.bytes) = Len(r.digest)

Verified(r) == r.bytes = r.digest

Digest(g) ==
    /\ Active(g) /\ reader[g].phase = "digest"
    /\ IF Verified(reader[g]) THEN Settle(g, "loaded", reader[g].bytes) ELSE Fail(g)

-----------------------------------------------------------------------------
\* The Factory replaces an object, or removes it.
Rewrite ==
    /\ rewrites < MaxRewrites /\ rewrites' = rewrites + 1
    /\ \E o \in Places : \E c \in (Contents \union {Gone}) \ {store[o]} :
         /\ store' = [store EXCEPT ![o] = c]
         /\ held' = [held EXCEPT ![o] = @ \union {c}]
    /\ UNCHANGED <<props, mounted, effects, state, current, reader>>

CaptureNext ==
    \/ \E p \in Props : Show(p)
    \/ RunEffects \/ Unmount \/ Load \/ Rewrite
    \/ \E g \in Loads :
         \/ Aborted(g) \/ RequestFails(g) \/ RequestDropped(g) \/ Metadata(g) \/ ObjectRange(g) \/ Chunk(g) \/ Digest(g)

CaptureSpec == CaptureInit /\ [][CaptureNext]_captureVars

-----------------------------------------------------------------------------
\* What is shown as verified is, whole and in one piece, what the object the
\* label names held at some time, of the length the label tells: however the
\* object changed between the pages, and whatever props the pages were read for
\* (tool-capture-viewer.tsx:65-68, tool-capture.ts:8-11).
ShownIsWhole ==
    LET shown == VisibleState(state) IN
    mounted /\ shown.kind = "loaded" =>
      /\ Len(shown.content) = props.bytes
      /\ props.object # NoObject /\ shown.content \in held[At(props)]

\* A viewer that says it is loading has the read that will tell it otherwise:
\* the last one started, for these props, not aborted and not over -- unless a
\* request of that very read ended in an AbortError that was not the viewer's,
\* which the client reports as if it were (factory-rest.ts:304,339) and the
\* viewer passes over (tool-capture-viewer.tsx:104): it says it is loading until
\* it is asked again.  One that was left or replaced has no read, and no failure,
\* overlap or change of props leaves it loading with none
\* (tool-capture-viewer.tsx:70-108).
LoadingIsReal ==
    /\ mounted /\ VisibleState(state).kind = "loading" =>
         /\ current # 0 /\ reader[current].props = props
         /\ Active(current) \/ reader[current].phase = "dropped"
    /\ ~mounted => ~\E g \in Loads : Active(g)
    /\ \A g \in Loads : Active(g) => g = current

\* A viewer shows a whole output, or the truth about the read it waits for.
ViewerHonest == ShownIsWhole /\ LoadingIsReal
=============================================================================
