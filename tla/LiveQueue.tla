---- MODULE LiveQueue ----
(***************************************************************************)
(* AsyncQueue of packages/protocol/src/join.ts, with the eviction policy   *)
(* selectFrameToDrop: the bounded buffer between the pump of one live      *)
(* connection and the join that consumes it.  A queue is a record          *)
(*   items    the buffered frames, in order of arrival                     *)
(*   hand     the frame given straight to the waiting next(), if any       *)
(*   waiting  next() is waiting on an empty buffer                         *)
(*   closed   "open", "ended" (cleanly), "failed" or "refused" (overflow)  *)
(*   dropped  how many frames this queue has evicted                       *)
(* A frame is [kind, seq, key]; only an "enduring" frame has a journal     *)
(* sequence and only an "ephemeral" one a coalescing key.                  *)
(***************************************************************************)
EXTENDS Integers, Sequences, FiniteSets

CONSTANTS
  MaxQueued,   \* maxQueuedFrames
  Keys         \* the values of ephemeralDropKey

ASSUME QueueAssumption == MaxQueued \in Nat \ {0}

NoKey == "none"
Enduring(s)  == [kind |-> "enduring", seq |-> s, key |-> NoKey]
Ephemeral(k) == [kind |-> "ephemeral", seq |-> 0, key |-> k]
Heartbeat    == [kind |-> "heartbeat", seq |-> 0, key |-> NoKey]
ErrorFrame   == [kind |-> "error", seq |-> 0, key |-> NoKey]

\* isDroppableFrame: everything else is durable, or may have been.
Droppable(f) == f.kind \in {"heartbeat", "ephemeral"}

NewLiveQueue ==
  [items |-> <<>>, hand |-> <<>>, waiting |-> FALSE, closed |-> "open", dropped |-> 0]

OfKind(items, kind) == {i \in DOMAIN items : items[i].kind = kind}
OfKey(items, k) ==
  {i \in OfKind(items, "ephemeral") : items[i].key = k}
Candidates(items) == {i \in DOMAIN items : Droppable(items[i])}
Oldest(indices) == CHOOSE i \in indices : \A j \in indices : i <= j

\* Seeded fault: the oldest droppable frame goes, whatever stream it is of.
OldestCandidate(items) == Oldest(Candidates(items))

\* A heartbeat carries nothing and goes first; otherwise the noisiest stream
\* loses its oldest frame, the stream heard of first when several tie.
Victim(items) ==
  LET heartbeats == OfKind(items, "heartbeat")
      noise(i)   == Cardinality(OfKey(items, items[i].key))
      noisiest   == {i \in Candidates(items) :
                       \A j \in Candidates(items) : noise(j) <= noise(i)}
  IN  IF heartbeats # {} THEN Oldest(heartbeats) ELSE Oldest(noisiest)

Without(items, n) == SubSeq(items, 1, n - 1) \o SubSeq(items, n + 1, Len(items))

Fits(items) == Len(items) <= MaxQueued

\* One more frame would have to be buffered, and nothing buffered may go.
Refuses(q, f) ==
  LET items == Append(q.items, f)
  IN  /\ q.closed = "open" /\ ~q.waiting
      /\ ~Fits(items) /\ Candidates(items) = {}

\* Seeded fault: the refused buffer is discarded and its consumer not told.
RefusedSilently(q) == [q EXCEPT !.items = <<>>]

\* irreducible: the buffer is discarded unapplied and the queue fails.
Refused(q) == [q EXCEPT !.items = <<>>, !.closed = "refused"]

\* push.  Only a buffered frame can overflow, and by one at most.
Push(q, f) ==
  LET items == Append(q.items, f)
  IN  IF q.closed # "open" THEN q
      ELSE IF q.waiting THEN [q EXCEPT !.waiting = FALSE, !.hand = <<f>>]
      ELSE IF Fits(items) THEN [q EXCEPT !.items = items]
      ELSE IF Candidates(items) = {} THEN Refused(q)
      ELSE [q EXCEPT !.items = Without(items, Victim(items)), !.dropped = @ + 1]

\* close: the source ended, cleanly or not; what is buffered is still read.
Close(q, how) == IF q.closed = "open" THEN [q EXCEPT !.closed = how] ELSE q

\* drain(): everything buffered is taken at once.
Emptied(q) == [q EXCEPT !.items = <<>>]

\* next(): the oldest frame; when there is none, the outcome of close or a wait.
Pending(q) == q.hand \o q.items
Taken(q) ==
  IF q.hand # <<>> THEN [q EXCEPT !.hand = <<>>] ELSE [q EXCEPT !.items = Tail(@)]
Waits(q) == [q EXCEPT !.waiting = TRUE]
Over(q) == Pending(q) = <<>> /\ q.closed # "open"
====
