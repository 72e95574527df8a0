---- MODULE SessionJoin_proofs ----
(***************************************************************************)
(* Proofs about SessionJoin: type correctness, and that the join yields    *)
(* every record from its starting cursor on exactly once and in order,     *)
(* whatever connections end, refuse or are superseded, when the live       *)
(* source keeps its contract of being subscribed once called.              *)
(*                                                                         *)
(* What a connection has brought and the join has not applied yet is a run *)
(* of consecutive records: eviction takes none of them, a refusal takes    *)
(* the newest, and the run starts no later than the walk ends.             *)
(*                                                                         *)
(* Then, that what the join says of its binding and counts before giving   *)
(* up is about the connection it follows, and that eviction thins the      *)
(* noisiest stream.                                                        *)
(***************************************************************************)
EXTENDS SessionJoin, TLAPS, FiniteSetTheorems, SequenceTheorems,
        WellFoundedInduction

----
\* The eviction policy.

\* A non-empty set of natural numbers has a least one.
LEMMA LeastOf ==
  ASSUME NEW S \in SUBSET Nat, S # {}
  PROVE  \E x \in S : \A y \in S : x <= y
<1>1. PICK x \in S : \A y \in S : ~ (<<y, x>> \in OpToRel(<, Nat))
  <2> HIDE DEF OpToRel
  <2> QED
    BY NatLessThanWellFounded, WFMin
<1>2. \A y \in S : ~ (y < x)
  <2> TAKE y \in S
  <2>1. ~ (<<y, x>> \in {ss \in Nat \X Nat : ss[1] < ss[2]})
    BY <1>1 DEF OpToRel
  <2>2. <<y, x>> \in Nat \X Nat
    OBVIOUS
  <2> QED
    BY <2>1, <2>2
<1> QED
  BY <1>2

\* A bounded measure of the members of a non-empty set is greatest somewhere.
LEMMA GreatestAt ==
  ASSUME NEW T, T # {}, NEW m \in Nat, NEW f,
         \A x \in T : f[x] \in Nat /\ f[x] <= m
  PROVE  \E x \in T : \A y \in T : f[y] <= f[x]
<1> DEFINE gaps == {m - f[x] : x \in T}
<1>1. gaps \in SUBSET Nat /\ gaps # {}
  OBVIOUS
<1>2. PICK g \in gaps : \A h \in gaps : g <= h
  BY <1>1, LeastOf
<1>3. PICK x \in T : g = m - f[x]
  BY <1>2
<1>4. \A y \in T : m - f[x] <= m - f[y]
  BY <1>2, <1>3
<1> QED
  BY <1>4

\* Oldest picks a member of a non-empty set of positions.
LEMMA OldestIn ==
  ASSUME NEW S \in SUBSET Nat, S # {}
  PROVE  Oldest(S) \in S
BY LeastOf DEF Oldest

\* What is evicted is droppable, and unless it is a heartbeat, no droppable
\* frame is of a louder stream.
LEMMA VictimNoisiest ==
  ASSUME NEW items \in Seq(Frames), Candidates(items) # {}
  PROVE  /\ Victim(items) \in Candidates(items) /\ Candidates(items) \subseteq 1..Len(items)
         /\ \/ items[Victim(items)].kind = "heartbeat"
            \/ /\ items[Victim(items)].kind = "ephemeral"
               /\ \A j \in Candidates(items) :
                    Cardinality(OfKey(items, items[j].key))
                      <= Cardinality(OfKey(items, items[Victim(items)].key))
<1>0. Len(items) \in Nat /\ DOMAIN items = 1..Len(items)
  BY LenProperties
<1>1. Candidates(items) \subseteq 1..Len(items)
  BY <1>0 DEF Candidates
<1> DEFINE heartbeats == OfKind(items, "heartbeat")
           loudness(i) == Cardinality(OfKey(items, items[i].key))
           noisiest == {i \in Candidates(items) :
                          \A j \in Candidates(items) : loudness(j) <= loudness(i)}
<1>2. heartbeats \subseteq Candidates(items)
  BY DEF OfKind, Candidates, Droppable
<1>3. noisiest # {}
  <2> DEFINE measure == [i \in Candidates(items) |-> loudness(i)]
  <2>1. \A i \in Candidates(items) : measure[i] \in Nat /\ measure[i] <= Len(items)
    <3> SUFFICES ASSUME NEW i \in Candidates(items)
                 PROVE  loudness(i) \in Nat /\ loudness(i) <= Len(items)
      OBVIOUS
    <3>1. OfKey(items, items[i].key) \in SUBSET (1..Len(items))
      BY <1>0 DEF OfKey, OfKind
    <3>2. IsFiniteSet(1..Len(items)) /\ Cardinality(1..Len(items)) = Len(items)
      BY <1>0, FS_Interval
    <3>3. IsFiniteSet(OfKey(items, items[i].key)) /\ loudness(i) <= Len(items)
      BY <3>1, <3>2, FS_Subset
    <3> QED
      BY <3>3, FS_CardinalityType
  <2>2. PICK i \in Candidates(items) :
          \A j \in Candidates(items) : measure[j] <= measure[i]
    <3> HIDE DEF measure
    <3> QED
      BY <1>0, <2>1, GreatestAt
  <2>3. \A j \in Candidates(items) : loudness(j) <= loudness(i)
    BY <2>2
  <2> QED
    BY <2>3
<1>4. CASE heartbeats # {}
  <2>1. Victim(items) = Oldest(heartbeats)
    BY <1>4 DEF Victim
  <2>2. heartbeats \in SUBSET Nat
    BY <1>0, <1>1, <1>2
  <2>3. Oldest(heartbeats) \in heartbeats
    BY <1>4, <2>2, OldestIn
  <2> QED
    BY <1>1, <1>2, <2>1, <2>3 DEF OfKind
<1>5. CASE heartbeats = {}
  <2>1. Victim(items) = Oldest(noisiest)
    BY <1>5 DEF Victim
  <2>2. noisiest \in SUBSET Nat
    BY <1>0, <1>1
  <2>3. Oldest(noisiest) \in noisiest
    BY <1>3, <2>2, OldestIn
  <2>4. items[Victim(items)].kind = "ephemeral"
    BY <1>5, <2>1, <2>3 DEF Candidates, Droppable, OfKind
  <2> QED
    BY <1>1, <2>1, <2>3, <2>4
<1> QED
  BY <1>4, <1>5

\* What is evicted is a droppable frame of the buffer.
LEMMA VictimDroppable ==
  ASSUME NEW items \in Seq(Frames), Candidates(items) # {}
  PROVE  /\ Victim(items) \in 1..Len(items)
         /\ Droppable(items[Victim(items)])
<1>1. /\ Victim(items) \in Candidates(items) /\ Candidates(items) \subseteq 1..Len(items)
  BY VictimNoisiest
<1> QED
  BY <1>1 DEF Candidates

----
\* Types of the queue's operations.

\* Removing one position of a sequence closes the gap it leaves.
LEMMA WithoutProperties ==
  ASSUME NEW S, NEW items \in Seq(S), NEW n \in 1..Len(items)
  PROVE  /\ Without(items, n) \in Seq(S)
         /\ Len(Without(items, n)) = Len(items) - 1
         /\ \A i \in 1..(Len(items) - 1) :
              Without(items, n)[i] = IF i < n THEN items[i] ELSE items[i + 1]
<1> DEFINE front == SubSeq(items, 1, n - 1)
           back  == SubSeq(items, n + 1, Len(items))
<1>0. Len(items) \in Nat /\ \A i \in 1..Len(items) : items[i] \in S
  BY LenProperties, ElementOfSeq
<1>1. /\ front \in Seq(S) /\ Len(front) = n - 1
      /\ \A i \in 1..(n - 1) : front[i] = items[i]
  BY <1>0, SubSeqProperties
<1>2. /\ back \in Seq(S) /\ Len(back) = Len(items) - n
      /\ \A i \in 1..(Len(items) - n) : back[i] = items[n + i]
  BY <1>0, SubSeqProperties
<1> HIDE DEF front, back
<1>3. /\ front \o back \in Seq(S)
      /\ Len(front \o back) = Len(items) - 1
      /\ \A i \in 1..(Len(items) - 1) :
           (front \o back)[i] = IF i <= n - 1 THEN front[i] ELSE back[i - (n - 1)]
  <2>1. /\ front \o back \in Seq(S)
        /\ Len(front \o back) = Len(front) + Len(back)
        /\ \A i \in 1..(Len(front) + Len(back)) :
             (front \o back)[i] = IF i <= Len(front) THEN front[i]
                                  ELSE back[i - Len(front)]
    BY <1>1, <1>2, ConcatProperties
  <2>2. Len(front) + Len(back) = Len(items) - 1
    BY <1>0, <1>1, <1>2
  <2> QED
    BY <1>1, <2>1, <2>2
<1>4. ASSUME NEW i \in 1..(Len(items) - 1)
      PROVE  (front \o back)[i] = IF i < n THEN items[i] ELSE items[i + 1]
  <2>1. CASE i < n
    BY <1>0, <1>1, <1>3, <2>1
  <2>2. CASE ~(i < n)
    <3>1. i - (n - 1) \in 1..(Len(items) - n) /\ n + (i - (n - 1)) = i + 1
      BY <1>0, <2>2
    <3>2. (front \o back)[i] = back[i - (n - 1)]
      BY <1>0, <1>3, <2>2
    <3> QED
      BY <1>2, <2>2, <3>1, <3>2
  <2> QED
    BY <2>1, <2>2
<1> QED
  BY <1>3, <1>4 DEF Without, front, back

Bounded(q) == q \in Queues /\ Len(q.items) <= MaxQueued

LEMMA NewQueueBounded == Bounded(NewLiveQueue)
BY QueueAssumption, EmptySeq DEF Bounded, Queues, NewLiveQueue

LEMMA PushBounded ==
  ASSUME NEW q, Bounded(q), NEW f \in Frames
  PROVE  Bounded(Push(q, f))
<1> USE QueueAssumption
<1> DEFINE items == Append(q.items, f)
<1>0. /\ q \in Queues /\ q.items \in Seq(Frames) /\ Len(q.items) \in Nat
      /\ Len(q.items) <= MaxQueued
  BY LenProperties DEF Bounded, Queues
<1>1. items \in Seq(Frames) /\ Len(items) = Len(q.items) + 1
  BY <1>0, AppendProperties
<1>2. CASE q.closed # "open"
  BY <1>2 DEF Push
<1>3. CASE q.closed = "open" /\ q.waiting
  <2>1. Push(q, f) = [[q EXCEPT !.waiting = FALSE] EXCEPT !.hand = <<f>>]
    BY <1>0, <1>3 DEF Push, Queues
  <2>2. [q EXCEPT !.waiting = FALSE] \in Queues
    BY <1>0 DEF Queues
  <2>3. <<f>> \in Seq(Frames)
    OBVIOUS
  <2>4. Push(q, f) \in Queues
    BY <2>1, <2>2, <2>3 DEF Queues
  <2>5. Push(q, f).items = q.items
    BY <1>0, <2>1 DEF Queues
  <2> QED
    BY <1>0, <2>4, <2>5 DEF Bounded
<1>4. CASE q.closed = "open" /\ ~q.waiting /\ Fits(items)
  <2>1. Push(q, f) = [q EXCEPT !.items = items]
    BY <1>4 DEF Push
  <2> QED
    BY <1>0, <1>1, <1>4, <2>1 DEF Bounded, Queues, Fits
<1>5. CASE q.closed = "open" /\ ~q.waiting /\ ~Fits(items) /\ Candidates(items) = {}
  <2>1. Push(q, f) = [[q EXCEPT !.items = <<>>] EXCEPT !.closed = "refused"]
    BY <1>0, <1>5 DEF Push, Refused, Queues
  <2>2. [q EXCEPT !.items = <<>>] \in Queues
    BY <1>0, EmptySeq DEF Queues
  <2>3. Push(q, f) \in Queues /\ Push(q, f).items = <<>>
    BY <1>0, <2>1, <2>2 DEF Queues
  <2> QED
    BY <2>3, EmptySeq DEF Bounded
<1>6. CASE q.closed = "open" /\ ~q.waiting /\ ~Fits(items) /\ Candidates(items) # {}
  <2>1. Victim(items) \in 1..Len(items)
    BY <1>1, <1>6, VictimDroppable
  <2> DEFINE left == Without(items, Victim(items))
  <2>2. left \in Seq(Frames) /\ Len(left) = Len(q.items)
    <3>1. left \in Seq(Frames) /\ Len(left) = Len(items) - 1
      <4> HIDE DEF items
      <4> QED
        BY <1>1, <2>1, WithoutProperties
    <3> QED
      BY <1>0, <1>1, <3>1
  <2>3. Push(q, f) = [[q EXCEPT !.items = left] EXCEPT !.dropped = q.dropped + 1]
    BY <1>0, <1>6 DEF Push, Queues
  <2> HIDE DEF left
  <2> DEFINE thinned == [q EXCEPT !.items = left]
  <2>4. thinned \in Queues /\ thinned.items = left /\ q.dropped + 1 \in Nat
    BY <1>0, <2>2 DEF Queues
  <2> HIDE DEF thinned
  <2>5. Push(q, f) = [thinned EXCEPT !.dropped = q.dropped + 1]
    BY <2>3 DEF thinned
  <2>6. Push(q, f) \in Queues /\ Push(q, f).items = left
    BY <2>4, <2>5 DEF Queues
  <2> QED
    BY <1>0, <2>2, <2>6 DEF Bounded
<1> QED
  BY <1>2, <1>3, <1>4, <1>5, <1>6

LEMMA PendingIsSeq ==
  ASSUME NEW q \in Queues
  PROVE  Pending(q) \in Seq(Frames)
BY ConcatProperties DEF Pending, Queues

LEMMA TakenBounded ==
  ASSUME NEW q, Bounded(q), Pending(q) # <<>>
  PROVE  Bounded(Taken(q))
<1> USE QueueAssumption
<1>0. q \in Queues /\ q.items \in Seq(Frames) /\ q.hand \in Seq(Frames)
  BY DEF Bounded, Queues
<1>1. CASE q.hand # <<>>
  BY <1>0, <1>1, EmptySeq DEF Taken, Bounded, Queues
<1>2. CASE q.hand = <<>>
  <2>1. q.items # <<>>
    BY <1>0, <1>2, ConcatEmptySeq DEF Pending
  <2>2. Tail(q.items) \in Seq(Frames) /\ Len(Tail(q.items)) = Len(q.items) - 1
    BY <1>0, <2>1, HeadTailProperties
  <2>3. Len(q.items) \in Nat
    BY <1>0, LenProperties
  <2>4. Taken(q) = [q EXCEPT !.items = Tail(q.items)]
    BY <1>2 DEF Taken
  <2>5. Taken(q) \in Queues /\ Taken(q).items = Tail(q.items)
    BY <1>0, <2>2, <2>4 DEF Queues
  <2>6. Len(q.items) <= MaxQueued
    BY DEF Bounded
  <2>7. Len(Taken(q).items) <= MaxQueued
    BY <2>2, <2>3, <2>5, <2>6
  <2> QED
    BY <2>5, <2>7 DEF Bounded
<1> QED
  BY <1>1, <1>2

LEMMA CloseBounded ==
  ASSUME NEW q, Bounded(q), NEW how \in {"ended", "failed"}
  PROVE  Bounded(Close(q, how)) /\ Bounded(Emptied(q)) /\ Bounded(Waits(q))
<1>1. q \in Queues /\ Len(q.items) <= MaxQueued
  BY DEF Bounded
<1>2. Bounded(Close(q, how))
  BY <1>1 DEF Close, Bounded, Queues
<1>3. Bounded(Emptied(q))
  <2>1. <<>> \in Seq(Frames) /\ Len(<<>>) = 0 /\ 0 <= MaxQueued
    BY EmptySeq, QueueAssumption
  <2>2. Emptied(q) \in Queues /\ Emptied(q).items = <<>>
    BY <1>1, <2>1 DEF Emptied, Queues
  <2> QED
    BY <2>1, <2>2 DEF Bounded
<1>4. Bounded(Waits(q))
  BY <1>1 DEF Waits, Bounded, Queues
<1> QED
  BY <1>2, <1>3, <1>4

----
\* Type correctness.

ConnectionsTyped ==
  /\ \A c \in {conn} \cup abandoned :
       c \in Connections /\ Len(c.queue.items) <= MaxQueued
  /\ \A c \in abandoned : c.epoch < conn.epoch

RefusalTyped ==
  /\ repairPending \in BOOLEAN /\ repairEpoch \in -1..conn.epoch
  /\ refusals \in Nat /\ refusedHere \in BOOLEAN /\ binding \in Bindings
  /\ refusers \subseteq 0..conn.epoch

\* A frame that arrives leaves the connections, and what is told of them, typed.
LEMMA ArrivesTyped ==
  ASSUME TypeOK,
         NEW c \in {conn} \cup abandoned, NEW f \in Frames,
         NEW sent \in 0..MaxCommitted, Arrives(c, f, sent)
  PROVE  ConnectionsTyped' /\ RefusalTyped' /\ conn'.epoch = conn.epoch
<1> DEFINE after == [epoch |-> c.epoch, up |-> c.up, sent |-> sent,
                     queue |-> Push(c.queue, f)]
<1>0. /\ ConnectionsTyped /\ RefusalTyped
      /\ c \in Connections /\ Len(c.queue.items) <= MaxQueued
      /\ conn.epoch \in Nat
  <2>1. ConnectionsTyped /\ RefusalTyped
    BY DEF TypeOK, ConnectionsTyped, RefusalTyped
  <2>2. c \in Connections /\ Len(c.queue.items) <= MaxQueued /\ conn \in Connections
    BY DEF TypeOK
  <2> QED
    BY <2>1, <2>2 DEF Connections
<1>1. Bounded(Push(c.queue, f))
  <2>1. Bounded(c.queue)
    BY <1>0 DEF Bounded, Connections
  <2> QED
    BY <2>1, PushBounded
<1>2. /\ after \in Connections /\ Len(after.queue.items) <= MaxQueued
      /\ after.epoch = c.epoch
  BY <1>0, <1>1 DEF Connections, Bounded
<1>3. /\ Relay(c, f)
      /\ IF c = conn THEN conn' = after /\ UNCHANGED abandoned
         ELSE abandoned' = (abandoned \ {c}) \cup {after} /\ UNCHANGED conn
  BY DEF Arrives
<1> HIDE DEF after
<1>4. ConnectionsTyped' /\ conn'.epoch = conn.epoch
  <2>1. CASE c = conn
    BY <1>0, <1>2, <1>3, <2>1 DEF ConnectionsTyped
  <2>2. CASE c # conn
    BY <1>0, <1>2, <1>3, <2>2 DEF ConnectionsTyped
  <2> QED
    BY <2>1, <2>2
<1>5. c.epoch \in -1..conn.epoch /\ c.epoch \in 0..conn.epoch
  BY <1>0 DEF ConnectionsTyped, Connections
<1>6. RefusalTyped'
  <2>1. CASE Refuses(c.queue, f)
    <3>1. /\ OnIrreducible(c)
          /\ refusers' = IF c.epoch = conn.epoch THEN refusers \cup {c.epoch} ELSE refusers
      BY <1>3, <2>1 DEF Relay
    <3>2. CASE c.epoch # conn.epoch \/ repairPending
      BY <1>0, <1>4, <1>5, <3>1, <3>2 DEF OnIrreducible, RefusalTyped
    <3>3. CASE ~(c.epoch # conn.epoch \/ repairPending)
      <4>1. /\ repairPending' = TRUE /\ repairEpoch' = c.epoch /\ refusedHere' = TRUE
            /\ refusals' = refusals + 1 /\ binding' = "repair_required"
        BY <3>1, <3>3 DEF OnIrreducible
      <4>2. refusers' = refusers \cup {c.epoch}
        BY <3>1, <3>3
      <4>3. repairEpoch' \in -1..conn'.epoch /\ refusers' \subseteq 0..conn'.epoch
        BY <1>0, <1>4, <1>5, <4>1, <4>2 DEF RefusalTyped
      <4>4. refusals' \in Nat /\ binding' \in Bindings
        BY <1>0, <4>1 DEF RefusalTyped, Bindings
      <4> QED
        BY <4>1, <4>3, <4>4 DEF RefusalTyped
    <3> QED
      BY <3>2, <3>3
  <2>2. CASE ~Refuses(c.queue, f)
    BY <1>0, <1>3, <1>4, <2>2 DEF Relay, RefusalTyped
  <2> QED
    BY <2>1, <2>2
<1> QED
  BY <1>4, <1>6

\* The end of a connection leaves the count and the loop typed.
LEMMA EndConnectionTyped ==
  ASSUME TypeOK, NEW failed \in BOOLEAN, EndConnection(failed)
  PROVE  /\ refusals' \in Nat
         /\ recovered' \in 0..conn.epoch
         /\ pc' \in {"connect", "delay", "returned", "threw"}
<1>1. refusals \in Nat /\ recovered \in 0..conn.epoch /\ conn.epoch \in Nat
  BY DEF TypeOK, Connections
<1>2. conn.epoch \in 0..conn.epoch
  BY <1>1
<1> QED
  BY <1>1, <1>2 DEF EndConnection

\* Every frame the source may bring is a frame.
LEMMA FramesTyped ==
  /\ Heartbeat \in Frames /\ ErrorFrame \in Frames
  /\ \A k \in Keys : Ephemeral(k) \in Frames
  /\ \A n \in 0..(MaxCommitted - 1) : Enduring(n) \in Frames
BY DEF Frames

\* A frame that is applied moves the cursor to a sequence of the journal.
LEMMA ApplyTyped ==
  ASSUME TypeOK, NEW f \in Frames, Apply(f)
  PROVE  cursor' \in 0..MaxCommitted /\ yielded' \in Seq(0..MaxCommitted)
<1> USE SessionAssumption
<1>0. cursor \in 0..MaxCommitted /\ yielded \in Seq(0..MaxCommitted)
  BY DEF TypeOK
<1>1. CASE f.kind = "enduring" /\ ~Covered(f)
  <2>1. PICK n \in 0..(MaxCommitted - 1) : f = Enduring(n)
    BY <1>1 DEF Frames, Ephemeral, Heartbeat, ErrorFrame
  <2>2. f.seq = n /\ n \in 0..MaxCommitted /\ n + 1 \in 0..MaxCommitted
    BY <2>1 DEF Enduring
  <2>3. cursor' = Upper(cursor, n + 1) /\ yielded' = Append(yielded, n)
    BY <1>1, <2>2 DEF Apply
  <2> QED
    BY <1>0, <2>2, <2>3, AppendProperties DEF Upper
<1>2. CASE ~(f.kind = "enduring" /\ ~Covered(f))
  BY <1>0, <1>2 DEF Apply
<1> QED
  BY <1>1, <1>2

LEMMA TypeInit == Init => TypeOK
<1> SUFFICES ASSUME Init PROVE TypeOK
  OBVIOUS
<1> USE SessionAssumption
<1>1. NoConnection \in Connections /\ Len(NoConnection.queue.items) <= MaxQueued
  BY NewQueueBounded DEF NoConnection, Connections, Bounded
<1>2. conn = NoConnection /\ abandoned = {} /\ conn.epoch = 0
  BY DEF Init, NoConnection
<1>3. NoPage \in Pages
  BY DEF NoPage, Pages
<1>4. <<>> \in Seq(Frames) /\ <<>> \in Seq(0..MaxCommitted)
  BY EmptySeq
<1>5. committed \in 0..MaxCommitted /\ start \in 0..MaxCommitted
  BY DEF Init
<1>6. /\ cursor \in 0..MaxCommitted /\ tip \in 0..MaxCommitted
      /\ setbacks \in Nat /\ noise \in Nat /\ refusals \in Nat
      /\ repairEpoch \in -1..conn.epoch /\ recovered \in 0..conn.epoch
  BY <1>2, <1>5 DEF Init
<1> QED
  BY <1>1, <1>2, <1>3, <1>4, <1>5, <1>6 DEF Init, TypeOK, Bindings

LEMMA TypeNext == TypeOK /\ [Next]_vars => TypeOK'
<1> SUFFICES ASSUME TypeOK, [Next]_vars PROVE TypeOK'
  OBVIOUS
<1> USE SessionAssumption
<1>0. /\ conn \in Connections /\ conn.epoch \in Nat /\ conn.queue \in Queues
      /\ Len(conn.queue.items) <= MaxQueued /\ Bounded(conn.queue)
      /\ ConnectionsTyped /\ RefusalTyped /\ setbacks \in Nat /\ noise \in Nat
  <2>1. ConnectionsTyped
    BY DEF TypeOK, ConnectionsTyped
  <2>2. RefusalTyped
    BY DEF TypeOK, RefusalTyped
  <2>3. conn \in Connections /\ Len(conn.queue.items) <= MaxQueued
    BY <2>1 DEF ConnectionsTyped
  <2>4. conn.epoch \in Nat /\ conn.queue \in Queues
    BY <2>3 DEF Connections
  <2>5. setbacks \in Nat /\ noise \in Nat
    BY DEF TypeOK
  <2> QED
    BY <2>1, <2>2, <2>3, <2>4, <2>5 DEF Bounded
<1>1. CASE Commit
  BY <1>1 DEF Commit, TypeOK, joinVars, connVars, historyVars
<1>2. CASE Subscribe
  <2>1. conn' = [[conn EXCEPT !.up = "open"] EXCEPT !.sent = committed]
    BY <1>0, <1>2 DEF Subscribe, Connections
  <2>2. [conn EXCEPT !.up = "open"] \in Connections
    BY <1>0 DEF Connections
  <2>3. conn' \in Connections /\ conn'.epoch = conn.epoch /\ conn'.queue = conn.queue
    BY <1>0, <2>1, <2>2 DEF Connections, TypeOK
  <2> QED
    BY <1>0, <1>2, <2>3 DEF Subscribe, TypeOK, serverVars, joinVars, historyVars
<1>3. CASE ServeRead
  <2>1. Lower(cursor + PageLimit, committed) \in 0..MaxCommitted
    BY DEF TypeOK, Lower
  <2>2. page' \in Pages
    BY <1>3, <2>1 DEF ServeRead, Pages, TypeOK
  <2> QED
    BY <1>3, <2>2 DEF ServeRead, TypeOK, serverVars, historyVars
<1>4. CASE Publish
  <2>1. PICK c \in {conn} \cup abandoned :
          /\ c.up = "open" /\ c.sent < committed
          /\ Arrives(c, Enduring(c.sent), c.sent + 1)
          /\ UNCHANGED <<setbacks, noise>>
    BY <1>4 DEF Publish
  <2>2. c.sent \in 0..(MaxCommitted - 1) /\ c.sent + 1 \in 0..MaxCommitted
    BY <2>1 DEF TypeOK, Connections
  <2>3. Enduring(c.sent) \in Frames
    BY <2>2, FramesTyped
  <2>4. ConnectionsTyped' /\ RefusalTyped' /\ conn'.epoch = conn.epoch
    BY <2>1, <2>2, <2>3, ArrivesTyped
  <2> QED
    BY <2>1, <2>4 DEF Arrives, Relay, TypeOK, ConnectionsTyped, RefusalTyped
<1>5. CASE Chatter
  <2>1. PICK f \in {Heartbeat, ErrorFrame} \cup {Ephemeral(k) : k \in Keys} :
          Arrives(conn, f, conn.sent)
    BY <1>5 DEF Chatter
  <2>2. f \in Frames /\ conn.sent \in 0..MaxCommitted
    BY <1>0, FramesTyped DEF Connections
  <2>3. ConnectionsTyped' /\ RefusalTyped' /\ conn'.epoch = conn.epoch
    BY <2>1, <2>2, ArrivesTyped
  <2>4. noise' \in Nat /\ setbacks' \in Nat
    <3>1. noise' = noise + 1 /\ setbacks' = setbacks
      BY <1>5 DEF Chatter
    <3> QED
      BY <1>0, <3>1
  <2> QED
    BY <2>1, <2>3, <2>4 DEF Arrives, Relay, TypeOK, ConnectionsTyped, RefusalTyped
<1>6. CASE ConnectionEnds
  <2>1. PICK how \in {"ended", "failed"} :
          conn' = [conn EXCEPT !.up = "done", !.queue = Close(conn.queue, how)]
    BY <1>6 DEF ConnectionEnds
  <2>2. Bounded(Close(conn.queue, how))
    BY <1>0, CloseBounded
  <2>3. conn' = [[conn EXCEPT !.up = "done"] EXCEPT !.queue = Close(conn.queue, how)]
    BY <1>0, <2>1 DEF Connections
  <2>4. [conn EXCEPT !.up = "done"] \in Connections
    BY <1>0 DEF Connections
  <2>5. conn' \in Connections /\ conn'.epoch = conn.epoch
        /\ conn'.queue = Close(conn.queue, how)
    BY <1>0, <2>2, <2>3, <2>4 DEF Connections, Bounded
  <2>6. Len(conn'.queue.items) <= MaxQueued
    BY <2>2, <2>5 DEF Bounded
  <2>7. setbacks' \in Nat
    <3>1. setbacks' = setbacks \/ setbacks' = setbacks + 1
      BY <1>6 DEF ConnectionEnds
    <3> QED
      BY <1>0, <3>1
  <2> QED
    BY <1>6, <2>5, <2>6, <2>7 DEF ConnectionEnds, TypeOK, joinVars, historyVars
<1>7. CASE AbandonedEnds
  BY <1>7 DEF AbandonedEnds, TypeOK, serverVars, joinVars, historyVars
<1>8. CASE Abort
  BY <1>8 DEF Abort, TypeOK, connVars, historyVars
<1>9. CASE Aborted
  BY <1>9 DEF Aborted, TypeOK, serverVars, connVars, historyVars
<1>10. CASE Connect
  <2>1. /\ conn' \in Connections /\ Len(conn'.queue.items) <= MaxQueued
        /\ conn'.epoch = conn.epoch + 1
    BY <1>0, <1>10, NewQueueBounded DEF Connect, Connections, Bounded, TypeOK
  <2>2. ConnectionsTyped'
    BY <1>0, <1>10, <2>1 DEF Connect, ConnectionsTyped, Connections
  <2>3. /\ repairEpoch' \in -1..conn'.epoch /\ refusers' \subseteq 0..conn'.epoch
        /\ recovered' \in 0..conn'.epoch
    <3>1. UNCHANGED <<repairEpoch, refusers, recovered>>
      BY <1>10 DEF Connect, historyVars
    <3>2. /\ repairEpoch \in -1..conn.epoch /\ refusers \subseteq 0..conn.epoch
          /\ recovered \in 0..conn.epoch
      BY DEF TypeOK
    <3>3. conn.epoch \in Nat
      BY <1>0 DEF Connections
    <3>4. PICK e \in Nat : e = conn.epoch /\ conn'.epoch = e + 1
      BY <2>1, <3>3
    <3>5. -1..e \subseteq -1..(e + 1) /\ 0..e \subseteq 0..(e + 1)
      OBVIOUS
    <3> QED
      BY <3>1, <3>2, <3>4, <3>5
  <2>4. drained' \in Seq(Frames) /\ page' \in Pages
    BY <1>10, EmptySeq DEF Connect, NoPage, Pages
  <2> QED
    BY <1>10, <2>1, <2>2, <2>3, <2>4
    DEF Connect, TypeOK, ConnectionsTyped, serverVars, historyVars
<1>11. CASE AskPage
  BY <1>11 DEF AskPage, TypeOK, serverVars, connVars
<1>12. CASE ReadReturns
  <2>1. binding' \in Bindings /\ repairPending' \in BOOLEAN
    BY <1>12 DEF ReadReturns, TypeOK, Bindings
  <2> QED
    BY <1>12, <2>1 DEF ReadReturns, TypeOK, serverVars, connVars
<1>13. CASE EmitEvent
  <2>0. page \in Pages /\ page.at \in 0..MaxCommitted /\ page.next \in 0..MaxCommitted
    BY DEF TypeOK, Pages
  <2>1. page.at \in 0..MaxCommitted /\ page.at + 1 \in 0..MaxCommitted
    <3>1. page.at < page.next
      BY <1>13 DEF EmitEvent
    <3> QED
      BY <2>0, <3>1
  <2>2. page' \in Pages
    <3>1. page' = [page EXCEPT !.at = page.at + 1]
      BY <1>13, <2>0 DEF EmitEvent, Pages
    <3> QED
      BY <2>0, <2>1, <3>1 DEF Pages
  <2>3. yielded' \in Seq(0..MaxCommitted)
    BY <1>13, <2>1, AppendProperties DEF EmitEvent, TypeOK
  <2> QED
    BY <1>13, <2>2, <2>3 DEF EmitEvent, TypeOK, serverVars, joinVars
<1>14. CASE PageDone
  <2>1. page.next \in 0..MaxCommitted /\ NoPage \in Pages
    BY DEF TypeOK, Pages, NoPage
  <2>2. /\ conn' \in Connections /\ Len(conn'.queue.items) <= MaxQueued
        /\ conn'.epoch = conn.epoch /\ drained' \in Seq(Frames)
    <3>1. CASE page.done
      <4>1. Bounded(Emptied(conn.queue))
        BY <1>0, CloseBounded
      <4>2. conn' = [conn EXCEPT !.queue = Emptied(conn.queue)]
            /\ drained' = conn.queue.items
        BY <1>14, <3>1 DEF PageDone
      <4> QED
        BY <1>0, <4>1, <4>2 DEF Connections, Bounded, Queues
    <3>2. CASE ~page.done
      BY <1>0, <1>14, <3>2 DEF PageDone, TypeOK
    <3> QED
      BY <3>1, <3>2
  <2>3. ConnectionsTyped'
    BY <1>0, <1>14, <2>2 DEF PageDone, ConnectionsTyped
  <2>4. walked' \in BOOLEAN /\ pc' \in {"drain", "next"}
    BY <1>14 DEF PageDone, TypeOK
  <2> QED
    BY <1>14, <2>1, <2>2, <2>3, <2>4
    DEF PageDone, TypeOK, ConnectionsTyped, serverVars, historyVars
<1>15. CASE Drain
  <2>1. Head(drained) \in Frames /\ Tail(drained) \in Seq(Frames)
    BY <1>15, HeadTailProperties DEF Drain, TypeOK
  <2>2. cursor' \in 0..MaxCommitted /\ yielded' \in Seq(0..MaxCommitted)
    BY <1>15, <2>1, ApplyTyped DEF Drain
  <2> QED
    BY <1>15, <2>1, <2>2 DEF Drain, TypeOK, serverVars
<1>16. CASE DrainDone
  BY <1>16 DEF DrainDone, TypeOK, serverVars, connVars, historyVars
<1>17. CASE Follow
  <2>1. Pending(conn.queue) \in Seq(Frames) /\ Pending(conn.queue) # <<>>
    BY <1>0, <1>17, PendingIsSeq DEF Follow
  <2>2. Head(Pending(conn.queue)) \in Frames
    BY <2>1, HeadTailProperties
  <2>3. cursor' \in 0..MaxCommitted /\ yielded' \in Seq(0..MaxCommitted)
    BY <1>17, <2>2, ApplyTyped DEF Follow
  <2>4. Bounded(Taken(conn.queue))
    BY <1>0, <2>1, TakenBounded
  <2>5. /\ conn' \in Connections /\ Len(conn'.queue.items) <= MaxQueued
        /\ conn'.epoch = conn.epoch
    BY <1>0, <1>17, <2>4 DEF Follow, Connections, Bounded
  <2> QED
    BY <1>17, <2>3, <2>5 DEF Follow, TypeOK, serverVars
<1>18. CASE Await
  <2>1. Bounded(Waits(conn.queue))
    BY <1>0, CloseBounded
  <2>2. /\ conn' \in Connections /\ Len(conn'.queue.items) <= MaxQueued
        /\ conn'.epoch = conn.epoch
    BY <1>0, <1>18, <2>1 DEF Await, Connections, Bounded
  <2> QED
    BY <1>18, <2>2 DEF Await, TypeOK, serverVars, joinVars, historyVars
<1>19. CASE LiveEnds
  <2>1. /\ refusals' \in Nat /\ recovered' \in 0..conn.epoch
        /\ pc' \in {"connect", "delay", "returned", "threw"}
    BY <1>19, EndConnectionTyped DEF LiveEnds
  <2> QED
    BY <1>19, <2>1 DEF LiveEnds, TypeOK, serverVars, connVars
<1>20. CASE DelayOver
  BY <1>20 DEF DelayOver, TypeOK, serverVars, connVars, historyVars
<1>21. CASE ReadFails
  <2>1. /\ refusals' \in Nat /\ recovered' \in 0..conn.epoch
        /\ pc' \in {"connect", "delay", "returned", "threw"}
    BY <1>21, EndConnectionTyped DEF ReadFails
  <2>2. setbacks' \in Nat
    <3>1. setbacks' = setbacks \/ setbacks' = setbacks + 1
      BY <1>21 DEF ReadFails
    <3> QED
      BY <1>0, <3>1
  <2> QED
    BY <1>21, <2>1, <2>2 DEF ReadFails, TypeOK, connVars
<1>22. CASE UNCHANGED vars
  BY <1>22 DEF vars, TypeOK, serverVars, joinVars, connVars, historyVars
<1> QED
  BY <1>1, <1>2, <1>3, <1>4, <1>5, <1>6, <1>7, <1>8, <1>9, <1>10, <1>11, <1>12,
     <1>13, <1>14, <1>15, <1>16, <1>17, <1>18, <1>19, <1>20, <1>21, <1>22
  DEF Next, Source, Join, Terminated

\* Every variable keeps its type, the buffers their bound, and the epochs
\* their order: what the join is told of a connection names that connection
\* or an earlier one.
THEOREM TypeCorrect == Spec => []TypeOK
BY TypeInit, TypeNext, PTL DEF Spec

----
\* What the buffer of a connection holds: a run of consecutive records.

\* The records of s are a run from lo on, all below hi: with each record come
\* all those from lo to it, before it and in order.
Run(s, lo, hi) ==
  /\ \A i \in 1..Len(s) : s[i].kind = "enduring" =>
       /\ s[i].seq \in lo..(hi - 1)
       /\ \A n \in lo..s[i].seq : \E j \in 1..i : s[j] = Enduring(n)
  /\ \A i, j \in 1..Len(s) :
       i < j /\ s[i].kind = "enduring" /\ s[j].kind = "enduring" => s[i].seq < s[j].seq

\* The run reaches hi.
Whole(s, lo, hi) == \A n \in lo..(hi - 1) : \E i \in 1..Len(s) : s[i] = Enduring(n)

LEMMA EnduringFields ==
  ASSUME NEW n
  PROVE  Enduring(n).kind = "enduring" /\ Enduring(n).seq = n
BY DEF Enduring

\* The next record extends the run.
LEMMA RunNext ==
  ASSUME NEW s \in Seq(Frames), NEW lo \in Nat, NEW hi \in Nat, lo <= hi,
         Run(s, lo, hi), Whole(s, lo, hi), Enduring(hi) \in Frames
  PROVE  /\ Run(Append(s, Enduring(hi)), lo, hi + 1)
         /\ Whole(Append(s, Enduring(hi)), lo, hi + 1)
<1> DEFINE t == Append(s, Enduring(hi))
           N == Len(s)
<1>0. /\ N \in Nat /\ Len(t) = N + 1 /\ t[N + 1] = Enduring(hi)
      /\ \A i \in 1..N : t[i] = s[i]
  BY LenProperties, AppendProperties
<1>1. Enduring(hi).kind = "enduring" /\ Enduring(hi).seq = hi
  BY EnduringFields
<1>2. \A n \in lo..hi : \E j \in 1..(N + 1) : t[j] = Enduring(n)
  <2> TAKE n \in lo..hi
  <2>1. CASE n = hi
    BY <1>0, <2>1
  <2>2. CASE n # hi
    <3>1. PICK j \in 1..N : s[j] = Enduring(n)
      BY <2>2 DEF Whole
    <3> QED
      BY <1>0, <3>1
  <2> QED
    BY <2>1, <2>2
<1> HIDE DEF t
<1>3. Whole(t, lo, hi + 1)
  BY <1>0, <1>2 DEF Whole
<1>4. ASSUME NEW i \in 1..(N + 1), t[i].kind = "enduring"
      PROVE  /\ t[i].seq \in lo..((hi + 1) - 1)
             /\ \A n \in lo..t[i].seq : \E j \in 1..i : t[j] = Enduring(n)
  <2>1. CASE i = N + 1
    BY <1>0, <1>1, <1>2, <2>1
  <2>2. CASE i # N + 1
    <3>1. i \in 1..N /\ t[i] = s[i] /\ \A j \in 1..i : t[j] = s[j]
      BY <1>0, <2>2
    <3>2. /\ s[i].seq \in lo..(hi - 1)
          /\ \A n \in lo..s[i].seq : \E j \in 1..i : s[j] = Enduring(n)
      BY <1>4, <3>1 DEF Run
    <3> QED
      BY <3>1, <3>2
  <2> QED
    BY <2>1, <2>2
<1>5. ASSUME NEW i \in 1..(N + 1), NEW j \in 1..(N + 1), i < j,
             t[i].kind = "enduring", t[j].kind = "enduring"
      PROVE  t[i].seq < t[j].seq
  <2>1. i \in 1..N /\ t[i] = s[i]
    BY <1>0, <1>5
  <2>2. s[i].seq \in lo..(hi - 1)
    BY <1>5, <2>1 DEF Run
  <2>3. CASE j = N + 1
    BY <1>0, <1>1, <2>1, <2>2, <2>3
  <2>4. CASE j # N + 1
    <3>1. j \in 1..N /\ t[j] = s[j]
      BY <1>0, <2>4
    <3> QED
      BY <1>5, <2>1, <3>1 DEF Run
  <2> QED
    BY <2>3, <2>4
<1> QED
  BY <1>0, <1>3, <1>4, <1>5 DEF Run, t

\* A frame without a record leaves the run as it is.
LEMMA RunOther ==
  ASSUME NEW s \in Seq(Frames), NEW f \in Frames, f.kind # "enduring",
         NEW lo \in Nat, NEW hi \in Nat, Run(s, lo, hi)
  PROVE  /\ Run(Append(s, f), lo, hi)
         /\ Whole(s, lo, hi) => Whole(Append(s, f), lo, hi)
<1> DEFINE t == Append(s, f)
           N == Len(s)
<1>0. /\ N \in Nat /\ Len(t) = N + 1 /\ t[N + 1] = f
      /\ \A i \in 1..N : t[i] = s[i]
  BY LenProperties, AppendProperties
<1> HIDE DEF t
<1>1. ASSUME NEW i \in 1..(N + 1), t[i].kind = "enduring"
      PROVE  i \in 1..N /\ t[i] = s[i] /\ \A j \in 1..i : t[j] = s[j]
  BY <1>0, <1>1
<1>2. ASSUME NEW i \in 1..(N + 1), t[i].kind = "enduring"
      PROVE  /\ t[i].seq \in lo..(hi - 1)
             /\ \A n \in lo..t[i].seq : \E j \in 1..i : t[j] = Enduring(n)
  <2>1. i \in 1..N /\ t[i] = s[i] /\ \A j \in 1..i : t[j] = s[j]
    BY <1>1, <1>2
  <2>2. /\ s[i].seq \in lo..(hi - 1)
        /\ \A n \in lo..s[i].seq : \E j \in 1..i : s[j] = Enduring(n)
    BY <1>2, <2>1 DEF Run
  <2> QED
    BY <2>1, <2>2
<1>3. ASSUME NEW i \in 1..(N + 1), NEW j \in 1..(N + 1), i < j,
             t[i].kind = "enduring", t[j].kind = "enduring"
      PROVE  t[i].seq < t[j].seq
  BY <1>1, <1>3 DEF Run
<1>4. Whole(s, lo, hi) => Whole(t, lo, hi)
  BY <1>0 DEF Whole
<1> QED
  BY <1>0, <1>2, <1>3, <1>4 DEF Run, t

\* So does the loss of a frame without a record.
LEMMA RunWithout ==
  ASSUME NEW s \in Seq(Frames), NEW k \in 1..Len(s), s[k].kind # "enduring",
         NEW lo \in Nat, NEW hi \in Nat, Run(s, lo, hi)
  PROVE  /\ Run(Without(s, k), lo, hi)
         /\ Whole(s, lo, hi) => Whole(Without(s, k), lo, hi)
<1> DEFINE t == Without(s, k)
           N == Len(s)
           at(i) == IF i < k THEN i ELSE i + 1
           left(i) == IF i < k THEN i ELSE i - 1
<1>0. /\ N \in Nat /\ Len(t) = N - 1 /\ k \in 1..N
      /\ \A i \in 1..(N - 1) : at(i) \in 1..N /\ t[i] = s[at(i)]
  <2>1. /\ N \in Nat /\ Len(t) = N - 1
        /\ \A i \in 1..(N - 1) : t[i] = IF i < k THEN s[i] ELSE s[i + 1]
    BY LenProperties, WithoutProperties
  <2> HIDE DEF t
  <2> QED
    BY <2>1
<1>1. ASSUME NEW j \in 1..N, NEW n, s[j] = Enduring(n)
      PROVE  left(j) \in 1..(N - 1) /\ at(left(j)) = j /\ t[left(j)] = Enduring(n)
  <2>1. j # k
    BY <1>1, EnduringFields
  <2>2. left(j) \in 1..(N - 1) /\ at(left(j)) = j
    BY <1>0, <2>1
  <2> QED
    BY <1>0, <1>1, <2>2
<1> HIDE DEF t
<1>2. ASSUME NEW i \in 1..(N - 1), t[i].kind = "enduring"
      PROVE  /\ t[i].seq \in lo..(hi - 1)
             /\ \A n \in lo..t[i].seq : \E j \in 1..i : t[j] = Enduring(n)
  <2>1. at(i) \in 1..N /\ t[i] = s[at(i)]
    BY <1>0
  <2>2. /\ s[at(i)].seq \in lo..(hi - 1)
        /\ \A n \in lo..s[at(i)].seq : \E j \in 1..at(i) : s[j] = Enduring(n)
    <3> HIDE DEF at
    <3> QED
      BY <1>2, <2>1 DEF Run
  <2>3. ASSUME NEW n \in lo..t[i].seq
        PROVE  \E j \in 1..i : t[j] = Enduring(n)
    <3>1. PICK j \in 1..at(i) : s[j] = Enduring(n)
      BY <2>1, <2>2
    <3>2. j \in 1..N
      BY <1>0, <2>1
    <3>3. left(j) \in 1..(N - 1) /\ at(left(j)) = j /\ t[left(j)] = Enduring(n)
      BY <1>1, <3>1, <3>2
    <3>4. left(j) \in 1..i
      BY <3>1, <3>2, <3>3
    <3> QED
      BY <3>3, <3>4
  <2> QED
    BY <2>1, <2>2, <2>3
<1>3. ASSUME NEW i \in 1..(N - 1), NEW j \in 1..(N - 1), i < j,
             t[i].kind = "enduring", t[j].kind = "enduring"
      PROVE  t[i].seq < t[j].seq
  <2>1. at(i) < at(j)
    BY <1>3
  <2>2. at(i) \in 1..N /\ at(j) \in 1..N /\ t[i] = s[at(i)] /\ t[j] = s[at(j)]
    BY <1>0
  <2> HIDE DEF at
  <2> QED
    BY <1>3, <2>1, <2>2 DEF Run
<1>4. ASSUME Whole(s, lo, hi), NEW n \in lo..(hi - 1)
      PROVE  \E i \in 1..(N - 1) : t[i] = Enduring(n)
  <2>1. PICK j \in 1..N : s[j] = Enduring(n)
    BY <1>4 DEF Whole
  <2> QED
    BY <1>1, <2>1
<1> QED
  BY <1>0, <1>2, <1>3, <1>4 DEF Run, Whole, t

\* And the loss of everything after some point.
LEMMA RunPrefix ==
  ASSUME NEW p \in Seq(Frames), NEW s \in Seq(Frames),
         NEW lo \in Nat, NEW hi \in Nat, Run(p \o s, lo, hi)
  PROVE  Run(p, lo, hi)
<1> DEFINE t == p \o s
<1>0. /\ Len(p) \in Nat /\ Len(s) \in Nat /\ Len(t) = Len(p) + Len(s)
      /\ \A i \in 1..Len(p) : i \in 1..Len(t) /\ t[i] = p[i]
  BY LenProperties, ConcatProperties
<1> HIDE DEF t
<1>1. Run(t, lo, hi)
  BY DEF t
<1>2. ASSUME NEW i \in 1..Len(p), p[i].kind = "enduring"
      PROVE  /\ p[i].seq \in lo..(hi - 1)
             /\ \A n \in lo..p[i].seq : \E j \in 1..i : p[j] = Enduring(n)
  <2>1. i \in 1..Len(t) /\ t[i] = p[i] /\ \A j \in 1..i : t[j] = p[j]
    BY <1>0
  <2>2. /\ t[i].seq \in lo..(hi - 1)
        /\ \A n \in lo..t[i].seq : \E j \in 1..i : t[j] = Enduring(n)
    BY <1>1, <1>2, <2>1 DEF Run
  <2> QED
    BY <2>1, <2>2
<1> QED
  BY <1>0, <1>1, <1>2 DEF Run

\* The first frame of a run carries the record lo, or none.
LEMMA RunTail ==
  ASSUME NEW s \in Seq(Frames), s # <<>>, NEW lo \in Nat, NEW hi \in Nat,
         Run(s, lo, hi)
  PROVE  IF Head(s).kind = "enduring"
         THEN /\ Head(s).seq = lo /\ lo < hi
              /\ Run(Tail(s), lo + 1, hi)
              /\ Whole(s, lo, hi) => Whole(Tail(s), lo + 1, hi)
         ELSE /\ Run(Tail(s), lo, hi)
              /\ Whole(s, lo, hi) => Whole(Tail(s), lo, hi)
<1> DEFINE t == Tail(s)
           N == Len(s)
           lower == IF s[1].kind = "enduring" THEN lo + 1 ELSE lo
<1>0. /\ N \in Nat \ {0} /\ Head(s) = s[1] /\ Len(t) = N - 1
      /\ \A i \in 1..(N - 1) : t[i] = s[i + 1]
  BY LenProperties, EmptySeq, HeadTailProperties
<1>1. ASSUME s[1].kind = "enduring"
      PROVE  s[1].seq = lo /\ lo < hi
  <2>1. /\ s[1].seq \in lo..(hi - 1)
        /\ \A n \in lo..s[1].seq : \E j \in 1..1 : s[j] = Enduring(n)
    BY <1>0, <1>1 DEF Run
  <2>2. s[1] = Enduring(lo)
    BY <2>1
  <2> QED
    BY <2>1, <2>2, EnduringFields
<1> HIDE DEF t
<1>2. ASSUME NEW j \in 1..N, NEW n \in Nat, lower <= n, s[j] = Enduring(n)
      PROVE  j - 1 \in 1..(N - 1) /\ t[j - 1] = Enduring(n)
  <2>1. j # 1
    BY <1>1, <1>2, EnduringFields
  <2>2. j - 1 \in 1..(N - 1) /\ (j - 1) + 1 = j
    BY <1>0, <2>1
  <2> QED
    BY <1>0, <1>2, <2>2
<1>3. ASSUME NEW i \in 1..(N - 1), t[i].kind = "enduring"
      PROVE  /\ t[i].seq \in lower..(hi - 1)
             /\ \A n \in lower..t[i].seq : \E j \in 1..i : t[j] = Enduring(n)
  <2>1. i + 1 \in 1..N /\ t[i] = s[i + 1] /\ 1 \in 1..N /\ 1 < i + 1
    BY <1>0
  <2>2. /\ s[i + 1].seq \in lo..(hi - 1)
        /\ \A n \in lo..s[i + 1].seq : \E j \in 1..(i + 1) : s[j] = Enduring(n)
    BY <1>3, <2>1 DEF Run
  <2>3. s[1].kind = "enduring" => s[1].seq < s[i + 1].seq
    BY <1>3, <2>1 DEF Run
  <2>4. t[i].seq \in lower..(hi - 1)
    BY <1>1, <2>1, <2>2, <2>3
  <2>5. ASSUME NEW n \in lower..t[i].seq
        PROVE  \E j \in 1..i : t[j] = Enduring(n)
    <3>1. n \in lo..s[i + 1].seq /\ n \in Nat /\ lower <= n
      BY <2>1, <2>2
    <3>2. PICK j \in 1..(i + 1) : s[j] = Enduring(n)
      BY <2>2, <3>1
    <3>3. j \in 1..N
      BY <1>0, <2>1
    <3>4. j - 1 \in 1..(N - 1) /\ t[j - 1] = Enduring(n)
      BY <1>2, <3>1, <3>2, <3>3
    <3>5. j - 1 \in 1..i
      BY <3>2, <3>4
    <3> QED
      BY <3>4, <3>5
  <2> QED
    BY <2>4, <2>5
<1>4. ASSUME NEW i \in 1..(N - 1), NEW j \in 1..(N - 1), i < j,
             t[i].kind = "enduring", t[j].kind = "enduring"
      PROVE  t[i].seq < t[j].seq
  <2>1. /\ i + 1 \in 1..N /\ j + 1 \in 1..N /\ i + 1 < j + 1
        /\ t[i] = s[i + 1] /\ t[j] = s[j + 1]
    <3>1. t[i] = s[i + 1] /\ t[j] = s[j + 1] /\ N \in Nat
      BY <1>0
    <3> HIDE DEF N
    <3> QED
      BY <1>4, <3>1
  <2>2. \A m, n \in 1..N :
          m < n /\ s[m].kind = "enduring" /\ s[n].kind = "enduring" => s[m].seq < s[n].seq
    BY DEF Run
  <2> QED
    BY <1>4, <2>1, <2>2
<1>5. Run(t, lower, hi)
  BY <1>0, <1>3, <1>4 DEF Run
<1>6. Whole(s, lo, hi) => Whole(t, lower, hi)
  <2> SUFFICES ASSUME Whole(s, lo, hi), NEW n \in lower..(hi - 1)
               PROVE  \E i \in 1..(N - 1) : t[i] = Enduring(n)
    BY <1>0 DEF Whole
  <2>1. n \in lo..(hi - 1) /\ n \in Nat /\ lower <= n
    OBVIOUS
  <2>2. PICK j \in 1..N : s[j] = Enduring(n)
    BY <2>1 DEF Whole
  <2> QED
    BY <1>2, <2>1, <2>2
<1> QED
  BY <1>0, <1>1, <1>5, <1>6 DEF t

\* A run below hi is a run below any higher bound.
LEMMA RunWider ==
  ASSUME NEW s \in Seq(Frames), NEW lo \in Nat, NEW hi \in Nat, Run(s, lo, hi)
  PROVE  Run(s, lo, hi + 1)
<1>1. Len(s) \in Nat
  BY LenProperties
<1>2. ASSUME NEW i \in 1..Len(s), s[i].kind = "enduring"
      PROVE  s[i].seq \in lo..((hi + 1) - 1)
  <2>1. s[i].seq \in lo..(hi - 1)
    BY <1>2 DEF Run
  <2> QED
    BY <2>1
<1> QED
  BY <1>2 DEF Run

\* An empty buffer is a run of no records.
LEMMA RunEmpty ==
  ASSUME NEW n \in Nat
  PROVE  Run(<<>>, n, n) /\ Whole(<<>>, n, n)
<1>1. Len(<<>>) = 0 /\ 1..0 = {} /\ n..(n - 1) = {}
  OBVIOUS
<1> QED
  BY <1>1 DEF Run, Whole

\* A run of no frames that reaches hi starts there.
LEMMA RunOfNone ==
  ASSUME NEW lo \in Nat, NEW hi \in Nat, lo <= hi, Whole(<<>>, lo, hi)
  PROVE  lo = hi
<1>1. Len(<<>>) = 0 /\ 1..0 = {}
  OBVIOUS
<1>2. lo \notin lo..(hi - 1)
  BY <1>1 DEF Whole
<1> QED
  BY <1>2

\* Buffering at the end of a stream is appending to the stream.
LEMMA AppendOfConcat ==
  ASSUME NEW p \in Seq(Frames), NEW s \in Seq(Frames), NEW f \in Frames
  PROVE  p \o Append(s, f) = Append(p \o s, f)
<1>1. <<f>> \in Seq(Frames) /\ p \o s \in Seq(Frames)
  BY ConcatProperties
<1>2. Append(s, f) = s \o <<f>> /\ Append(p \o s, f) = (p \o s) \o <<f>>
  BY <1>1, AppendIsConcat
<1>3. (p \o s) \o <<f>> = p \o (s \o <<f>>)
  BY <1>1, ConcatAssociative
<1> QED
  BY <1>2, <1>3

\* Evicting from the end of a stream is evicting from the stream.
LEMMA WithoutOfConcat ==
  ASSUME NEW p \in Seq(Frames), NEW s \in Seq(Frames), NEW k \in 1..Len(s)
  PROVE  /\ Len(p) + k \in 1..Len(p \o s) /\ (p \o s)[Len(p) + k] = s[k]
         /\ p \o Without(s, k) = Without(p \o s, Len(p) + k)
<1> DEFINE t == p \o s
           w == Without(s, k)
           u == Without(t, Len(p) + k)
<1>1. Len(p) \in Nat /\ Len(s) \in Nat
  BY LenProperties
<1>2. /\ t \in Seq(Frames) /\ Len(t) = Len(p) + Len(s)
      /\ \A i \in 1..(Len(p) + Len(s)) :
           t[i] = IF i <= Len(p) THEN p[i] ELSE s[i - Len(p)]
  BY ConcatProperties
<1>3. /\ w \in Seq(Frames) /\ Len(w) = Len(s) - 1
      /\ \A i \in 1..(Len(s) - 1) : w[i] = IF i < k THEN s[i] ELSE s[i + 1]
  BY WithoutProperties
<1> HIDE DEF w
<1>4. /\ p \o w \in Seq(Frames) /\ Len(p \o w) = Len(p) + Len(w)
      /\ \A i \in 1..(Len(p) + Len(w)) :
           (p \o w)[i] = IF i <= Len(p) THEN p[i] ELSE w[i - Len(p)]
  BY <1>3, ConcatProperties
<1> HIDE DEF t
<1>5. Len(p) + k \in 1..Len(t) /\ (Len(p) + k) - Len(p) = k
  BY <1>1, <1>2
<1>6. t[Len(p) + k] = s[k]
  BY <1>1, <1>2, <1>5
<1>7. /\ u \in Seq(Frames) /\ Len(u) = Len(t) - 1
      /\ \A i \in 1..(Len(t) - 1) : u[i] = IF i < Len(p) + k THEN t[i] ELSE t[i + 1]
  BY <1>2, <1>5, WithoutProperties
<1> HIDE DEF u
<1>8. Len(p \o w) = Len(u)
  BY <1>1, <1>2, <1>3, <1>4, <1>7
<1>9. ASSUME NEW i \in 1..Len(u)
      PROVE  (p \o w)[i] = u[i]
  <2>1. CASE i <= Len(p)
    <3>1. i \in 1..(Len(t) - 1) /\ i < Len(p) + k /\ i \in 1..(Len(p) + Len(s))
          /\ i \in 1..(Len(p) + Len(w))
      BY <1>1, <1>2, <1>3, <1>7, <2>1
    <3> QED
      BY <1>2, <1>4, <1>7, <2>1, <3>1
  <2>2. CASE ~(i <= Len(p)) /\ i < Len(p) + k
    <3>1. /\ i \in 1..(Len(t) - 1) /\ i \in 1..(Len(p) + Len(s))
          /\ i \in 1..(Len(p) + Len(w)) /\ i - Len(p) \in 1..(Len(s) - 1)
          /\ i - Len(p) < k
      BY <1>1, <1>2, <1>3, <1>7, <2>2
    <3> QED
      BY <1>2, <1>3, <1>4, <1>7, <2>2, <3>1
  <2>3. CASE ~(i < Len(p) + k)
    <3>1. /\ i \in 1..(Len(t) - 1) /\ i + 1 \in 1..(Len(p) + Len(s))
          /\ i \in 1..(Len(p) + Len(w)) /\ i - Len(p) \in 1..(Len(s) - 1)
          /\ ~(i - Len(p) < k) /\ ~(i <= Len(p)) /\ ~(i + 1 <= Len(p))
          /\ (i + 1) - Len(p) = (i - Len(p)) + 1
      BY <1>1, <1>2, <1>3, <1>5, <1>7, <2>3
    <3>2. (p \o w)[i] = w[i - Len(p)] /\ w[i - Len(p)] = s[(i - Len(p)) + 1]
      BY <1>3, <1>4, <3>1
    <3>3. u[i] = t[i + 1] /\ t[i + 1] = s[(i + 1) - Len(p)]
      BY <1>2, <1>7, <2>3, <3>1
    <3> QED
      BY <3>1, <3>2, <3>3
  <2> QED
    BY <1>1, <2>1, <2>2, <2>3
<1>10. p \o w = u
  BY <1>4, <1>7, <1>8, <1>9, SeqEqual
<1> QED
  BY <1>5, <1>6, <1>10 DEF t, u, w

----
\* A frame reaches a buffer of which the join holds d drained already.

LEMMA PendingAfter ==
  ASSUME NEW d \in Seq(Frames), NEW q \in Queues
  PROVE  d \o Pending(q) = (d \o q.hand) \o q.items
<1> DEFINE hand == q.hand
           items == q.items
<1>1. hand \in Seq(Frames) /\ items \in Seq(Frames)
  BY DEF Queues
<1> HIDE DEF hand, items
<1>2. (d \o hand) \o items = d \o (hand \o items)
  BY <1>1, ConcatAssociative
<1> QED
  BY <1>2 DEF Pending, hand, items

\* What is drained and what is buffered, taken together.
LEMMA PushFlows ==
  ASSUME NEW q, Bounded(q), NEW d \in Seq(Frames), NEW f \in Frames,
         NEW lo \in Nat, NEW hi \in Nat, NEW top \in {hi, hi + 1}, lo <= hi,
         q.waiting /\ q.closed = "open" => d = <<>> /\ Pending(q) = <<>>,
         IF f.kind = "enduring"
         THEN f = Enduring(hi) /\ top = hi + 1 /\ q.closed \in {"open", "refused"}
         ELSE top = hi,
         Run(d \o Pending(q), lo, hi),
         q.closed # "refused" => Whole(d \o Pending(q), lo, hi)
  PROVE  /\ Run(d \o Pending(Push(q, f)), lo, top)
         /\ Push(q, f).closed # "refused" => Whole(d \o Pending(Push(q, f)), lo, top)
<1> DEFINE p == d \o q.hand
           s == p \o q.items
           items == Append(q.items, f)
<1>1. /\ q \in Queues /\ q.hand \in Seq(Frames) /\ q.items \in Seq(Frames)
      /\ q.closed \in {"open", "ended", "failed", "refused"}
  BY DEF Bounded, Queues
<1>2. p \in Seq(Frames) /\ s \in Seq(Frames) /\ items \in Seq(Frames)
  BY <1>1, ConcatProperties, AppendProperties
<1>3. \A r \in Queues : Pending(r) \in Seq(Frames)
                        /\ d \o Pending(r) = (d \o r.hand) \o r.items
  BY PendingIsSeq, PendingAfter
<1>4. Run(s, lo, hi) /\ (q.closed # "refused" => Whole(s, lo, hi))
  BY <1>1, <1>3
<1>5. Push(q, f) \in Queues
  BY PushBounded DEF Bounded
<1>6. \* The stream with the frame at its end is a run up to top.
      /\ Run(Append(s, f), lo, top)
      /\ q.closed = "open" => Whole(Append(s, f), lo, top)
      \/ q.closed # "open"
  <2>1. CASE f.kind = "enduring" /\ q.closed = "open"
    BY <1>2, <1>4, <2>1, RunNext
  <2>2. CASE f.kind # "enduring"
    BY <1>2, <1>4, <2>2, RunOther
  <2> QED
    BY <2>1, <2>2
<1>7. CASE q.closed # "open"
  <2>1. Push(q, f) = q
    BY <1>7 DEF Push
  <2>2. Run(s, lo, top)
    BY <1>2, <1>4, RunWider
  <2>3. q.closed # "refused" => top = hi
    BY <1>7
  <2> QED
    BY <1>1, <1>3, <1>4, <2>1, <2>2, <2>3
<1>8. CASE q.closed = "open" /\ q.waiting
  <2>1. q.hand = <<>> /\ q.items = <<>> /\ d = <<>>
    BY <1>1, <1>8, ConcatEqualIffEmpty DEF Pending
  <2>2. s = <<>>
    BY <2>1
  <2>3. Pending(Push(q, f)) = <<f>>
    <3>1. Push(q, f) = [[q EXCEPT !.waiting = FALSE] EXCEPT !.hand = <<f>>]
      BY <1>1, <1>8 DEF Push, Queues
    <3>2. Push(q, f).hand = <<f>> /\ Push(q, f).items = <<>>
      BY <1>1, <2>1, <3>1 DEF Queues
    <3>3. <<f>> \in Seq(Frames)
      OBVIOUS
    <3> QED
      BY <3>2, <3>3, ConcatEmptySeq DEF Pending
  <2>4. d \o Pending(Push(q, f)) = Append(s, f)
    BY <2>1, <2>2, <2>3
  <2> QED
    BY <1>6, <1>8, <2>4
<1>9. CASE q.closed = "open" /\ ~q.waiting /\ Fits(items)
  <2>1. Push(q, f) = [q EXCEPT !.items = items]
    BY <1>9 DEF Push
  <2>2. Push(q, f).hand = q.hand /\ Push(q, f).items = items
    BY <1>1, <2>1 DEF Queues
  <2>3. p \o items = Append(s, f)
    BY <1>1, <1>2, AppendOfConcat
  <2>4. d \o Pending(Push(q, f)) = Append(s, f)
    BY <1>3, <1>5, <2>2, <2>3
  <2> QED
    BY <1>6, <1>9, <2>4
<1>10. CASE q.closed = "open" /\ ~q.waiting /\ ~Fits(items) /\ Candidates(items) = {}
  <2>1. Push(q, f) = [[q EXCEPT !.items = <<>>] EXCEPT !.closed = "refused"]
    BY <1>1, <1>10 DEF Push, Refused, Queues
  <2>2. /\ Push(q, f).hand = q.hand /\ Push(q, f).items = <<>>
        /\ Push(q, f).closed = "refused"
    BY <1>1, <2>1 DEF Queues
  <2>3. d \o Pending(Push(q, f)) = p
    BY <1>2, <1>3, <1>5, <2>2, ConcatEmptySeq
  <2>4. Run(p, lo, hi) /\ Run(p, lo, hi + 1)
    BY <1>1, <1>2, <1>4, RunPrefix, RunWider
  <2> QED
    BY <2>2, <2>3, <2>4
<1>11. CASE q.closed = "open" /\ ~q.waiting /\ ~Fits(items) /\ Candidates(items) # {}
  <2> DEFINE k == Victim(items)
  <2>1. k \in 1..Len(items) /\ items[k].kind # "enduring"
    BY <1>2, <1>11, VictimDroppable DEF Droppable
  <2> HIDE DEF k
  <2>2. Push(q, f) = [[q EXCEPT !.items = Without(items, k)] EXCEPT !.dropped = q.dropped + 1]
    BY <1>1, <1>11 DEF Push, Queues, k
  <2>3. Push(q, f).hand = q.hand /\ Push(q, f).items = Without(items, k)
    BY <1>1, <2>2 DEF Queues
  <2>4. p \o items = Append(s, f)
    BY <1>1, <1>2, AppendOfConcat
  <2>5. d \o Pending(Push(q, f)) = p \o Without(items, k)
    BY <1>3, <1>5, <2>3
  <2> HIDE DEF p, items, s
  <2>6. /\ Len(p) + k \in 1..Len(p \o items) /\ (p \o items)[Len(p) + k] = items[k]
        /\ p \o Without(items, k) = Without(p \o items, Len(p) + k)
    BY <1>2, <2>1, WithoutOfConcat
  <2>7. p \o items \in Seq(Frames)
    BY <1>2, ConcatProperties
  <2>8. Run(p \o items, lo, top) /\ Whole(p \o items, lo, top)
    BY <1>6, <1>11, <2>4
  <2>9. /\ Run(Without(p \o items, Len(p) + k), lo, top)
        /\ Whole(Without(p \o items, Len(p) + k), lo, top)
    <3> DEFINE t == p \o items
               m == Len(p) + k
    <3>1. t \in Seq(Frames) /\ m \in 1..Len(t) /\ t[m].kind # "enduring" /\ top \in Nat
      BY <2>1, <2>6, <2>7
    <3>2. Run(t, lo, top) /\ Whole(t, lo, top)
      BY <2>8
    <3> HIDE DEF t, m
    <3>3. Run(Without(t, m), lo, top) /\ Whole(Without(t, m), lo, top)
      BY <3>1, <3>2, RunWithout
    <3> QED
      BY <3>3 DEF t, m
  <2> QED
    BY <2>5, <2>6, <2>9
<1> QED
  BY <1>7, <1>8, <1>9, <1>10, <1>11
----
\* Nothing is missed.

Walking   == pc \in {"next", "ask", "read", "page"}
Following == pc \in {"drain", "live"}

\* Everything the connection has brought and the join has not applied.
Stream == drained \o Pending(conn.queue)

\* The buffer is shaped by where the join is.
Shape ==
  /\ conn.up # "asked"
  /\ conn.up = "open" => conn.queue.closed \in {"open", "refused"}
  /\ pc \notin {"drain", "returned"} => drained = <<>>
  /\ Walking \/ pc = "drain" => conn.queue.hand = <<>> /\ ~conn.queue.waiting
  /\ pc = "live" /\ conn.queue.waiting => Pending(conn.queue) = <<>>
  /\ conn.queue.hand = <<>> \/ Len(conn.queue.hand) = 1

\* The cursor and the page stand where the yielded events end.
Placed ==
  /\ pc \notin {"page", "returned", "threw"} => cursor = start + Len(yielded)
  /\ pc = "page" => page.at = start + Len(yielded)
  /\ pc = "read" => page.at = cursor
  /\ pc \in {"read", "page"} => page.at <= page.next /\ page.next <= committed
  /\ cursor <= committed /\ conn.sent <= committed

\* What is not applied yet starts no later than the walk ends, or than the
\* cursor once the walk is over.
FlowsFrom(lo) ==
  /\ lo <= conn.sent
  /\ Run(Stream, lo, conn.sent)
  /\ conn.queue.closed # "refused" => Whole(Stream, lo, conn.sent)
  /\ pc \in {"read", "page"} /\ page.done => lo <= page.next
  /\ Following => lo <= cursor /\ tip <= cursor /\ (lo < cursor => cursor = tip)

Flow == Walking \/ Following => \E lo \in Nat : FlowsFrom(lo)

OrderInv == TypeOK /\ Shape /\ Placed /\ Flow /\ ExactlyOnce

\* Nothing else is disturbed by a frame that arrives.
LEMMA ArrivesOrdered ==
  ASSUME OrderInv, NEW c \in {conn} \cup abandoned, NEW f \in Frames,
         NEW sent \in {c.sent, c.sent + 1}, sent <= committed,
         IF f.kind = "enduring"
         THEN f = Enduring(c.sent) /\ sent = c.sent + 1 /\ c.up = "open"
         ELSE sent = c.sent,
         Arrives(c, f, sent), UNCHANGED committed
  PROVE  Shape' /\ Placed' /\ Flow' /\ ExactlyOnce'
<1> DEFINE q == conn.queue
           after == [epoch |-> c.epoch, up |-> c.up, sent |-> sent,
                     queue |-> Push(c.queue, f)]
<1>0. UNCHANGED <<committed, pc, cursor, tip, page, drained, start, yielded>>
  BY DEF Arrives, Relay
<1>1. ExactlyOnce'
  BY <1>0 DEF OrderInv, ExactlyOnce
<1>2. TypeOK /\ conn.sent \in Nat /\ committed \in Nat
      /\ drained \in Seq(Frames) /\ conn.queue \in Queues /\ Bounded(conn.queue)
  <2>1. /\ TypeOK /\ committed \in 0..MaxCommitted /\ drained \in Seq(Frames)
        /\ conn \in Connections /\ Len(conn.queue.items) <= MaxQueued
    BY DEF OrderInv, TypeOK
  <2> QED
    BY <2>1, SessionAssumption DEF Connections, Bounded
<1>3. CASE c # conn
  <2>1. UNCHANGED conn
    BY <1>3 DEF Arrives
  <2> QED
    BY <1>0, <1>1, <2>1
    DEF OrderInv, Shape, Placed, Flow, FlowsFrom, Stream, Walking, Following
<1>4. CASE c = conn
  <2>1. conn' = after /\ conn'.up = conn.up /\ conn'.sent = sent
        /\ conn'.queue = Push(conn.queue, f)
    BY <1>4 DEF Arrives
  <2>2. Shape'
    <3>1. conn.queue.closed = "open" => Push(conn.queue, f).closed \in {"open", "refused"}
      BY <1>2 DEF Push, Refused, Queues
    <3>2. conn.queue.closed # "open" => Push(conn.queue, f) = conn.queue
      BY DEF Push
    <3>3. ~conn.queue.waiting =>
            /\ ~Push(conn.queue, f).waiting
            /\ Push(conn.queue, f).hand = conn.queue.hand
      BY <1>2 DEF Push, Refused, Queues
    <3>4. conn.queue.waiting =>
            \/ Push(conn.queue, f) = conn.queue
            \/ ~Push(conn.queue, f).waiting /\ Len(Push(conn.queue, f).hand) = 1
      <4>1. CASE conn.queue.closed = "open" /\ conn.queue.waiting
        <5>1. Push(conn.queue, f)
                = [[conn.queue EXCEPT !.waiting = FALSE] EXCEPT !.hand = <<f>>]
          BY <1>2, <4>1 DEF Push, Queues
        <5>2. Push(conn.queue, f).hand = <<f>> /\ ~Push(conn.queue, f).waiting
          BY <1>2, <5>1 DEF Queues
        <5> QED
          BY <5>2
      <4>2. CASE conn.queue.closed # "open"
        BY <4>2 DEF Push
      <4> QED
        BY <4>1, <4>2
    <3> QED
      BY <1>0, <2>1, <3>1, <3>2, <3>3, <3>4 DEF OrderInv, Shape, Walking
  <2>3. Placed'
    BY <1>0, <2>1 DEF OrderInv, Placed
  <2>4. Flow'
    <3> SUFFICES ASSUME Walking \/ Following PROVE \E lo \in Nat : FlowsFrom(lo)'
      BY <1>0 DEF Flow, Walking, Following
    <3>1. PICK lo \in Nat : FlowsFrom(lo)
      BY DEF OrderInv, Flow
    <3>2. q.waiting /\ q.closed = "open" => drained = <<>> /\ Pending(q) = <<>>
      BY DEF OrderInv, Shape, Walking, Following
    <3>3. IF f.kind = "enduring"
          THEN f = Enduring(conn.sent) /\ sent = conn.sent + 1
               /\ q.closed \in {"open", "refused"}
          ELSE sent = conn.sent
      BY <1>4 DEF OrderInv, Shape
    <3>4. /\ lo <= conn.sent
          /\ Run(drained \o Pending(q), lo, conn.sent)
          /\ q.closed # "refused" => Whole(drained \o Pending(q), lo, conn.sent)
      BY <3>1 DEF FlowsFrom, Stream
    <3>5. sent \in {conn.sent, conn.sent + 1}
      BY <1>4
    <3>6. /\ Run(drained \o Pending(Push(q, f)), lo, sent)
          /\ Push(q, f).closed # "refused"
               => Whole(drained \o Pending(Push(q, f)), lo, sent)
      <4> DEFINE hi == conn.sent
      <4> HIDE DEF hi, q
      <4> QED
        BY <1>2, <3>2, <3>3, <3>4, <3>5, PushFlows DEF hi, q
    <3>7. lo <= sent
      BY <1>2, <3>4, <3>5
    <3> QED
      BY <1>0, <2>1, <3>1, <3>6, <3>7 DEF FlowsFrom, Stream, Following
  <2> QED
    BY <1>1, <2>2, <2>3, <2>4
<1> QED
  BY <1>3, <1>4

\* A step that applies the head of the stream.
LEMMA ApplyOrdered ==
  ASSUME OrderInv, Following, NEW lo \in Nat, FlowsFrom(lo), Stream # <<>>,
         Apply(Head(Stream)), UNCHANGED <<committed, tip, start, pc>>,
         Stream' = Tail(Stream), conn'.sent = conn.sent,
         conn'.queue.closed = conn.queue.closed
  PROVE  Flow' /\ ExactlyOnce' /\ cursor' = start' + Len(yielded')
         /\ cursor' <= committed'
<1> DEFINE f == Head(Stream)
           s == Stream
<1>1. /\ TypeOK /\ conn.sent \in Nat /\ committed \in Nat /\ cursor \in Nat
      /\ tip \in Nat /\ start \in Nat /\ conn.sent <= committed
      /\ yielded \in Seq(0..MaxCommitted) /\ Len(yielded) \in Nat
      /\ cursor = start + Len(yielded) /\ cursor <= committed
  <2>1. TypeOK /\ Placed
    BY DEF OrderInv
  <2>2. /\ conn \in Connections /\ committed \in 0..MaxCommitted
        /\ cursor \in 0..MaxCommitted /\ tip \in 0..MaxCommitted
        /\ start \in 0..MaxCommitted /\ yielded \in Seq(0..MaxCommitted)
    BY <2>1 DEF TypeOK
  <2>3. conn.sent \in Nat
    BY <2>2 DEF Connections
  <2>4. conn.sent <= committed /\ cursor <= committed /\ cursor = start + Len(yielded)
    BY <2>1 DEF Placed, Following
  <2> QED
    BY <2>1, <2>2, <2>3, <2>4, LenProperties
<1>2. s \in Seq(Frames) /\ s # <<>> /\ f \in Frames
  <2>1. drained \in Seq(Frames) /\ conn.queue \in Queues
    BY <1>1 DEF TypeOK, Connections
  <2>2. s \in Seq(Frames)
    BY <2>1, PendingIsSeq, ConcatProperties DEF Stream
  <2> QED
    BY <2>2, HeadTailProperties
<1>3. /\ lo <= conn.sent /\ Run(s, lo, conn.sent)
      /\ conn.queue.closed # "refused" => Whole(s, lo, conn.sent)
      /\ lo <= cursor /\ tip <= cursor /\ (lo < cursor => cursor = tip)
  BY DEF FlowsFrom
<1> DEFINE lower == IF f.kind = "enduring" THEN lo + 1 ELSE lo
<1>4. /\ f.kind = "enduring" => f.seq = lo /\ lo < conn.sent
      /\ Run(Tail(s), lower, conn.sent)
      /\ Whole(s, lo, conn.sent) => Whole(Tail(s), lower, conn.sent)
  <2> DEFINE hi == conn.sent
  <2>1. Run(s, lo, hi) /\ hi \in Nat
    BY <1>1, <1>3
  <2> HIDE DEF s, hi
  <2>2. IF Head(s).kind = "enduring"
        THEN /\ Head(s).seq = lo /\ lo < hi
             /\ Run(Tail(s), lo + 1, hi)
             /\ Whole(s, lo, hi) => Whole(Tail(s), lo + 1, hi)
        ELSE /\ Run(Tail(s), lo, hi)
             /\ Whole(s, lo, hi) => Whole(Tail(s), lo, hi)
    BY <1>2, <2>1, RunTail
  <2> QED
    BY <2>2 DEF s, hi
<1>5. lower \in Nat /\ lower <= conn.sent
  BY <1>1, <1>3, <1>4
<1>6. /\ lower <= cursor' /\ tip <= cursor' /\ (lower < cursor' => cursor' = tip)
      /\ ExactlyOnce' /\ cursor' = start' + Len(yielded') /\ cursor' <= committed
  <2>1. CASE f.kind = "enduring" /\ ~Covered(f)
    <3>1. f.seq = lo /\ lo < conn.sent /\ tip <= lo
      BY <1>1, <1>4, <2>1 DEF Covered
    <3>2. lo = cursor
      BY <1>1, <1>3, <3>1
    <3>3. cursor' = cursor + 1 /\ yielded' = Append(yielded, cursor)
      BY <1>1, <2>1, <3>1, <3>2 DEF Apply, Upper
    <3>4. cursor \in 0..MaxCommitted
      BY <1>1 DEF TypeOK
    <3>5. /\ Len(yielded') = Len(yielded) + 1 /\ yielded'[Len(yielded) + 1] = cursor
          /\ \A i \in 1..Len(yielded) : yielded'[i] = yielded[i]
          /\ yielded' \in Seq(0..MaxCommitted)
      BY <1>1, <3>3, <3>4, AppendProperties
    <3>6. DOMAIN yielded = 1..Len(yielded) /\ DOMAIN yielded' = 1..Len(yielded')
      BY <1>1, <3>5, LenProperties
    <3>7. ExactlyOnce'
      <4> SUFFICES ASSUME NEW i \in 1..(Len(yielded) + 1)
                   PROVE  yielded'[i] = start + i - 1
        BY <3>5, <3>6 DEF ExactlyOnce
      <4>1. CASE i = Len(yielded) + 1
        BY <1>1, <3>5, <4>1
      <4>2. CASE i # Len(yielded) + 1
        <5>1. i \in 1..Len(yielded)
          BY <1>1, <4>2
        <5> QED
          BY <3>5, <3>6, <5>1 DEF OrderInv, ExactlyOnce
      <4> QED
        BY <4>1, <4>2
    <3>8. lower = cursor + 1 /\ tip <= cursor /\ cursor + 1 <= committed
      BY <1>1, <2>1, <3>1, <3>2
    <3>9. cursor' = start' + Len(yielded')
      BY <1>1, <3>3, <3>5
    <3> QED
      BY <1>1, <3>3, <3>7, <3>8, <3>9
  <2>2. CASE f.kind = "enduring" /\ Covered(f)
    <3>1. lo < tip
      BY <1>4, <2>2 DEF Covered
    <3>2. cursor' = cursor /\ yielded' = yielded
      BY <2>2 DEF Apply
    <3>3. ExactlyOnce'
      BY <3>2 DEF OrderInv, ExactlyOnce
    <3> QED
      BY <1>1, <1>3, <2>2, <3>1, <3>2, <3>3
  <2>3. CASE f.kind # "enduring"
    <3>1. cursor' = cursor /\ yielded' = yielded
      BY <2>3 DEF Apply
    <3>2. ExactlyOnce'
      BY <3>1 DEF OrderInv, ExactlyOnce
    <3> QED
      BY <1>1, <1>3, <2>3, <3>1, <3>2
  <2> QED
    BY <2>1, <2>2, <2>3
<1>7. PICK n \in Nat : n = lower
  BY <1>5
<1>8. FlowsFrom(n)'
  <2>1. Following' /\ ~(pc' \in {"read", "page"})
    BY DEF Following
  <2>2. Run(Stream', n, conn'.sent)
    BY <1>4, <1>7
  <2>3. conn'.queue.closed # "refused" => Whole(Stream', n, conn'.sent)
    BY <1>3, <1>4, <1>7
  <2>4. /\ n <= conn'.sent /\ n <= cursor' /\ tip' <= cursor'
        /\ (n < cursor' => cursor' = tip')
    BY <1>5, <1>6, <1>7
  <2> QED
    BY <2>1, <2>2, <2>3, <2>4 DEF FlowsFrom
<1> QED
  BY <1>6, <1>8 DEF Flow

LEMMA HeadTailOfConcat ==
  ASSUME NEW p \in Seq(Frames), p # <<>>, NEW s \in Seq(Frames)
  PROVE  /\ p \o s # <<>> /\ Head(p \o s) = Head(p)
         /\ Tail(p \o s) = Tail(p) \o s
<1> DEFINE t == p \o s
           u == Tail(p) \o s
<1>1. Len(p) \in Nat \ {0} /\ Len(s) \in Nat
  BY LenProperties, EmptySeq
<1>2. /\ t \in Seq(Frames) /\ Len(t) = Len(p) + Len(s)
      /\ \A i \in 1..(Len(p) + Len(s)) :
           t[i] = IF i <= Len(p) THEN p[i] ELSE s[i - Len(p)]
  BY ConcatProperties
<1>3. /\ Tail(p) \in Seq(Frames) /\ Len(Tail(p)) = Len(p) - 1
      /\ \A i \in 1..(Len(p) - 1) : Tail(p)[i] = p[i + 1]
  BY HeadTailProperties
<1>4. /\ u \in Seq(Frames) /\ Len(u) = Len(Tail(p)) + Len(s)
      /\ \A i \in 1..(Len(Tail(p)) + Len(s)) :
           u[i] = IF i <= Len(Tail(p)) THEN Tail(p)[i] ELSE s[i - Len(Tail(p))]
  BY <1>3, ConcatProperties
<1> HIDE DEF t, u
<1>5. t # <<>> /\ t[1] = p[1]
  BY <1>1, <1>2, EmptySeq
<1>6. /\ Tail(t) \in Seq(Frames) /\ Len(Tail(t)) = Len(t) - 1
      /\ \A i \in 1..(Len(t) - 1) : Tail(t)[i] = t[i + 1]
  BY <1>2, <1>5, HeadTailProperties
<1>7. Len(Tail(t)) = Len(u)
  BY <1>1, <1>2, <1>3, <1>4, <1>6
<1>8. ASSUME NEW i \in 1..Len(Tail(t)) PROVE Tail(t)[i] = u[i]
  <2>1. /\ i \in 1..(Len(t) - 1) /\ i + 1 \in 1..(Len(p) + Len(s))
        /\ i \in 1..(Len(Tail(p)) + Len(s))
    BY <1>1, <1>2, <1>3, <1>6
  <2>2. CASE i <= Len(p) - 1
    <3>1. i + 1 <= Len(p) /\ i \in 1..(Len(p) - 1)
      BY <1>1, <2>1, <2>2
    <3> QED
      BY <1>2, <1>3, <1>4, <1>6, <2>1, <2>2, <3>1
  <2>3. CASE ~(i <= Len(p) - 1)
    <3>1. ~(i + 1 <= Len(p)) /\ (i + 1) - Len(p) = i - (Len(p) - 1)
      BY <1>1, <2>1, <2>3
    <3>2. Tail(t)[i] = s[(i + 1) - Len(p)]
      BY <1>2, <1>6, <2>1, <3>1
    <3>3. u[i] = s[i - (Len(p) - 1)]
      BY <1>3, <1>4, <2>1, <2>3
    <3> QED
      BY <3>1, <3>2, <3>3
  <2> QED
    BY <2>2, <2>3
<1>9. Tail(t) = u
  BY <1>4, <1>6, <1>7, <1>8, SeqEqual
<1>10. Head(t) = Head(p)
  BY <1>1, <1>2, <1>5
<1> QED
  BY <1>5, <1>9, <1>10 DEF t, u

\* next() takes the head of what is pending.
LEMMA TakenIsTail ==
  ASSUME NEW q \in Queues, Pending(q) # <<>>, q.hand = <<>> \/ Len(q.hand) = 1
  PROVE  /\ Pending(Taken(q)) = Tail(Pending(q)) /\ Taken(q).closed = q.closed
         /\ Taken(q).hand = <<>> /\ Taken(q).waiting = q.waiting
<1>1. q.hand \in Seq(Frames) /\ q.items \in Seq(Frames) /\ <<>> \in Seq(Frames)
  BY EmptySeq DEF Queues
<1>2. CASE q.hand # <<>>
  <2>1. Len(Tail(q.hand)) = 0 /\ Tail(q.hand) \in Seq(Frames)
    BY <1>1, <1>2, HeadTailProperties
  <2>2. Tail(q.hand) = <<>>
    BY <2>1, EmptySeq
  <2>3. Taken(q) = [q EXCEPT !.hand = <<>>]
    BY <1>2 DEF Taken
  <2>4. /\ Taken(q).hand = <<>> /\ Taken(q).items = q.items
        /\ Taken(q).closed = q.closed /\ Taken(q).waiting = q.waiting
    BY <2>3 DEF Queues
  <2>5. Tail(q.hand \o q.items) = Tail(q.hand) \o q.items
    BY <1>1, <1>2, HeadTailOfConcat
  <2> QED
    BY <2>2, <2>4, <2>5 DEF Pending
<1>3. CASE q.hand = <<>>
  <2>1. Pending(q) = q.items /\ q.items # <<>>
    BY <1>1, <1>3, ConcatEmptySeq DEF Pending
  <2>2. Tail(q.items) \in Seq(Frames)
    BY <1>1, <2>1, HeadTailProperties
  <2>3. Taken(q) = [q EXCEPT !.items = Tail(q.items)]
    BY <1>3 DEF Taken
  <2>4. /\ Taken(q).hand = <<>> /\ Taken(q).items = Tail(q.items)
        /\ Taken(q).closed = q.closed /\ Taken(q).waiting = q.waiting
    BY <1>3, <2>3 DEF Queues
  <2>5. Pending(Taken(q)) = Tail(q.items)
    BY <2>2, <2>4, ConcatEmptySeq DEF Pending
  <2> QED
    BY <2>1, <2>4, <2>5
<1> QED
  BY <1>2, <1>3

----
\* The invariant is inductive.

LEMMA OrderInit == Init => OrderInv
<1> SUFFICES ASSUME Init PROVE OrderInv
  OBVIOUS
<1>1. TypeOK
  BY TypeInit
<1>2. /\ pc = "connect" /\ drained = <<>> /\ conn.up = "done" /\ yielded = <<>>
      /\ conn.sent = 0 /\ conn.queue.hand = <<>>
  BY DEF Init, NoConnection, NewLiveQueue
<1>3. Shape
  BY <1>2 DEF Shape, Walking
<1>4. Placed
  <2>1. start \in Nat /\ committed \in Nat /\ start <= committed /\ cursor = start
    BY <1>1 DEF Init, TypeOK
  <2> QED
    BY <1>2, <2>1 DEF Placed
<1>5. Flow /\ ExactlyOnce
  BY <1>2 DEF Flow, Walking, Following, ExactlyOnce
<1> QED
  BY <1>1, <1>3, <1>4, <1>5 DEF OrderInv

LEMMA OrderNext ==
  ASSUME SubscribedAtCall
  PROVE  OrderInv /\ [Next]_vars => OrderInv'
<1> SUFFICES ASSUME OrderInv, [Next]_vars
             PROVE  Shape' /\ Placed' /\ Flow' /\ ExactlyOnce'
  BY TypeNext DEF OrderInv
<1> USE SessionAssumption
<1>0. /\ TypeOK /\ Shape /\ Placed /\ Flow /\ ExactlyOnce
      /\ conn \in Connections /\ conn.queue \in Queues /\ Bounded(conn.queue)
      /\ conn.sent \in Nat /\ committed \in Nat /\ cursor \in Nat
      /\ drained \in Seq(Frames)
      /\ page.at \in Nat /\ page.next \in Nat /\ page.done \in BOOLEAN
  <2>1. TypeOK /\ Shape /\ Placed /\ Flow /\ ExactlyOnce
    BY DEF OrderInv
  <2>2. conn \in Connections /\ Len(conn.queue.items) <= MaxQueued
    BY <2>1 DEF TypeOK
  <2>3. conn.queue \in Queues /\ conn.sent \in Nat
    BY <2>2 DEF Connections
  <2>4. committed \in 0..MaxCommitted /\ cursor \in 0..MaxCommitted
        /\ drained \in Seq(Frames) /\ page \in Pages
    BY <2>1 DEF TypeOK
  <2>5. page.at \in Nat /\ page.next \in Nat /\ page.done \in BOOLEAN
    BY <2>4 DEF Pages
  <2> QED
    BY <2>1, <2>2, <2>3, <2>4, <2>5 DEF Bounded
<1>1. CASE Commit
  <2>1. UNCHANGED <<pc, cursor, conn, tip, page, drained, start, yielded>>
        /\ committed' = committed + 1
    BY <1>1 DEF Commit, joinVars, connVars, historyVars
  <2>2. Shape' /\ Flow' /\ ExactlyOnce'
    BY <1>0, <2>1
    DEF Shape, Flow, FlowsFrom, Stream, Walking, Following, ExactlyOnce
  <2>3. Placed'
    BY <1>0, <2>1 DEF Placed
  <2> QED
    BY <2>2, <2>3
<1>2. CASE Subscribe
  BY <1>0, <1>2 DEF Subscribe, Shape
<1>3. CASE ServeRead
  <2>1. /\ pc = "ask" /\ pc' = "read"
        /\ UNCHANGED <<committed, cursor, conn, tip, drained, start, yielded>>
        /\ page' = [at |-> cursor, next |-> Lower(cursor + PageLimit, committed),
                    done |-> Lower(cursor + PageLimit, committed) = committed]
    BY <1>3 DEF ServeRead, serverVars, historyVars
  <2>2. Shape' /\ ExactlyOnce'
    BY <1>0, <2>1 DEF Shape, Walking, ExactlyOnce
  <2>3. Placed'
    BY <1>0, <2>1 DEF Placed, Lower
  <2>4. Flow'
    <3>1. PICK lo \in Nat : FlowsFrom(lo)
      BY <1>0, <2>1 DEF Flow, Walking
    <3>2. page'.done => lo <= page'.next
      <4>1. lo <= conn.sent /\ conn.sent <= committed
        BY <1>0, <3>1 DEF FlowsFrom, Placed
      <4>2. page'.done => page'.next = committed
        BY <2>1
      <4> QED
        BY <1>0, <4>1, <4>2
    <3> QED
      BY <2>1, <3>1, <3>2 DEF Flow, FlowsFrom, Stream, Following
  <2> QED
    BY <2>2, <2>3, <2>4
<1>4. CASE Publish
  <2>1. PICK c \in {conn} \cup abandoned :
          /\ c.up = "open" /\ c.sent < committed
          /\ Arrives(c, Enduring(c.sent), c.sent + 1)
    BY <1>4 DEF Publish
  <2>2. c \in Connections /\ c.sent \in 0..(MaxCommitted - 1) /\ c.sent + 1 <= committed
    BY <1>0, <2>1 DEF TypeOK, Connections
  <2>3. Enduring(c.sent) \in Frames /\ Enduring(c.sent).kind = "enduring"
    BY <2>2, FramesTyped, EnduringFields
  <2>4. UNCHANGED committed
    BY <2>1 DEF Arrives, Relay
  <2> QED
    BY <2>1, <2>2, <2>3, <2>4, ArrivesOrdered
<1>5. CASE Chatter
  <2>1. PICK f \in {Heartbeat, ErrorFrame} \cup {Ephemeral(k) : k \in Keys} :
          Arrives(conn, f, conn.sent)
    BY <1>5 DEF Chatter
  <2>2. f \in Frames /\ f.kind # "enduring"
    BY FramesTyped DEF Heartbeat, ErrorFrame, Ephemeral
  <2>3. UNCHANGED committed /\ conn.sent <= committed
    BY <1>0, <2>1 DEF Arrives, Relay, Placed
  <2> QED
    BY <2>1, <2>2, <2>3, ArrivesOrdered
<1>6. CASE ConnectionEnds
  <2>1. PICK how \in {"ended", "failed"} :
          conn' = [conn EXCEPT !.up = "done", !.queue = Close(conn.queue, how)]
    BY <1>6 DEF ConnectionEnds
  <2>2. /\ conn'.up = "done" /\ conn'.sent = conn.sent
        /\ conn'.queue = Close(conn.queue, how)
    BY <1>0, <2>1 DEF Connections
  <2>3. /\ conn'.queue.hand = conn.queue.hand /\ conn'.queue.items = conn.queue.items
        /\ conn'.queue.waiting = conn.queue.waiting
        /\ conn'.queue.closed = "refused" <=> conn.queue.closed = "refused"
    BY <1>0, <2>2 DEF Close, Queues
  <2>4. UNCHANGED <<committed, pc, cursor, tip, page, drained, start, yielded>>
    BY <1>6 DEF ConnectionEnds, joinVars, historyVars
  <2> QED
    BY <1>0, <2>2, <2>3, <2>4
    DEF Shape, Placed, Flow, FlowsFrom, Stream, Pending, Walking, Following, ExactlyOnce
<1>7. CASE AbandonedEnds \/ Abort
  <2>1. UNCHANGED <<committed, pc, cursor, conn, tip, page, drained, start, yielded>>
    BY <1>7 DEF AbandonedEnds, Abort, serverVars, joinVars, connVars, historyVars
  <2> QED
    BY <1>0, <2>1
    DEF Shape, Placed, Flow, FlowsFrom, Stream, Walking, Following, ExactlyOnce
<1>8. CASE Aborted
  <2>1. /\ pc' = "returned" /\ pc \in {"connect", "next", "delay", "drain", "live"}
        /\ UNCHANGED <<committed, cursor, conn, tip, page, drained, start, yielded>>
    BY <1>8 DEF Aborted, serverVars, connVars, historyVars
  <2> QED
    BY <1>0, <2>1 DEF Shape, Placed, Flow, Walking, Following, ExactlyOnce
<1>9. CASE Connect
  <2>1. /\ pc = "connect" /\ pc' = "next" /\ drained' = <<>>
        /\ conn'.up = "open" /\ conn'.sent = committed /\ conn'.queue = NewLiveQueue
        /\ UNCHANGED <<committed, cursor, start, yielded>>
    BY <1>9 DEF Connect, serverVars, historyVars
  <2>2. Shape'
    BY <2>1 DEF Shape, NewLiveQueue
  <2>3. Placed' /\ ExactlyOnce'
    BY <1>0, <2>1 DEF Placed, ExactlyOnce
  <2>4. Stream' = <<>>
    BY <2>1 DEF Stream, Pending, NewLiveQueue
  <2>5. PICK lo \in Nat : lo = committed
    BY <1>0
  <2>6. FlowsFrom(lo)'
    BY <1>0, <2>1, <2>4, <2>5, RunEmpty DEF FlowsFrom, Following
  <2> QED
    BY <2>2, <2>3, <2>6 DEF Flow
<1>10. CASE AskPage
  <2>1. /\ pc = "next" /\ pc' = "ask"
        /\ UNCHANGED <<committed, cursor, conn, tip, page, drained, start, yielded>>
    BY <1>10 DEF AskPage, serverVars, connVars
  <2> QED
    BY <1>0, <2>1
    DEF Shape, Placed, Flow, FlowsFrom, Stream, Walking, Following, ExactlyOnce
<1>11. CASE ReadReturns
  <2>1. /\ pc = "read" /\ pc' = "page"
        /\ UNCHANGED <<committed, cursor, conn, tip, page, drained, start, yielded>>
    BY <1>11 DEF ReadReturns, serverVars, connVars
  <2> QED
    BY <1>0, <2>1
    DEF Shape, Placed, Flow, FlowsFrom, Stream, Walking, Following, ExactlyOnce
<1>12. CASE EmitEvent
  <2>1. /\ pc = "page" /\ pc' = "page" /\ page.at < page.next
        /\ yielded' = Append(yielded, page.at)
        /\ page'.at = page.at + 1 /\ page'.next = page.next /\ page'.done = page.done
        /\ UNCHANGED <<committed, cursor, conn, tip, drained, start>>
    BY <1>0, <1>12 DEF EmitEvent, serverVars, joinVars, TypeOK, Pages
  <2>2. /\ start \in Nat /\ yielded \in Seq(0..MaxCommitted) /\ Len(yielded) \in Nat
        /\ page.at \in 0..MaxCommitted
    <3>1. start \in 0..MaxCommitted /\ yielded \in Seq(0..MaxCommitted) /\ page \in Pages
      BY <1>0 DEF TypeOK
    <3> QED
      BY <3>1, LenProperties DEF Pages
  <2>3. /\ Len(yielded') = Len(yielded) + 1 /\ yielded'[Len(yielded) + 1] = page.at
        /\ \A i \in 1..Len(yielded) : yielded'[i] = yielded[i]
        /\ yielded' \in Seq(0..MaxCommitted)
    BY <2>1, <2>2, AppendProperties
  <2>4. DOMAIN yielded = 1..Len(yielded) /\ DOMAIN yielded' = 1..Len(yielded')
    BY <2>2, <2>3, LenProperties
  <2>5. page.at = start + Len(yielded)
    BY <1>0, <2>1 DEF Placed
  <2>6. ExactlyOnce'
    <3> SUFFICES ASSUME NEW i \in 1..(Len(yielded) + 1)
                 PROVE  yielded'[i] = start + i - 1
      BY <2>1, <2>3, <2>4 DEF ExactlyOnce
    <3>1. CASE i = Len(yielded) + 1
      BY <2>2, <2>3, <2>5, <3>1
    <3>2. CASE i # Len(yielded) + 1
      <4>1. i \in 1..Len(yielded)
        BY <2>2, <3>2
      <4> QED
        BY <1>0, <2>3, <2>4, <4>1 DEF ExactlyOnce
    <3> QED
      BY <3>1, <3>2
  <2>7. Placed'
    BY <1>0, <2>1, <2>2, <2>3, <2>5 DEF Placed
  <2>8. Shape' /\ Flow'
    BY <1>0, <2>1 DEF Shape, Flow, FlowsFrom, Stream, Walking, Following
  <2> QED
    BY <2>6, <2>7, <2>8
<1>13. CASE PageDone
  <2>1. /\ pc = "page" /\ page.at = page.next /\ cursor' = page.next /\ tip' = page.next
        /\ UNCHANGED <<committed, start, yielded>>
    BY <1>13 DEF PageDone, serverVars, historyVars
  <2>2. PICK lo \in Nat : FlowsFrom(lo)
    BY <1>0, <2>1 DEF Flow, Walking
  <2>3. cursor' = start + Len(yielded) /\ cursor' <= committed /\ ExactlyOnce'
    BY <1>0, <2>1 DEF Placed, ExactlyOnce
  <2>4. drained = <<>> /\ conn.queue.hand = <<>> /\ ~conn.queue.waiting
    BY <1>0, <2>1 DEF Shape, Walking
  <2>5. CASE page.done
    <3>1. pc' = "drain" /\ drained' = conn.queue.items
          /\ conn' = [conn EXCEPT !.queue = Emptied(conn.queue)]
      BY <1>13, <2>5 DEF PageDone
    <3>2. /\ conn'.up = conn.up /\ conn'.sent = conn.sent
          /\ conn'.queue = [conn.queue EXCEPT !.items = <<>>]
      BY <1>0, <3>1 DEF Connections, Emptied
    <3>3. /\ conn'.queue.items = <<>> /\ conn'.queue.hand = <<>>
          /\ ~conn'.queue.waiting /\ conn'.queue.closed = conn.queue.closed
      BY <1>0, <2>4, <3>2 DEF Queues
    <3>4. Stream' = Stream
      <4>1. conn.queue.items \in Seq(Frames) /\ <<>> \in Seq(Frames)
        BY <1>0, EmptySeq DEF Queues
      <4> QED
        BY <2>4, <3>1, <3>3, <4>1, ConcatEmptySeq DEF Stream, Pending
    <3>5. Shape'
      BY <1>0, <3>1, <3>2, <3>3 DEF Shape
    <3>6. Placed'
      BY <1>0, <2>1, <2>3, <3>1, <3>2 DEF Placed
    <3>7. FlowsFrom(lo)'
      BY <1>0, <2>1, <2>2, <2>5, <3>1, <3>2, <3>3, <3>4 DEF FlowsFrom, Following
    <3> QED
      BY <2>3, <3>5, <3>6, <3>7 DEF Flow
  <2>6. CASE ~page.done
    <3>1. pc' = "next" /\ UNCHANGED <<drained, conn>>
      BY <1>13, <2>6 DEF PageDone
    <3>2. Shape'
      BY <1>0, <2>1, <3>1 DEF Shape, Walking
    <3>3. Placed'
      BY <1>0, <2>1, <2>3, <3>1 DEF Placed
    <3>4. FlowsFrom(lo)'
      BY <2>2, <3>1 DEF FlowsFrom, Following, Stream
    <3> QED
      BY <2>3, <3>2, <3>3, <3>4 DEF Flow
  <2> QED
    BY <2>5, <2>6
<1>14. CASE Drain
  <2>1. /\ pc = "drain" /\ drained # <<>> /\ Apply(Head(drained))
        /\ drained' = Tail(drained)
        /\ UNCHANGED <<committed, pc, conn, tip, page, start>>
    BY <1>14 DEF Drain, serverVars
  <2>2. Pending(conn.queue) \in Seq(Frames)
    BY <1>0, PendingIsSeq
  <2>3. /\ Stream # <<>> /\ Head(Stream) = Head(drained)
        /\ Tail(Stream) = Tail(drained) \o Pending(conn.queue)
    BY <1>0, <2>1, <2>2, HeadTailOfConcat DEF Stream
  <2>4. Stream' = Tail(Stream)
    BY <2>1, <2>3 DEF Stream
  <2>5. PICK lo \in Nat : FlowsFrom(lo)
    BY <1>0, <2>1 DEF Flow, Following
  <2>6. /\ Flow' /\ ExactlyOnce' /\ cursor' = start' + Len(yielded')
        /\ cursor' <= committed'
    BY <2>1, <2>3, <2>4, <2>5, ApplyOrdered DEF Following
  <2>7. Shape'
    BY <1>0, <2>1 DEF Shape, Walking
  <2>8. Placed'
    BY <1>0, <2>1, <2>6 DEF Placed
  <2> QED
    BY <2>6, <2>7, <2>8
<1>15. CASE DrainDone
  <2>1. /\ pc = "drain" /\ drained = <<>> /\ pc' = "live"
        /\ UNCHANGED <<committed, cursor, conn, tip, page, drained, start, yielded>>
    BY <1>15 DEF DrainDone, serverVars, connVars, historyVars
  <2> QED
    BY <1>0, <2>1
    DEF Shape, Placed, Flow, FlowsFrom, Stream, Walking, Following, ExactlyOnce
<1>16. CASE Follow
  <2>1. /\ pc = "live" /\ Pending(conn.queue) # <<>>
        /\ Apply(Head(Pending(conn.queue)))
        /\ conn' = [conn EXCEPT !.queue = Taken(conn.queue)]
        /\ UNCHANGED <<committed, pc, tip, page, drained, start>>
    BY <1>16 DEF Follow, serverVars
  <2>2. /\ conn'.up = conn.up /\ conn'.sent = conn.sent
        /\ conn'.queue = Taken(conn.queue)
    BY <1>0, <2>1 DEF Connections
  <2>3. /\ Pending(conn'.queue) = Tail(Pending(conn.queue))
        /\ conn'.queue.closed = conn.queue.closed
        /\ conn'.queue.hand = <<>> /\ conn'.queue.waiting = conn.queue.waiting
    BY <1>0, <2>1, <2>2, TakenIsTail DEF Shape
  <2>4. /\ Pending(conn.queue) \in Seq(Frames)
        /\ Tail(Pending(conn.queue)) \in Seq(Frames) /\ drained = <<>>
    BY <1>0, <2>1, PendingIsSeq, HeadTailProperties DEF Shape
  <2>5. Stream = Pending(conn.queue) /\ Stream' = Tail(Stream)
    BY <2>1, <2>3, <2>4, ConcatEmptySeq DEF Stream
  <2>6. PICK lo \in Nat : FlowsFrom(lo)
    BY <1>0, <2>1 DEF Flow, Following
  <2>7. /\ Flow' /\ ExactlyOnce' /\ cursor' = start' + Len(yielded')
        /\ cursor' <= committed'
    BY <2>1, <2>2, <2>3, <2>5, <2>6, ApplyOrdered DEF Following
  <2>8. ~conn.queue.waiting
    BY <1>0, <2>1 DEF Shape
  <2>9. Shape'
    BY <1>0, <2>1, <2>2, <2>3, <2>8 DEF Shape, Walking
  <2>10. Placed'
    BY <1>0, <2>1, <2>2, <2>7 DEF Placed
  <2> QED
    BY <2>7, <2>9, <2>10
<1>17. CASE Await
  <2>1. /\ pc = "live" /\ Pending(conn.queue) = <<>>
        /\ conn' = [conn EXCEPT !.queue = Waits(conn.queue)]
        /\ UNCHANGED <<committed, pc, cursor, tip, page, drained, start, yielded>>
    BY <1>17 DEF Await, serverVars, joinVars, historyVars
  <2>2. /\ conn'.up = conn.up /\ conn'.sent = conn.sent
        /\ conn'.queue = [conn.queue EXCEPT !.waiting = TRUE]
    BY <1>0, <2>1 DEF Connections, Waits
  <2>3. /\ conn'.queue.hand = conn.queue.hand /\ conn'.queue.items = conn.queue.items
        /\ conn'.queue.closed = conn.queue.closed
    BY <1>0, <2>2 DEF Queues
  <2> QED
    BY <1>0, <2>1, <2>2, <2>3
    DEF Shape, Placed, Flow, FlowsFrom, Stream, Pending, Walking, Following, ExactlyOnce
<1>18. CASE LiveEnds \/ ReadFails \/ DelayOver
  <2>1. /\ pc \in {"ask", "read", "live", "delay"}
        /\ pc' \in {"connect", "delay", "returned", "threw"}
        /\ UNCHANGED <<committed, cursor, conn, tip, page, drained, start, yielded>>
    <3>1. pc \in {"ask", "read", "live", "delay"}
      BY <1>18 DEF LiveEnds, ReadFails, DelayOver
    <3>2. pc' \in {"connect", "delay", "returned", "threw"}
      BY <1>0, <1>18, EndConnectionTyped DEF LiveEnds, ReadFails, DelayOver
    <3> QED
      BY <1>18, <3>1, <3>2 DEF LiveEnds, ReadFails, DelayOver, serverVars, connVars, historyVars
  <2> QED
    BY <1>0, <2>1 DEF Shape, Placed, Flow, Walking, Following, ExactlyOnce
<1>19. CASE UNCHANGED vars
  <2>1. UNCHANGED <<committed, pc, cursor, conn, tip, page, drained, start, yielded>>
    BY <1>19 DEF vars, serverVars, joinVars, connVars, historyVars
  <2> QED
    BY <1>0, <2>1
    DEF Shape, Placed, Flow, FlowsFrom, Stream, Walking, Following, ExactlyOnce
<1> QED
  BY <1>1, <1>2, <1>3, <1>4, <1>5, <1>6, <1>7, <1>8, <1>9, <1>10, <1>11, <1>12,
     <1>13, <1>14, <1>15, <1>16, <1>17, <1>18, <1>19
  DEF Next, Source, Join, Terminated

\* Whatever ends, refuses or is superseded, and however the eviction policy
\* thins a buffer, every record of the journal from the starting cursor on is
\* yielded exactly once and in order, as long as a live connection carries
\* what is committed after it was asked for.
THEOREM YieldsExactlyOnce ==
  ASSUME SubscribedAtCall
  PROVE  Spec => []ExactlyOnce
<1>1. OrderInv => ExactlyOnce
  BY DEF OrderInv
<1> QED
  BY OrderInit, OrderNext, <1>1, PTL DEF Spec

----
\* What the join says of its binding, and counts before it gives up, is about
\* the connection it follows.

Streak == {e \in refusers : e > recovered}

\* A refusal that is pending was announced and is of the current connection, or
\* of an earlier one that the next read repairs; a connection that refused has
\* a queue that says so; and one that recovered refuses no more.
JudgeInv ==
  /\ repairPending <=> binding = "repair_required"
  /\ repairPending /\ repairEpoch = conn.epoch => conn.queue.closed = "refused"
  /\ pc \in {"page", "drain", "live"} /\ repairPending => repairEpoch = conn.epoch
  /\ pc \in {"ask", "read"} /\ repairPending /\ repairEpoch < conn.epoch =>
       asked = "repair_required"
  /\ conn.epoch \in refusers \/ refusedHere => conn.queue.closed = "refused"
  /\ walked => pc \notin {"next", "ask", "read", "page"}
  /\ recovered = conn.epoch => conn.up = "done" \/ conn.queue.closed # "open"
  /\ refusals <= Cardinality(Streak)

LEMMA JudgeTypes ==
  ASSUME TypeOK
  PROVE  /\ conn \in Connections /\ conn.epoch \in Nat /\ conn.queue \in Queues
         /\ abandoned \subseteq Connections /\ \A c \in abandoned : c.epoch < conn.epoch
         /\ repairPending \in BOOLEAN /\ repairEpoch \in Int /\ repairEpoch <= conn.epoch
         /\ refusals \in Nat /\ recovered \in Nat /\ recovered <= conn.epoch
         /\ refusers \subseteq Nat /\ \A e \in refusers : e <= conn.epoch
         /\ binding \in Bindings
<1>1. /\ conn \in Connections /\ abandoned \subseteq Connections
      /\ \A c \in abandoned : c.epoch < conn.epoch
  BY DEF TypeOK
<1>2. conn.epoch \in Nat /\ conn.queue \in Queues
  BY <1>1 DEF Connections
<1> QED
  BY <1>1, <1>2 DEF TypeOK

\* The connections of a streak can be counted.
LEMMA StreakFinite ==
  ASSUME TypeOK
  PROVE  IsFiniteSet(Streak) /\ Cardinality(Streak) \in Nat
<1>1. Streak \subseteq 0..conn.epoch
  BY JudgeTypes DEF Streak
<1>2. 0 \in Int /\ conn.epoch \in Int
  BY JudgeTypes
<1>3. IsFiniteSet(0..conn.epoch)
  BY <1>2, FS_Interval
<1> QED
  BY <1>1, <1>3, FS_Subset, FS_CardinalityType

\* A queue is refused by the frame it refuses and by nothing else.
LEMMA PushClosed ==
  ASSUME NEW q \in Queues, NEW f
  PROVE  Push(q, f).closed = IF Refuses(q, f) THEN "refused" ELSE q.closed
BY DEF Push, Refuses, Refused, Queues

LEMMA ArrivesJudged ==
  ASSUME TypeOK, JudgeInv, NEW c \in {conn} \cup abandoned, c.up = "open", NEW f,
         NEW sent, Arrives(c, f, sent)
  PROVE  JudgeInv'
<1> DEFINE after == [epoch |-> c.epoch, up |-> c.up, sent |-> sent,
                     queue |-> Push(c.queue, f)]
<1>0. /\ c \in Connections /\ c.queue \in Queues
      /\ c.epoch = conn.epoch <=> c = conn
  BY JudgeTypes DEF Connections
<1>1. after.epoch = c.epoch /\ after.up = c.up /\ after.queue = Push(c.queue, f)
  OBVIOUS
<1>2. /\ Relay(c, f)
      /\ c = conn => conn' = after
      /\ c # conn => conn' = conn
  BY DEF Arrives
<1>3. UNCHANGED <<pc, asked, walked, recovered>>
  BY <1>2 DEF Relay
<1> HIDE DEF after
<1>4. CASE c # conn
  <2>1. UNCHANGED <<conn, repairPending, repairEpoch, refusals, refusedHere, binding, refusers>>
    BY <1>0, <1>2, <1>4 DEF Relay, OnIrreducible
  <2>2. UNCHANGED Streak
    BY <1>3, <2>1 DEF Streak
  <2> QED
    BY <1>3, <2>1, <2>2 DEF JudgeInv
<1>5. CASE c = conn /\ ~Refuses(conn.queue, f)
  <2>1. UNCHANGED <<repairPending, repairEpoch, refusals, refusedHere, binding, refusers>>
    BY <1>2, <1>5 DEF Relay
  <2>2. conn'.epoch = conn.epoch /\ conn'.up = conn.up
        /\ conn'.queue.closed = conn.queue.closed
    BY <1>0, <1>1, <1>2, <1>5, PushClosed
  <2>3. UNCHANGED Streak
    BY <1>3, <2>1 DEF Streak
  <2> QED
    BY <1>3, <2>1, <2>2, <2>3 DEF JudgeInv
<1>6. CASE c = conn /\ Refuses(conn.queue, f)
  <2>1. OnIrreducible(conn) /\ refusers' = refusers \cup {conn.epoch}
    BY <1>2, <1>6 DEF Relay
  <2>2. conn'.epoch = conn.epoch /\ conn'.queue.closed = "refused"
    BY <1>0, <1>1, <1>2, <1>6, PushClosed
  <2>3. conn.epoch \notin refusers /\ recovered # conn.epoch /\ conn.queue.closed = "open"
    BY <1>6 DEF Refuses, JudgeInv
  <2>4. conn.epoch \notin Streak /\ Streak' = Streak \cup {conn.epoch}
    BY <1>3, <2>1, <2>3, JudgeTypes DEF Streak
  <2>5. Cardinality(Streak') = Cardinality(Streak) + 1 /\ Cardinality(Streak) \in Nat
    BY <2>4, StreakFinite, FS_AddElement
  <2>6. refusals' <= Cardinality(Streak')
    BY <2>1, <2>5, JudgeTypes DEF OnIrreducible, JudgeInv
  <2>7. CASE repairPending
    <3>1. UNCHANGED <<repairPending, repairEpoch, refusedHere, binding>>
      BY <2>1, <2>7 DEF OnIrreducible
    <3> QED
      BY <1>3, <2>2, <2>6, <3>1 DEF JudgeInv
  <2>8. CASE ~repairPending
    <3>1. /\ repairPending' = TRUE /\ repairEpoch' = conn.epoch
          /\ refusedHere' = TRUE /\ binding' = "repair_required"
      BY <2>1, <2>8 DEF OnIrreducible
    <3> QED
      BY <1>3, <2>2, <2>6, <3>1, JudgeTypes DEF JudgeInv
  <2> QED
    BY <2>7, <2>8
<1> QED
  BY <1>4, <1>5, <1>6

LEMMA EndJudged ==
  ASSUME TypeOK, JudgeInv, NEW failed \in BOOLEAN, EndConnection(failed),
         walked => conn.queue.closed # "open",
         UNCHANGED <<repairPending, repairEpoch, conn, refusedHere, walked, binding,
                     asked, refusers>>
  PROVE  JudgeInv'
<1>0. pc' \in {"connect", "delay", "returned", "threw"}
  BY EndConnectionTyped
<1>1. CASE recovered' = recovered
  <2>1. refusals' <= refusals
    BY JudgeTypes DEF EndConnection
  <2>2. refusals' \in Nat /\ UNCHANGED Streak
    BY <1>1, EndConnectionTyped DEF Streak
  <2>3. refusals' <= Cardinality(Streak')
    BY <2>1, <2>2, StreakFinite, JudgeTypes DEF JudgeInv
  <2> QED
    BY <1>0, <1>1, <2>3 DEF JudgeInv
<1>2. CASE recovered' # recovered
  <2>1. walked /\ conn.queue.closed # "refused" /\ recovered' = conn.epoch
    BY <1>2 DEF EndConnection
  <2>2. ~refusedHere
    BY <2>1 DEF JudgeInv
  <2>3. refusals' = 0
    BY <1>2, <2>1, <2>2 DEF EndConnection
  <2>4. IsFiniteSet(Streak') /\ Cardinality(Streak') \in Nat
    <3>1. Streak' \subseteq 0..conn.epoch
      BY JudgeTypes DEF Streak
    <3>2. 0 \in Int /\ conn.epoch \in Int
      BY JudgeTypes
    <3>3. IsFiniteSet(0..conn.epoch)
      BY <3>2, FS_Interval
    <3> QED
      BY <3>1, <3>3, FS_Subset, FS_CardinalityType
  <2>5. refusals' <= Cardinality(Streak')
    BY <2>3, <2>4
  <2> QED
    BY <1>0, <2>1, <2>5 DEF JudgeInv
<1> QED
  BY <1>1, <1>2

LEMMA JudgeInit == Init => JudgeInv
<1> SUFFICES ASSUME Init PROVE JudgeInv
  OBVIOUS
<1>1. /\ conn.epoch = 0 /\ conn.up = "done" /\ repairPending = FALSE /\ binding = "live"
      /\ pc = "connect" /\ refusers = {} /\ refusedHere = FALSE /\ walked = FALSE
      /\ refusals = 0
  BY DEF Init, NoConnection
<1>2. Streak = {} /\ Cardinality({}) = 0
  BY <1>1, FS_EmptySet DEF Streak
<1> QED
  BY <1>1, <1>2 DEF JudgeInv


\* What leaves the refusals alone, and the connection as it judged it.
Undisturbed ==
  /\ UNCHANGED <<repairPending, repairEpoch, refusals, refusedHere, walked, binding, asked,
                 refusers, recovered>>
  /\ conn'.epoch = conn.epoch /\ conn'.up = conn.up
  /\ conn'.queue.closed = conn.queue.closed
  /\ pc' \in {"page", "drain", "live"} => pc \in {"page", "drain", "live"}
  /\ pc' \in {"ask", "read"} => pc \in {"ask", "read"}
  /\ pc' \in {"next", "ask", "read", "page"} => pc \in {"next", "ask", "read", "page"}

LEMMA JudgeStep ==
  TypeOK /\ JudgeInv /\ [Next]_vars =>
    /\ JudgeInv'
    /\ binding = "repair_required" /\ binding' = "live" => asked = "repair_required"
<1> SUFFICES ASSUME TypeOK, JudgeInv, [Next]_vars
             PROVE  /\ JudgeInv'
                    /\ binding = "repair_required" /\ binding' = "live" => asked = "repair_required"
  OBVIOUS
<1>0. /\ conn \in Connections /\ conn.epoch \in Nat /\ conn.queue \in Queues
      /\ repairEpoch \in Int /\ repairEpoch <= conn.epoch /\ recovered \in Nat
      /\ recovered <= conn.epoch /\ binding \in Bindings
      /\ \A e \in refusers : e <= conn.epoch
  BY JudgeTypes
<1>1. Undisturbed =>
        /\ JudgeInv'
        /\ binding = "repair_required" /\ binding' = "live" => asked = "repair_required"
  <2> SUFFICES ASSUME Undisturbed
               PROVE  /\ JudgeInv'
                      /\ binding = "repair_required" /\ binding' = "live"
                           => asked = "repair_required"
    OBVIOUS
  <2>1. UNCHANGED Streak /\ binding' = binding
    BY DEF Undisturbed, Streak
  <2> QED
    BY <2>1 DEF Undisturbed, JudgeInv
<1>2. CASE Commit \/ AbandonedEnds \/ Abort \/ Terminated \/ UNCHANGED vars
  <2>1. UNCHANGED <<pc, conn, repairPending, repairEpoch, refusals, refusedHere, walked,
                    binding, asked, refusers, recovered>>
    BY <1>2 DEF Commit, AbandonedEnds, Abort, Terminated, vars, serverVars, joinVars, connVars,
                historyVars
  <2> QED
    BY <1>1, <2>1 DEF Undisturbed
<1>3. CASE Subscribe
  <2>1. UNCHANGED <<pc, repairPending, repairEpoch, refusals, refusedHere, walked,
                    binding, asked, refusers, recovered>>
    BY <1>3 DEF Subscribe, serverVars, joinVars, historyVars
  <2>2. /\ conn.up = "asked" /\ conn'.epoch = conn.epoch
        /\ conn'.queue.closed = conn.queue.closed
    BY <1>0, <1>3 DEF Subscribe, Connections
  <2>3. UNCHANGED Streak
    BY <2>1 DEF Streak
  <2>4. recovered = conn.epoch => conn.queue.closed # "open"
    BY <2>2 DEF JudgeInv
  <2> QED
    BY <2>1, <2>2, <2>3, <2>4 DEF JudgeInv
<1>4. CASE ServeRead
  <2>1. UNCHANGED <<conn, repairPending, repairEpoch, refusals, refusedHere, walked,
                    binding, asked, refusers, recovered>>
    BY <1>4 DEF ServeRead, historyVars
  <2>2. pc = "ask" /\ pc' = "read" /\ ~walked
    BY <1>4 DEF ServeRead, JudgeInv
  <2> QED
    BY <1>1, <2>1, <2>2 DEF Undisturbed
<1>5. CASE Publish \/ Chatter
  <2>1. \E c \in {conn} \cup abandoned : \E f, sent : c.up = "open" /\ Arrives(c, f, sent)
    BY <1>5 DEF Publish, Chatter
  <2>2. JudgeInv'
    BY <2>1, ArrivesJudged
  <2>3. binding' = binding \/ binding' = "repair_required"
    BY <2>1 DEF Arrives, Relay, OnIrreducible
  <2> QED
    BY <2>2, <2>3
<1>6. CASE ConnectionEnds
  <2>1. UNCHANGED <<pc, repairPending, repairEpoch, refusals, refusedHere, walked,
                    binding, asked, refusers, recovered>>
    BY <1>6 DEF ConnectionEnds, joinVars, historyVars
  <2>2. PICK how \in {"ended", "failed"} :
          conn' = [conn EXCEPT !.up = "done", !.queue = Close(conn.queue, how)]
    BY <1>6 DEF ConnectionEnds
  <2>3. conn'.epoch = conn.epoch /\ conn'.up = "done" /\ conn'.queue = Close(conn.queue, how)
    BY <1>0, <2>2 DEF Connections
  <2>4. /\ conn.queue.closed = "open" => conn'.queue.closed = how
        /\ conn.queue.closed # "open" => conn'.queue.closed = conn.queue.closed
    BY <1>0, <2>3 DEF Close, Queues
  <2>5. UNCHANGED Streak
    BY <2>1 DEF Streak
  <2> QED
    BY <2>1, <2>3, <2>4, <2>5 DEF JudgeInv
<1>7. CASE Connect
  <2>1. UNCHANGED <<repairPending, repairEpoch, refusals, binding, asked, refusers, recovered>>
    BY <1>7 DEF Connect, historyVars
  <2>2. /\ conn'.epoch = conn.epoch + 1 /\ pc' = "next"
        /\ refusedHere' = FALSE /\ walked' = FALSE
    BY <1>7 DEF Connect
  <2>3. UNCHANGED Streak
    BY <2>1 DEF Streak
  <2>4. repairEpoch # conn.epoch + 1 /\ recovered # conn.epoch + 1
        /\ conn.epoch + 1 \notin refusers
    BY <1>0
  <2> QED
    BY <2>1, <2>2, <2>3, <2>4 DEF JudgeInv
<1>8. CASE AskPage
  <2>1. UNCHANGED <<conn, repairPending, repairEpoch, refusals, refusedHere, walked,
                    binding, refusers, recovered>>
    BY <1>8 DEF AskPage, connVars
  <2>2. pc = "next" /\ pc' = "ask" /\ asked' = binding /\ ~walked
    BY <1>8 DEF AskPage, JudgeInv
  <2>3. UNCHANGED Streak
    BY <2>1 DEF Streak
  <2> QED
    BY <2>1, <2>2, <2>3 DEF JudgeInv
<1>9. CASE ReadReturns
  <2>1. UNCHANGED <<conn, repairEpoch, refusals, refusedHere, walked, asked, refusers, recovered>>
    BY <1>9 DEF ReadReturns, connVars
  <2>2. pc = "read" /\ pc' = "page" /\ ~walked
    BY <1>9 DEF ReadReturns, JudgeInv
  <2>3. UNCHANGED Streak
    BY <2>1 DEF Streak
  <2>4. CASE Repairs
    <3>1. repairPending' = FALSE /\ binding' = "live"
      BY <1>9, <2>4 DEF ReadReturns
    <3>2. asked = "repair_required"
      BY <1>0, <2>2, <2>4 DEF Repairs, JudgeInv
    <3> QED
      BY <2>1, <2>2, <2>3, <3>1, <3>2 DEF JudgeInv
  <2>5. CASE ~Repairs
    <3>1. UNCHANGED <<repairPending, binding>>
      BY <1>9, <2>5 DEF ReadReturns
    <3>2. repairPending => repairEpoch = conn.epoch
      BY <1>0, <2>5 DEF Repairs
    <3> QED
      BY <2>1, <2>2, <2>3, <3>1, <3>2 DEF JudgeInv
  <2> QED
    BY <2>4, <2>5
<1>10. CASE EmitEvent
  <2>1. UNCHANGED <<pc, conn, repairPending, repairEpoch, refusals, refusedHere, walked,
                    binding, asked, refusers, recovered>>
    BY <1>10 DEF EmitEvent, joinVars
  <2> QED
    BY <1>1, <2>1 DEF Undisturbed
<1>11. CASE PageDone
  <2>1. /\ UNCHANGED <<repairPending, repairEpoch, refusals, refusedHere,
                       binding, asked, refusers, recovered>>
        /\ pc = "page"
    BY <1>11 DEF PageDone, historyVars
  <2>2. UNCHANGED Streak
    BY <2>1 DEF Streak
  <2>3. /\ conn'.epoch = conn.epoch /\ conn'.up = conn.up
        /\ conn'.queue.closed = conn.queue.closed
    BY <1>0, <1>11 DEF PageDone, Emptied, Connections, Queues
  <2>4. pc' = "drain" \/ (pc' = "next" /\ walked' = walked)
    BY <1>11 DEF PageDone
  <2>5. ~walked
    BY <2>1 DEF JudgeInv
  <2> QED
    BY <2>1, <2>2, <2>3, <2>4, <2>5 DEF JudgeInv
<1>12. CASE Drain
  <2>1. /\ UNCHANGED <<pc, conn, repairPending, repairEpoch, refusals, refusedHere, walked,
                       binding, asked, refusers, recovered>>
    BY <1>12 DEF Drain
  <2> QED
    BY <1>1, <2>1 DEF Undisturbed
<1>13. CASE DrainDone
  <2>1. /\ UNCHANGED <<conn, repairPending, repairEpoch, refusals, refusedHere, walked,
                       binding, asked, refusers, recovered>>
        /\ pc = "drain" /\ pc' = "live"
    BY <1>13 DEF DrainDone, connVars, historyVars
  <2> QED
    BY <1>1, <2>1 DEF Undisturbed
<1>14. CASE Follow
  <2>1. /\ UNCHANGED <<pc, repairPending, repairEpoch, refusals, refusedHere, walked,
                       binding, asked, refusers, recovered>>
        /\ pc = "live" /\ conn' = [conn EXCEPT !.queue = Taken(conn.queue)]
    BY <1>14 DEF Follow
  <2>2. /\ conn'.epoch = conn.epoch /\ conn'.up = conn.up
        /\ conn'.queue.closed = conn.queue.closed
    BY <1>0, <2>1 DEF Taken, Connections, Queues
  <2> QED
    BY <1>1, <2>1, <2>2 DEF Undisturbed
<1>15. CASE Await
  <2>1. /\ UNCHANGED <<pc, repairPending, repairEpoch, refusals, refusedHere, walked,
                       binding, asked, refusers, recovered>>
        /\ pc = "live" /\ conn' = [conn EXCEPT !.queue = Waits(conn.queue)]
    BY <1>15 DEF Await, joinVars, historyVars
  <2>2. /\ conn'.epoch = conn.epoch /\ conn'.up = conn.up
        /\ conn'.queue.closed = conn.queue.closed
    BY <1>0, <2>1 DEF Waits, Connections, Queues
  <2> QED
    BY <1>1, <2>1, <2>2 DEF Undisturbed
<1>16. CASE LiveEnds
  <2>1. /\ EndConnection(conn.queue.closed # "ended") /\ conn.queue.closed # "open"
        /\ UNCHANGED <<repairPending, repairEpoch, conn, refusedHere, walked, binding,
                       asked, refusers>>
    BY <1>16 DEF LiveEnds, Over, connVars
  <2>2. (conn.queue.closed # "ended") \in BOOLEAN
    OBVIOUS
  <2> QED
    BY <2>1, <2>2, EndJudged
<1>17. CASE ReadFails
  <2>1. /\ EndConnection(TRUE) /\ pc \in {"ask", "read"}
        /\ UNCHANGED <<repairPending, repairEpoch, conn, refusedHere, walked, binding,
                       asked, refusers>>
    BY <1>17 DEF ReadFails, connVars
  <2>2. ~walked
    BY <2>1 DEF JudgeInv
  <2> QED
    BY <2>1, <2>2, EndJudged
<1>18. CASE DelayOver \/ Aborted
  <2>1. /\ UNCHANGED <<conn, repairPending, repairEpoch, refusals, refusedHere, walked,
                       binding, asked, refusers, recovered>>
        /\ pc' \in {"connect", "returned"}
    BY <1>18 DEF DelayOver, Aborted, connVars, historyVars
  <2> QED
    BY <1>1, <2>1 DEF Undisturbed
<1> QED
  BY <1>2, <1>3, <1>4, <1>5, <1>6, <1>7, <1>8, <1>9, <1>10, <1>11, <1>12, <1>13, <1>14, <1>15,
     <1>16, <1>17, <1>18
  DEF Next, Source, Join

\* The binding state, and the refusals counted before giving up, are about the
\* connection that is followed and never about one left behind.
THEOREM JudgesTheCurrent == Spec => JudgedRight
<1>1. TypeOK /\ JudgeInv => HealthyIsLive /\ StreakIsConsecutive
  BY DEF JudgeInv, HealthyIsLive, StreakIsConsecutive, Streak, TypeOK, Bindings
<1>2. TypeOK /\ JudgeInv /\ [Next]_vars =>
        [binding = "repair_required" /\ binding' = "live" => asked = "repair_required"]_vars
  BY JudgeStep
<1> QED
  BY <1>1, <1>2, TypeInit, TypeNext, JudgeInit, JudgeStep, PTL
  DEF Spec, JudgedRight, RecoveryReadLater

----
\* Coalescing thins the noisiest stream.

\* What is left of a buffer: every position but the one that went, once each.
LEMMA WithoutPositions ==
  ASSUME NEW items \in Seq(Frames), NEW v \in 1..Len(items)
  PROVE  LET left == Without(items, v)
             from(j) == IF j < v THEN j ELSE j + 1
         IN  /\ DOMAIN left = 1..(Len(items) - 1) /\ DOMAIN items = 1..Len(items)
             /\ \A j \in DOMAIN left : from(j) \in DOMAIN items \ {v} /\ left[j] = items[from(j)]
             /\ \A i \in DOMAIN items \ {v} : \E j \in DOMAIN left : left[j] = items[i]
<1> DEFINE left == Without(items, v)
           from(j) == IF j < v THEN j ELSE j + 1
<1>0. Len(items) \in Nat /\ DOMAIN items = 1..Len(items)
  BY LenProperties
<1>1. /\ left \in Seq(Frames) /\ Len(left) = Len(items) - 1
      /\ \A j \in 1..(Len(items) - 1) : left[j] = items[from(j)]
  <2>1. /\ left \in Seq(Frames) /\ Len(left) = Len(items) - 1
        /\ \A j \in 1..(Len(items) - 1) :
             left[j] = IF j < v THEN items[j] ELSE items[j + 1]
    BY WithoutProperties
  <2> HIDE DEF left
  <2> QED
    BY <2>1
<1> HIDE DEF left
<1>2. DOMAIN left = 1..(Len(items) - 1)
  BY <1>1, LenProperties
<1>3. \A j \in DOMAIN left : from(j) \in DOMAIN items \ {v} /\ left[j] = items[from(j)]
  BY <1>0, <1>1, <1>2
<1>4. ASSUME NEW i \in DOMAIN items \ {v} PROVE \E j \in DOMAIN left : left[j] = items[i]
  <2>1. CASE i < v
    <3>1. i \in DOMAIN left /\ from(i) = i
      BY <1>0, <1>2, <2>1
    <3> QED
      BY <1>3, <3>1
  <2>2. CASE ~(i < v)
    <3>1. i - 1 \in DOMAIN left /\ from(i - 1) = i
      BY <1>0, <1>2, <2>2
    <3> QED
      BY <1>3, <3>1
  <2> QED
    BY <2>1, <2>2
<1> QED
  BY <1>0, <1>2, <1>3, <1>4 DEF left

\* A set without two members has one at most.
LEMMA AtMostOne ==
  ASSUME NEW S, \A x, y \in S : x = y
  PROVE  Cardinality(S) <= 1
<1>1. CASE S = {}
  <2>1. Cardinality(S) = 0
    BY <1>1, FS_EmptySet
  <2> QED
    BY <2>1
<1>2. CASE S # {}
  <2>1. PICK x \in S : S = {x}
    BY <1>2
  <2>2. Cardinality(S) = 1
    BY <2>1, FS_Singleton
  <2> QED
    BY <2>2
<1> QED
  BY <1>1, <1>2

\* A stream's frames can be counted.
LEMMA OfKeyFinite ==
  ASSUME NEW items \in Seq(Frames), NEW k
  PROVE  IsFiniteSet(OfKey(items, k)) /\ Cardinality(OfKey(items, k)) \in Nat
<1>0. DOMAIN items = 1..Len(items) /\ 1 \in Int /\ Len(items) \in Int
  BY LenProperties
<1>1. OfKey(items, k) \subseteq 1..Len(items)
  BY <1>0 DEF OfKey, OfKind
<1>2. IsFiniteSet(1..Len(items))
  BY <1>0, FS_Interval
<1> QED
  BY <1>1, <1>2, FS_Subset, FS_CardinalityType

LEMMA LonelyOfOne ==
  ASSUME NEW items \in Seq(Frames), NEW k, Cardinality(OfKey(items, k)) <= 1,
         NEW i \in OfKey(items, k), NEW j \in OfKey(items, k)
  PROVE  i = j
<1>3. IsFiniteSet(OfKey(items, k)) /\ Cardinality(OfKey(items, k)) \in Nat
  BY OfKeyFinite
<1>4. SUFFICES ASSUME i # j PROVE FALSE
  OBVIOUS
<1>5. {i, j} \subseteq OfKey(items, k)
  OBVIOUS
<1>6. Cardinality({i, j}) <= Cardinality(OfKey(items, k))
  BY <1>3, <1>5, FS_Subset
<1>7. Cardinality({i, j}) = 2
  <2>1. IsFiniteSet({i}) /\ Cardinality({i}) = 1
    BY FS_Singleton
  <2>2. j \notin {i} /\ {i} \cup {j} = {i, j}
    BY <1>4
  <2>3. Cardinality({i} \cup {j}) = Cardinality({i}) + 1
    BY <2>1, <2>2, FS_AddElement
  <2>4. Cardinality({i, j}) = Cardinality({i}) + 1
    BY <2>2, <2>3, Zenon
  <2> QED
    BY <2>1, <2>4
<1> QED
  BY <1>3, <1>6, <1>7

\* Evicting the victim costs no stream its last frame, unless none has two.
LEMMA ThinnedStreams ==
  ASSUME NEW items \in Seq(Frames), Candidates(items) # {}
  PROVE  LET left == Without(items, Victim(items))
         IN  \/ StreamsOf(items) \subseteq StreamsOf(left)
             \/ \A k \in Keys : Cardinality(OfKey(left, k)) <= 1
<1> DEFINE v == Victim(items)
           left == Without(items, v)
           from(j) == IF j < v THEN j ELSE j + 1
<1>1. /\ v \in 1..Len(items) /\ v \in Candidates(items)
      /\ \/ items[v].kind = "heartbeat"
         \/ /\ items[v].kind = "ephemeral"
            /\ \A j \in Candidates(items) :
                 Cardinality(OfKey(items, items[j].key)) <= Cardinality(OfKey(items, items[v].key))
  <2> HIDE DEF v
  <2>1. Victim(items) = v
    BY DEF v
  <2> QED
    BY <2>1, VictimNoisiest
<1> HIDE DEF v
<1>2. /\ DOMAIN left = 1..(Len(items) - 1) /\ DOMAIN items = 1..Len(items)
      /\ \A j \in DOMAIN left : from(j) \in DOMAIN items \ {v} /\ left[j] = items[from(j)]
      /\ \A i \in DOMAIN items \ {v} : \E j \in DOMAIN left : left[j] = items[i]
  BY <1>1, WithoutPositions
<1> HIDE DEF left
<1>3. SUFFICES \/ StreamsOf(items) \subseteq StreamsOf(left)
               \/ \A k \in Keys : Cardinality(OfKey(left, k)) <= 1
  BY DEF left, v
\* A stream with a frame besides the victim keeps one.
<1>4. ASSUME NEW i \in OfKind(items, "ephemeral"), i # v
      PROVE  items[i].key \in StreamsOf(left)
  <2>1. PICK j \in DOMAIN left : left[j] = items[i]
    BY <1>2, <1>4 DEF OfKind
  <2>2. j \in OfKind(left, "ephemeral") /\ left[j].key = items[i].key
    BY <1>4, <2>1 DEF OfKind
  <2> QED
    BY <2>2 DEF StreamsOf
<1>5. CASE items[v].kind = "heartbeat"
  <2>1. v \notin OfKind(items, "ephemeral")
    BY <1>5 DEF OfKind
  <2> QED
    BY <1>4, <2>1 DEF StreamsOf
<1>6. CASE \E j \in OfKey(items, items[v].key) : j # v
  <2>1. PICK j \in OfKey(items, items[v].key) : j # v
    BY <1>6
  <2>2. items[j].key = items[v].key /\ j \in OfKind(items, "ephemeral")
    BY <2>1 DEF OfKey
  <2>3. items[v].key \in StreamsOf(left)
    BY <1>4, <2>1, <2>2
  <2> QED
    BY <1>4, <2>3 DEF StreamsOf
<1>7. CASE items[v].kind = "ephemeral" /\ ~ \E j \in OfKey(items, items[v].key) : j # v
  <2>1. Cardinality(OfKey(items, items[v].key)) <= 1
    BY <1>7, AtMostOne
  <2>2. \A k \in Keys : Cardinality(OfKey(left, k)) <= 1
    <3> SUFFICES ASSUME NEW k \in Keys, NEW i \in OfKey(left, k), NEW j \in OfKey(left, k)
                 PROVE  i = j
      BY AtMostOne
    <3>1. /\ from(i) \in OfKey(items, k) /\ from(j) \in OfKey(items, k)
          /\ i \in 1..(Len(items) - 1) /\ j \in 1..(Len(items) - 1)
      BY <1>2 DEF OfKey, OfKind
    <3>2. from(i) \in Candidates(items) /\ items[from(i)].key = k
      BY <3>1 DEF OfKey, OfKind, Candidates, Droppable
    <3>3. Cardinality(OfKey(items, k)) <= Cardinality(OfKey(items, items[v].key))
      BY <1>1, <1>7, <3>2
    <3>4. Cardinality(OfKey(items, k)) \in Nat /\ Cardinality(OfKey(items, items[v].key)) \in Nat
      BY OfKeyFinite
    <3>5. Cardinality(OfKey(items, k)) <= 1
      BY <2>1, <3>3, <3>4
    <3>6. from(i) = from(j)
      <4> HIDE DEF from
      <4> QED
        BY <3>1, <3>5, LonelyOfOne
    <3>7. Len(items) \in Nat
      BY LenProperties
    <3> QED
      BY <1>1, <3>1, <3>6, <3>7
  <2> QED
    BY <2>2
<1> QED
  BY <1>1, <1>5, <1>6, <1>7

\* Only a frame that arrives on the current connection makes its buffer drop.
LEMMA DroppedOnArrival ==
  ASSUME TypeOK, [Next]_vars, conn'.epoch = conn.epoch,
         conn'.queue.dropped > conn.queue.dropped
  PROVE  \E f \in Frames : conn'.queue = Push(conn.queue, f)
<1>0. /\ conn \in Connections /\ conn.queue \in Queues /\ conn.epoch \in Nat
      /\ conn.queue.dropped \in Nat /\ \A c \in abandoned : c \in Connections
  BY DEF TypeOK, Connections, Queues
<1>1. conn'.queue.dropped # conn.queue.dropped
  BY <1>0
<1>2. conn' # conn
  BY <1>1
<1>3. ASSUME NEW c \in {conn} \cup abandoned, NEW f \in Frames, NEW sent, Arrives(c, f, sent)
      PROVE  \E g \in Frames : conn'.queue = Push(conn.queue, g)
  BY <1>2, <1>3 DEF Arrives
<1>4. CASE Publish
  <2>1. PICK c \in {conn} \cup abandoned :
          c.up = "open" /\ c.sent < committed /\ Arrives(c, Enduring(c.sent), c.sent + 1)
    BY <1>4 DEF Publish
  <2>2. c.sent \in 0..(MaxCommitted - 1)
    BY <1>0, <2>1, SessionAssumption DEF Connections, TypeOK
  <2>3. Enduring(c.sent) \in Frames
    BY <2>2, FramesTyped
  <2> QED
    BY <1>3, <2>1, <2>3
<1>5. CASE Chatter
  <2>1. PICK f \in {Heartbeat, ErrorFrame} \cup {Ephemeral(k) : k \in Keys} :
          Arrives(conn, f, conn.sent)
    BY <1>5 DEF Chatter
  <2>2. f \in Frames
    BY FramesTyped
  <2> QED
    BY <1>3, <2>1, <2>2
<1>6. ~Subscribe
  BY <1>0, <1>1 DEF Subscribe, Connections
<1>7. ~ConnectionEnds
  <2> SUFFICES ASSUME ConnectionEnds PROVE FALSE
    OBVIOUS
  <2>1. PICK how \in {"ended", "failed"} :
          conn' = [conn EXCEPT !.up = "done", !.queue = Close(conn.queue, how)]
    BY DEF ConnectionEnds
  <2>2. conn'.queue = Close(conn.queue, how)
    BY <1>0, <2>1 DEF Connections
  <2> QED
    BY <1>0, <1>1, <2>2 DEF Close, Queues
<1>8. ~Connect
  BY <1>0 DEF Connect
<1>9. ~PageDone
  BY <1>0, <1>1 DEF PageDone, Emptied, Connections, Queues
<1>10. ~Follow
  BY <1>0, <1>1 DEF Follow, Taken, Connections, Queues
<1>11. ~Await
  BY <1>0, <1>1 DEF Await, Waits, Connections, Queues
<1>12. ~(Commit \/ ServeRead \/ AskPage \/ ReadReturns \/ EmitEvent \/ Drain \/ DrainDone
           \/ LiveEnds \/ DelayOver \/ ReadFails \/ AbandonedEnds \/ Abort \/ Aborted \/ Terminated)
  BY <1>2 DEF Commit, ServeRead, AskPage, ReadReturns, EmitEvent, Drain, DrainDone, LiveEnds,
     DelayOver, ReadFails, AbandonedEnds, Abort, Aborted, Terminated, vars, connVars
<1>13. ~UNCHANGED vars
  BY <1>2 DEF vars, connVars
<1> QED
  BY <1>4, <1>5, <1>6, <1>7, <1>8, <1>9, <1>10, <1>11, <1>12, <1>13 DEF Next, Source, Join

\* A noisy stream gives way before a quiet one loses its last frame.
THEOREM NoisiestGivesWay == Spec => ThinsNoisiest
<1>1. ASSUME TypeOK, [Next]_vars, conn'.epoch = conn.epoch,
             conn'.queue.dropped > conn.queue.dropped
      PROVE  \/ StreamsOf(conn.queue.items) \subseteq StreamsOf(conn'.queue.items)
             \/ \A k \in Keys : Cardinality(OfKey(conn'.queue.items, k)) <= 1
  <2>1. PICK f \in Frames : conn'.queue = Push(conn.queue, f)
    BY <1>1, DroppedOnArrival
  <2>2. /\ conn.queue \in Queues /\ conn.queue.items \in Seq(Frames)
        /\ conn.queue.dropped \in Nat
    BY <1>1 DEF TypeOK, Connections, Queues
  <2> DEFINE all == Append(conn.queue.items, f)
  <2>3. Candidates(all) # {} /\ conn'.queue.items = Without(all, Victim(all))
    <3> HIDE DEF all
    <3>1. Append(conn.queue.items, f) = all
      BY DEF all
    <3> QED
      BY <1>1, <2>1, <2>2, <3>1 DEF Push, Refused, Queues
  <2>4. /\ all \in Seq(Frames) /\ DOMAIN conn.queue.items = 1..Len(conn.queue.items)
        /\ DOMAIN all = 1..(Len(conn.queue.items) + 1) /\ Len(conn.queue.items) \in Nat
        /\ \A i \in 1..Len(conn.queue.items) : all[i] = conn.queue.items[i]
    BY <2>2, AppendProperties, LenProperties
  <2> HIDE DEF all
  <2>5. StreamsOf(conn.queue.items) \subseteq StreamsOf(all)
    BY <2>4 DEF StreamsOf, OfKind
  <2> QED
    BY <2>3, <2>4, <2>5, ThinnedStreams
<1>2. TypeOK /\ [Next]_vars =>
        [conn'.epoch = conn.epoch /\ conn'.queue.dropped > conn.queue.dropped
           => \/ StreamsOf(conn.queue.items) \subseteq StreamsOf(conn'.queue.items)
              \/ \A k \in Keys : Cardinality(OfKey(conn'.queue.items, k)) <= 1]_vars
  BY <1>1
<1> QED
  BY <1>2, TypeInit, TypeNext, PTL DEF Spec, ThinsNoisiest
====
