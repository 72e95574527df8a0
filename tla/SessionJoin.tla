---- MODULE SessionJoin ----
(***************************************************************************)
(* joinSessionView (packages/protocol/src/join.ts): a session's journal    *)
(* walked from a cursor while its live stream is buffered, then the stream *)
(* followed, over as many live connections as it takes.                    *)
(*                                                                         *)
(* A connection is subscribed first; the walk that follows fixes the tip   *)
(* below which live records are duplicates.  A buffer that overflows with  *)
(* nothing it may drop refuses: the connection ends and the next one walks *)
(* again from the cursor.  JavaScript runs one callback at a time, so an   *)
(* action is the code between two points where the join awaits or yields.  *)
(*                                                                         *)
(* The journal server and the live source are external.  A connection      *)
(* carries, in order, the records committed after the server subscribed    *)
(* it; a read answers with the journal of the moment it was served.        *)
(***************************************************************************)
EXTENDS LiveQueue

CONSTANTS
  PageLimit,          \* pageLimit
  MaxRepairAttempts,  \* maxRepairAttempts
  InitialCommitted,   \* lengths the journal may have when the join starts
  MaxCommitted,       \* bound: records in the journal
  MaxSetbacks,        \* bound: connections ended, reads failed, the abort
  MaxNoise,           \* bound: frames that carry no record
  SubscribedAtCall    \* the live source's contract: subscribed once called

ASSUME SessionAssumption ==
  /\ PageLimit \in Nat \ {0}
  /\ MaxRepairAttempts \in Nat \ {0}
  /\ InitialCommitted \subseteq 0..MaxCommitted
  /\ MaxCommitted \in Nat /\ MaxSetbacks \in Nat /\ MaxNoise \in Nat
  /\ SubscribedAtCall \in BOOLEAN

VARIABLES
  \* The server and the network.
  committed,      \* the journal holds the records 0..committed - 1
  setbacks,       \* faults so far
  noise,          \* frames so far that carry no record
  \* The join.
  pc,             \* where the generator is suspended
  autoReconnect,  \* options.autoReconnect
  aborted,        \* options.signal
  cursor,         \* the sequence the next walk starts from
  repairPending,  \* a refusal no later read has repaired yet
  repairEpoch,    \* the connection that refusal happened on
  refusals,       \* refusalsWithoutRecovery
  \* Its current connection, and those it left behind.
  conn,           \* [epoch, up, sent, queue]
  abandoned,      \* earlier connections whose pump still runs
  refusedHere,    \* refusedThisConnection
  walked,         \* coldWalkCompleted
  tip,            \* the walk covers every record below it
  page,           \* the page being served or yielded
  drained,        \* the drained buffer still to be applied
  \* What the consumer was told, and history.
  binding,        \* onBindingState
  asked,          \* the binding state when the read in flight was asked
  refusers,       \* the connections that refused while they were current
  recovered,      \* the last connection that ended without refusing
  start,          \* options.fromJournalSeq
  yielded         \* the sequences of the enduring events yielded

serverVars  == <<committed, setbacks, noise>>
joinVars    == <<pc, autoReconnect, aborted, cursor, repairPending, repairEpoch, refusals>>
connVars    == <<conn, abandoned, refusedHere, walked, tip, page, drained>>
historyVars == <<binding, asked, refusers, recovered, start, yielded>>
vars        == <<serverVars, joinVars, connVars, historyVars>>

Lower(m, n) == IF m < n THEN m ELSE n
Upper(m, n) == IF m < n THEN n ELSE m

NoConnection == [epoch |-> 0, up |-> "done", sent |-> 0, queue |-> NewLiveQueue]
NoPage == [at |-> 0, next |-> 0, done |-> FALSE]

Init ==
  /\ committed \in InitialCommitted /\ start \in 0..committed
  /\ setbacks = 0 /\ noise = 0
  /\ pc = "connect" /\ autoReconnect \in BOOLEAN /\ aborted = FALSE
  /\ cursor = start /\ repairPending = FALSE /\ repairEpoch = -1 /\ refusals = 0
  /\ conn = NoConnection /\ abandoned = {}
  /\ refusedHere = FALSE /\ walked = FALSE
  /\ tip = start /\ page = NoPage /\ drained = <<>>
  /\ binding = "live" /\ asked = "live" /\ refusers = {} /\ recovered = 0
  /\ yielded = <<>>

----
\* The server and the live source.

Commit ==
  /\ committed < MaxCommitted
  /\ committed' = committed + 1
  /\ UNCHANGED <<setbacks, noise, joinVars, connVars, historyVars>>

\* A subscription the source was only asked for takes effect.
Subscribe ==
  /\ conn.up = "asked"
  /\ conn' = [conn EXCEPT !.up = "open", !.sent = committed]
  /\ UNCHANGED <<serverVars, joinVars, abandoned, refusedHere, walked, tip, page,
                 drained, historyVars>>

\* The read in flight is served from the journal of this moment.
ServeRead ==
  /\ pc = "ask"
  /\ LET next == Lower(cursor + PageLimit, committed)
     IN  page' = [at |-> cursor, next |-> next, done |-> next = committed]
  /\ pc' = "read"
  /\ UNCHANGED <<serverVars, autoReconnect, aborted, cursor, repairPending,
                 repairEpoch, refusals, conn, abandoned, refusedHere, walked, tip,
                 drained, historyVars>>

----
\* Frames reach the join.

\* onIrreducible: only the current connection has a say, and only the first
\* refusal of an episode is announced and counted.
OnIrreducible(c) ==
  IF c.epoch # conn.epoch \/ repairPending
  THEN UNCHANGED <<repairPending, repairEpoch, refusals, refusedHere, binding>>
  ELSE /\ repairPending' = TRUE /\ repairEpoch' = c.epoch
       /\ refusedHere' = TRUE
       /\ refusals' = refusals + 1
       /\ binding' = "repair_required"

\* pumpLiveConnection relays one frame into the queue of its connection.
Relay(c, f) ==
  /\ IF Refuses(c.queue, f)
     THEN /\ OnIrreducible(c)
          /\ refusers' = IF c.epoch = conn.epoch THEN refusers \cup {c.epoch} ELSE refusers
     ELSE UNCHANGED <<repairPending, repairEpoch, refusals, refusedHere, binding, refusers>>
  /\ UNCHANGED <<committed, pc, autoReconnect, aborted, cursor, walked, tip, page,
                 drained, asked, recovered, start, yielded>>

\* A frame for connection c, whichever one it is.
Arrives(c, f, sent) ==
  LET after == [epoch |-> c.epoch, up |-> c.up, sent |-> sent, queue |-> Push(c.queue, f)]
  IN  /\ Relay(c, f)
      /\ IF c = conn THEN conn' = after /\ UNCHANGED abandoned
         ELSE abandoned' = (abandoned \ {c}) \cup {after} /\ UNCHANGED conn

\* The next record the connection has to carry.
Publish ==
  \E c \in {conn} \cup abandoned :
    /\ c.up = "open" /\ c.sent < committed
    /\ Arrives(c, Enduring(c.sent), c.sent + 1)
    /\ UNCHANGED <<setbacks, noise>>

\* A frame that carries no record: one the buffer may drop, or one that did
\* not parse and that it may not.
Chatter ==
  /\ conn.up = "open" /\ noise < MaxNoise
  /\ \E f \in {Heartbeat, ErrorFrame} \cup {Ephemeral(k) : k \in Keys} :
       Arrives(conn, f, conn.sent)
  /\ noise' = noise + 1 /\ UNCHANGED setbacks

\* The source ends or fails: the pump closes the queue and is over.  An abort
\* cancels it.
ConnectionEnds ==
  /\ conn.up \in {"asked", "open"}
  /\ \/ aborted /\ UNCHANGED setbacks
     \/ setbacks < MaxSetbacks /\ setbacks' = setbacks + 1
  /\ \E how \in {"ended", "failed"} :
       conn' = [conn EXCEPT !.up = "done", !.queue = Close(@, how)]
  /\ UNCHANGED <<committed, noise, joinVars, abandoned, refusedHere, walked, tip,
                 page, drained, historyVars>>

\* The pump of an abandoned connection is over at last.
AbandonedEnds ==
  /\ \E c \in abandoned : abandoned' = abandoned \ {c}
  /\ UNCHANGED <<serverVars, joinVars, conn, refusedHere, walked, tip, page,
                 drained, historyVars>>

----
\* The join.

Abort ==
  /\ ~aborted /\ pc \notin {"returned", "threw"}
  /\ setbacks < MaxSetbacks /\ setbacks' = setbacks + 1
  /\ aborted' = TRUE
  /\ UNCHANGED <<committed, noise, pc, autoReconnect, cursor, repairPending, repairEpoch,
                 refusals, connVars, historyVars>>

\* The signal is looked at between steps; a frame in hand is not applied.
Aborted ==
  /\ aborted
  /\ \/ pc \in {"connect", "next", "delay"}
     \/ pc = "drain" /\ drained # <<>>
     \/ pc = "live" /\ ~conn.queue.waiting /\ conn.queue.hand = <<>>
  /\ pc' = "returned"
  /\ UNCHANGED <<serverVars, autoReconnect, aborted, cursor, repairPending,
                 repairEpoch, refusals, connVars, historyVars>>

\* Step 1: the connection is opened before anything is read.  The one before
\* it is superseded only now; return() ended it, or its pump runs on.
Connect ==
  /\ pc = "connect" /\ ~aborted
  /\ conn' = [epoch |-> conn.epoch + 1,
              up    |-> IF SubscribedAtCall THEN "open" ELSE "asked",
              sent  |-> committed, queue |-> NewLiveQueue]
  /\ abandoned' = abandoned \cup {c \in {conn} : c.up # "done"}
  /\ refusedHere' = FALSE /\ walked' = FALSE
  /\ tip' = cursor /\ page' = NoPage /\ drained' = <<>>
  /\ pc' = "next"
  /\ UNCHANGED <<serverVars, autoReconnect, aborted, cursor, repairPending,
                 repairEpoch, refusals, historyVars>>

\* Step 2: the journal is asked for the page at the cursor.
AskPage ==
  /\ pc = "next" /\ ~aborted
  /\ asked' = binding
  /\ pc' = "ask"
  /\ UNCHANGED <<serverVars, autoReconnect, aborted, cursor, repairPending,
                 repairEpoch, refusals, connVars, binding, refusers, recovered,
                 start, yielded>>

\* A read on a connection later than the refusal repairs it.
Repairs == repairPending /\ conn.epoch > repairEpoch

\* The page arrives: recovery is announced before its events are yielded.
ReadReturns ==
  /\ pc = "read"
  /\ IF Repairs THEN repairPending' = FALSE /\ binding' = "live"
     ELSE UNCHANGED <<repairPending, binding>>
  /\ pc' = "page"
  /\ UNCHANGED <<serverVars, autoReconnect, aborted, cursor, repairEpoch, refusals,
                 connVars, asked, refusers, recovered, start, yielded>>

EmitEvent ==
  /\ pc = "page" /\ page.at < page.next
  /\ yielded' = Append(yielded, page.at)
  /\ page' = [page EXCEPT !.at = @ + 1]
  /\ UNCHANGED <<serverVars, joinVars, conn, abandoned, refusedHere, walked, tip,
                 drained, binding, asked, refusers, recovered, start>>

\* The page is done with.  The last one fixes the tip, and what the live
\* source has brought meanwhile is drained.
PageDone ==
  /\ pc = "page" /\ page.at = page.next
  /\ cursor' = page.next /\ tip' = page.next
  /\ IF page.done
     THEN /\ walked' = TRUE /\ pc' = "drain"
          /\ drained' = conn.queue.items
          /\ conn' = [conn EXCEPT !.queue = Emptied(@)]
     ELSE pc' = "next" /\ UNCHANGED <<walked, drained, conn>>
  /\ page' = NoPage
  /\ UNCHANGED <<serverVars, autoReconnect, aborted, repairPending, repairEpoch,
                 refusals, abandoned, refusedHere, historyVars>>

\* Seeded fault: the walk is taken to have yielded the tip itself.
CoveredAtTip(f) == f.kind = "enduring" /\ f.seq <= tip

\* isAlreadyCovered: the walk has yielded this record.
Covered(f) == f.kind = "enduring" /\ f.seq < tip

\* Steps 3 and 4 treat a frame alike: covered records are passed over, and a
\* record that is yielded moves the cursor past it.
Apply(f) ==
  IF f.kind = "enduring" /\ ~Covered(f)
  THEN cursor' = Upper(cursor, f.seq + 1) /\ yielded' = Append(yielded, f.seq)
  ELSE UNCHANGED <<cursor, yielded>>

Drain ==
  /\ pc = "drain" /\ drained # <<>> /\ ~aborted
  /\ Apply(Head(drained)) /\ drained' = Tail(drained)
  /\ UNCHANGED <<serverVars, pc, autoReconnect, aborted, repairPending, repairEpoch,
                 refusals, conn, abandoned, refusedHere, walked, tip, page, binding,
                 asked, refusers, recovered, start>>

DrainDone ==
  /\ pc = "drain" /\ drained = <<>>
  /\ pc' = "live"
  /\ UNCHANGED <<serverVars, autoReconnect, aborted, cursor, repairPending,
                 repairEpoch, refusals, connVars, historyVars>>

\* The follow loop takes the oldest frame.
Follow ==
  /\ pc = "live" /\ Pending(conn.queue) # <<>>
  /\ conn.queue.hand = <<>> => ~aborted
  /\ Apply(Head(Pending(conn.queue)))
  /\ conn' = [conn EXCEPT !.queue = Taken(@)]
  /\ UNCHANGED <<serverVars, pc, autoReconnect, aborted, repairPending, repairEpoch,
                 refusals, abandoned, refusedHere, walked, tip, page, drained,
                 binding, asked, refusers, recovered, start>>

\* It waits on an empty buffer.
Await ==
  /\ pc = "live" /\ Pending(conn.queue) = <<>> /\ conn.queue.closed = "open"
  /\ ~conn.queue.waiting /\ ~aborted
  /\ conn' = [conn EXCEPT !.queue = Waits(@)]
  /\ UNCHANGED <<serverVars, joinVars, abandoned, refusedHere, walked, tip, page,
                 drained, historyVars>>

\* Seeded fault: a connection that recovered leaves the streak standing.
StreakNeverForgotten(failed) ==
  /\ pc' = IF ~autoReconnect THEN IF failed THEN "threw" ELSE "returned"
           ELSE IF repairPending /\ refusals > MaxRepairAttempts THEN "threw"
           ELSE IF failed THEN "delay" ELSE "connect"
  /\ recovered' = IF walked /\ conn.queue.closed # "refused" THEN conn.epoch
                  ELSE recovered
  /\ UNCHANGED refusals

\* The connection ended, cleanly or not: the join ends with it, or counts the
\* refusals in a row and connects again, at once after a clean end.
EndConnection(failed) ==
  LET streak == IF walked /\ ~refusedHere THEN 0 ELSE refusals
  IN  IF ~autoReconnect
      THEN /\ pc' = IF failed THEN "threw" ELSE "returned"
           /\ UNCHANGED <<refusals, recovered>>
      ELSE /\ refusals' = streak
           /\ recovered' = IF walked /\ conn.queue.closed # "refused" THEN conn.epoch
                           ELSE recovered
           /\ pc' = IF repairPending /\ streak > MaxRepairAttempts THEN "threw"
                    ELSE IF failed THEN "delay" ELSE "connect"

\* The read in flight rejects, of itself or because of the abort.
ReadFails ==
  /\ pc \in {"ask", "read"}
  /\ \/ aborted /\ UNCHANGED setbacks
     \/ setbacks < MaxSetbacks /\ setbacks' = setbacks + 1
  /\ EndConnection(TRUE)
  /\ UNCHANGED <<committed, noise, autoReconnect, aborted, cursor, repairPending,
                 repairEpoch, connVars, binding, asked, refusers, start, yielded>>

\* The follow loop finds its queue closed.
LiveEnds ==
  /\ pc = "live" /\ Over(conn.queue)
  /\ ~conn.queue.waiting => ~aborted
  /\ EndConnection(conn.queue.closed # "ended")
  /\ UNCHANGED <<serverVars, autoReconnect, aborted, cursor, repairPending,
                 repairEpoch, connVars, binding, asked, refusers, start, yielded>>

\* The reconnect or repair delay is over.
DelayOver ==
  /\ pc = "delay" /\ ~aborted
  /\ pc' = "connect"
  /\ UNCHANGED <<serverVars, autoReconnect, aborted, cursor, repairPending,
                 repairEpoch, refusals, connVars, historyVars>>

----
Source == Commit \/ Subscribe \/ ServeRead \/ Publish \/ Chatter

Join ==
  \/ Connect \/ AskPage \/ ReadReturns \/ EmitEvent \/ PageDone
  \/ Drain \/ DrainDone \/ Follow \/ Await \/ LiveEnds \/ DelayOver

Stopped == pc \in {"returned", "threw"}

\* The join waits for a record that nothing is left to commit.
Idle == pc = "live" /\ conn.queue.waiting /\ conn.up = "open" /\ conn.sent = committed

Terminated == (Stopped \/ Idle) /\ UNCHANGED vars

Next ==
  \/ /\ ~Stopped
     /\ \/ Source \/ Join \/ ReadFails \/ ConnectionEnds \/ AbandonedEnds
        \/ Abort \/ Aborted
  \/ Terminated

Spec == Init /\ [][Next]_vars

\* Scheduling.  The event loop runs what is ready and the consumer keeps
\* asking; the server subscribes, answers reads and delivers on the current
\* connection, and the live source honours return().
Fairness ==
  /\ WF_vars(Join \/ Aborted) /\ WF_vars(ServeRead) /\ WF_vars(Subscribe)
  /\ WF_vars(Publish) /\ WF_vars(aborted /\ ConnectionEnds)

FairSpec == Spec /\ Fairness

----
\* Properties.

Frames == {Enduring(s) : s \in 0..(MaxCommitted - 1)} \cup {Ephemeral(k) : k \in Keys}
            \cup {Heartbeat, ErrorFrame}
Queues == [items : Seq(Frames), hand : Seq(Frames), waiting : BOOLEAN,
           closed : {"open", "ended", "failed", "refused"}, dropped : Nat]
Connections == [epoch : Nat, up : {"asked", "open", "done"},
                sent : 0..MaxCommitted, queue : Queues]
Pages == [at : 0..MaxCommitted, next : 0..MaxCommitted, done : BOOLEAN]
Bindings == {"live", "repair_required"}

TypeOK ==
  /\ committed \in 0..MaxCommitted /\ setbacks \in Nat /\ noise \in Nat
  /\ pc \in {"connect", "next", "ask", "read", "page", "drain", "live", "delay",
             "returned", "threw"}
  /\ autoReconnect \in BOOLEAN /\ aborted \in BOOLEAN
  /\ cursor \in 0..MaxCommitted /\ tip \in 0..MaxCommitted
  /\ repairPending \in BOOLEAN /\ repairEpoch \in -1..conn.epoch
  /\ refusals \in Nat
  /\ \A c \in {conn} \cup abandoned :
       c \in Connections /\ Len(c.queue.items) <= MaxQueued
  /\ \A c \in abandoned : c.epoch < conn.epoch
  /\ refusedHere \in BOOLEAN /\ walked \in BOOLEAN
  /\ page \in Pages
  /\ drained \in Seq(Frames)
  /\ binding \in Bindings /\ asked \in Bindings
  /\ refusers \subseteq 0..conn.epoch /\ recovered \in 0..conn.epoch
  /\ start \in 0..MaxCommitted /\ yielded \in Seq(0..MaxCommitted)

\* No gap and no duplicate: from the starting cursor on, every journal record
\* is yielded exactly once and in order, whichever page, drained buffer or
\* connection brought it.
ExactlyOnce == \A i \in DOMAIN yielded : yielded[i] = start + i - 1

\* A join that follows a healthy connection says so: a refusal of a connection
\* it left behind, which nothing will repair, is never what it announced last.
HealthyIsLive ==
  pc = "live" /\ conn.queue.closed = "open" => binding = "live"

\* The refusals counted towards giving up are refusals in a row, each of a
\* connection that was the current one.
StreakIsConsecutive ==
  refusals <= Cardinality({e \in refusers : e > recovered})

\* Recovery is announced by a read that was asked after the refusal.
RecoveryReadLater ==
  [][binding = "repair_required" /\ binding' = "live"
       => asked = "repair_required"]_vars

\* Coalescing thins a noisy stream: the last buffered frame of a stream is
\* evicted only when no stream has two.
StreamsOf(items) == {items[i].key : i \in OfKind(items, "ephemeral")}
ThinsNoisiest ==
  [][conn'.epoch = conn.epoch /\ conn'.queue.dropped > conn.queue.dropped
       => \/ StreamsOf(conn.queue.items) \subseteq StreamsOf(conn'.queue.items)
          \/ \A k \in Keys : Cardinality(OfKey(conn'.queue.items, k)) <= 1]_vars

\* Every record committed reaches the consumer, unless the join ended.
CatchesUp == <>[](Stopped \/ Len(yielded) = committed - start)

\* What the join says of its binding, and what it counts before it gives up, are
\* about the connection it follows and never about one it left behind.
JudgedRight == [](HealthyIsLive /\ StreakIsConsecutive) /\ RecoveryReadLater
====
