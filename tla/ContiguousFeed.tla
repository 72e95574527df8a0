---- MODULE ContiguousFeed ----
(***************************************************************************)
(* What a join promises the consumer of a session: a cursor into the       *)
(* session's journal, and the public records between the place the         *)
(* consumer's window opens and that cursor, in order, with none missing.   *)
(* How records travel, and what goes wrong on the way, is not part of it.  *)
(***************************************************************************)
EXTENDS Integers, Sequences

VARIABLES
  log,       \* the journal: [public, id] per sequence
  cursor,    \* the sequence through which coverage is committed
  opened,    \* the sequence the consumer's window starts above
  yielded    \* the public records delivered in that window

vars == <<log, cursor, opened, yielded>>

\* Nothing public lies between the covered part of the window and high.
NothingPublic(high) ==
  \A s \in DOMAIN log : s > cursor /\ s > opened /\ s <= high => ~log[s].public

Init ==
  /\ cursor \in 0..Len(log)
  /\ opened = cursor
  /\ yielded = <<>>

\* The journal grows at its end.
Grow ==
  /\ \E record \in [public : BOOLEAN, id : {0}] : log' = Append(log, record)
  /\ UNCHANGED <<cursor, opened, yielded>>

\* A consumer that has committed nothing takes the newest window, rather than
\* the journal from its start.
Open ==
  /\ cursor = 0 /\ yielded = <<>>
  /\ opened' \in 0..Len(log)
  /\ UNCHANGED <<log, cursor, yielded>>

\* The next public record is delivered.
Deliver ==
  /\ \E s \in DOMAIN log :
       /\ s > cursor /\ log[s].public /\ NothingPublic(s - 1)
       /\ cursor' = s
       /\ yielded' = Append(yielded, [seq |-> s, id |-> log[s].id])
  /\ UNCHANGED <<log, opened>>

\* Coverage moves over private records.
Cover ==
  /\ \E s \in DOMAIN log : s > cursor /\ NothingPublic(s) /\ cursor' = s
  /\ UNCHANGED <<log, opened, yielded>>

\* The consumer is told to go back, and starts again from there.
Rewind ==
  /\ \E s \in 0..(cursor - 1) : cursor' = s /\ opened' = s
  /\ yielded' = <<>>
  /\ UNCHANGED log

Next == Grow \/ Open \/ Deliver \/ Cover \/ Rewind

Spec == Init /\ [][Next]_vars
====
