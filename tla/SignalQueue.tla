---- MODULE SignalQueue ----
(***************************************************************************)
(* FactorySignalQueue of packages/protocol/src/join.ts: what a generation's *)
(* callbacks leave for the join.  A queue is a record                       *)
(*   items    what is buffered, in order of arrival                         *)
(*   hand     the item given straight to the waiting next(), if any         *)
(*   waiting  next() is waiting on an empty buffer                          *)
(*   repair   requiresRepair: the generation must be repaired               *)
(* An item is [kind, seq, id]: "enduring" (a journal record), "hint" (an    *)
(* ephemeral publication or a journal_tip) or "repair".                     *)
(***************************************************************************)
EXTENDS Integers, Sequences, FiniteSets

CONSTANT MaxBuffered   \* maxPrejoinPublications

ASSUME BufferAssumption == MaxBuffered \in Nat \ {0}

RepairItem == [kind |-> "repair", seq |-> 0, id |-> 0]
HintItem   == [kind |-> "hint", seq |-> 0, id |-> 0]
Enduring(e) == [kind |-> "enduring", seq |-> e.seq, id |-> e.id]

NewQueue == [items |-> <<>>, hand |-> <<>>, waiting |-> FALSE, repair |-> FALSE]

Publications(items) ==
  {i \in DOMAIN items : items[i].kind # "repair"}

\* One more item would leave more publications than the bound.
Overflows(q, item) ==
  /\ ~q.waiting
  /\ Cardinality(Publications(Append(q.items, item))) > MaxBuffered

Push(q, item) ==
  LET repair == q.repair \/ item.kind = "repair"
  IN  IF q.waiting
      THEN [q EXCEPT !.waiting = FALSE, !.hand = <<item>>, !.repair = repair]
      ELSE IF Overflows(q, item)
      THEN [q EXCEPT !.items = <<>>, !.repair = TRUE]
      ELSE [q EXCEPT !.items = Append(@, item), !.repair = repair]

\* drainPublications: the buffered journal records; the buffer empties.
DrainedEvents(q) ==
  {[seq |-> q.items[i].seq, id |-> q.items[i].id] :
     i \in {j \in DOMAIN q.items : q.items[j].kind = "enduring"}}
Drained(q) ==
  [q EXCEPT !.items = <<>>,
            !.repair = @ \/ \E i \in DOMAIN q.items : q.items[i].kind = "repair"]

\* next(): the oldest item, or the caller waits.
Pending(q) == q.hand \o q.items
Taken(q) ==
  IF q.hand # <<>> THEN [q EXCEPT !.hand = <<>>]
  ELSE [q EXCEPT !.items = Tail(@)]

====
