---- MODULE CapturedTail ----
(***************************************************************************)
(* The rules by which one captured journal tail is accumulated over the    *)
(* pages a Factory hands back (class CapturedTail of                       *)
(* packages/protocol/src/join.ts).  A capture is a value: Captured admits  *)
(* the page that opened it and Accept admits each continuation page.       *)
(*                                                                         *)
(* A page is a record [tip, covered, events, cursor]: events are           *)
(* [seq, id] records, cursor is NoCursor or an opaque token, modelled by a *)
(* positive number.  Of a body only its weight is kept, in EventBytes.     *)
(***************************************************************************)
EXTENDS Integers, FiniteSets

CONSTANTS
  PageLimit,    \* tailLimit: events a page may hold, and the tail window
  MaxPages,     \* maxTailPages
  MaxEvents,    \* maxTailEvents
  MaxBytes,     \* maxTailBytes
  EventBytes    \* bytes of each event's JSON in UTF-8, and of the comma after it

\* positiveBound: every bound is a positive integer.
ASSUME TailBoundsAssumption ==
  /\ PageLimit \in Nat \ {0}
  /\ MaxPages \in Nat \ {0}
  /\ MaxEvents \in Nat \ {0}
  /\ MaxBytes \in Nat \ {0}

NoCursor == 0

\* The bytes of some events, each with its comma.
BytesOf(events) == UNION {{e} \X (1..EventBytes[e]) : e \in events}

\* capturedTailBytes: the array, with its brackets and commas.
PageBytes(page) ==
  IF page.events = {} THEN 2 ELSE 1 + Cardinality(BytesOf(page.events))

\* Seeded fault: the byte ceiling is not one of the budgets.
CountRefusals == {"page_budget", "event_budget"}

\* The refusals that mean "too big for one generation".
BudgetRefusals == {"page_budget", "event_budget", "byte_budget"}

Refusals ==
  {"page_budget", "event_budget", "byte_budget", "page_limit_exceeded", "tip_moved",
   "coverage_stalled", "missing_cursor", "cursor_repeated", "event_conflict"}

Steps == Refusals \cup {"continue", "complete"}

\* Two events claim one sequence under different identities.
Conflict(events) ==
  \E e, f \in events : e.seq = f.seq /\ e.id # f.id

\* What stops a page from being committed to the capture, "none" if nothing
\* does.  The checks are in the order of the code: the first one that fails
\* is the one reported, and only budget refusals let a prefix be committed.
PageFault(cap, page) ==
  IF Cardinality(page.events) > PageLimit THEN "page_limit_exceeded"
  ELSE IF page.covered <= cap.covered THEN "coverage_stalled"
  ELSE IF page.covered > cap.tip THEN "tip_moved"
  ELSE IF cap.count + Cardinality(page.events) > MaxEvents THEN "event_budget"
  ELSE IF cap.bytes + PageBytes(page) > MaxBytes THEN "byte_budget"
  ELSE IF Conflict(cap.events \cup page.events) THEN "event_conflict"
  ELSE "none"

\* What to do after a page that was committed.
NextStep(cap, page) ==
  IF page.covered = cap.tip THEN "complete"
  ELSE IF page.cursor = NoCursor THEN "missing_cursor"
  ELSE IF page.cursor \in cap.cursors THEN "cursor_repeated"
  ELSE IF cap.pages + 1 >= MaxPages THEN "page_budget"
  ELSE "continue"

Admit(cap, page) ==
  LET fault == PageFault(cap, page)
  IN  IF fault # "none"
      THEN [cap EXCEPT !.pages = @ + 1, !.step = fault]
      ELSE [tip     |-> cap.tip,
            covered |-> page.covered,
            events  |-> cap.events \cup page.events,
            cursors |-> cap.cursors \cup {page.cursor},
            pages   |-> cap.pages + 1,
            count   |-> cap.count + Cardinality(page.events),
            bytes   |-> cap.bytes + PageBytes(page),
            step    |-> NextStep(cap, page)]

\* The constructor: the capture is pinned to the tip of its first page.
Captured(page) ==
  Admit([tip |-> page.tip, covered |-> -1, events |-> {}, cursors |-> {},
         pages |-> 0, count |-> 0, bytes |-> 0, step |-> "continue"], page)

Accept(cap, page) ==
  IF cap.step # "continue" THEN cap
  ELSE IF page.tip = cap.tip THEN Admit(cap, page)
  ELSE [cap EXCEPT !.step = "tip_moved"]

\* The prefix the admitted pages have attested (getter `attested`); a capture
\* that admitted no page attests nothing.
HasAttested(cap) == cap.covered >= 0
Attested(cap) == {e \in cap.events : e.seq <= cap.covered}

====
