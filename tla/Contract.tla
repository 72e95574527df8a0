------------------------------ MODULE Contract ------------------------------
(***************************************************************************)
(* The parse boundary of the Factory plane (packages/protocol/src/         *)
(* validate.ts): which documents a client takes, of those a Factory might  *)
(* send.  A document arrives as JSON: an integer of the wire becomes a     *)
(* double, an id is told by its length in bytes, a time by its             *)
(* milliseconds and what is finer.                                         *)
(***************************************************************************)
EXTENDS Integers, Sequences, SequencesExt, FiniteSets

CONSTANTS
    Exact,      \* 2^53: a double holds every integer below it
    MaxId,      \* bytes of the longest id Core issues
    Documents   \* what may arrive, records with a kind

\* A time, and what may arrive: the shapes the schemas let through.
Instant == [ms : Nat, finer : Nat]
Document ==
    [kind : {"journal"}, ids : Seq(Nat), tip : Nat, covered : Nat, seqs : Seq(Nat)]
    \union [kind : {"gates"}, ids : Seq(Nat), tip : Nat, count : Nat, seqs : Seq(Nat)]
    \union [kind : {"reset"}, ids : Seq(Nat), last : Nat, tip : Nat]
    \union [kind : {"tip", "status"}, ids : Seq(Nat), tip : Nat]
    \union [kind : {"enduring"}, ids : Seq(Nat), seq : Nat, covered : Nat]
    \union [kind : {"agent", "department", "object"}, ids : Seq(Nat)]
    \union [kind : {"ephemeral"}, ids : Seq(Nat), durable : BOOLEAN]
    \union [kind : {"command"}, ids : Seq(Nat), status : STRING, error : BOOLEAN]
    \union [kind : {"recent"}, ids : Seq(Nat), times : Seq(Instant)]

ASSUME ContractAssumption ==
    Exact \in Nat \ {0} /\ Exact % 2 = 0 /\ MaxId \in Nat \ {0} /\ Documents \subseteq Document

VARIABLES
    wire,       \* the document under way
    verdict,    \* "none", "accepted" or "refused"
    taken       \* the document as the client holds it

contractVars == <<wire, verdict, taken>>

-----------------------------------------------------------------------------
(* Numbers and ids.                                                        *)

\* JSON.parse: up to twice the last exact integer every second one is held, and the
\* others go to the neighbour whose half is even.  Farther up fewer are held;
\* all that is used of those is that they stay above.
Double(n) ==
    IF n < Exact \/ n % 2 = 0 THEN n ELSE IF ((n - 1) \div 2) % 2 = 0 THEN n - 1 ELSE n + 1

\* Seeded fault: the first integer that is no longer exact passes.
UpToExact(n, minimum) == n <= Exact /\ n >= minimum

\* safeJournalCoordinate()
SafeJournalCoordinate(n, minimum) == n < Exact /\ n >= minimum

\* idsWithinCoreLimit(), and the schemas' minLength.
IdsWithinCoreLimit(ids) == \A i \in ids : i \in 1..MaxId

\* Date.parse reads no further than the millisecond.
Milliseconds(time) == time.ms

-----------------------------------------------------------------------------
(* What each kind of document has to satisfy, as the client holds it.      *)

\* The loops over the events and the gates: each above the one before it.
Ascending(seqs, limit) ==
    \A i \in DOMAIN seqs :
      SafeJournalCoordinate(seqs[i], 1) /\ seqs[i] <= limit /\ (i > 1 => seqs[i - 1] < seqs[i])

JournalPageTaken(d) ==
    /\ SafeJournalCoordinate(d.tip, 0) /\ SafeJournalCoordinate(d.covered, 0) /\ d.covered <= d.tip
    /\ IdsWithinCoreLimit(ToSet(d.ids)) /\ Ascending(d.seqs, d.covered)

GatePageTaken(d) ==
    /\ SafeJournalCoordinate(d.tip, 0) /\ Len(d.seqs) <= d.count
    /\ IdsWithinCoreLimit(ToSet(d.ids)) /\ Ascending(d.seqs, d.tip)

SessionResetTaken(d) ==
    /\ IdsWithinCoreLimit(ToSet(d.ids))
    /\ SafeJournalCoordinate(d.last, 0) /\ SafeJournalCoordinate(d.tip, 0) /\ d.last <= d.tip

JournalTipTaken(d) == IdsWithinCoreLimit(ToSet(d.ids)) /\ SafeJournalCoordinate(d.tip, 0)

EnduringTaken(d) ==
    /\ IdsWithinCoreLimit(ToSet(d.ids))
    /\ SafeJournalCoordinate(d.seq, 1) /\ SafeJournalCoordinate(d.covered, 1) /\ d.covered = d.seq

EphemeralTaken(d) == IdsWithinCoreLimit(ToSet(d.ids)) /\ ~d.durable

CommandStatusTaken(d) == IdsWithinCoreLimit(ToSet(d.ids)) /\ ((d.status = "rejected") <=> d.error)

SessionStatusTaken(d) == IdsWithinCoreLimit(ToSet(d.ids)) /\ SafeJournalCoordinate(d.tip, 0)

NewestFirst(times) == \A i \in 2..Len(times) : Milliseconds(times[i]) <= Milliseconds(times[i - 1])

RecentPageTaken(d) == IdsWithinCoreLimit(ToSet(d.ids)) /\ NewestFirst(d.times)

ValidateFactorySemantics(d) ==
    CASE d.kind = "journal" -> JournalPageTaken(d)
      [] d.kind = "gates" -> GatePageTaken(d)
      [] d.kind = "reset" -> SessionResetTaken(d)
      [] d.kind = "tip" -> JournalTipTaken(d)
      [] d.kind = "enduring" -> EnduringTaken(d)
      [] d.kind = "ephemeral" -> EphemeralTaken(d)
      [] d.kind = "command" -> CommandStatusTaken(d)
      [] d.kind = "status" -> SessionStatusTaken(d)
      [] d.kind = "recent" -> RecentPageTaken(d)
      [] d.kind \in {"agent", "department", "object"} -> IdsWithinCoreLimit(ToSet(d.ids))

-----------------------------------------------------------------------------
\* The document as JSON.parse hands it on.
AsParsed(d) ==
    [f \in DOMAIN d |->
       IF f \in {"tip", "covered", "last", "seq", "count"} THEN Double(d[f])
       ELSE IF f = "seqs" THEN [i \in DOMAIN d.seqs |-> Double(d.seqs[i])]
       ELSE d[f]]

ContractInit == wire \in Documents /\ verdict = "none" /\ taken = wire

\* validateFactory()
ValidateFactory ==
    /\ verdict = "none"
    /\ taken' = AsParsed(wire)
    /\ verdict' = IF ValidateFactorySemantics(taken') THEN "accepted" ELSE "refused"
    /\ UNCHANGED wire

ContractSpec == ContractInit /\ [][ValidateFactory]_contractVars

-----------------------------------------------------------------------------
(* What Core promises of a document (the schemas' descriptions), on the    *)
(* integers of the wire.                                                   *)

Rising(seqs) == \A i, j \in DOMAIN seqs : i < j => seqs[i] < seqs[j]
Later(s, t) == s.ms > t.ms \/ (s.ms = t.ms /\ s.finer >= t.finer)

Promised(d) ==
    /\ \A i \in ToSet(d.ids) : i \in 1..MaxId
    /\ CASE d.kind = "journal" -> d.covered <= d.tip /\ Rising(d.seqs) /\ ToSet(d.seqs) \subseteq 1..d.covered
         [] d.kind = "gates" -> Rising(d.seqs) /\ ToSet(d.seqs) \subseteq 1..d.tip /\ Len(d.seqs) <= d.count
         [] d.kind = "reset" -> d.last <= d.tip
         [] d.kind = "enduring" -> d.seq >= 1 /\ d.covered = d.seq
         [] d.kind = "ephemeral" -> ~d.durable
         [] d.kind = "command" -> (d.status = "rejected") = d.error
         [] d.kind = "recent" -> \A i, j \in DOMAIN d.times : i < j => Later(d.times[i], d.times[j])
         [] OTHER -> TRUE

\* Coordinates that fit: none of them is changed on its way.
Fits(d) == \A f \in DOMAIN d :
    /\ f \in {"tip", "covered", "last", "seq"} => d[f] < Exact
    /\ f = "seqs" => \A i \in DOMAIN d.seqs : d.seqs[i] < Exact

\* A document that is taken is as it was sent, digit by digit, so that no two
\* records of a journal become one, and as Core promises it; one that Core sends
\* with coordinates that fit is not refused.  The open_gate_count of a gate page
\* is excepted: nothing bounds it, and above 2^53 it is rounded on its way.  Of
\* the times of a page no more is asked than their order by the millisecond
\* (validate.ts:235-237, 287-399).
TakenAsSent ==
    /\ verdict = "accepted" => /\ \A f \in DOMAIN wire : f # "count" => taken[f] = wire[f]
                               /\ wire.kind # "recent" => Promised(wire)
    /\ Promised(wire) /\ Fits(wire) => verdict # "refused"
=============================================================================
