-------------------------- MODULE CommandPlane_proofs --------------------------
(***************************************************************************)
(* Proofs about the command plane and its pages, for any number of         *)
(* controls, gates, mounted stores and commands, under the session page as *)
(* much as without it: an envelope is retained until it is decided, what a *)
(* control says of a command is true and of the last one minted there, and *)
(* what a page sent stays in sight.  And about the shell, for any number   *)
(* of logins and reads: what it lists is the reader's own.                 *)
(*                                                                         *)
(* What the stores show plays no part: the scope alone decides.            *)
(***************************************************************************)
EXTENDS FactoryPages, TLAPS

PlaneTypes ==
    /\ slots \in [Keys -> Slot] /\ errors \in [Keys -> 0..NoError]
    /\ minted \in [Commands -> Keys \union {Nobody}] /\ told \in [Commands -> Endings]

AttemptTypes == attempts \subseteq Attempt

\* Identities are used in their order.
MintedInOrder ==
    \A c, d \in Commands : minted[c] = Nobody /\ minted[d] # Nobody => d < c

\* What a control retains is the last envelope it minted.
LastOf(k, id) == id \in Commands /\ minted[id] = k /\ \A c \in Commands : minted[c] = k => c <= id
RetainsTheLast == \A k \in Keys : slots[k] # NoSlot => LastOf(k, slots[k].id)

PlaneInv ==
    /\ PlaneTypes /\ AttemptTypes /\ MintedInOrder
    /\ RetainsTheLast /\ RetainedUntilDecided /\ ErrorOfTheLast

LEMMA SlotFacts ==
  /\ NoSlot \in Slot /\ NoSlot.id = 0 /\ NoSlot.sending = FALSE
  /\ NoError \notin Commands /\ NotMinted \notin Commands
  /\ NoError \in 0..NoError /\ NotMinted \in 0..NoError /\ Commands \subseteq 0..NoError
  /\ \A c \in Commands, b \in BOOLEAN : [id |-> c, sending |-> b] \in Slot
  /\ \A s \in Slot : s # NoSlot => s = [id |-> s.id, sending |-> s.sending] /\ s.id \in Commands
  /\ \A s \in Slot : s.id \in Commands => s # NoSlot
  /\ \A s \in Slot, b \in BOOLEAN : s # NoSlot => [s EXCEPT !.sending = b] = [id |-> s.id, sending |-> b]
<1>1. MaxCommands \in Nat
  BY PlaneAssumption
<1>2. NoSlot \in Slot /\ NoSlot.id = 0 /\ NoSlot.sending = FALSE
  BY DEF NoSlot, Slot
<1>3. /\ NoError \notin Commands /\ NotMinted \notin Commands
      /\ NoError \in 0..NoError /\ NotMinted \in 0..NoError /\ Commands \subseteq 0..NoError
  BY <1>1 DEF NoError, NotMinted, Commands
<1>4. \A c \in Commands, b \in BOOLEAN : [id |-> c, sending |-> b] \in Slot
  BY DEF Slot
<1>5. \A s \in Slot : s # NoSlot => s = [id |-> s.id, sending |-> s.sending] /\ s.id \in Commands
  BY DEF Slot
<1>6. 0 \notin Commands
  BY <1>1 DEF Commands
<1>7. \A s \in Slot : s.id \in Commands => s # NoSlot
  BY <1>2, <1>6
<1>8. \A s \in Slot, b \in BOOLEAN : s # NoSlot => [s EXCEPT !.sending = b] = [id |-> s.id, sending |-> b]
  BY <1>2 DEF Slot, NoSlot
<1> QED BY <1>2, <1>3, <1>4, <1>5, <1>7, <1>8

LEMMA AttemptFacts ==
  ASSUME NEW a \in Attempt
  PROVE  /\ a.id \in Commands /\ a.key \in Keys /\ a.answer \in Answers
         /\ [a EXCEPT !.by = Nobody] \in Attempt
         /\ \A answer \in Answers :
              /\ [a EXCEPT !.answer = answer] \in Attempt
              /\ [a EXCEPT !.answer = answer].id = a.id /\ [a EXCEPT !.answer = answer].answer = answer
         /\ [a EXCEPT !.by = Nobody].id = a.id /\ [a EXCEPT !.by = Nobody].answer = a.answer
  BY DEF Attempt

LEMMA InitPlane == Init => PlaneInv
<1> SUFFICES ASSUME Init PROVE PlaneInv
  OBVIOUS
<1>1. \A k \in Keys : slots[k] = NoSlot /\ errors[k] = NoError
  BY DEF Init, Empty
<1>2. \A c \in Commands : minted[c] = Nobody /\ told[c] = "open"
  BY DEF Init
<1>3. PlaneTypes
  BY SlotFacts DEF Init, Empty, PlaneTypes, Endings
<1>4. AttemptTypes /\ MintedInOrder
  BY <1>2 DEF Init, AttemptTypes, MintedInOrder
<1>5. RetainsTheLast /\ RetainedUntilDecided /\ ErrorOfTheLast
  BY <1>1, <1>2, SlotFacts DEF RetainsTheLast, RetainedUntilDecided, ErrorOfTheLast
<1> QED BY <1>3, <1>4, <1>5 DEF PlaneInv

-----------------------------------------------------------------------------
\* Errors may be dropped, or be about an envelope that was never built.
LEMMA ErrorsFade ==
  ASSUME PlaneInv, UNCHANGED <<slots, historyVars>>, AttemptTypes',
         errors' \in [Keys -> 0..NoError],
         \A k \in Keys : errors'[k] = errors[k] \/ errors'[k] \notin Commands
  PROVE  PlaneInv'
<1>1. UNCHANGED <<slots, minted, told>>
  BY DEF historyVars
<1>2. PlaneTypes' /\ MintedInOrder'
  BY <1>1 DEF PlaneInv, PlaneTypes, MintedInOrder
<1>3. RetainsTheLast' /\ RetainedUntilDecided'
  BY <1>1 DEF PlaneInv, RetainsTheLast, RetainedUntilDecided, LastOf
<1>4. ErrorOfTheLast'
  BY <1>1 DEF PlaneInv, ErrorOfTheLast
<1> QED BY <1>2, <1>3, <1>4 DEF PlaneInv

LEMMA SendKeeps ==
  ASSUME PlaneInv, NEW v \in Stores, NEW k \in Keys, Send(v, k)
  PROVE  PlaneInv'
<1>1. PICK c \in Commands :
        /\ slots[k] = NoSlot
        /\ minted[c] = Nobody /\ \A d \in Commands : minted[d] = Nobody => c <= d
        /\ minted' = [minted EXCEPT ![c] = k]
        /\ slots' = [slots EXCEPT ![k] = [id |-> c, sending |-> TRUE]]
        /\ errors' = [errors EXCEPT ![k] = NoError]
        /\ Begin(v, k, c) /\ told' = told
  BY DEF Send
<1>2. /\ minted'[c] = k /\ k # Nobody /\ \A d \in Commands \ {c} : minted'[d] = minted[d]
      /\ slots'[k] = [id |-> c, sending |-> TRUE] /\ errors'[k] = NoError
      /\ \A j \in Keys \ {k} : slots'[j] = slots[j] /\ errors'[j] = errors[j]
  BY <1>1, PlaneAssumption DEF PlaneInv, PlaneTypes
<1>3. PlaneTypes'
  BY <1>1, SlotFacts DEF PlaneInv, PlaneTypes
<1>4. AttemptTypes'
  BY <1>1 DEF PlaneInv, AttemptTypes, Begin, Answers, Attempt
<1>5. Commands \subseteq Nat
  BY DEF Commands
<1>6. MintedInOrder'
  BY <1>1, <1>2, <1>5 DEF PlaneInv, MintedInOrder
<1>7. LastOf(k, c)'
  BY <1>1, <1>2, <1>5 DEF PlaneInv, MintedInOrder, LastOf
<1>8. RetainsTheLast'
  <2>1. ASSUME NEW j \in Keys, slots'[j] # NoSlot
        PROVE  /\ slots'[j].id \in Commands /\ minted'[slots'[j].id] = j
               /\ \A d \in Commands : minted'[d] = j => d <= slots'[j].id
    <3>1. CASE j = k
      BY <3>1, <1>2, <1>7 DEF LastOf
    <3>2. CASE j # k
      BY <3>2, <2>1, <1>1, <1>2, PlaneAssumption DEF PlaneInv, RetainsTheLast, LastOf
    <3> QED BY <3>1, <3>2
  <2> QED BY <2>1 DEF RetainsTheLast, LastOf
<1>9. RetainedUntilDecided'
  BY <1>1, <1>2, SlotFacts, PlaneAssumption DEF PlaneInv, PlaneTypes, RetainedUntilDecided
<1>10. ErrorOfTheLast'
  BY <1>1, <1>2, SlotFacts, PlaneAssumption DEF PlaneInv, PlaneTypes, ErrorOfTheLast
<1> QED BY <1>3, <1>4, <1>6, <1>8, <1>9, <1>10 DEF PlaneInv

\* A slot may be sending, or no more, without holding another envelope.
LEMMA SlotLabelled ==
  ASSUME PlaneTypes, NEW k \in Keys, NEW sending, slots[k] # NoSlot,
         slots' = [slots EXCEPT ![k] = [id |-> slots[k].id, sending |-> sending]],
         [id |-> slots[k].id, sending |-> sending] \in Slot
  PROVE  /\ slots' \in [Keys -> Slot]
         /\ \A j \in Keys : slots'[j].id = slots[j].id /\ (slots'[j] # NoSlot => slots[j] # NoSlot)
<1> DEFINE s == [id |-> slots[k].id, sending |-> sending]
<1>1. s.id = slots[k].id
  OBVIOUS
<1>2. s \in Slot /\ slots' = [slots EXCEPT ![k] = s]
  OBVIOUS
<1> HIDE DEF s
<1> QED BY <1>1, <1>2 DEF PlaneTypes

LEMMA ReplayKeeps ==
  ASSUME PlaneInv, NEW v \in Stores, NEW k \in Keys, Replay(v, k)
  PROVE  PlaneInv'
<1>1. /\ slots[k] # NoSlot /\ slots' = [slots EXCEPT ![k].sending = TRUE]
      /\ errors' = [errors EXCEPT ![k] = NoError]
      /\ Begin(v, k, slots[k].id) /\ minted' = minted /\ told' = told
  BY DEF Replay, historyVars
<1>2. /\ slots[k] \in Slot /\ slots[k].id \in Commands
      /\ slots[k] = [id |-> slots[k].id, sending |-> slots[k].sending]
  BY <1>1, SlotFacts DEF PlaneInv, PlaneTypes
<1>3. /\ slots' = [slots EXCEPT ![k] = [id |-> slots[k].id, sending |-> TRUE]]
      /\ [id |-> slots[k].id, sending |-> TRUE] \in Slot
  BY <1>1, <1>2, SlotFacts
<1>4. /\ errors' \in [Keys -> 0..NoError]
      /\ \A j \in Keys : errors'[j] = errors[j] \/ errors'[j] \notin Commands
  BY <1>1, SlotFacts DEF PlaneInv, PlaneTypes
<1>5. /\ slots' \in [Keys -> Slot]
      /\ \A j \in Keys : slots'[j].id = slots[j].id /\ (slots'[j] # NoSlot => slots[j] # NoSlot)
  BY <1>1, <1>3, SlotLabelled DEF PlaneInv
<1>6. AttemptTypes'
  BY <1>1, <1>2 DEF PlaneInv, AttemptTypes, Begin, Answers, Attempt
<1>7. PlaneTypes' /\ MintedInOrder'
  BY <1>1, <1>4, <1>5 DEF PlaneInv, PlaneTypes, MintedInOrder
<1>8. RetainsTheLast' /\ RetainedUntilDecided'
  BY <1>1, <1>5 DEF PlaneInv, PlaneTypes, RetainsTheLast, RetainedUntilDecided, LastOf
<1>9. ErrorOfTheLast'
  BY <1>1, <1>4 DEF PlaneInv, ErrorOfTheLast
<1> QED BY <1>6, <1>7, <1>8, <1>9 DEF PlaneInv

\* A slot is let go when its command ended for its caller.
LEMMA SlotEmpties ==
  ASSUME PlaneInv, NEW k \in Keys, NEW ending \in Endings \ {"open"},
         slots[k] # NoSlot, slots' = [slots EXCEPT ![k] = NoSlot],
         told' = [told EXCEPT ![slots[k].id] = ending], minted' = minted
  PROVE  slots' \in [Keys -> Slot] /\ told' \in [Commands -> Endings]
         /\ RetainsTheLast' /\ RetainedUntilDecided'
<1>1. slots' \in [Keys -> Slot] /\ told' \in [Commands -> Endings] /\ slots[k].id \in Commands
  BY SlotFacts DEF PlaneInv, PlaneTypes
<1>2. \A j \in Keys : slots'[j] = IF j = k THEN NoSlot ELSE slots[j]
  BY DEF PlaneInv, PlaneTypes
<1>3. RetainsTheLast'
  BY <1>2 DEF PlaneInv, RetainsTheLast, LastOf
<1>4. ASSUME NEW c \in Commands, minted'[c] # Nobody, told'[c] = "open"
      PROVE  slots'[minted'[c]].id = c
  <2>1. c # slots[k].id /\ told[c] = "open" /\ minted[c] \in Keys
    BY <1>1, <1>4 DEF PlaneInv, PlaneTypes
  <2>2. slots[minted[c]].id = c
    BY <1>4, <2>1 DEF PlaneInv, RetainedUntilDecided
  <2> QED BY <1>2, <2>1, <2>2
<1>5. RetainedUntilDecided'
  BY <1>4 DEF RetainedUntilDecided
<1> QED BY <1>1, <1>3, <1>5

LEMMA DiscardKeeps ==
  ASSUME PlaneInv, NEW v \in Stores, NEW k \in Keys, Discard(v, k)
  PROVE  PlaneInv'
<1>1. /\ slots' = [slots EXCEPT ![k] = NoSlot] /\ errors' = [errors EXCEPT ![k] = NoError]
      /\ told' = IF slots[k] = NoSlot THEN told ELSE [told EXCEPT ![slots[k].id] = "cancelled"]
      /\ attempts' = attempts /\ minted' = minted
  BY DEF Discard
<1>2. /\ errors' \in [Keys -> 0..NoError] /\ AttemptTypes' /\ MintedInOrder'
      /\ \A j \in Keys : errors'[j] = errors[j] \/ errors'[j] \notin Commands
  BY <1>1, SlotFacts DEF PlaneInv, PlaneTypes, AttemptTypes, MintedInOrder
<1>3. CASE slots[k] = NoSlot
  <2>1. slots' = slots /\ told' = told
    BY <1>1, <1>3 DEF PlaneInv, PlaneTypes
  <2> QED BY <1>1, <1>2, <2>1, ErrorsFade DEF historyVars
<1>4. CASE slots[k] # NoSlot
  <2>1. told' = [told EXCEPT ![slots[k].id] = "cancelled"] /\ "cancelled" \in Endings \ {"open"}
    BY <1>1, <1>4 DEF Endings
  <2>2. slots' \in [Keys -> Slot] /\ told' \in [Commands -> Endings]
        /\ RetainsTheLast' /\ RetainedUntilDecided'
    BY <1>1, <1>4, <2>1, SlotEmpties
  <2>3. PlaneTypes' /\ ErrorOfTheLast'
    BY <1>1, <1>2, <2>2 DEF PlaneInv, PlaneTypes, ErrorOfTheLast
  <2> QED BY <1>2, <2>2, <2>3 DEF PlaneInv
<1> QED BY <1>3, <1>4

LEMMA SettleKeeps ==
  ASSUME PlaneInv, NEW a \in attempts, Settle(a)
  PROVE  PlaneInv'
<1> DEFINE k == a.key
<1>1. /\ a.id \in Commands /\ k \in Keys /\ a.answer \in Answers \ {"waiting"}
      /\ attempts' = attempts \ {a} /\ minted' = minted
  BY AttemptFacts DEF Settle, PlaneInv, AttemptTypes
<1>2. AttemptTypes' /\ MintedInOrder'
  BY <1>1 DEF PlaneInv, AttemptTypes, MintedInOrder
<1>3. CASE slots[k].id # a.id
  <2>1. UNCHANGED <<slots, errors, told>>
    BY <1>3 DEF Settle
  <2>2. errors' \in [Keys -> 0..NoError] /\ \A j \in Keys : errors'[j] = errors[j]
    BY <2>1 DEF PlaneInv, PlaneTypes
  <2> QED BY <1>1, <1>2, <2>1, <2>2, ErrorsFade DEF historyVars
<1>4. CASE slots[k].id = a.id
  <2> DEFINE outcome == Outcome(a.answer)
  <2>1. /\ slots[k] \in Slot /\ slots[k] # NoSlot
        /\ slots[k] = [id |-> a.id, sending |-> slots[k].sending]
    BY <1>1, <1>4, SlotFacts DEF PlaneInv, PlaneTypes
  <2>2. /\ slots' = [slots EXCEPT ![k] = IF outcome \in {"accepted", "rejected"} THEN NoSlot
                                         ELSE [slots[k] EXCEPT !.sending = FALSE]]
        /\ errors' = [errors EXCEPT ![k] = IF outcome \in {"rejected", "unknown"} THEN a.id ELSE @]
        /\ told' = [told EXCEPT ![a.id] = IF outcome \in {"accepted", "rejected"} THEN outcome ELSE @]
    BY <1>4, <2>1 DEF Settle, Answered, PlaneInv, PlaneTypes
  <2>3. LastOf(k, a.id)
    BY <1>1, <1>4, <2>1 DEF PlaneInv, RetainsTheLast
  <2>4. errors' \in [Keys -> 0..NoError]
    BY <1>1, <2>2, SlotFacts DEF PlaneInv, PlaneTypes
  <2>5. ErrorOfTheLast'
    BY <1>1, <2>2, <2>3 DEF PlaneInv, PlaneTypes, ErrorOfTheLast, LastOf
  <2>6. /\ slots' \in [Keys -> Slot] /\ told' \in [Commands -> Endings]
        /\ RetainsTheLast' /\ RetainedUntilDecided'
    <3>1. CASE outcome \in {"accepted", "rejected"}
      <4>1. /\ slots' = [slots EXCEPT ![k] = NoSlot]
            /\ told' = [told EXCEPT ![slots[k].id] = outcome]
            /\ outcome \in Endings \ {"open"}
        BY <1>4, <2>2, <3>1 DEF Endings
      <4> HIDE DEF outcome
      <4> QED BY <1>1, <2>1, <4>1, SlotEmpties
    <3>2. CASE outcome \notin {"accepted", "rejected"}
      <4>1. [slots[k] EXCEPT !.sending = FALSE] = [id |-> slots[k].id, sending |-> FALSE]
        BY <2>1, SlotFacts
      <4>2. /\ slots' = [slots EXCEPT ![k] = [id |-> slots[k].id, sending |-> FALSE]]
            /\ [id |-> slots[k].id, sending |-> FALSE] \in Slot
        BY <1>1, <1>4, <2>2, <3>2, <4>1, SlotFacts
      <4>3. told' = told
        BY <1>1, <2>2, <3>2 DEF PlaneInv, PlaneTypes
      <4>4. /\ slots' \in [Keys -> Slot]
            /\ \A j \in Keys : slots'[j].id = slots[j].id /\ (slots'[j] # NoSlot => slots[j] # NoSlot)
        BY <1>1, <2>1, <4>2, SlotLabelled DEF PlaneInv
      <4> QED BY <1>1, <4>3, <4>4 DEF PlaneInv, PlaneTypes, RetainsTheLast, RetainedUntilDecided, LastOf
    <3> QED BY <3>1, <3>2
  <2> QED BY <1>1, <1>2, <2>4, <2>5, <2>6 DEF PlaneInv, PlaneTypes
<1> QED BY <1>3, <1>4

-----------------------------------------------------------------------------
\* What else happens changes no slot, mints nothing and tells nobody.
LEMMA MountingKeeps ==
  ASSUME PlaneInv, Mounting
  PROVE  PlaneInv'
<1>1. UNCHANGED <<slots, historyVars>>
  BY DEF Mounting, Build, Attach, Detach, Abandon, Leave
<1>2. errors' \in [Keys -> 0..NoError] /\ \A k \in Keys : errors'[k] = errors[k] \/ errors'[k] = NoError
  BY SlotFacts DEF PlaneInv, PlaneTypes, Mounting, Build, Attach, Detach, Abandon, Leave, Empty
<1>3. AttemptTypes'
  <2>1. attempts' = attempts \/ \E v \in Stores : Leave(v)
    BY DEF Mounting, Build, Attach, Detach, Abandon
  <2>2. ASSUME NEW v \in Stores, Leave(v) PROVE AttemptTypes'
    <3>1. attempts' = {IF a.by = v THEN [a EXCEPT !.by = Nobody] ELSE a : a \in attempts}
      BY <2>2 DEF Leave
    <3> QED BY <3>1, AttemptFacts DEF PlaneInv, AttemptTypes
  <2> QED BY <2>1, <2>2 DEF PlaneInv, AttemptTypes
<1> QED BY <1>1, <1>2, <1>3, SlotFacts, ErrorsFade

LEMMA ErrorActionsKeep ==
  ASSUME PlaneInv, NEW v \in Stores,
         Prune(v) \/ \E k \in Keys : MintFails(v, k) \/ ForgetError(v, k)
  PROVE  PlaneInv'
<1>1. UNCHANGED <<slots, historyVars, attempts>>
  BY DEF Prune, MintFails, ForgetError
<1>2. /\ errors' \in [Keys -> 0..NoError]
      /\ \A k \in Keys : errors'[k] = errors[k] \/ errors'[k] \notin Commands
  BY SlotFacts DEF PlaneInv, PlaneTypes, Prune, MintFails, ForgetError
<1> QED BY <1>1, <1>2, ErrorsFade DEF PlaneInv, AttemptTypes

LEMMA RepliesKeep ==
  ASSUME PlaneInv, NEW c, NEW answers \in SUBSET Answers, Reply(c, answers)
  PROVE  AttemptTypes'
<1>1. PICK answer \in Answers :
        attempts' = {IF a.id = c /\ a.answer = "waiting" THEN [a EXCEPT !.answer = answer] ELSE a :
                       a \in attempts}
  BY DEF Reply
<1> QED BY <1>1, AttemptFacts DEF PlaneInv, AttemptTypes

\* Factory's record of each identity, which only a request or a decision changes.
Records == {"unknown", "pending", "accepted", "rejected"}
RecordTypes == record \in [Commands -> Records]

LEMMA RecordMoves ==
  ASSUME RecordTypes, [Next]_vars
  PROVE  \/ record' = record
         \/ \E c \in Commands, decision \in Records :
               record[c] \in {"unknown", "pending"} /\ record' = [record EXCEPT ![c] = decision]
<1>1. CASE UNCHANGED vars
  BY <1>1 DEF vars, factoryVars
<1>2. CASE Mounting
  BY <1>2 DEF Mounting, Build, Attach, Detach, Abandon, Leave, factoryVars
<1>3. CASE Clicking
  BY <1>3 DEF Clicking, Prune, Send, MintFails, Replay, Discard, ForgetError, Begin, factoryVars
<1>4. CASE \E c \in Commands : Reads(c)
  BY <1>4 DEF Reads, Records
<1>5. CASE \E c \in Commands : Decide(c)
  BY <1>5 DEF Decide, Records
<1>6. CASE \E c \in Commands : Excuse(c)
  BY <1>6 DEF Excuse
<1>7. CASE \E g \in Gates : GateMoves(g)
  BY <1>7 DEF GateMoves, factoryVars
<1>8. CASE \E a \in attempts : Lose(a) \/ Settle(a)
  BY <1>8 DEF Lose, Settle, factoryVars
<1> QED BY <1>1, <1>2, <1>3, <1>4, <1>5, <1>6, <1>7, <1>8 DEF Next, Serving

LEMMA RecordStep ==
  ASSUME RecordTypes, [Next]_vars
  PROVE  RecordTypes'
  BY RecordMoves DEF RecordTypes

LEMMA ServingKeeps ==
  ASSUME PlaneInv, RecordTypes, Serving \/ \E a \in attempts : Lose(a)
  PROVE  PlaneInv'
<1>1. UNCHANGED <<slots, errors, historyVars>>
  BY DEF Serving, Reads, Excuse, Decide, GateMoves, Lose, linkVars
<1>2. AttemptTypes'
  <2>1. ASSUME NEW c \in Commands, Reads(c) PROVE AttemptTypes'
    <3>1. PICK answers \in SUBSET Answers : Reply(c, answers)
      <4>1. {"pending", "accepted", "rejected"} \subseteq Answers
            /\ (record[c] # "unknown" => record[c] \in Answers)
        BY DEF RecordTypes, Records, Answers
      <4>2. CASE record[c] = "unknown"
        <5>1. PICK decision \in {"pending", "accepted", "rejected"} : Reply(c, {decision})
          BY <2>1, <4>2 DEF Reads
        <5> QED BY <4>1, <5>1
      <4>3. CASE record[c] # "unknown"
        <5>1. Reply(c, {record[c]})
          BY <2>1, <4>3 DEF Reads
        <5> QED BY <4>1, <4>3, <5>1
      <4> QED BY <4>2, <4>3
    <3> QED BY <3>1, RepliesKeep
  <2>2. ASSUME NEW c \in Commands, Excuse(c) PROVE AttemptTypes'
    BY <2>2, RepliesKeep DEF Excuse, Answers
  <2>3. ASSUME NEW a \in attempts, Lose(a) PROVE AttemptTypes'
    <3>1. [a EXCEPT !.answer = "lost"] \in Attempt
      BY AttemptFacts DEF PlaneInv, AttemptTypes, Answers
    <3> QED BY <2>3, <3>1 DEF Lose, PlaneInv, AttemptTypes
  <2>4. ASSUME attempts' = attempts PROVE AttemptTypes'
    BY <2>4 DEF PlaneInv, AttemptTypes
  <2> QED BY <2>1, <2>2, <2>3, <2>4 DEF Serving, Decide, GateMoves
<1> QED BY <1>1, <1>2, ErrorsFade DEF PlaneInv, PlaneTypes

LEMMA PlaneStep ==
  ASSUME PlaneInv, RecordTypes, [Next]_vars
  PROVE  PlaneInv'
<1>1. CASE UNCHANGED vars
  BY <1>1, ErrorsFade DEF vars, historyVars, PlaneInv, PlaneTypes, AttemptTypes
<1>2. CASE Clicking
  BY <1>2, ErrorActionsKeep, SendKeeps, ReplayKeeps, DiscardKeeps DEF Clicking
<1>3. CASE \E a \in attempts : Settle(a)
  BY <1>3, SettleKeeps
<1> QED BY <1>1, <1>2, <1>3, MountingKeeps, ServingKeeps DEF Next

-----------------------------------------------------------------------------
\* What an attempt was answered is what Factory recorded.  A Core error that
\* decides nothing would be told as a rejection: no such error is answered.
AnswersTrue ==
    \A a \in attempts :
       /\ a.answer # "refused"
       /\ a.answer \in {"accepted", "rejected"} => record[a.id] = a.answer

\* Without such errors what was told is what Factory decided: TruthTold alone is
\* not inductive, a command told rejected before it is read could be accepted.
ToldAsDecided ==
    \A c \in Commands : told[c] \in {"accepted", "rejected"} => record[c] = told[c]

TruthInv == AnswersTrue /\ ToldAsDecided

LEMMA InitTruth == Init => TruthInv /\ RecordTypes
  BY DEF Init, TruthInv, AnswersTrue, ToldAsDecided, RecordTypes, Records

\* A decision is final, so what was true of the decided stays true.
LEMMA DecisionsStand ==
  ASSUME TruthInv, RecordTypes, [Next]_vars,
         \A b \in attempts' : \/ b.answer \in {"waiting", "lost", "pending"}
                              \/ \E a \in attempts : b.id = a.id /\ b.answer = a.answer
                              \/ b.answer \in {"accepted", "rejected"} /\ record'[b.id] = b.answer,
         \A c \in Commands : told'[c] \in {told[c], "cancelled"},
         attempts \subseteq Attempt
  PROVE  TruthInv'
<1>1. \A c \in Commands : record[c] \in {"accepted", "rejected"} => record'[c] = record[c]
  BY RecordMoves DEF RecordTypes
<1>2. ASSUME NEW b \in attempts'
      PROVE  b.answer # "refused" /\ (b.answer \in {"accepted", "rejected"} => record'[b.id] = b.answer)
  <2>1. CASE \E a \in attempts : b.id = a.id /\ b.answer = a.answer
    <3>1. PICK a \in attempts : b.id = a.id /\ b.answer = a.answer
      BY <2>1
    <3>2. a.id \in Commands /\ a.answer # "refused"
          /\ (a.answer \in {"accepted", "rejected"} => record[a.id] = a.answer)
      BY AttemptFacts DEF TruthInv, AnswersTrue
    <3> QED BY <1>1, <3>1, <3>2
  <2>2. CASE b.answer \in {"waiting", "lost", "pending"}
    BY <2>2
  <2>3. CASE b.answer \in {"accepted", "rejected"} /\ record'[b.id] = b.answer
    BY <2>3
  <2> QED BY <2>1, <2>2, <2>3
<1>3. ToldAsDecided'
  BY <1>1 DEF TruthInv, ToldAsDecided
<1> QED BY <1>2, <1>3 DEF TruthInv, AnswersTrue

LEMMA TruthStep ==
  ASSUME ~Excuses, PlaneInv, TruthInv, RecordTypes, [Next]_vars
  PROVE  TruthInv'
<1> DEFINE Kept(b) == \E a \in attempts : b.id = a.id /\ b.answer = a.answer
<1> DEFINE New(b) == b.answer \in {"waiting", "lost", "pending"}
<1> DEFINE Decided(b) == b.answer \in {"accepted", "rejected"} /\ record'[b.id] = b.answer
<1>1. attempts \subseteq Attempt
  BY DEF PlaneInv, AttemptTypes
<1>2. SUFFICES ASSUME \A a \in attempts : ~Settle(a) \/ slots[a.key].id # a.id
               PROVE  /\ \A b \in attempts' : New(b) \/ Kept(b) \/ Decided(b)
                      /\ \A c \in Commands : told'[c] \in {told[c], "cancelled"}
  <2>1. ASSUME NEW a \in attempts, Settle(a), slots[a.key].id = a.id
        PROVE  TruthInv'
    <3>1. /\ a.id \in Commands /\ a.answer \in Answers \ {"waiting", "refused"}
          /\ attempts' \subseteq attempts /\ record' = record
      BY <1>1, <2>1, AttemptFacts DEF Settle, factoryVars, TruthInv, AnswersTrue
    <3>2. told' = [told EXCEPT ![a.id] = IF Outcome(a.answer) \in {"accepted", "rejected"}
                                         THEN Outcome(a.answer) ELSE @]
      BY <2>1 DEF Settle, Answered
    <3>3. Outcome(a.answer) \in {"accepted", "rejected"} =>
             Outcome(a.answer) = a.answer /\ record[a.id] = a.answer
      BY <3>1 DEF Outcome, Answers, TruthInv, AnswersTrue
    <3>4. \A c \in Commands : told'[c] = told[c] \/ (told'[c] \in {"accepted", "rejected"} => record[c] = told'[c])
      BY <3>1, <3>2, <3>3 DEF PlaneInv, PlaneTypes
    <3>5. ToldAsDecided'
      BY <3>1, <3>4 DEF TruthInv, ToldAsDecided
    <3>6. AnswersTrue'
      BY <3>1 DEF TruthInv, AnswersTrue
    <3> QED BY <3>5, <3>6 DEF TruthInv
  <2> QED BY <1>1, <2>1, DecisionsStand
<1>3. CASE UNCHANGED vars \/ \E a \in attempts : Settle(a)
  BY <1>2, <1>3 DEF vars, historyVars, Settle
<1>4. CASE Mounting
  <2>1. told' = told
    BY <1>4 DEF Mounting, Build, Attach, Detach, Abandon, Leave, historyVars
  <2>2. attempts' = attempts \/ \E v \in Stores : Leave(v)
    BY <1>4 DEF Mounting, Build, Attach, Detach, Abandon
  <2>3. ASSUME NEW v \in Stores, Leave(v), NEW b \in attempts' PROVE Kept(b)
    <3>1. PICK a \in attempts : b = IF a.by = v THEN [a EXCEPT !.by = Nobody] ELSE a
      BY <2>3 DEF Leave
    <3>2. b.id = a.id /\ b.answer = a.answer
      BY <1>1, <3>1, AttemptFacts
    <3> QED BY <3>2
  <2> QED BY <2>1, <2>2, <2>3
<1>5. CASE Clicking
  <2>1. \A c \in Commands : told'[c] \in {told[c], "cancelled"}
    <3>1. told' = told \/ \E v \in Stores, k \in Keys : Discard(v, k)
      BY <1>5 DEF Clicking, Prune, Send, MintFails, Replay, ForgetError, historyVars
    <3>2. ASSUME NEW v \in Stores, NEW k \in Keys, Discard(v, k)
          PROVE  \A c \in Commands : told'[c] \in {told[c], "cancelled"}
      BY <3>2 DEF Discard, PlaneInv, PlaneTypes
    <3> QED BY <3>1, <3>2
  <2>2. attempts' = attempts \/ \E v \in Stores, k \in Keys : \E c : Begin(v, k, c)
    BY <1>5 DEF Clicking, Prune, Send, MintFails, Replay, Discard, ForgetError
  <2>3. ASSUME NEW v \in Stores, NEW k \in Keys, NEW c, Begin(v, k, c)
        PROVE  \A b \in attempts' : New(b) \/ Kept(b)
    BY <2>3 DEF Begin
  <2> QED BY <2>1, <2>2, <2>3
<1>6. CASE Serving
  <2>1. told' = told
    BY <1>6 DEF Serving, Reads, Excuse, Decide, GateMoves, linkVars, historyVars
  <2>2. ASSUME NEW c \in Commands, Reads(c)
        PROVE  \A b \in attempts' : New(b) \/ Kept(b) \/ Decided(b)
    <3>1. PICK answer \in {"pending", "accepted", "rejected"} : record'[c] = answer /\ Reply(c, {answer})
      BY <2>2 DEF Reads, RecordTypes, Records
    <3>2. attempts' = {IF a.id = c /\ a.answer = "waiting" THEN [a EXCEPT !.answer = answer] ELSE a :
                         a \in attempts}
      BY <3>1 DEF Reply
    <3>3. answer \in Answers
      BY DEF Answers
    <3>4. ASSUME NEW b \in attempts' PROVE New(b) \/ Kept(b) \/ Decided(b)
      <4>1. PICK a \in attempts :
              b = IF a.id = c /\ a.answer = "waiting" THEN [a EXCEPT !.answer = answer] ELSE a
        BY <3>2
      <4>2. CASE a.id = c /\ a.answer = "waiting"
        <5>1. b.id = c /\ b.answer = answer
          BY <1>1, <3>3, <4>1, <4>2, AttemptFacts
        <5> QED BY <3>1, <5>1
      <4>3. CASE ~(a.id = c /\ a.answer = "waiting")
        BY <4>1, <4>3
      <4> QED BY <4>2, <4>3
    <3> QED BY <3>4
  <2>3. attempts' = attempts \/ \E c \in Commands : Reads(c)
    BY <1>6 DEF Serving, Excuse, Decide, GateMoves
  <2> QED BY <2>1, <2>2, <2>3
<1>7. CASE \E a \in attempts : Lose(a)
  <2>1. PICK a \in attempts : Lose(a)
    BY <1>7
  <2>2. [a EXCEPT !.answer = "lost"].answer = "lost"
    BY <1>1, AttemptFacts DEF Answers
  <2> QED BY <2>1, <2>2 DEF Lose, linkVars, historyVars
<1> QED BY <1>3, <1>4, <1>5, <1>6, <1>7 DEF Next

-----------------------------------------------------------------------------
\* A minted identity is retained until its caller hears that Core decided, or
\* the user withdraws it, however many stores mount, answers are lost and
\* attempts outlive their slot (stores/pending.ts:287-360).
THEOREM EnvelopesRetained == Spec => []RetainedUntilDecided
<1>1. PlaneInv => RetainedUntilDecided
  BY DEF PlaneInv
<1>2. Init => PlaneInv /\ RecordTypes
  BY InitPlane, InitTruth
<1>3. PlaneInv /\ RecordTypes /\ [Next]_vars => (PlaneInv /\ RecordTypes)'
  BY PlaneStep, RecordStep
<1> QED BY <1>1, <1>2, <1>3, PTL DEF Spec

\* Where every Core error decides, what a control says of a command is true and
\* of the last one minted there (commands.ts:314, stores/pending.ts:297).
THEOREM ControlsTellTheTruth == ~Excuses => (Spec => []RepliesTold)
<1> SUFFICES ASSUME ~Excuses PROVE Spec => []RepliesTold
  OBVIOUS
<1>1. PlaneInv /\ TruthInv => RepliesTold
  BY DEF PlaneInv, TruthInv, ToldAsDecided, RepliesTold, TruthTold
<1>2. Init => PlaneInv /\ RecordTypes /\ TruthInv
  BY InitPlane, InitTruth
<1>3. PlaneInv /\ RecordTypes /\ TruthInv /\ [Next]_vars => (PlaneInv /\ RecordTypes /\ TruthInv)'
  BY PlaneStep, RecordStep, TruthStep
<1> QED BY <1>1, <1>2, <1>3, PTL DEF Spec

LEMMA PagesAreSteps ==
  ASSUME [PagesNext]_<<vars, pagesVars>>
  PROVE  [Next]_vars
<1>1. CASE RouteSends
  BY <1>1, PagesAssumption, PlaneAssumption DEF RouteSends, Next, Clicking
<1>2. CASE RouteDiscards
  BY <1>2, PagesAssumption, PlaneAssumption DEF RouteDiscards, Next, Clicking
<1>3. CASE RouteMounts
  BY <1>3 DEF RouteMounts, Next
<1>4. CASE Beside
  BY <1>4 DEF Beside, Next, Clicking
<1>5. CASE \E a \in attempts : RouteSettles(a)
  BY <1>5 DEF RouteSettles, Next
<1>6. CASE \E c \in Commands : Journaled(c)
  BY <1>6 DEF Journaled
<1> QED BY <1>1, <1>2, <1>3, <1>4, <1>5, <1>6 DEF PagesNext

\* The session page and the shell use the plane as its other callers do
\* (session-detail-route.tsx:95-103).
THEOREM PagesUseThePlane == PagesSpec => Spec
<1>1. PagesInit => Init
  BY DEF PagesInit
<1>2. [PagesNext]_<<vars, pagesVars>> => [Next]_vars
  BY PagesAreSteps
<1> QED BY <1>1, <1>2, PTL DEF PagesSpec, Spec

-----------------------------------------------------------------------------
\* No slot is attempted twice at once: whoever is heard last is heard alone.
SameCommand(a, b) == a.id = b.id /\ a.key = b.key
OneAttempt ==
    \A a \in attempts :
       /\ minted[a.id] = a.key
       /\ slots[a.key].id = a.id => /\ slots[a.key].sending
                                    /\ \A b \in attempts : SameCommand(a, b) => a = b

\* What becomes of the attempts when none begins and none is over.
Carried(m) ==
    /\ \A a \in attempts : m[a] \in attempts' /\ SameCommand(a, m[a])
    /\ \A b \in attempts' : \E a \in attempts : b = m[a]

LEMMA ReplyCarries ==
  ASSUME AttemptTypes, NEW c, NEW answers \in SUBSET Answers, Reply(c, answers)
  PROVE  \E m \in [attempts -> Attempt] : Carried(m) /\ \A a \in attempts : m[a].by = a.by
<1>1. PICK answer \in Answers :
        attempts' = {IF a.id = c /\ a.answer = "waiting" THEN [a EXCEPT !.answer = answer] ELSE a :
                       a \in attempts}
  BY DEF Reply
<1> DEFINE To(a) == IF a.id = c /\ a.answer = "waiting" THEN [a EXCEPT !.answer = answer] ELSE a
<1> DEFINE m == [a \in attempts |-> To(a)]
<1>2. \A a \in attempts : To(a) \in Attempt /\ SameCommand(a, To(a)) /\ To(a).by = a.by
  BY DEF AttemptTypes, Attempt, SameCommand
<1>3. attempts' = {To(a) : a \in attempts}
  BY <1>1
<1> HIDE DEF To
<1>4. m \in [attempts -> Attempt] /\ \A a \in attempts : m[a] = To(a)
  BY <1>2
<1>5. Carried(m) /\ \A a \in attempts : m[a].by = a.by
  BY <1>2, <1>3, <1>4 DEF Carried
<1> QED BY <1>4, <1>5

LEMMA LeaveCarries ==
  ASSUME AttemptTypes, NEW v \in Stores, Leave(v)
  PROVE  \E m \in [attempts -> Attempt] :
            Carried(m) /\ \A a \in attempts : a.by # v => m[a].by = a.by
<1> DEFINE To(a) == IF a.by = v THEN [a EXCEPT !.by = Nobody] ELSE a
<1> DEFINE m == [a \in attempts |-> To(a)]
<1>1. attempts' = {To(a) : a \in attempts}
  BY DEF Leave
<1>2. \A a \in attempts : To(a) \in Attempt /\ SameCommand(a, To(a)) /\ (a.by # v => To(a).by = a.by)
  BY DEF AttemptTypes, Attempt, SameCommand
<1> HIDE DEF To
<1>3. m \in [attempts -> Attempt] /\ \A a \in attempts : m[a] = To(a)
  BY <1>2
<1>4. Carried(m) /\ \A a \in attempts : a.by # v => m[a].by = a.by
  BY <1>1, <1>2, <1>3 DEF Carried
<1> QED BY <1>3, <1>4

LEMMA LoseCarries ==
  ASSUME AttemptTypes, NEW a \in attempts, Lose(a)
  PROVE  \E m \in [attempts -> Attempt] : Carried(m) /\ \A b \in attempts : m[b].by = b.by
<1> DEFINE lost == [a EXCEPT !.answer = "lost"]
<1> DEFINE m == [b \in attempts |-> IF b = a THEN lost ELSE b]
<1>1. attempts' = (attempts \ {a}) \union {lost}
  BY DEF Lose
<1>2. lost \in Attempt /\ SameCommand(a, lost) /\ lost.by = a.by
  BY DEF AttemptTypes, Attempt, Answers, SameCommand
<1> HIDE DEF lost
<1>3. m \in [attempts -> Attempt] /\ \A b \in attempts : m[b] = IF b = a THEN lost ELSE b
  BY <1>2 DEF AttemptTypes
<1>4. Carried(m) /\ \A b \in attempts : m[b].by = b.by
  BY <1>1, <1>2, <1>3 DEF Carried, SameCommand
<1> QED BY <1>3, <1>4

LEMMA CarriedStaysOne ==
  ASSUME AttemptTypes, OneAttempt, UNCHANGED <<slots, minted>>,
         NEW m \in [attempts -> Attempt], Carried(m)
  PROVE  OneAttempt'
<1> SUFFICES ASSUME NEW b \in attempts'
             PROVE  /\ minted[b.id] = b.key
                    /\ slots[b.key].id = b.id => /\ slots[b.key].sending
                                                 /\ \A d \in attempts' : SameCommand(b, d) => b = d
  BY DEF OneAttempt
<1>1. PICK a \in attempts : b = m[a] /\ SameCommand(a, b)
  BY DEF Carried
<1>2. minted[b.id] = b.key /\ (slots[b.key].id = b.id => slots[b.key].sending)
  BY <1>1 DEF OneAttempt, SameCommand
<1>3. ASSUME slots[b.key].id = b.id, NEW d \in attempts', SameCommand(b, d)
      PROVE  b = d
  <2>1. PICK e \in attempts : d = m[e] /\ SameCommand(e, d)
    BY DEF Carried
  <2>2. a = e
    BY <1>1, <1>3, <2>1 DEF OneAttempt, SameCommand
  <2> QED BY <1>1, <2>1, <2>2
<1> QED BY <1>2, <1>3

LEMMA ServingReplies ==
  ASSUME RecordTypes, NEW c \in Commands, Reads(c) \/ Excuse(c)
  PROVE  \E answers \in SUBSET Answers : Reply(c, answers)
<1>1. /\ {"refused"} \in SUBSET Answers
      /\ \A answer \in Records \ {"unknown"} : {answer} \in SUBSET Answers
  BY DEF Answers, Records
<1>2. CASE Excuse(c)
  BY <1>1, <1>2 DEF Excuse
<1>3. CASE Reads(c)
  <2>1. CASE record[c] = "unknown"
    <3>1. PICK decision \in Records \ {"unknown"} : Reply(c, {decision})
      BY <1>3, <2>1 DEF Reads, Records
    <3> QED BY <1>1, <3>1
  <2>2. CASE record[c] # "unknown"
    <3>1. record[c] \in Records \ {"unknown"} /\ Reply(c, {record[c]})
      BY <1>3, <2>2 DEF Reads, RecordTypes
    <3> QED BY <1>1, <3>1
  <2> QED BY <2>1, <2>2
<1> QED BY <1>2, <1>3

LEMMA NothingCarried ==
  ASSUME OneAttempt, UNCHANGED <<slots, minted, attempts>>
  PROVE  OneAttempt'
  BY DEF OneAttempt, SameCommand

LEMMA SendIsOne ==
  ASSUME PlaneInv, OneAttempt, NEW v \in Stores, NEW k \in Keys, Send(v, k)
  PROVE  OneAttempt'
<1> DEFINE own(c) == [id |-> c, key |-> k, by |-> v, answer |-> "waiting"]
<1>1. PICK c \in Commands :
        /\ minted[c] = Nobody /\ minted' = [minted EXCEPT ![c] = k]
        /\ slots[k] = NoSlot /\ slots' = [slots EXCEPT ![k] = [id |-> c, sending |-> TRUE]]
        /\ attempts' = attempts \union {own(c)}
  BY DEF Send, Begin
<1>2. /\ slots'[k].id = c /\ slots'[k].sending /\ minted'[c] = k
      /\ \A d \in Commands \ {c} : minted'[d] = minted[d]
      /\ \A j \in Keys \ {k} : slots'[j] = slots[j]
  BY <1>1 DEF PlaneInv, PlaneTypes
<1>3. own(c).id = c /\ own(c).key = k
  OBVIOUS
<1>4. \A a \in attempts : a.id \in Commands \ {c} /\ a.key \in Keys
  BY <1>1, AttemptFacts, PlaneAssumption DEF PlaneInv, AttemptTypes, OneAttempt
<1>5. ASSUME NEW a \in attempts
      PROVE  /\ minted'[a.id] = a.key
             /\ slots'[a.key].id = a.id =>
                  slots'[a.key].sending /\ \A b \in attempts : SameCommand(a, b) => a = b
  BY <1>2, <1>4 DEF OneAttempt
<1> HIDE DEF own
<1>6. \A a \in attempts : ~SameCommand(a, own(c)) /\ ~SameCommand(own(c), a)
  BY <1>3, <1>4 DEF SameCommand
<1> QED BY <1>1, <1>2, <1>3, <1>5, <1>6 DEF OneAttempt, SameCommand

LEMMA ReplayIsOne ==
  ASSUME PlaneInv, OneAttempt, NEW v \in Stores, NEW k \in Keys, Replay(v, k)
  PROVE  OneAttempt'
<1> DEFINE c == slots[k].id
<1> DEFINE own == [id |-> c, key |-> k, by |-> v, answer |-> "waiting"]
<1>1. /\ slots[k] # NoSlot /\ ~slots[k].sending /\ slots' = [slots EXCEPT ![k].sending = TRUE]
      /\ attempts' = attempts \union {own} /\ minted' = minted
  BY DEF Replay, Begin, historyVars
<1>2. /\ slots[k] \in Slot /\ c \in Commands
      /\ slots[k] = [id |-> c, sending |-> slots[k].sending]
  BY <1>1, SlotFacts DEF PlaneInv, PlaneTypes
<1>3. /\ slots'[k].id = c /\ slots'[k].sending
      /\ \A j \in Keys \ {k} : slots'[j] = slots[j]
  BY <1>1, <1>2 DEF PlaneInv, PlaneTypes
<1>4. own.id = c /\ own.key = k /\ minted[c] = k
  BY <1>1 DEF PlaneInv, RetainsTheLast, LastOf
<1>5. \A a \in attempts : a.key \in Keys /\ ~(a.key = k /\ a.id = c)
  BY <1>1, AttemptFacts DEF PlaneInv, AttemptTypes, OneAttempt
<1>6. ASSUME NEW a \in attempts
      PROVE  /\ minted'[a.id] = a.key
             /\ slots'[a.key].id = a.id =>
                  slots'[a.key].sending /\ \A b \in attempts : SameCommand(a, b) => a = b
  BY <1>1, <1>3, <1>5 DEF OneAttempt
<1> HIDE DEF own, c
<1>7. \A a \in attempts : ~SameCommand(a, own) /\ ~SameCommand(own, a)
  BY <1>4, <1>5 DEF SameCommand
<1> QED BY <1>1, <1>3, <1>4, <1>6, <1>7 DEF OneAttempt, SameCommand

LEMMA DiscardIsOne ==
  ASSUME PlaneInv, OneAttempt, NEW v \in Stores, NEW k \in Keys, Discard(v, k)
  PROVE  OneAttempt'
<1>1. slots' = [slots EXCEPT ![k] = NoSlot] /\ UNCHANGED <<attempts, minted>>
  BY DEF Discard
<1>2. \A j \in Keys : slots'[j] = IF j = k THEN NoSlot ELSE slots[j]
  BY <1>1 DEF PlaneInv, PlaneTypes
<1>3. \A a \in attempts : a.key \in Keys /\ a.id # NoSlot.id
  BY AttemptFacts, SlotFacts DEF PlaneInv, AttemptTypes, Commands
<1> QED BY <1>1, <1>2, <1>3 DEF OneAttempt

\* An attempt that settles touches the slot only while it is its own.
LEMMA SettleTouches ==
  ASSUME PlaneInv, NEW a \in attempts, Settle(a)
  PROVE  /\ a.id \in Commands /\ a.key \in Keys
         /\ \A j \in Keys : slots'[j] = slots[j] \/ (j = a.key /\ slots[j].id = a.id)
         /\ slots'[a.key].id \in {slots[a.key].id, 0}
<1>1. a.id \in Commands /\ a.key \in Keys
  BY AttemptFacts DEF PlaneInv, AttemptTypes
<1>2. CASE slots[a.key].id # a.id
  BY <1>1, <1>2 DEF Settle
<1>3. CASE slots[a.key].id = a.id
  <2>1. slots' = [slots EXCEPT ![a.key] =
                    IF Outcome(a.answer) \in {"accepted", "rejected"} \/ slots[a.key] = NoSlot THEN NoSlot
                    ELSE [slots[a.key] EXCEPT !.sending = FALSE]]
    BY <1>1, <1>3 DEF Settle, Answered, PlaneInv, PlaneTypes
  <2>2. slots[a.key] # NoSlot => [slots[a.key] EXCEPT !.sending = FALSE].id = slots[a.key].id
    <3>1. slots[a.key] \in Slot
      BY <1>1 DEF PlaneInv, PlaneTypes
    <3> QED BY <3>1, SlotFacts
  <2>3. \A j \in Keys \ {a.key} : slots'[j] = slots[j]
    BY <1>1, <2>1 DEF PlaneInv, PlaneTypes
  <2>4. slots'[a.key].id \in {slots[a.key].id, 0}
    BY <1>1, <2>1, <2>2, SlotFacts DEF PlaneInv, PlaneTypes
  <2> QED BY <1>1, <1>3, <2>3, <2>4
<1> QED BY <1>1, <1>2, <1>3

LEMMA SettleIsOne ==
  ASSUME PlaneInv, OneAttempt, NEW a \in attempts, Settle(a)
  PROVE  OneAttempt'
<1>1. attempts' = attempts \ {a} /\ minted' = minted
  BY DEF Settle
<1>2. ASSUME NEW b \in attempts', slots'[b.key].id = b.id
      PROVE  slots'[b.key] = slots[b.key]
  <2>1. b \in attempts /\ b # a /\ b.id \in Commands /\ b.key \in Keys
    BY <1>1, AttemptFacts DEF PlaneInv, AttemptTypes
  <2>2. SUFFICES ASSUME b.key = a.key, slots[a.key].id = a.id PROVE FALSE
    BY <2>1, SettleTouches
  <2>3. b.id # 0
    BY <2>1 DEF Commands
  <2>4. b.id = a.id
    BY <1>2, <2>2, <2>3, SettleTouches
  <2> QED BY <2>1, <2>2, <2>4 DEF OneAttempt, SameCommand
<1> QED BY <1>1, <1>2 DEF OneAttempt

LEMMA OneAttemptStep ==
  ASSUME PlaneInv, RecordTypes, OneAttempt, [Next]_vars
  PROVE  OneAttempt'
<1>1. AttemptTypes
  BY DEF PlaneInv
<1>2. CASE UNCHANGED vars
  BY <1>2, NothingCarried DEF vars, historyVars
<1>3. CASE Mounting
  <2>1. UNCHANGED <<slots, minted>>
    BY <1>3 DEF Mounting, Build, Attach, Detach, Abandon, Leave, historyVars
  <2>2. attempts' = attempts \/ \E v \in Stores : Leave(v)
    BY <1>3 DEF Mounting, Build, Attach, Detach, Abandon
  <2> QED BY <1>1, <2>1, <2>2, NothingCarried, LeaveCarries, CarriedStaysOne
<1>4. CASE Clicking
  <2>1. ASSUME NEW v \in Stores, Prune(v) \/ \E k \in Keys : MintFails(v, k) \/ ForgetError(v, k)
        PROVE  UNCHANGED <<slots, minted, attempts>>
    BY <2>1 DEF Prune, MintFails, ForgetError, historyVars
  <2> QED BY <1>4, <2>1, NothingCarried, SendIsOne, ReplayIsOne, DiscardIsOne DEF Clicking
<1>5. CASE Serving
  <2>1. UNCHANGED <<slots, minted>>
    BY <1>5 DEF Serving, Reads, Excuse, Decide, GateMoves, linkVars, historyVars
  <2>2. attempts' = attempts \/ \E c \in Commands, answers \in SUBSET Answers : Reply(c, answers)
    BY <1>5, ServingReplies DEF Serving, Decide, GateMoves
  <2> QED BY <1>1, <2>1, <2>2, NothingCarried, ReplyCarries, CarriedStaysOne
<1>6. CASE \E a \in attempts : Lose(a)
  <2>1. UNCHANGED <<slots, minted>>
    BY <1>6 DEF Lose, linkVars, historyVars
  <2> QED BY <1>1, <1>6, <2>1, LoseCarries, CarriedStaysOne
<1>7. CASE \E a \in attempts : Settle(a)
  BY <1>7, SettleIsOne
<1> QED BY <1>2, <1>3, <1>4, <1>5, <1>6, <1>7 DEF Next

-----------------------------------------------------------------------------
StoresShape == stores = [v \in Stores |-> stores[v]]

LEMMA StoresStep ==
  ASSUME StoresShape, [Next]_vars
  PROVE  StoresShape'
<1>1. CASE stores' = stores
  BY <1>1 DEF StoresShape
<1>2. CASE \E v \in Stores : \E x : stores' = [stores EXCEPT ![v] = x]
  BY <1>2 DEF StoresShape
<1>3. CASE \E v : Emit(v)
  <2>1. PICK v : Emit(v)
    BY <1>3
  <2> DEFINE To(w) == IF w \in Attached \/ (w = v /\ stores[w].phase = "built")
                      THEN [stores[w] EXCEPT !.seen = [slots |-> slots', errors |-> errors']]
                      ELSE stores[w]
  <2>2. stores' = [w \in Stores |-> To(w)]
    BY <2>1 DEF Emit
  <2> HIDE DEF To
  <2> QED BY <2>2 DEF StoresShape
<1>4. \/ stores' = stores
      \/ \E v \in Stores : \E x : stores' = [stores EXCEPT ![v] = x]
      \/ \E v : Emit(v)
  <2>1. CASE UNCHANGED vars
    BY <2>1 DEF vars
  <2>2. CASE Mounting
    BY <2>2 DEF Mounting, Build, Attach, Detach, Abandon, Leave
  <2>3. CASE Clicking
    BY <2>3 DEF Clicking, Prune, Send, MintFails, Replay, Discard, ForgetError
  <2>4. CASE Serving
    BY <2>4 DEF Serving, Reads, Excuse, Decide, GateMoves, linkVars
  <2>5. CASE \E a \in attempts : Lose(a) \/ Settle(a)
    BY <2>5 DEF Lose, Settle, Answered, linkVars
  <2> QED BY <2>1, <2>2, <2>3, <2>4, <2>5 DEF Next
<1> QED BY <1>1, <1>2, <1>3, <1>4

\* An input of the page is remembered, or it has ended, or the page's own
\* attempt of it is under way.
Ended(c) == told[c] \in {"cancelled", "rejected"} /\ slots[RouteKey].id # c
IsUnderWay(a, c) == a.id = c /\ a.key = RouteKey /\ a.by = Route
UnderWay(c) == slots[RouteKey].id = c /\ \E a \in attempts : IsUnderWay(a, c)
Sighted(c) == c \in Commands /\ minted[c] = RouteKey /\ (c \in sent \/ Ended(c) \/ UnderWay(c))
SightInv == \A c \in here : Sighted(c)

PagesInv == PlaneInv /\ RecordTypes /\ OneAttempt /\ StoresShape /\ SightInv

LEMMA RouteFacts ==
  Route \in Stores /\ RouteKey \in Keys /\ RouteKey # Nobody
  BY PagesAssumption, PlaneAssumption

\* The page's own attempts are carried along with the others.
CarriedByRoute(m) == Carried(m) /\ \A a \in attempts : a.by = Route => m[a].by = Route

LEMMA CarriedStaysInSight ==
  ASSUME SightInv, NEW m \in [attempts -> Attempt], CarriedByRoute(m),
         UNCHANGED <<slots, minted, told, sent, here>>
  PROVE  SightInv'
<1> SUFFICES ASSUME NEW c \in here PROVE Sighted(c)'
  BY DEF SightInv
<1>1. Sighted(c)
  BY DEF SightInv
<1>2. ASSUME UnderWay(c) PROVE UnderWay(c)'
  <2>1. PICK a \in attempts : IsUnderWay(a, c)
    BY <1>2 DEF UnderWay
  <2>2. m[a] \in attempts' /\ IsUnderWay(m[a], c)
    BY <2>1 DEF CarriedByRoute, Carried, SameCommand, IsUnderWay
  <2> QED BY <1>2, <2>2 DEF UnderWay, IsUnderWay
<1> QED BY <1>1, <1>2 DEF Sighted, Ended

LEMMA NothingLeavesSight ==
  ASSUME SightInv, UNCHANGED <<slots, minted, told, sent, here, attempts>>
  PROVE  SightInv'
  BY DEF SightInv, Sighted, Ended, UnderWay, IsUnderWay

LEMMA MountingInSight ==
  ASSUME PagesInv, RouteMounts
  PROVE  SightInv'
<1>1. UNCHANGED <<slots, minted, told>>
  BY DEF RouteMounts, Mounting, Build, Attach, Detach, Abandon, Leave, historyVars
<1>2. CASE stores'[Route].phase = "unmounted"
  BY <1>2 DEF RouteMounts, SightInv
<1>3. CASE stores'[Route].phase # "unmounted"
  <2>1. UNCHANGED <<sent, here>>
    BY <1>3 DEF RouteMounts
  <2>2. attempts' = attempts \/ \E v \in Stores : Leave(v)
    BY DEF RouteMounts, Mounting, Build, Attach, Detach, Abandon
  <2>3. ASSUME NEW v \in Stores, Leave(v) PROVE SightInv'
    <3>1. v # Route
      BY <1>3, <2>3, RouteFacts DEF Leave, Unmounted, PagesInv, StoresShape
    <3>2. PICK m \in [attempts -> Attempt] : Carried(m) /\ \A a \in attempts : a.by # v => m[a].by = a.by
      BY <2>3, LeaveCarries DEF PagesInv, PlaneInv
    <3> QED BY <1>1, <2>1, <3>1, <3>2, CarriedStaysInSight DEF PagesInv, CarriedByRoute
  <2> QED BY <1>1, <2>1, <2>2, <2>3, NothingLeavesSight DEF PagesInv
<1> QED BY <1>2, <1>3

\* Whoever sends, the identity is new, and no other slot or attempt is touched.
LEMMA SendInSight ==
  ASSUME PagesInv, NEW v \in Stores, NEW k \in Keys, Send(v, k), sent' = sent,
         NEW c \in here
  PROVE  Sighted(c)'
<1>1. PICK d \in Commands :
        /\ minted[d] = Nobody /\ minted' = [minted EXCEPT ![d] = k]
        /\ slots[k] = NoSlot /\ slots' = [slots EXCEPT ![k] = [id |-> d, sending |-> TRUE]]
        /\ attempts \subseteq attempts' /\ told' = told
  BY DEF Send, Begin
<1>2. Sighted(c) /\ c # d
  BY <1>1, RouteFacts DEF PagesInv, SightInv, Sighted
<1>3. minted'[c] = RouteKey
  BY <1>1, <1>2 DEF Sighted, PagesInv, PlaneInv, PlaneTypes
<1>4. slots'[RouteKey] = IF RouteKey = k THEN [id |-> d, sending |-> TRUE] ELSE slots[RouteKey]
  BY <1>1, RouteFacts DEF PagesInv, PlaneInv, PlaneTypes
<1>5. Ended(c) => Ended(c)'
  BY <1>1, <1>2, <1>4 DEF Ended
<1>6. UnderWay(c) => UnderWay(c)'
  <2>1. UnderWay(c) => RouteKey # k
    BY <1>1, <1>2, SlotFacts DEF UnderWay, Sighted, Commands
  <2> QED BY <1>1, <1>4, <2>1 DEF UnderWay, IsUnderWay
<1> QED BY <1>2, <1>3, <1>5, <1>6 DEF Sighted

LEMMA ReplayInSight ==
  ASSUME PagesInv, NEW v \in Stores, NEW k \in Keys, Replay(v, k), sent' = sent,
         NEW c \in here
  PROVE  Sighted(c)'
<1>1. /\ slots[k] # NoSlot /\ slots' = [slots EXCEPT ![k].sending = TRUE]
      /\ attempts \subseteq attempts' /\ UNCHANGED <<minted, told>>
  BY DEF Replay, Begin, historyVars
<1>2. slots[k] \in Slot
  BY DEF PagesInv, PlaneInv, PlaneTypes
<1>3. [slots[k] EXCEPT !.sending = TRUE].id = slots[k].id
  BY <1>1, <1>2, SlotFacts
<1>4. slots'[RouteKey].id = slots[RouteKey].id
  BY <1>1, <1>3, RouteFacts DEF PagesInv, PlaneInv, PlaneTypes
<1>5. Sighted(c)
  BY DEF PagesInv, SightInv
<1>6. Ended(c) => Ended(c)'
  BY <1>1, <1>4 DEF Ended
<1>7. UnderWay(c) => UnderWay(c)'
  BY <1>1, <1>4 DEF UnderWay, IsUnderWay
<1> QED BY <1>1, <1>5, <1>6, <1>7 DEF Sighted

LEMMA RouteSendsInSight ==
  ASSUME PagesInv, RouteSends
  PROVE  SightInv'
<1>0. PICK c : c = slots'[RouteKey].id
  OBVIOUS
<1> DEFINE own == [id |-> c, key |-> RouteKey, by |-> Route, answer |-> "waiting"]
<1>1. sent' = sent /\ here' = here \union {c} /\ (Send(Route, RouteKey) \/ Replay(Route, RouteKey))
  BY <1>0 DEF RouteSends
<1>2. c \in Commands /\ minted'[c] = RouteKey /\ own \in attempts'
  <2>1. CASE Send(Route, RouteKey)
    <3>1. PICK d \in Commands :
            /\ minted' = [minted EXCEPT ![d] = RouteKey]
            /\ slots' = [slots EXCEPT ![RouteKey] = [id |-> d, sending |-> TRUE]]
            /\ Begin(Route, RouteKey, d)
      BY <2>1 DEF Send
    <3>2. c = d
      BY <1>0, <3>1, RouteFacts DEF PagesInv, PlaneInv, PlaneTypes
    <3>3. minted'[d] = RouteKey
      BY <3>1 DEF PagesInv, PlaneInv, PlaneTypes
    <3> QED BY <3>1, <3>2, <3>3 DEF Begin
  <2>2. CASE Replay(Route, RouteKey)
    <3>1. /\ slots[RouteKey] # NoSlot /\ slots' = [slots EXCEPT ![RouteKey].sending = TRUE]
          /\ Begin(Route, RouteKey, slots[RouteKey].id) /\ minted' = minted
      BY <2>2 DEF Replay, historyVars
    <3>2. slots[RouteKey] \in Slot
      BY RouteFacts DEF PagesInv, PlaneInv, PlaneTypes
    <3>3. [slots[RouteKey] EXCEPT !.sending = TRUE].id = slots[RouteKey].id
      BY <3>1, <3>2, SlotFacts
    <3>4. c = slots[RouteKey].id
      BY <1>0, <3>1, <3>3, RouteFacts DEF PagesInv, PlaneInv, PlaneTypes
    <3>5. c \in Commands /\ minted[c] = RouteKey
      BY <3>1, <3>4, RouteFacts DEF PagesInv, PlaneInv, RetainsTheLast, LastOf
    <3> QED BY <3>1, <3>4, <3>5 DEF Begin
  <2> QED BY <1>1, <2>1, <2>2
<1>3. IsUnderWay(own, c)
  BY DEF IsUnderWay
<1>4. Sighted(c)'
  <2> HIDE DEF own
  <2> QED BY <1>0, <1>2, <1>3 DEF Sighted, UnderWay, IsUnderWay
<1>5. \A d \in here : Sighted(d)'
  BY <1>1, RouteFacts, SendInSight, ReplayInSight
<1> QED BY <1>1, <1>4, <1>5 DEF SightInv

LEMMA DiscardInSight ==
  ASSUME PagesInv, NEW v \in Stores, NEW k \in Keys, Discard(v, k), here' = here,
         \A c \in sent : c \in sent' \/ (k = RouteKey /\ c = slots[k].id)
  PROVE  SightInv'
<1> SUFFICES ASSUME NEW c \in here PROVE Sighted(c)'
  BY DEF SightInv
<1>1. /\ slots' = [slots EXCEPT ![k] = NoSlot] /\ UNCHANGED <<attempts, minted>>
      /\ told' = IF slots[k] = NoSlot THEN told ELSE [told EXCEPT ![slots[k].id] = "cancelled"]
  BY DEF Discard
<1>2. slots'[RouteKey] = IF k = RouteKey THEN NoSlot ELSE slots[RouteKey]
  BY <1>1, RouteFacts DEF PagesInv, PlaneInv, PlaneTypes
<1>3. Sighted(c) /\ c \in Commands /\ c # NoSlot.id
  BY SlotFacts DEF PagesInv, SightInv, Sighted, Commands
<1>4. CASE k = RouteKey /\ c = slots[k].id
  <2>1. slots[k] # NoSlot
    BY <1>3, <1>4
  <2>2. told'[c] = "cancelled" /\ slots'[RouteKey].id # c
    BY <1>1, <1>2, <1>3, <1>4, <2>1 DEF PagesInv, PlaneInv, PlaneTypes
  <2> QED BY <1>1, <1>3, <2>2 DEF Sighted, Ended
<1>5. CASE ~(k = RouteKey /\ c = slots[k].id)
  <2>1. Ended(c) => Ended(c)'
    <3>1. told'[c] \in {told[c], "cancelled"}
      BY <1>1, <1>3 DEF PagesInv, PlaneInv, PlaneTypes
    <3> QED BY <1>2, <1>3, <3>1 DEF Ended
  <2>2. UnderWay(c) => UnderWay(c)'
    BY <1>1, <1>2, <1>5 DEF UnderWay, IsUnderWay
  <2>3. c \in sent => c \in sent'
    BY <1>5
  <2> QED BY <1>1, <1>3, <2>1, <2>2, <2>3 DEF Sighted
<1> QED BY <1>4, <1>5

LEMMA SettleInSight ==
  ASSUME PagesInv, NEW a \in attempts, RouteSettles(a)
  PROVE  SightInv'
<1> SUFFICES ASSUME NEW c \in here PROVE Sighted(c)'
  BY DEF SightInv, RouteSettles
<1>1. Settle(a) /\ minted' = minted /\ attempts' = attempts \ {a} /\ sent \subseteq sent'
  BY DEF RouteSettles, Settle
<1>2. Sighted(c) /\ c \in Commands /\ c # 0 /\ minted[a.id] = a.key
  BY DEF PagesInv, SightInv, Sighted, Commands, OneAttempt
<1>3. /\ a.id \in Commands
      /\ slots'[RouteKey] = slots[RouteKey] \/ (RouteKey = a.key /\ slots[RouteKey].id = a.id)
      /\ slots'[RouteKey].id \in {slots[RouteKey].id, 0}
  BY <1>1, RouteFacts, SettleTouches DEF PagesInv
<1>4. ASSUME Ended(c) PROVE Ended(c)'
  <2>1. told'[c] = told[c]
    <3>1. CASE slots[a.key].id # a.id
      BY <1>1, <3>1 DEF Settle
    <3>2. CASE slots[a.key].id = a.id
      <4>1. a.id # c
        BY <1>2, <1>4, <3>2 DEF Ended, Sighted
      <4> QED BY <1>1, <1>2, <3>2, <4>1 DEF Settle, Answered, PagesInv, PlaneInv, PlaneTypes
    <3> QED BY <3>1, <3>2
  <2> QED BY <1>2, <1>3, <1>4, <2>1 DEF Ended
<1>5. ASSUME UnderWay(c) PROVE Sighted(c)'
  <2>1. PICK b \in attempts : IsUnderWay(b, c)
    BY <1>5 DEF UnderWay
  <2>2. CASE a = b
    <3>1. a.id = c /\ a.key = RouteKey /\ a.by = Route /\ slots[a.key].id = a.id
      BY <1>5, <2>1, <2>2 DEF UnderWay, IsUnderWay
    <3>2. a.answer \in Answers \ {"waiting"} /\ sent' = sent \union Remembered(a)
      BY <1>1, <3>1, AttemptFacts DEF Settle, RouteSettles, PagesInv, PlaneInv, AttemptTypes
    <3>3. Outcome(a.answer) \in {"accepted", "pending", "unknown"} \/ Outcome(a.answer) = "rejected"
      BY <3>2 DEF Outcome, Answers
    <3>4. CASE Outcome(a.answer) \in {"accepted", "pending", "unknown"}
      BY <1>1, <1>2, <3>1, <3>2, <3>4 DEF Remembered, Sighted
    <3>5. CASE Outcome(a.answer) = "rejected"
      <4>1. told' = [told EXCEPT ![c] = "rejected"] /\ slots' = [slots EXCEPT ![RouteKey] = NoSlot]
        BY <1>1, <3>1, <3>5, RouteFacts DEF Settle, Answered, PagesInv, PlaneInv, PlaneTypes
      <4>2. told'[c] = "rejected" /\ slots'[RouteKey].id = 0
        BY <1>2, <4>1, RouteFacts, SlotFacts DEF PagesInv, PlaneInv, PlaneTypes
      <4> QED BY <1>1, <1>2, <4>2 DEF Sighted, Ended
    <3> QED BY <3>3, <3>4, <3>5
  <2>3. CASE a # b
    <3>1. ~(RouteKey = a.key /\ slots[RouteKey].id = a.id)
      BY <1>5, <2>1, <2>3 DEF UnderWay, IsUnderWay, PagesInv, OneAttempt, SameCommand
    <3>2. UnderWay(c)'
      BY <1>1, <1>3, <1>5, <2>1, <2>3, <3>1 DEF UnderWay, IsUnderWay
    <3> QED BY <1>1, <1>2, <3>2 DEF Sighted
  <2> QED BY <2>2, <2>3
<1> QED BY <1>1, <1>2, <1>4, <1>5 DEF Sighted

LEMMA BesideInSight ==
  ASSUME PagesInv, Beside
  PROVE  SightInv'
<1>1. UNCHANGED <<sent, here>>
  BY DEF Beside, composerVars
<1>2. AttemptTypes /\ SightInv
  BY DEF PagesInv, PlaneInv
<1>3. CASE Serving
  <2>1. UNCHANGED <<slots, minted, told>>
    BY <1>3 DEF Serving, Reads, Excuse, Decide, GateMoves, linkVars, historyVars
  <2>2. attempts' = attempts \/ \E c \in Commands, answers \in SUBSET Answers : Reply(c, answers)
    BY <1>3, ServingReplies DEF Serving, Decide, GateMoves, PagesInv
  <2>3. ASSUME NEW c \in Commands, NEW answers \in SUBSET Answers, Reply(c, answers) PROVE SightInv'
    <3>1. PICK m \in [attempts -> Attempt] : Carried(m) /\ \A a \in attempts : m[a].by = a.by
      BY <1>2, <2>3, ReplyCarries
    <3> QED BY <1>1, <1>2, <2>1, <3>1, CarriedStaysInSight DEF CarriedByRoute
  <2> QED BY <1>1, <1>2, <2>1, <2>2, <2>3, NothingLeavesSight
<1>4. ASSUME NEW a \in attempts, Lose(a) PROVE SightInv'
  <2>1. UNCHANGED <<slots, minted, told>>
    BY <1>4 DEF Lose, linkVars, historyVars
  <2>2. PICK m \in [attempts -> Attempt] : Carried(m) /\ \A b \in attempts : m[b].by = b.by
    BY <1>2, <1>4, LoseCarries
  <2> QED BY <1>1, <1>2, <2>1, <2>2, CarriedStaysInSight DEF CarriedByRoute
<1>5. ASSUME NEW v \in Stores, Prune(v) \/ \E k \in Keys : MintFails(v, k) \/ ForgetError(v, k)
      PROVE  SightInv'
  <2>1. UNCHANGED <<slots, minted, told, attempts>>
    BY <1>5 DEF Prune, MintFails, ForgetError, historyVars
  <2> QED BY <1>1, <1>2, <2>1, NothingLeavesSight
<1>6. ASSUME NEW v \in Stores, NEW k \in Keys, Send(v, k) \/ Replay(v, k) \/ Discard(v, k)
      PROVE  SightInv'
  BY <1>1, <1>6, SendInSight, ReplayInSight, DiscardInSight DEF SightInv
<1> QED BY <1>3, <1>4, <1>5, <1>6 DEF Beside

LEMMA SightStep ==
  ASSUME PagesInv, [PagesNext]_<<vars, pagesVars>>
  PROVE  SightInv'
<1>1. SightInv
  BY DEF PagesInv
<1>2. CASE UNCHANGED <<vars, composerVars>> \/ \E c \in Commands : Journaled(c)
  BY <1>1, <1>2, NothingLeavesSight DEF vars, historyVars, composerVars, Journaled
<1>3. CASE RouteDiscards
  <2>1. /\ Discard(Route, RouteKey) /\ here' = here
        /\ \A c \in sent : c \in sent' \/ c = slots[RouteKey].id
    BY <1>3 DEF RouteDiscards
  <2> QED BY <2>1, RouteFacts, DiscardInSight
<1> QED BY <1>2, <1>3, MountingInSight, RouteSendsInSight, SettleInSight, BesideInSight
        DEF PagesNext, pagesVars

\* An input sent from the session's page stays in sight while the Factory may
\* have it: the control retains it or the page awaits its agent, whichever
\* replies are lost and whoever else uses the control.  Where a Core error
\* decides nothing the page forgets an input that was admitted
\* (session-detail-route.tsx:95-103).
THEOREM InputsStayInSight == ~Excuses => (PagesSpec => []InputInSight)
<1> SUFFICES ASSUME ~Excuses PROVE PagesSpec => []InputInSight
  OBVIOUS
<1>1. PagesInit => PagesInv /\ TruthInv
  BY InitPlane, InitTruth
     DEF PagesInit, PagesInv, Init, OneAttempt, StoresShape, SightInv
<1>2. PagesInv /\ TruthInv /\ [PagesNext]_<<vars, pagesVars>> => (PagesInv /\ TruthInv)'
  <2> SUFFICES ASSUME PagesInv, TruthInv, [PagesNext]_<<vars, pagesVars>>
               PROVE  (PagesInv /\ TruthInv)'
    OBVIOUS
  <2>1. [Next]_vars
    BY PagesAreSteps
  <2> QED BY <2>1, PlaneStep, RecordStep, TruthStep, OneAttemptStep, StoresStep, SightStep DEF PagesInv
<1>3. PagesInv /\ TruthInv => InputInSight
  BY DEF PagesInv, SightInv, Sighted, Ended, UnderWay, InputInSight, Awaiting, TruthInv, ToldAsDecided
<1> QED BY <1>1, <1>2, <1>3, PTL DEF PagesSpec

-----------------------------------------------------------------------------
(* The shell.                                                              *)

Whoever == Principals \union {"nobody", "failed", "none"}
Read == [what : {"bootstrap", "list"}, number : Nat, cursor : Nat, answer : Whoever]
Listed == [page : [of : Whoever, cursor : Nat], loading : BOOLEAN, loaded : BOOLEAN, error : BOOLEAN]

ShellTypes ==
    /\ principal \in Whoever /\ informed \in BOOLEAN
    /\ result \in [state : {"reading", "ready", "failed"}, tenant : Whoever]
    /\ list \in Listed /\ reads \subseteq Read /\ latest \in [bootstrap : Nat, list : Nat]

\* The last read of each kind, in plain terms.
IsLast(r) == \/ r.what = "bootstrap" /\ r.number = latest.bootstrap
             \/ r.what = "list" /\ r.number = latest.list
NoneAhead ==
    \A r \in reads : /\ r.what = "bootstrap" => r.number <= latest.bootstrap
                     /\ r.what = "list" => r.number <= latest.list
OneLast == \A r, s \in reads : IsLast(r) /\ IsLast(s) /\ r.what = s.what => r = s

\* What the last reads were answered is said of the caller the shell was told of.
LastIsTrue ==
    \A r \in reads : IsLast(r) =>
       /\ informed /\ r.answer \notin {"none", "failed"} => r.answer = principal
       /\ r.what = "list" => r.cursor = asked
LoadsWhileRead == list.loading <=> \E r \in reads : r.what = "list" /\ IsLast(r)
ShowsWhatWasAsked ==
    /\ ~list.loading /\ list.loaded /\ ~list.error => list.page.cursor = asked
    /\ ~list.loaded => list.page = NoPage

ReadsInv == NoneAhead /\ OneLast /\ LastIsTrue
ListInv == LoadsWhileRead /\ ShowsWhatWasAsked
ShellInv == ShellTypes /\ ReadsInv /\ ListInv /\ OwnPagesOnly

LEMMA LastIsCurrent ==
  ASSUME NEW r \in Read
  PROVE  Current(r) <=> IsLast(r)
  BY DEF Current, IsLast, Read

LEMMA InitShell == PagesInit => ShellInv
<1> SUFFICES ASSUME PagesInit PROVE ShellInv
  OBVIOUS
<1> DEFINE first == [what |-> "bootstrap", number |-> 1, cursor |-> 0, answer |-> "none"]
<1>1. /\ principal \in Whoever /\ informed = TRUE
      /\ result = [state |-> "reading", tenant |-> "nobody"] /\ list = NothingListed
      /\ latest = [bootstrap |-> 1, list |-> 0] /\ reads \subseteq {first}
  BY DEF PagesInit, Whoever
<1>2. NothingListed \in Listed /\ NothingListed.page = NoPage
      /\ NothingListed.loading = FALSE /\ NothingListed.loaded = FALSE
  BY DEF NothingListed, NoPage, Listed, Whoever
<1>3. first \in Read
  BY DEF Read, Whoever
<1>4. ShellTypes
  BY <1>1, <1>2, <1>3 DEF ShellTypes, Whoever
<1>5. ReadsInv
  BY <1>1 DEF ReadsInv, NoneAhead, OneLast, LastIsTrue, IsLast
<1>6. ListInv
  BY <1>1, <1>2 DEF ListInv, LoadsWhileRead, ShowsWhatWasAsked, IsLast
<1>7. OwnPagesOnly
  BY <1>1, <1>2 DEF OwnPagesOnly
<1> QED BY <1>4, <1>5, <1>6, <1>7 DEF ShellInv

-----------------------------------------------------------------------------
\* A request that leaves is the last of its kind and has no answer.
NewRead(w, n, c) == [what |-> w, number |-> n, cursor |-> c, answer |-> "none"]

LEMMA NewReadFacts ==
  ASSUME NEW w \in {"bootstrap", "list"}, NEW n \in Nat, NEW c \in Nat
  PROVE  /\ NewRead(w, n, c) \in Read
         /\ NewRead(w, n, c).what = w /\ NewRead(w, n, c).number = n
         /\ NewRead(w, n, c).cursor = c /\ NewRead(w, n, c).answer = "none"
  BY DEF NewRead, Read, Whoever

LEMMA BootstrapAsked ==
  ASSUME ShellTypes, ReadsInv, reads' = reads \union {NewRead("bootstrap", latest.bootstrap + 1, 0)},
         latest' = [bootstrap |-> latest.bootstrap + 1, list |-> latest.list],
         asked' = asked, informed' = informed, principal' = principal
  PROVE  /\ reads' \subseteq Read /\ latest' \in [bootstrap : Nat, list : Nat] /\ ReadsInv'
         /\ (LoadsWhileRead /\ list'.loading = list.loading => LoadsWhileRead')
<1>0. PICK new : new = NewRead("bootstrap", latest.bootstrap + 1, 0) /\ reads' = reads \union {new}
  OBVIOUS
<1>1. latest.bootstrap \in Nat /\ latest.list \in Nat /\ reads \subseteq Read
      /\ latest'.bootstrap = latest.bootstrap + 1 /\ latest'.list = latest.list
  BY DEF ShellTypes
<1>2. /\ new \in Read /\ new.what = "bootstrap" /\ new.number = latest.bootstrap + 1
      /\ new.answer = "none"
  BY <1>0, <1>1, NewReadFacts
<1>3. IsLast(new)' /\ \A r \in reads : IsLast(r)' <=> IsLast(r) /\ r.what = "list"
  BY <1>1, <1>2 DEF IsLast, ReadsInv, NoneAhead, Read
<1>4. NoneAhead'
  BY <1>0, <1>1, <1>2 DEF ReadsInv, NoneAhead, Read
<1>5. OneLast'
  BY <1>0, <1>2, <1>3 DEF ReadsInv, OneLast
<1>6. LastIsTrue'
  BY <1>0, <1>2, <1>3 DEF ReadsInv, LastIsTrue
<1>7. LoadsWhileRead /\ list'.loading = list.loading => LoadsWhileRead'
  BY <1>0, <1>2, <1>3 DEF LoadsWhileRead
<1> QED BY <1>0, <1>1, <1>2, <1>4, <1>5, <1>6, <1>7 DEF ReadsInv

LEMMA ListAsked ==
  ASSUME ShellTypes, NEW kept \in SUBSET reads, NEW c \in Nat, ReadsInv,
         reads' = kept \union {NewRead("list", latest.list + 1, c)},
         latest' = [bootstrap |-> latest.bootstrap, list |-> latest.list + 1],
         asked' = c, list' \in Listed, list'.loading, informed' = informed, principal' = principal
  PROVE  /\ reads' \subseteq Read /\ latest' \in [bootstrap : Nat, list : Nat] /\ ReadsInv'
         /\ LoadsWhileRead'
<1>0. PICK new : new = NewRead("list", latest.list + 1, c) /\ reads' = kept \union {new}
  OBVIOUS
<1>1. latest.bootstrap \in Nat /\ latest.list \in Nat /\ reads \subseteq Read
      /\ latest'.list = latest.list + 1 /\ latest'.bootstrap = latest.bootstrap
  BY DEF ShellTypes
<1>2. /\ new \in Read /\ new.what = "list" /\ new.number = latest.list + 1
      /\ new.answer = "none" /\ new.cursor = c
  BY <1>0, <1>1, NewReadFacts
<1>3. IsLast(new)' /\ \A r \in kept : IsLast(r)' <=> IsLast(r) /\ r.what = "bootstrap"
  BY <1>1, <1>2 DEF IsLast, ReadsInv, NoneAhead, Read
<1>4. NoneAhead'
  BY <1>0, <1>1, <1>2 DEF ReadsInv, NoneAhead, Read
<1>5. OneLast'
  BY <1>0, <1>2, <1>3 DEF ReadsInv, OneLast
<1>6. LastIsTrue'
  BY <1>0, <1>2, <1>3 DEF ReadsInv, LastIsTrue
<1>7. LoadsWhileRead'
  BY <1>0, <1>2, <1>3 DEF LoadsWhileRead
<1> QED BY <1>0, <1>1, <1>2, <1>4, <1>5, <1>6, <1>7 DEF ReadsInv

LEMMA LoginKeeps ==
  ASSUME ShellInv, Login
  PROVE  ShellInv'
<1>1. /\ principal' \in Principals \union {"nobody"} /\ informed' = FALSE
      /\ UNCHANGED <<result, list, reads, latest, asked>>
  BY DEF Login
<1>2. ShellTypes'
  BY <1>1 DEF ShellInv, ShellTypes, Whoever
<1>3. ReadsInv' /\ ListInv' /\ OwnPagesOnly'
  BY <1>1 DEF ShellInv, ReadsInv, NoneAhead, OneLast, LastIsTrue, IsLast,
              ListInv, LoadsWhileRead, ShowsWhatWasAsked, OwnPagesOnly
<1> QED BY <1>2, <1>3 DEF ShellInv

LEMMA GenerationKeeps ==
  ASSUME ShellInv, NewGeneration
  PROVE  ShellInv'
<1> DEFINE new == NewRead("bootstrap", latest.bootstrap + 1, 0)
<1>1. /\ informed' = TRUE /\ result' = [state |-> "reading", tenant |-> "nobody"]
      /\ list' = NothingListed
      /\ latest' = [bootstrap |-> latest.bootstrap + 1, list |-> latest.list + 1]
      /\ reads' = reads \union {new}
      /\ principal' = principal /\ asked' = asked
  BY DEF NewGeneration, NewRead
<1>2. latest.bootstrap \in Nat /\ latest.list \in Nat /\ reads \subseteq Read
  BY DEF ShellInv, ShellTypes
<1>3. new \in Read /\ new.what = "bootstrap" /\ new.number = latest.bootstrap + 1 /\ new.answer = "none"
  BY <1>2, NewReadFacts
<1> HIDE DEF new
<1>4. NothingListed \in Listed /\ NothingListed.page = NoPage
      /\ NothingListed.loading = FALSE /\ NothingListed.loaded = FALSE
  BY DEF NothingListed, NoPage, Listed, Whoever
<1>5. \A r \in reads : ~IsLast(r)'
  BY <1>1, <1>2 DEF IsLast, ShellInv, ReadsInv, NoneAhead, Read
<1>6. ShellTypes'
  BY <1>1, <1>2, <1>3, <1>4 DEF ShellInv, ShellTypes, Whoever
<1>7. NoneAhead'
  BY <1>1, <1>2, <1>3 DEF ShellInv, ReadsInv, NoneAhead, Read
<1>8. OneLast' /\ LastIsTrue'
  BY <1>1, <1>3, <1>5 DEF OneLast, LastIsTrue
<1>9. ListInv'
  BY <1>1, <1>3, <1>4, <1>5 DEF ListInv, LoadsWhileRead, ShowsWhatWasAsked
<1>10. OwnPagesOnly'
  BY <1>1, <1>4 DEF OwnPagesOnly
<1> QED BY <1>6, <1>7, <1>8, <1>9, <1>10 DEF ShellInv, ReadsInv

LEMMA RetryKeeps ==
  ASSUME ShellInv, RetryBootstrap
  PROVE  ShellInv'
<1>1. /\ result' = [result EXCEPT !.state = "reading"]
      /\ latest' = [latest EXCEPT !["bootstrap"] = @ + 1]
      /\ reads' = reads \union {NewRead("bootstrap", latest["bootstrap"] + 1, 0)}
      /\ UNCHANGED <<principal, informed, list, asked>>
  BY DEF RetryBootstrap, Asks, NewRead
<1>2. /\ latest["bootstrap"] = latest.bootstrap
      /\ latest' = [bootstrap |-> latest.bootstrap + 1, list |-> latest.list]
  BY <1>1 DEF ShellInv, ShellTypes
<1>3. /\ reads' \subseteq Read /\ latest' \in [bootstrap : Nat, list : Nat] /\ ReadsInv'
      /\ LoadsWhileRead'
  BY <1>1, <1>2, BootstrapAsked DEF ShellInv, ListInv
<1>4. /\ result' \in [state : {"reading", "ready", "failed"}, tenant : Whoever]
      /\ result'.state = "reading"
  BY <1>1 DEF ShellInv, ShellTypes
<1>5. ShellTypes'
  BY <1>1, <1>3, <1>4 DEF ShellInv, ShellTypes
<1>6. ListInv'
  BY <1>1, <1>3 DEF ShellInv, ListInv, ShowsWhatWasAsked
<1>7. OwnPagesOnly'
  BY <1>1, <1>4 DEF ShellInv, OwnPagesOnly
<1> QED BY <1>3, <1>5, <1>6, <1>7 DEF ShellInv

LEMMA ReachedKeeps ==
  ASSUME ShellInv, NEW r \in reads, Reached(r)
  PROVE  ShellInv'
<1>1. PICK answer \in {principal, "failed"} :
        reads' = (reads \ {r}) \union {[r EXCEPT !.answer = answer]}
  BY DEF Reached
<1>2. UNCHANGED <<principal, informed, result, list, latest, asked>>
  BY DEF Reached
<1>3. PICK new : new = [r EXCEPT !.answer = answer] /\ reads' = (reads \ {r}) \union {new}
  BY <1>1
<1>4. r \in Read /\ answer \in Whoever
  BY <1>1 DEF ShellInv, ShellTypes, Whoever
<1>5. /\ new \in Read /\ new.what = r.what /\ new.number = r.number /\ new.cursor = r.cursor
      /\ new.answer = answer
  BY <1>3, <1>4 DEF Read
<1>6. (IsLast(new)' <=> IsLast(r)) /\ \A s : IsLast(s)' <=> IsLast(s)
  BY <1>2, <1>5 DEF IsLast
<1>7. ShellTypes'
  BY <1>2, <1>3, <1>5 DEF ShellInv, ShellTypes
<1>8. NoneAhead'
  BY <1>2, <1>3, <1>5 DEF ShellInv, ReadsInv, NoneAhead
<1>9. OneLast'
  BY <1>3, <1>5, <1>6 DEF ShellInv, ReadsInv, OneLast
<1>10. LastIsTrue'
  BY <1>1, <1>2, <1>3, <1>5, <1>6 DEF ShellInv, ReadsInv, LastIsTrue
<1>11. LoadsWhileRead'
  BY <1>2, <1>3, <1>5, <1>6 DEF ShellInv, ListInv, LoadsWhileRead
<1>12. ShowsWhatWasAsked' /\ OwnPagesOnly'
  BY <1>2 DEF ShellInv, ListInv, ShowsWhatWasAsked, OwnPagesOnly
<1> QED BY <1>7, <1>8, <1>9, <1>10, <1>11, <1>12 DEF ShellInv, ReadsInv, ListInv

LEMMA ReadDropped ==
  ASSUME ShellInv, NEW r \in reads, reads' = reads \ {r},
         UNCHANGED <<principal, informed, latest, asked>>
  PROVE  /\ reads' \subseteq Read /\ ReadsInv'
         /\ ~(r.what = "list" /\ IsLast(r)) /\ list'.loading = list.loading => LoadsWhileRead'
<1>1. \A s : IsLast(s)' <=> IsLast(s)
  BY DEF IsLast
<1>2. reads' \subseteq Read /\ NoneAhead' /\ OneLast' /\ LastIsTrue'
  BY <1>1 DEF ShellInv, ShellTypes, ReadsInv, NoneAhead, OneLast, LastIsTrue
<1>3. ~(r.what = "list" /\ IsLast(r)) /\ list'.loading = list.loading => LoadsWhileRead'
  BY <1>1 DEF ShellInv, ListInv, LoadsWhileRead
<1> QED BY <1>2, <1>3 DEF ReadsInv

LEMMA BootstrapKeeps ==
  ASSUME ShellInv, NEW r \in reads, BootstrapSettles(r)
  PROVE  ShellInv'
<1>1. /\ r \in Read /\ r.what = "bootstrap" /\ r.answer \in Whoever \ {"none"}
      /\ UNCHANGED <<principal, informed>>
  BY DEF BootstrapSettles, ShellInv, ShellTypes, Read
<1>2. CASE ~Current(r)
  <2>1. reads' = reads \ {r} /\ UNCHANGED <<result, list, latest, asked>>
    BY <1>2 DEF BootstrapSettles
  <2>2. reads' \subseteq Read /\ ReadsInv' /\ LoadsWhileRead'
    BY <1>1, <2>1, ReadDropped
  <2> QED BY <1>1, <2>1, <2>2 DEF ShellInv, ShellTypes, ListInv, ShowsWhatWasAsked, OwnPagesOnly
<1>3. CASE Current(r) /\ r.answer \in {"failed", "nobody"}
  <2>1. /\ result' = [state |-> "failed", tenant |-> "nobody"]
        /\ reads' = reads \ {r} /\ UNCHANGED <<list, latest, asked>>
    BY <1>3 DEF BootstrapSettles
  <2>2. reads' \subseteq Read /\ ReadsInv' /\ LoadsWhileRead'
    BY <1>1, <2>1, ReadDropped
  <2>3. result' \in [state : {"reading", "ready", "failed"}, tenant : Whoever] /\ result'.state = "failed"
    BY <2>1 DEF Whoever
  <2> QED BY <1>1, <2>1, <2>2, <2>3 DEF ShellInv, ShellTypes, ListInv, ShowsWhatWasAsked, OwnPagesOnly
<1>4. CASE Current(r) /\ r.answer \notin {"failed", "nobody"}
  <2>1. /\ result' = [state |-> "ready", tenant |-> r.answer] /\ asked' = 0
        /\ list' = [list EXCEPT !.loading = TRUE]
        /\ latest' = [latest EXCEPT !.list = @ + 1]
        /\ reads' = (reads \ {r}) \union {NewRead("list", latest.list + 1, 0)}
    BY <1>4 DEF BootstrapSettles, NewRead
  <2>2. latest' = [bootstrap |-> latest.bootstrap, list |-> latest.list + 1]
    BY <2>1 DEF ShellInv, ShellTypes
  <2>3. /\ list' \in Listed /\ list'.loading /\ list'.page = list.page /\ list'.loaded = list.loaded
    BY <2>1 DEF ShellInv, ShellTypes, Listed
  <2>4. reads' \subseteq Read /\ latest' \in [bootstrap : Nat, list : Nat] /\ ReadsInv' /\ LoadsWhileRead'
    BY <1>1, <2>1, <2>2, <2>3, ListAsked DEF ShellInv
  <2>5. informed => r.answer = principal
    BY <1>1, <1>4, LastIsCurrent DEF ShellInv, ReadsInv, LastIsTrue
  <2>6. /\ result' \in [state : {"reading", "ready", "failed"}, tenant : Whoever]
        /\ result'.tenant = r.answer
    BY <1>1, <2>1
  <2>7. ShellTypes'
    BY <1>1, <2>3, <2>4, <2>6 DEF ShellInv, ShellTypes
  <2>8. ListInv' /\ OwnPagesOnly'
    BY <1>1, <2>3, <2>4, <2>5, <2>6 DEF ShellInv, ListInv, ShowsWhatWasAsked, OwnPagesOnly
  <2> QED BY <2>4, <2>7, <2>8 DEF ShellInv
<1> QED BY <1>2, <1>3, <1>4

LEMMA TurnsKeep ==
  ASSUME ShellInv, NEW cursor \in 0..LastPage, Turns(cursor)
  PROVE  ShellInv'
<1>1. /\ list' = [list EXCEPT !.loading = TRUE, !.error = FALSE] /\ asked' = cursor
      /\ latest' = [latest EXCEPT !["list"] = @ + 1]
      /\ reads' = reads \union {NewRead("list", latest["list"] + 1, cursor)}
      /\ UNCHANGED <<principal, informed, result>>
  BY DEF Turns, Asks, NewRead
<1>2. /\ latest["list"] = latest.list
      /\ latest' = [bootstrap |-> latest.bootstrap, list |-> latest.list + 1]
  <2>1. latest \in [bootstrap : Nat, list : Nat]
    BY DEF ShellInv, ShellTypes
  <2> QED BY <1>1, <2>1
<1>3. /\ list' \in Listed /\ list'.loading /\ list'.page = list.page /\ list'.loaded = list.loaded
  BY <1>1 DEF ShellInv, ShellTypes, Listed
<1>0. cursor \in Nat
  BY PagesAssumption
<1>4. reads' \subseteq Read /\ latest' \in [bootstrap : Nat, list : Nat] /\ ReadsInv' /\ LoadsWhileRead'
  BY <1>0, <1>1, <1>2, <1>3, ListAsked DEF ShellInv
<1>5. ShellTypes'
  BY <1>1, <1>3, <1>4 DEF ShellInv, ShellTypes
<1>6. ListInv' /\ OwnPagesOnly'
  BY <1>1, <1>3, <1>4 DEF ShellInv, ListInv, ShowsWhatWasAsked, OwnPagesOnly
<1> QED BY <1>4, <1>5, <1>6 DEF ShellInv

LEMMA ListKeeps ==
  ASSUME ShellInv, NEW r \in reads, ListSettles(r)
  PROVE  ShellInv'
<1>1. /\ r \in Read /\ r.what = "list" /\ r.answer \in Whoever \ {"none"} /\ r.cursor \in Nat
      /\ reads' = reads \ {r} /\ UNCHANGED <<principal, informed, result, latest, asked>>
  BY DEF ListSettles, ShellInv, ShellTypes, Read
<1>2. reads' \subseteq Read /\ ReadsInv'
  BY <1>1, ReadDropped
<1>3. CASE ~Current(r)
  <2>1. list' = list
    BY <1>3 DEF ListSettles
  <2>2. LoadsWhileRead'
    BY <1>1, <1>3, <2>1, LastIsCurrent, ReadDropped
  <2> QED BY <1>1, <1>2, <2>1, <2>2 DEF ShellInv, ShellTypes, ListInv, ShowsWhatWasAsked, OwnPagesOnly
<1>4. CASE Current(r)
  <2> DEFINE shown == [page |-> [of |-> r.answer, cursor |-> r.cursor], loading |-> FALSE,
                       loaded |-> TRUE, error |-> FALSE]
  <2>1. list' = IF r.answer = "failed" THEN [list EXCEPT !.loading = FALSE, !.error = TRUE]
                ELSE IF r.answer = "nobody" THEN [NothingListed EXCEPT !.error = TRUE]
                ELSE shown
    BY <1>4 DEF ListSettles
  <2>2. IsLast(r) /\ r.cursor = asked /\ (informed /\ r.answer # "failed" => r.answer = principal)
    BY <1>1, <1>4, LastIsCurrent DEF ShellInv, ReadsInv, LastIsTrue
  <2>3. /\ list' \in Listed /\ ~list'.loading
        /\ \/ list'.page = list.page /\ list'.loaded = list.loaded /\ list'.error
           \/ list'.page = NoPage /\ ~list'.loaded
           \/ /\ list'.page.cursor = r.cursor /\ list'.page.of = r.answer /\ list'.loaded
              /\ r.answer # "failed"
    <3>1. CASE r.answer = "failed"
      BY <2>1, <3>1 DEF ShellInv, ShellTypes, Listed
    <3>2. CASE r.answer = "nobody"
      <4>1. list' = [page |-> NoPage, loading |-> FALSE, loaded |-> FALSE, error |-> TRUE]
        BY <2>1, <3>2 DEF NothingListed
      <4>2. NoPage \in [of : Whoever, cursor : Nat]
        BY DEF NoPage, Whoever
      <4> QED BY <4>1, <4>2 DEF Listed
    <3>3. CASE r.answer \notin {"failed", "nobody"}
      <4>1. list' = shown
        BY <2>1, <3>3
      <4> QED BY <1>1, <3>3, <4>1 DEF Listed
    <3> QED BY <3>1, <3>2, <3>3
  <2>4. LoadsWhileRead'
    <3>1. \A s \in reads' : ~(s.what = "list" /\ IsLast(s)')
      BY <1>1, <2>2 DEF IsLast, ShellInv, ReadsInv, OneLast
    <3> QED BY <2>3, <3>1 DEF LoadsWhileRead
  <2>5. ShowsWhatWasAsked'
    BY <1>1, <2>2, <2>3 DEF ShellInv, ListInv, ShowsWhatWasAsked
  <2>6. OwnPagesOnly'
    BY <1>1, <2>2, <2>3 DEF ShellInv, OwnPagesOnly
  <2>7. ShellTypes'
    BY <1>1, <1>2, <2>3 DEF ShellInv, ShellTypes
  <2> QED BY <1>2, <2>4, <2>5, <2>6, <2>7 DEF ShellInv, ListInv
<1> QED BY <1>3, <1>4

LEMMA ShellStep ==
  ASSUME ShellInv, [PagesNext]_<<vars, pagesVars>>
  PROVE  ShellInv'
<1>1. CASE UNCHANGED shellVars
  BY <1>1 DEF shellVars, ShellInv, ShellTypes, ReadsInv, NoneAhead, OneLast, LastIsTrue, IsLast,
              ListInv, LoadsWhileRead, ShowsWhatWasAsked, OwnPagesOnly
<1>2. CASE ShellNext
  BY <1>2, LoginKeeps, GenerationKeeps, RetryKeeps, TurnsKeep, ReachedKeeps, BootstrapKeeps,
     ListKeeps DEF ShellNext
<1>3. UNCHANGED shellVars \/ ShellNext
  BY DEF PagesNext, pagesVars, RouteSends, RouteDiscards, RouteMounts, Beside, RouteSettles,
         Journaled
<1> QED BY <1>1, <1>2, <1>3

\* What the shell lists is the reader's own and what was asked for last, however
\* often who is logged in changes and in whatever order the reads are answered
\* (use-connection.ts:120-124, publisher.ts:44-47).
THEOREM ListIsTheReaders == PagesSpec => []ListOfTheReader
<1>1. ShellInv => ListOfTheReader
  <2> SUFFICES ASSUME ShellInv PROVE ListOfTheReader
    OBVIOUS
  <2>1. \A r \in reads : Current(r) <=> IsLast(r)
    BY LastIsCurrent DEF ShellInv, ShellTypes
  <2> QED BY <2>1 DEF ShellInv, ListInv, LoadsWhileRead, ShowsWhatWasAsked, ListOfTheReader, ListTellsLastRead
<1> QED BY <1>1, InitShell, ShellStep, PTL DEF PagesSpec
=============================================================================
