-------------------------- MODULE ViewStores_proofs --------------------------
(***************************************************************************)
(* Proofs about the stores the pages of the application read: the Factory  *)
(* session view store keeps, over all its runs, the promise one join makes *)
(* (FactoryViewStore); the session list shows what came of the read        *)
(* started last (SessionList); a host is not given up before its time      *)
(* (Reachability); the legacy store runs the join that is wanted and holds *)
(* no other (SessionViewStore); and the transcript such a store folds      *)
(* shows what the journal says, whatever frames came between (Transcript). *)
(***************************************************************************)
EXTENDS FactoryViewStore, SessionViewStore, Reachability, SessionList, Transcript,
        TLAPS, SequenceTheorems

-----------------------------------------------------------------------------
(* The Factory session view store.                                         *)

\* The run the store hears is the one it can abort, and every other was
\* aborted or is over.
RunsInv ==
  /\ \A r \in DOMAIN iterators :
       /\ iterators[r].token <= lifecycleToken
       /\ Current(iterators[r]) /\ iterators[r].at # "left" => r = controller
       /\ r # controller => iterators[r].aborted \/ iterators[r].at = "left"
  /\ controller # 0 =>
       /\ Current(iterators[controller])
       /\ ~iterators[controller].aborted /\ iterators[controller].at # "left"

\* A run that will be heard stands where the store does, or offers what comes
\* next above it.
Continues(it) ==
  /\ it.opened <= edge \/ it.opened <= coveredThrough
  /\ ~it.offer.made => it.cursor = coveredThrough
  /\ it.offer.made =>
       /\ it.offer.covered = it.cursor /\ it.cursor <= Len(log)
       /\ coveredThrough <= it.cursor
       /\ it.offer.event # 0 =>
            /\ it.offer.event = it.cursor /\ coveredThrough < it.cursor
            /\ log[it.cursor].public
       /\ \A s \in DOMAIN log :
            edge < s /\ coveredThrough < s /\ s <= it.cursor /\ log[s].public
            => s = it.offer.event

CoverInv ==
  cuts = 0 =>
    /\ coveredThrough <= Len(log) /\ edge <= Len(log)
    /\ \A r \in DOMAIN iterators :
         Current(iterators[r]) /\ iterators[r].at = "waiting" => Continues(iterators[r])

KeepInv == FactoryTypeOK /\ RunsInv /\ CoverInv /\ NothingLost

LEMMA StoreTypes ==
  ASSUME FactoryTypeOK
  PROVE  /\ log \in Seq(Records) /\ Len(log) \in Nat /\ DOMAIN log = 1..Len(log)
         /\ Len(log) <= MaxSeq /\ \A s \in 1..Len(log) : log[s] \in Records
         /\ iterators \in Seq(Iterators) /\ Len(iterators) \in Nat
         /\ DOMAIN iterators = 1..Len(iterators)
         /\ \A r \in 1..Len(iterators) : iterators[r] \in Iterators
         /\ shown \in Seq(Shown) /\ Len(shown) \in Nat /\ DOMAIN shown = 1..Len(shown)
         /\ \A i \in 1..Len(shown) : shown[i] \in Shown
         /\ MaxSeq \in Nat /\ MaxStarts \in Nat /\ MaxTruncations \in Nat
         /\ cuts \in Nat /\ lifecycleToken \in Nat /\ controller \in Nat
         /\ coveredThrough \in Nat /\ coveredThrough <= MaxSeq /\ edge \in Nat
<1>1. log \in Seq(Records) /\ iterators \in Seq(Iterators) /\ shown \in Seq(Shown)
  BY DEF FactoryTypeOK
<1>2. MaxSeq \in Nat /\ MaxStarts \in Nat /\ MaxTruncations \in Nat
  BY FactoryBoundAssumption
<1>3. /\ Len(log) \in Nat /\ DOMAIN log = 1..Len(log)
      /\ \A s \in 1..Len(log) : log[s] \in Records
  BY <1>1, LenProperties, ElementOfSeq
<1>4. /\ Len(iterators) \in Nat /\ DOMAIN iterators = 1..Len(iterators)
      /\ \A r \in 1..Len(iterators) : iterators[r] \in Iterators
  BY <1>1, LenProperties, ElementOfSeq
<1>5. /\ Len(shown) \in Nat /\ DOMAIN shown = 1..Len(shown)
      /\ \A i \in 1..Len(shown) : shown[i] \in Shown
  BY <1>1, LenProperties, ElementOfSeq
<1>6. controller \in Nat
  BY <1>4 DEF FactoryTypeOK
<1>7. /\ cuts \in Nat /\ lifecycleToken \in Nat /\ Len(log) <= MaxSeq
      /\ coveredThrough \in Nat /\ coveredThrough <= MaxSeq /\ edge \in Nat
  BY <1>2 DEF FactoryTypeOK
<1> QED
  BY <1>1, <1>2, <1>3, <1>4, <1>5, <1>6, <1>7

\* One run changes.
LEMMA RunChanges ==
  ASSUME FactoryTypeOK, NEW r \in DOMAIN iterators, NEW it \in Iterators,
         iterators' = [iterators EXCEPT ![r] = it]
  PROVE  /\ iterators' \in Seq(Iterators) /\ Len(iterators') = Len(iterators)
         /\ DOMAIN iterators' = 1..Len(iterators)
         /\ \A i \in 1..Len(iterators) : iterators'[i] = IF i = r THEN it ELSE iterators[i]
<1>1. iterators \in Seq(Iterators) /\ r \in 1..Len(iterators)
  BY StoreTypes
<1>2. /\ iterators' \in Seq(Iterators) /\ Len(iterators') = Len(iterators)
      /\ \A i \in 1..Len(iterators) : iterators'[i] = IF i = r THEN it ELSE iterators[i]
  BY <1>1, ExceptSeq
<1> QED
  BY <1>2, LenProperties

LEMMA GoneRun ==
  ASSUME NEW it \in Iterators
  PROVE  /\ Gone(it) \in Iterators /\ Gone(it).token = it.token
         /\ Gone(it).aborted = it.aborted /\ Gone(it).at = "left"
<1> DEFINE offers == [covered : 0..MaxSeq, event : 0..MaxSeq, made : BOOLEAN]
<1>1. MaxSeq \in Nat
  BY FactoryBoundAssumption
<1>2. NoOffer \in offers
  BY <1>1 DEF NoOffer
<1> HIDE DEF offers
<1>3. 0 \in 0..MaxSeq
  BY <1>1
<1>4. it \in [token : Nat, cursor : 0..MaxSeq, opened : 0..MaxSeq, offer : offers,
             aborted : BOOLEAN, at : {"waiting", "failing", "left"}]
  BY DEF Iterators, offers
<1>5. Gone(it) \in [token : Nat, cursor : 0..MaxSeq, opened : 0..MaxSeq, offer : offers,
                   aborted : BOOLEAN, at : {"waiting", "failing", "left"}]
  BY <1>2, <1>3, <1>4 DEF Gone
<1>6. Gone(it) \in Iterators
  BY <1>5 DEF Iterators, offers
<1> QED
  BY <1>4, <1>6 DEF Gone

\* Nobody changes hands when one run moves on, or when it is over.
LEMMA RunsKept ==
  ASSUME FactoryTypeOK, RunsInv, NEW r \in DOMAIN iterators, NEW it \in Iterators,
         iterators' = [iterators EXCEPT ![r] = it],
         it.token = iterators[r].token, it.aborted = iterators[r].aborted,
         lifecycleToken' = lifecycleToken,
         \/ /\ it.at = "left" <=> iterators[r].at = "left"
            /\ controller' = controller
         \/ /\ it.at = "left" /\ ~Current(iterators[r])
            /\ controller' = controller
         \/ /\ it.at = "left" /\ Current(iterators[r]) /\ iterators[r].at # "left"
            /\ controller' = 0
  PROVE  RunsInv'
<1>1. /\ DOMAIN iterators = 1..Len(iterators) /\ DOMAIN iterators' = 1..Len(iterators)
      /\ \A i \in 1..Len(iterators) : iterators'[i] = IF i = r THEN it ELSE iterators[i]
      /\ controller # 0 => controller \in 1..Len(iterators)
      /\ 0 \notin 1..Len(iterators)
  BY StoreTypes, RunChanges DEF FactoryTypeOK
<1>2. \A i \in 1..Len(iterators) :
        /\ Current(iterators[i])' <=> Current(iterators[i])
        /\ iterators'[i].token <= lifecycleToken'
        /\ iterators'[i].aborted = iterators[i].aborted
        /\ i # r => iterators'[i].at = iterators[i].at
  BY <1>1 DEF RunsInv, Current
<1>3. iterators'[r].at = it.at
  BY <1>1
<1> QED
  BY <1>1, <1>2, <1>3 DEF RunsInv

\* Only the run that is heard decides what the store covers.
LEMMA CoverKept ==
  ASSUME FactoryTypeOK, RunsInv, CoverInv, NEW r \in DOMAIN iterators, NEW it \in Iterators,
         iterators' = [iterators EXCEPT ![r] = it], it.token = iterators[r].token,
         UNCHANGED <<log, cuts, lifecycleToken>>,
         cuts = 0 => coveredThrough' <= Len(log) /\ edge' <= Len(log),
         cuts = 0 /\ Current(it) /\ it.at = "waiting" => Continues(it)',
         \/ Current(iterators[r]) /\ iterators[r].at # "left"
         \/ UNCHANGED <<coveredThrough, edge>>
  PROVE  CoverInv'
<1> SUFFICES ASSUME cuts = 0, NEW i \in DOMAIN iterators',
                    Current(iterators[i])', iterators'[i].at = "waiting"
             PROVE  Continues(iterators[i])'
  BY DEF CoverInv
<1>1. /\ DOMAIN iterators = 1..Len(iterators) /\ i \in 1..Len(iterators)
      /\ iterators'[i] = IF i = r THEN it ELSE iterators[i]
  BY StoreTypes, RunChanges
<1>2. CASE i = r
  BY <1>1, <1>2 DEF Current, Continues
<1>3. CASE i # r
  <2>1. Current(iterators[i]) /\ iterators[i].at = "waiting" /\ iterators'[i] = iterators[i]
    BY <1>1, <1>3 DEF Current
  <2>2. i = controller
    BY <1>1, <2>1 DEF RunsInv
  <2>3. UNCHANGED <<coveredThrough, edge>>
    BY <1>3, <2>2 DEF RunsInv
  <2> QED
    BY <1>1, <2>1, <2>3 DEF CoverInv, Continues
<1> QED
  BY <1>2, <1>3

\* What a step makes of a run is a run.
LEMMA RunFields ==
  ASSUME NEW it \in Iterators, NEW c \in 0..MaxSeq, NEW e \in 0..MaxSeq
  PROVE  /\ [it EXCEPT !.offer = NoOffer] \in Iterators
         /\ [it EXCEPT !.offer = NoOffer, !.at = "failing"] \in Iterators
         /\ [it EXCEPT !.at = "failing"] \in Iterators
         /\ [it EXCEPT !.cursor = c, !.offer = Offer(c, e)] \in Iterators
         /\ [it EXCEPT !.opened = c] \in Iterators
         /\ [it EXCEPT !.cursor = c, !.opened = c] \in Iterators
         /\ [it EXCEPT !.aborted = TRUE] \in Iterators
<1> DEFINE offers == [covered : 0..MaxSeq, event : 0..MaxSeq, made : BOOLEAN]
           runs == [token : Nat, cursor : 0..MaxSeq, opened : 0..MaxSeq, offer : offers,
                    aborted : BOOLEAN, at : {"waiting", "failing", "left"}]
<1>1. NoOffer \in offers /\ Offer(c, e) \in offers
  BY FactoryBoundAssumption DEF NoOffer, Offer
<1> HIDE DEF offers
<1>2. it \in runs
  BY DEF Iterators, offers
<1>3. /\ [it EXCEPT !.offer = NoOffer] \in runs
      /\ [it EXCEPT !.offer = NoOffer, !.at = "failing"] \in runs
      /\ [it EXCEPT !.at = "failing"] \in runs
      /\ [it EXCEPT !.cursor = c, !.offer = Offer(c, e)] \in runs
  BY <1>1, <1>2
<1>4. /\ [it EXCEPT !.opened = c] \in runs
      /\ [it EXCEPT !.cursor = c, !.opened = c] \in runs
      /\ [it EXCEPT !.aborted = TRUE] \in runs
  BY <1>2
<1> QED
  BY <1>3, <1>4 DEF Iterators, offers

\* Taking an offer of the run that is heard keeps the store's promise.
LEMMA PublishStep ==
  ASSUME KeepInv, NEW r \in DOMAIN iterators, iterators[r].offer.made,
         iterators[r].at = "waiting", Current(iterators[r]),
         Publishes(iterators[r].offer), UNCHANGED <<log, cuts, edge>>
  PROVE  /\ coveredThrough' \in 0..MaxSeq /\ shown' \in Seq(Shown)
         /\ cuts = 0 => coveredThrough' = iterators[r].cursor /\ coveredThrough' <= Len(log)
         /\ NothingLost'
         /\ cuts = 0 => [StoreFeed!Next]_(StoreFeed!vars)
<1> DEFINE cursor == iterators[r].cursor
           event == iterators[r].offer.event
<1>0. /\ FactoryTypeOK /\ RunsInv /\ CoverInv /\ NothingLost
      /\ log \in Seq(Records) /\ Len(log) \in Nat /\ DOMAIN log = 1..Len(log)
      /\ \A s \in 1..Len(log) : log[s] \in Records
      /\ shown \in Seq(Shown) /\ Len(shown) \in Nat /\ DOMAIN shown = 1..Len(shown)
      /\ \A i \in 1..Len(shown) : shown[i] \in Shown
      /\ MaxSeq \in Nat /\ coveredThrough \in 0..MaxSeq /\ edge \in Nat
      /\ iterators[r] \in Iterators
  BY StoreTypes DEF KeepInv, FactoryTypeOK
<1>1. /\ cursor \in 0..MaxSeq /\ event \in 0..MaxSeq
      /\ iterators[r].offer.covered \in 0..MaxSeq
  BY <1>0 DEF Iterators
<1>2. cuts = 0 => Continues(iterators[r])
  BY <1>0 DEF CoverInv
<1>3. cuts = 0 =>
        /\ iterators[r].offer.covered = cursor /\ cursor <= Len(log)
        /\ coveredThrough <= cursor
        /\ event # 0 => event = cursor /\ coveredThrough < cursor /\ log[cursor].public
        /\ \A s \in DOMAIN log :
             edge < s /\ coveredThrough < s /\ s <= cursor /\ log[s].public => s = event
  BY <1>2 DEF Continues
<1>4. coveredThrough' \in 0..MaxSeq
  BY <1>0, <1>1 DEF Publishes
<1>5. cuts = 0 => coveredThrough' = cursor
  BY <1>0, <1>1, <1>3 DEF Publishes
<1>6. CASE event = 0 \/ cuts > 0
  <2>1. shown' = shown
    BY <1>6 DEF Publishes
  <2>2. NothingLost'
    <3> SUFFICES ASSUME cuts' = 0 PROVE NothingLost'
      BY DEF NothingLost
    <3>1. cuts = 0 /\ event = 0 /\ coveredThrough' = cursor /\ log' = log /\ edge' = edge
      BY <1>0, <1>5, <1>6
    <3>2. \A i \in 1..Len(shown) : shown[i].seq <= coveredThrough'
      <4>1. \A i \in 1..Len(shown) : shown[i].seq <= coveredThrough
        BY <1>0, <3>1 DEF NothingLost
      <4>2. \A i \in 1..Len(shown) : shown[i].seq \in 1..MaxSeq
        BY <1>0 DEF Shown
      <4>3. coveredThrough <= cursor
        BY <1>3, <3>1
      <4> QED
        BY <1>0, <1>1, <3>1, <4>1, <4>2, <4>3
    <3>3. ASSUME NEW s \in DOMAIN log, edge < s, s <= cursor, log[s].public
          PROVE  \E i \in DOMAIN shown : shown[i].seq = s
      <4>1. s <= coveredThrough
        BY <1>0, <1>3, <3>1, <3>3
      <4> QED
        BY <3>1, <3>3, <4>1, <1>0 DEF NothingLost
    <3> QED
      BY <1>0, <2>1, <3>1, <3>2, <3>3 DEF NothingLost
  <2>3. ASSUME cuts = 0, coveredThrough' # coveredThrough PROVE StoreFeed!Cover
    <3>1. cursor \in DOMAIN log /\ cursor > coveredThrough
      BY <1>0, <1>1, <1>3, <1>5, <2>3
    <3>2. StoreFeed!NothingPublic(cursor)
      BY <1>0, <1>1, <1>3, <1>6, <2>3 DEF StoreFeed!NothingPublic
    <3> QED
      BY <1>5, <2>1, <2>3, <3>1, <3>2 DEF StoreFeed!Cover
  <2>4. cuts = 0 => [StoreFeed!Next]_(StoreFeed!vars)
    BY <2>1, <2>3 DEF StoreFeed!Next, StoreFeed!vars
  <2> QED
    BY <1>0, <1>3, <1>4, <1>5, <2>1, <2>2, <2>4
<1>7. CASE event # 0 /\ ~(cuts > 0)
  <2>0. cuts = 0 /\ event = cursor /\ cursor \in 1..Len(log) /\ coveredThrough < cursor
        /\ log[cursor].public
    <3>1. cuts = 0
      BY <1>0, <1>7, StoreTypes
    <3> QED
      BY <1>0, <1>1, <1>3, <1>7, <3>1
  <2> DEFINE d == [seq |-> cursor, id |-> 0]
  <2>1. d \in Shown
    BY <1>0, <1>1, <2>0 DEF Shown
  <2>2. shown' = Append(shown, d)
    BY <1>7, <2>0 DEF Publishes
  <2>d. d.seq = cursor /\ d = [seq |-> cursor, id |-> log[cursor].id]
    BY <1>0, <2>0 DEF Records
  <2> HIDE DEF d
  <2>3. /\ shown' \in Seq(Shown) /\ Len(shown') = Len(shown) + 1
        /\ \A i \in 1..Len(shown) : shown'[i] = shown[i]
        /\ shown'[Len(shown) + 1] = d
    BY <1>0, <2>1, <2>2, AppendProperties
  <2>4. DOMAIN shown' = 1..(Len(shown) + 1)
    BY <2>3, LenProperties
  <2>5. \A i \in 1..Len(shown) : shown[i].seq <= coveredThrough /\ shown[i].seq \in Nat
    BY <1>0, <2>0 DEF NothingLost, Shown
  <2>6. \A i, j \in DOMAIN shown' : i < j => shown'[i].seq < shown'[j].seq
    <3> TAKE i, j \in DOMAIN shown'
    <3> HAVE i < j
    <3>1. i \in 1..Len(shown) /\ (j \in 1..Len(shown) \/ j = Len(shown) + 1)
      BY <1>0, <2>4
    <3>2. CASE j \in 1..Len(shown)
      BY <1>0, <2>0, <2>3, <3>1, <3>2 DEF NothingLost
    <3>3. CASE j = Len(shown) + 1
      BY <1>0, <1>1, <2>0, <2>3, <2>5, <2>d, <3>1, <3>3
    <3> QED
      BY <3>1, <3>2, <3>3
  <2>7. \A i \in DOMAIN shown' : shown'[i].seq <= coveredThrough'
    <3> TAKE i \in DOMAIN shown'
    <3>1. i \in 1..Len(shown) \/ i = Len(shown) + 1
      BY <1>0, <2>4
    <3>2. CASE i \in 1..Len(shown)
      BY <1>0, <1>1, <1>5, <2>0, <2>3, <2>5, <3>2
    <3>3. CASE i = Len(shown) + 1
      BY <1>1, <1>5, <2>0, <2>3, <2>d, <3>3
    <3> QED
      BY <3>1, <3>2, <3>3
  <2>8. ASSUME NEW s \in DOMAIN log, edge < s, s <= cursor, log[s].public
        PROVE  \E i \in DOMAIN shown' : shown'[i].seq = s
    <3>1. CASE s <= coveredThrough
      <4>1. PICK i \in 1..Len(shown) : shown[i].seq = s
        BY <1>0, <2>0, <2>8, <3>1 DEF NothingLost
      <4>2. i \in DOMAIN shown' /\ shown'[i].seq = s
        BY <1>0, <2>3, <2>4, <4>1
      <4> QED
        BY <4>2
    <3>2. CASE coveredThrough < s
      <4>1. s = cursor
        BY <1>3, <2>0, <2>8, <3>2
      <4>2. Len(shown) + 1 \in DOMAIN shown'
        BY <1>0, <2>4
      <4> QED
        BY <2>3, <2>d, <4>1, <4>2
    <3> QED
      BY <1>0, <3>1, <3>2
  <2>9. NothingLost'
    BY <1>5, <2>0, <2>6, <2>7, <2>8 DEF NothingLost
  <2>10. StoreFeed!Deliver
    <3>1. StoreFeed!NothingPublic(cursor - 1)
      BY <1>0, <1>1, <1>3, <2>0 DEF StoreFeed!NothingPublic
    <3>2. cursor \in DOMAIN log /\ cursor > coveredThrough /\ coveredThrough' = cursor
      BY <1>0, <1>1, <1>5, <2>0
    <3>3. shown' = Append(shown, [seq |-> cursor, id |-> log[cursor].id])
      BY <2>2, <2>d
    <3> QED
      BY <2>0, <3>1, <3>2, <3>3 DEF StoreFeed!Deliver
  <2> QED
    BY <1>0, <1>3, <1>4, <1>5, <2>0, <2>3, <2>9, <2>10 DEF StoreFeed!Next
<1> QED
  BY <1>6, <1>7

\* A run moves on, or is over, and nothing else happens.
LEMMA RunMoves ==
  ASSUME KeepInv, NEW r \in DOMAIN iterators, NEW it \in Iterators,
         iterators' = [iterators EXCEPT ![r] = it],
         it.token = iterators[r].token, it.aborted = iterators[r].aborted,
         UNCHANGED <<log, cuts, lifecycleToken, coveredThrough, shown, edge>>,
         \/ /\ it.at = "left" <=> iterators[r].at = "left"
            /\ controller' = controller
         \/ /\ it.at = "left" /\ ~Current(iterators[r])
            /\ controller' = controller
         \/ /\ it.at = "left" /\ Current(iterators[r]) /\ iterators[r].at # "left"
            /\ controller' = 0,
         cuts = 0 /\ Current(it) /\ it.at = "waiting" => Continues(it)
  PROVE  KeepInv'
<1>0. FactoryTypeOK /\ RunsInv /\ CoverInv /\ NothingLost
  BY DEF KeepInv
<1>1. FactoryTypeOK'
  <2>1. iterators' \in Seq(Iterators) /\ Len(iterators') = Len(iterators)
    BY <1>0, RunChanges
  <2>2. controller' \in 0..Len(iterators)
    BY <1>0, StoreTypes DEF FactoryTypeOK
  <2> QED
    BY <1>0, <2>1, <2>2 DEF FactoryTypeOK
<1>2. RunsInv'
  BY <1>0, RunsKept
<1>3. CoverInv'
  <2>1. cuts = 0 => coveredThrough' <= Len(log) /\ edge' <= Len(log)
    BY <1>0 DEF CoverInv
  <2>2. cuts = 0 /\ Current(it) /\ it.at = "waiting" => Continues(it)'
    BY DEF Continues
  <2> QED
    BY <1>0, <2>1, <2>2, CoverKept
<1>4. NothingLost'
  BY <1>0 DEF NothingLost
<1> QED
  BY <1>1, <1>2, <1>3, <1>4 DEF KeepInv

\* An offer the run that is heard has made was taken.
LEMMA TakenStep ==
  ASSUME KeepInv, NEW r \in DOMAIN iterators, iterators[r].offer.made,
         iterators[r].at = "waiting", Current(iterators[r]),
         Publishes(iterators[r].offer),
         UNCHANGED <<log, cuts, edge, controller, lifecycleToken>>,
         NEW it \in Iterators, iterators' = [iterators EXCEPT ![r] = it],
         it.token = iterators[r].token, it.aborted = iterators[r].aborted,
         it.cursor = iterators[r].cursor, it.opened = iterators[r].opened,
         ~it.offer.made, it.at \in {"waiting", "failing"}
  PROVE  KeepInv'
<1>0. /\ FactoryTypeOK /\ RunsInv /\ CoverInv /\ NothingLost
      /\ it.cursor \in Nat /\ it.opened \in Nat /\ coveredThrough \in Nat /\ edge \in Nat
  <2>1. FactoryTypeOK /\ RunsInv /\ CoverInv /\ NothingLost
    BY DEF KeepInv
  <2>2. coveredThrough \in Nat /\ edge \in Nat /\ MaxSeq \in Nat
    BY <2>1, StoreTypes
  <2>3. it.cursor \in 0..MaxSeq /\ it.opened \in 0..MaxSeq
    BY DEF Iterators
  <2> QED
    BY <2>1, <2>2, <2>3
<1>1. /\ coveredThrough' \in 0..MaxSeq /\ shown' \in Seq(Shown)
      /\ cuts = 0 => coveredThrough' = iterators[r].cursor /\ coveredThrough' <= Len(log)
      /\ NothingLost'
  BY PublishStep
<1>2. FactoryTypeOK'
  <2>1. iterators' \in Seq(Iterators) /\ Len(iterators') = Len(iterators)
    BY <1>0, RunChanges
  <2> QED
    BY <1>0, <1>1, <2>1 DEF FactoryTypeOK
<1>3. RunsInv'
  <2>1. it.at = "left" <=> iterators[r].at = "left"
    OBVIOUS
  <2> QED
    BY <1>0, <2>1, RunsKept
<1>4. CoverInv'
  <2>1. cuts = 0 => coveredThrough' <= Len(log) /\ edge' <= Len(log)
    BY <1>0, <1>1 DEF CoverInv
  <2>2. ASSUME cuts = 0 PROVE Continues(it)'
    <3>1. iterators[r].opened <= edge \/ iterators[r].opened <= coveredThrough
      BY <1>0, <2>2 DEF CoverInv, Continues
    <3>2. coveredThrough <= iterators[r].cursor
      BY <1>0, <2>2 DEF CoverInv, Continues
    <3>3. it.opened <= edge \/ it.opened <= it.cursor
      BY <1>0, <3>1, <3>2
    <3> QED
      BY <1>1, <2>2, <3>3 DEF Continues
  <2>3. Current(iterators[r]) /\ iterators[r].at # "left"
    OBVIOUS
  <2> QED
    BY <1>0, <2>1, <2>2, <2>3, CoverKept
<1> QED
  BY <1>1, <1>2, <1>3, <1>4 DEF KeepInv

\* A start makes the run that will be heard, at the store's cursor.
LEMMA StartStep == KeepInv /\ FactoryStart => KeepInv'
<1> SUFFICES ASSUME KeepInv, FactoryStart PROVE KeepInv'
  OBVIOUS
<1>0. /\ FactoryTypeOK /\ RunsInv /\ CoverInv /\ NothingLost
      /\ iterators \in Seq(Iterators) /\ Len(iterators) \in Nat
      /\ DOMAIN iterators = 1..Len(iterators)
      /\ coveredThrough \in 0..MaxSeq /\ lifecycleToken \in Nat /\ edge \in 0..MaxSeq
      /\ MaxSeq \in Nat /\ MaxStarts \in Nat
  BY StoreTypes DEF KeepInv, FactoryTypeOK
<1>1. PICK it \in Iterators :
        /\ iterators' = Append(iterators, it)
        /\ it.token = lifecycleToken + 1 /\ it.cursor = coveredThrough
        /\ it.opened = coveredThrough /\ ~it.offer.made /\ ~it.aborted /\ it.at = "waiting"
  <2> DEFINE it == [token |-> lifecycleToken', cursor |-> coveredThrough, opened |-> coveredThrough,
                    offer |-> NoOffer, aborted |-> FALSE, at |-> "waiting"]
  <2>1. it \in Iterators
    BY <1>0 DEF FactoryStart, NoOffer, Iterators
  <2>2. /\ it.token = lifecycleToken + 1 /\ it.cursor = coveredThrough
        /\ it.opened = coveredThrough /\ ~it.offer.made /\ ~it.aborted /\ it.at = "waiting"
    BY DEF FactoryStart, NoOffer
  <2>3. iterators' = Append(iterators, it)
    BY DEF FactoryStart
  <2> QED
    BY <2>1, <2>2, <2>3
<1>2. /\ controller = 0 /\ Len(iterators) < MaxStarts
      /\ controller' = Len(iterators) + 1 /\ lifecycleToken' = lifecycleToken + 1
      /\ edge' = (IF coveredThrough = 0 THEN 0 ELSE edge)
      /\ UNCHANGED <<log, cuts, coveredThrough, shown>>
  BY DEF FactoryStart, journalVars, toldVars
<1>3. /\ iterators' \in Seq(Iterators) /\ Len(iterators') = Len(iterators) + 1
      /\ \A i \in 1..Len(iterators) : iterators'[i] = iterators[i]
      /\ iterators'[Len(iterators) + 1] = it
  BY <1>0, <1>1, AppendProperties
<1>4. DOMAIN iterators' = 1..(Len(iterators) + 1)
  BY <1>3, LenProperties
<1>5. \A i \in 1..Len(iterators) :
        /\ iterators'[i].token <= lifecycleToken' /\ ~Current(iterators[i])'
        /\ iterators'[i].aborted \/ iterators'[i].at = "left"
  <2> TAKE i \in 1..Len(iterators)
  <2>1. /\ iterators[i].token <= lifecycleToken /\ iterators[i].token \in Nat
        /\ iterators[i].aborted \/ iterators[i].at = "left"
    <3>1. i \in DOMAIN iterators /\ iterators[i] \in Iterators /\ i # controller
      BY <1>0, <1>2, ElementOfSeq
    <3> QED
      BY <1>0, <3>1 DEF RunsInv, Iterators
  <2> QED
    BY <1>0, <1>2, <1>3, <2>1 DEF Current
<1>6. /\ Current(iterators[controller])' /\ controller' \in DOMAIN iterators'
      /\ iterators'[controller'] = it /\ it.token <= lifecycleToken'
  BY <1>0, <1>1, <1>2, <1>3, <1>4 DEF Current
<1>7. \A i \in DOMAIN iterators' : i \in 1..Len(iterators) \/ i = Len(iterators) + 1
  BY <1>0, <1>4
<1>8. FactoryTypeOK'
  BY <1>0, <1>2, <1>3 DEF FactoryTypeOK
<1>9. RunsInv'
  <2>1. \A i \in DOMAIN iterators' :
          /\ iterators'[i].token <= lifecycleToken'
          /\ Current(iterators[i])' /\ iterators'[i].at # "left" => i = controller'
          /\ i # controller' => iterators'[i].aborted \/ iterators'[i].at = "left"
    <3> TAKE i \in DOMAIN iterators'
    <3>1. CASE i \in 1..Len(iterators)
      BY <1>5, <3>1
    <3>2. CASE i = Len(iterators) + 1
      BY <1>2, <1>6, <3>2
    <3> QED
      BY <1>7, <3>1, <3>2
  <2> QED
    BY <1>1, <1>6, <2>1 DEF RunsInv
<1>10. CoverInv'
  <2> SUFFICES ASSUME cuts = 0 PROVE CoverInv'
    BY <1>2 DEF CoverInv
  <2>1. coveredThrough' <= Len(log') /\ edge' <= Len(log')
    BY <1>0, <1>2, StoreTypes DEF CoverInv
  <2>2. Continues(it)'
    BY <1>0, <1>1, <1>2 DEF Continues
  <2> QED
    BY <1>3, <1>5, <1>7, <2>1, <2>2 DEF CoverInv
<1>11. NothingLost'
  BY <1>0, <1>2, StoreTypes DEF NothingLost
<1> QED
  BY <1>8, <1>9, <1>10, <1>11 DEF KeepInv

\* A stop aborts the run that was heard; none is then.
LEMMA StopStep == KeepInv /\ FactoryStop => KeepInv'
<1> SUFFICES ASSUME KeepInv, FactoryStop PROVE KeepInv'
  OBVIOUS
<1>0. /\ FactoryTypeOK /\ RunsInv /\ CoverInv /\ NothingLost
      /\ DOMAIN iterators = 1..Len(iterators) /\ lifecycleToken \in Nat
      /\ \A i \in 1..Len(iterators) : iterators[i] \in Iterators
  BY StoreTypes DEF KeepInv
<1>1. /\ controller # 0 /\ controller' = 0 /\ lifecycleToken' = lifecycleToken + 1
      /\ UNCHANGED <<log, cuts, coveredThrough, shown, edge>>
  BY DEF FactoryStop, journalVars, toldVars
<1>2. controller \in DOMAIN iterators
  BY <1>0, <1>1, StoreTypes DEF FactoryTypeOK
<1>3. PICK it \in Iterators : /\ it = [iterators[controller] EXCEPT !.aborted = TRUE]
                              /\ it.aborted /\ it.token = iterators[controller].token
  <2> DEFINE it == [iterators[controller] EXCEPT !.aborted = TRUE]
  <2>1. it \in Iterators
    BY <1>0, <1>2, StoreTypes, RunFields DEF FactoryTypeOK
  <2>2. it.aborted /\ it.token = iterators[controller].token
    BY <1>0, <1>2 DEF Iterators
  <2> QED
    BY <2>1, <2>2
<1>4. iterators' = [iterators EXCEPT ![controller] = it]
  BY <1>3 DEF FactoryStop
<1>5. /\ iterators' \in Seq(Iterators) /\ Len(iterators') = Len(iterators)
      /\ DOMAIN iterators' = 1..Len(iterators)
      /\ \A i \in 1..Len(iterators) :
           iterators'[i] = IF i = controller THEN it ELSE iterators[i]
  BY <1>0, <1>2, <1>4, RunChanges
<1>6. \A i \in 1..Len(iterators) :
        /\ iterators'[i].token <= lifecycleToken' /\ ~Current(iterators[i])'
        /\ iterators'[i].aborted \/ iterators'[i].at = "left"
  <2> TAKE i \in 1..Len(iterators)
  <2>1. /\ iterators[i].token <= lifecycleToken /\ iterators[i].token \in Nat
        /\ iterators'[i].token = iterators[i].token
    BY <1>0, <1>3, <1>5 DEF RunsInv, Iterators
  <2>2. iterators'[i].aborted \/ iterators'[i].at = "left"
    BY <1>0, <1>3, <1>5 DEF RunsInv
  <2> QED
    BY <1>0, <1>1, <2>1, <2>2 DEF Current
<1>7. FactoryTypeOK'
  BY <1>0, <1>1, <1>5, StoreTypes DEF FactoryTypeOK
<1>8. RunsInv'
  BY <1>1, <1>5, <1>6 DEF RunsInv
<1>9. CoverInv'
  BY <1>0, <1>1, <1>5, <1>6 DEF CoverInv
<1>10. NothingLost'
  BY <1>0, <1>1 DEF NothingLost
<1> QED
  BY <1>7, <1>8, <1>9, <1>10 DEF KeepInv

\* Opening the newest window moves the edge only while nothing is covered.
LEMMA OpensStep ==
  ASSUME KeepInv, NEW r \in DOMAIN iterators, OpensWindow(r)
  PROVE  KeepInv'
<1>0. /\ FactoryTypeOK /\ RunsInv /\ CoverInv /\ NothingLost
      /\ iterators[r] \in Iterators /\ Len(log) \in Nat /\ Len(log) <= MaxSeq /\ MaxSeq \in Nat
      /\ coveredThrough \in Nat /\ edge \in 0..MaxSeq
      /\ DOMAIN shown = 1..Len(shown) /\ \A i \in 1..Len(shown) : shown[i] \in Shown
  BY StoreTypes DEF KeepInv, FactoryTypeOK
<1>1. PICK s \in 0..Len(log) :
        /\ iterators' = [iterators EXCEPT ![r].opened = s]
        /\ edge' = IF Current(iterators[r]) /\ coveredThrough = 0 /\ cuts = 0 THEN s ELSE edge
  BY DEF OpensWindow
<1>2. /\ iterators[r].at = "waiting" /\ ~iterators[r].offer.made /\ iterators[r].cursor = 0
      /\ UNCHANGED <<log, cuts, controller, lifecycleToken, coveredThrough, shown>>
  BY DEF OpensWindow, journalVars, toldVars
<1>3. s \in 0..MaxSeq
  BY <1>0
<1>4. PICK it \in Iterators :
        /\ it = [iterators[r] EXCEPT !.opened = s]
        /\ it.token = iterators[r].token /\ it.aborted = iterators[r].aborted
        /\ it.at = iterators[r].at /\ it.offer = iterators[r].offer
        /\ it.cursor = iterators[r].cursor /\ it.opened = s
  <2> DEFINE it == [iterators[r] EXCEPT !.opened = s]
  <2>1. it \in Iterators
    BY <1>0, <1>3, RunFields
  <2>2. /\ it.token = iterators[r].token /\ it.aborted = iterators[r].aborted
        /\ it.at = iterators[r].at /\ it.offer = iterators[r].offer
        /\ it.cursor = iterators[r].cursor /\ it.opened = s
    BY <1>0 DEF Iterators
  <2> QED
    BY <2>1, <2>2
<1>5. iterators' = [iterators EXCEPT ![r] = it]
  BY <1>1, <1>4
<1>6. edge' \in 0..MaxSeq
  BY <1>0, <1>1, <1>3
<1>7. FactoryTypeOK'
  BY <1>0, <1>2, <1>5, <1>6, RunChanges DEF FactoryTypeOK
<1>8. RunsInv'
  BY <1>0, <1>2, <1>4, <1>5, RunsKept
<1>9. CoverInv'
  <2>1. cuts = 0 => coveredThrough' <= Len(log) /\ edge' <= Len(log)
    BY <1>0, <1>1, <1>2 DEF CoverInv
  <2>2. ASSUME cuts = 0, Current(it) PROVE Continues(it)'
    <3>1. Current(iterators[r]) /\ Continues(iterators[r])
      BY <1>0, <1>2, <1>4, <2>2 DEF CoverInv, Current
    <3>2. coveredThrough = 0 /\ edge' = s
      BY <1>1, <1>2, <2>2, <3>1 DEF Continues
    <3> QED
      BY <1>0, <1>2, <1>4, <3>1, <3>2 DEF Continues
  <2>3. Current(iterators[r]) \/ UNCHANGED <<coveredThrough, edge>>
    BY <1>1, <1>2
  <2> QED
    BY <1>0, <1>2, <1>4, <1>5, <2>1, <2>2, <2>3, CoverKept
<1>10. NothingLost'
  <2>1. CASE edge' = edge
    BY <1>0, <1>2, <2>1 DEF NothingLost
  <2>2. CASE edge' # edge
    <3>1. coveredThrough = 0
      BY <1>1, <2>2
    <3> QED
      BY <1>0, <1>2, <3>1, StoreTypes DEF NothingLost
  <2> QED
    BY <2>1, <2>2
<1> QED
  BY <1>7, <1>8, <1>9, <1>10 DEF KeepInv

\* What the journal gains is above everything covered and offered.
LEMMA GrowsStep == KeepInv /\ JournalGrows => KeepInv'
<1> SUFFICES ASSUME KeepInv, JournalGrows PROVE KeepInv'
  OBVIOUS
<1>0. /\ FactoryTypeOK /\ RunsInv /\ CoverInv /\ NothingLost
      /\ log \in Seq(Records) /\ Len(log) \in Nat /\ DOMAIN log = 1..Len(log)
      /\ MaxSeq \in Nat /\ coveredThrough \in Nat
      /\ DOMAIN iterators = 1..Len(iterators)
      /\ \A i \in 1..Len(iterators) : iterators[i] \in Iterators
  BY StoreTypes DEF KeepInv
<1>1. PICK record \in Records : log' = Append(log, record)
  BY DEF JournalGrows
<1>2. /\ Len(log) < MaxSeq
      /\ UNCHANGED <<cuts, controller, lifecycleToken, iterators, coveredThrough, shown, edge>>
  BY DEF JournalGrows, toldVars
<1>3. /\ log' \in Seq(Records) /\ Len(log') = Len(log) + 1
      /\ \A s \in 1..Len(log) : log'[s] = log[s]
  BY <1>0, <1>1, AppendProperties
<1>4. DOMAIN log' = 1..(Len(log) + 1)
  BY <1>3, LenProperties
<1>5. FactoryTypeOK'
  BY <1>0, <1>2, <1>3 DEF FactoryTypeOK
<1>6. RunsInv'
  BY <1>0, <1>2 DEF RunsInv, Current
<1>7. CoverInv'
  <2> SUFFICES ASSUME cuts = 0, NEW r \in DOMAIN iterators,
                      Current(iterators[r]), iterators[r].at = "waiting"
               PROVE  /\ coveredThrough <= Len(log') /\ edge <= Len(log')
                      /\ Continues(iterators[r])'
    <3>1. edge \in Nat
      BY <1>0, StoreTypes
    <3> QED
      BY <1>0, <1>2, <1>3, <3>1 DEF CoverInv, Current
  <2>1. /\ Continues(iterators[r]) /\ coveredThrough <= Len(log) /\ edge <= Len(log)
        /\ iterators[r].cursor \in Nat /\ edge \in Nat
    <3>1. Continues(iterators[r]) /\ coveredThrough <= Len(log) /\ edge <= Len(log)
      BY <1>0 DEF CoverInv
    <3>2. iterators[r].cursor \in 0..MaxSeq
      BY <1>0 DEF Iterators
    <3> QED
      BY <1>0, <3>1, <3>2, StoreTypes
  <2>2. iterators[r].offer.made =>
          /\ iterators[r].cursor <= Len(log)
          /\ coveredThrough <= iterators[r].cursor
          /\ iterators[r].offer.event # 0 => log'[iterators[r].cursor].public
          /\ \A s \in DOMAIN log' :
               edge < s /\ coveredThrough < s /\ s <= iterators[r].cursor /\ log'[s].public
               => s = iterators[r].offer.event
    <3> SUFFICES ASSUME iterators[r].offer.made
                 PROVE  /\ iterators[r].cursor <= Len(log)
                        /\ coveredThrough <= iterators[r].cursor
                        /\ iterators[r].offer.event # 0 => log'[iterators[r].cursor].public
                        /\ \A s \in DOMAIN log' :
                             edge < s /\ coveredThrough < s /\ s <= iterators[r].cursor
                             /\ log'[s].public => s = iterators[r].offer.event
      OBVIOUS
    <3>1. iterators[r].cursor <= Len(log) /\ coveredThrough <= iterators[r].cursor
      BY <2>1 DEF Continues
    <3>2. iterators[r].offer.event # 0 => log'[iterators[r].cursor].public
      <4>1. iterators[r].offer.event # 0 => iterators[r].cursor \in 1..Len(log)
        BY <1>0, <2>1, <3>1 DEF Continues
      <4> QED
        BY <1>3, <2>1, <4>1 DEF Continues
    <3>3. \A s \in DOMAIN log' : s <= iterators[r].cursor => s \in DOMAIN log /\ log'[s] = log[s]
      BY <1>0, <1>3, <1>4, <2>1, <3>1
    <3> QED
      BY <2>1, <3>1, <3>2, <3>3 DEF Continues
  <2> QED
    BY <1>0, <1>2, <1>3, <2>1, <2>2 DEF Continues
<1>8. NothingLost'
  <2> SUFFICES ASSUME cuts = 0 PROVE NothingLost'
    BY <1>2 DEF NothingLost
  <2>1. \A s \in DOMAIN log' : s <= coveredThrough => s \in DOMAIN log /\ log'[s] = log[s]
    BY <1>0, <1>3, <1>4 DEF CoverInv
  <2> QED
    BY <1>0, <1>2, <2>1 DEF NothingLost
<1> QED
  BY <1>5, <1>6, <1>7, <1>8 DEF KeepInv

\* Once the journal has shrunk nothing is promised any more.
LEMMA ShrinksStep == KeepInv /\ JournalShrinks => KeepInv'
<1> SUFFICES ASSUME KeepInv, JournalShrinks PROVE KeepInv'
  OBVIOUS
<1>0. /\ FactoryTypeOK /\ RunsInv /\ log \in Seq(Records) /\ Len(log) \in Nat
      /\ cuts \in Nat /\ MaxSeq \in Nat /\ Len(log) <= MaxSeq /\ MaxTruncations \in Nat
  BY StoreTypes DEF KeepInv
<1>1. PICK tip \in 0..Len(log) : tip < Len(log) /\ log' = SubSeq(log, 1, tip)
  BY DEF JournalShrinks
<1>2. /\ cuts < MaxTruncations /\ cuts' = cuts + 1 /\ shown' = <<>> /\ edge' = 0
      /\ UNCHANGED <<controller, lifecycleToken, iterators, coveredThrough>>
  BY DEF JournalShrinks
<1>3. log' \in Seq(Records) /\ Len(log') <= MaxSeq
  <2>1. 1 \in Int /\ tip \in Int /\ \A i \in 1..tip : log[i] \in Records
    BY <1>0, ElementOfSeq
  <2>2. log' \in Seq(Records) /\ Len(log') = IF 1 <= tip THEN tip - 1 + 1 ELSE 0
    BY <1>0, <1>1, <2>1, SubSeqProperties
  <2> QED
    BY <1>0, <1>1, <2>2
<1>4. shown' \in Seq(Shown)
  BY <1>2, EmptySeq
<1>5. FactoryTypeOK'
  BY <1>0, <1>2, <1>3, <1>4 DEF FactoryTypeOK
<1>6. RunsInv'
  BY <1>0, <1>2 DEF RunsInv, Current
<1>7. CoverInv' /\ NothingLost'
  BY <1>0, <1>2 DEF CoverInv, NothingLost
<1> QED
  BY <1>5, <1>6, <1>7 DEF KeepInv

\* One step of the store, of a join or of the journal.
LEMMA KeepStep == KeepInv /\ [FactoryNext]_factoryVars => KeepInv'
<1> SUFFICES ASSUME KeepInv, [FactoryNext]_factoryVars PROVE KeepInv'
  OBVIOUS
<1>0. /\ FactoryTypeOK /\ RunsInv /\ CoverInv
      /\ DOMAIN iterators = 1..Len(iterators) /\ DOMAIN log = 1..Len(log)
      /\ Len(log) \in Nat /\ Len(log) <= MaxSeq /\ MaxSeq \in Nat
      /\ coveredThrough \in Nat /\ edge \in Nat /\ cuts \in Nat
      /\ \A i \in 1..Len(iterators) : iterators[i] \in Iterators
  BY StoreTypes DEF KeepInv
<1>z. 0 \in 0..MaxSeq
  BY <1>0
<1>1. ASSUME NEW r \in DOMAIN iterators, SettleFailed(r) PROVE KeepInv'
  <2>1. PICK it \in Iterators :
          /\ it = Gone(iterators[r]) /\ it.token = iterators[r].token
          /\ it.aborted = iterators[r].aborted /\ it.at = "left"
    BY <1>0, GoneRun
  <2>2. /\ iterators[r].at = "failing" /\ iterators' = [iterators EXCEPT ![r] = it]
        /\ controller' = (IF Current(iterators[r]) THEN 0 ELSE controller)
        /\ UNCHANGED <<log, cuts, lifecycleToken, coveredThrough, shown, edge>>
    BY <1>1, <2>1 DEF SettleFailed, journalVars, toldVars
  <2> QED
    BY <2>1, <2>2, RunMoves
<1>2. ASSUME NEW r \in DOMAIN iterators, iterators[r].at = "waiting",
             ~Current(iterators[r]) \/ iterators[r].aborted,
             iterators' = [iterators EXCEPT ![r] = Gone(iterators[r])],
             UNCHANGED <<log, cuts, controller, lifecycleToken, coveredThrough, shown, edge>>
      PROVE  KeepInv'
  <2>1. PICK it \in Iterators :
          /\ it = Gone(iterators[r]) /\ it.token = iterators[r].token
          /\ it.aborted = iterators[r].aborted /\ it.at = "left"
    BY <1>0, GoneRun
  <2>2. ~Current(iterators[r])
    BY <1>0, <1>2 DEF RunsInv
  <2> QED
    BY <1>2, <2>1, <2>2, RunMoves
<1>3. ASSUME NEW r \in DOMAIN iterators, Take(r) PROVE KeepInv'
  <2>1. CASE Current(iterators[r])
    <3>1. PICK it \in Iterators :
            /\ it = [iterators[r] EXCEPT !.offer = NoOffer]
            /\ it.token = iterators[r].token /\ it.aborted = iterators[r].aborted
            /\ it.cursor = iterators[r].cursor /\ it.opened = iterators[r].opened
            /\ ~it.offer.made /\ it.at = iterators[r].at
      <4> DEFINE it == [iterators[r] EXCEPT !.offer = NoOffer]
      <4>1. it \in Iterators
        BY <1>0, <1>z, RunFields
      <4>2. /\ it.token = iterators[r].token /\ it.aborted = iterators[r].aborted
            /\ it.cursor = iterators[r].cursor /\ it.opened = iterators[r].opened
            /\ ~it.offer.made /\ it.at = iterators[r].at
        BY <1>0 DEF Iterators, NoOffer
      <4> QED
        BY <4>1, <4>2
    <3>2. /\ iterators[r].offer.made /\ iterators[r].at = "waiting"
          /\ Publishes(iterators[r].offer) /\ iterators' = [iterators EXCEPT ![r] = it]
          /\ UNCHANGED <<log, cuts, edge, controller, lifecycleToken>>
      BY <1>3, <2>1, <3>1 DEF Take, journalVars
    <3> QED
      BY <2>1, <3>1, <3>2, TakenStep
  <2>2. CASE ~Current(iterators[r])
    BY <1>2, <1>3, <2>2 DEF Take, journalVars, toldVars
  <2> QED
    BY <2>1, <2>2
<1>4. ASSUME NEW r \in DOMAIN iterators, PersistThrows(r) PROVE KeepInv'
  <2>1. PICK it \in Iterators :
          /\ it = [iterators[r] EXCEPT !.offer = NoOffer, !.at = "failing"]
          /\ it.token = iterators[r].token /\ it.aborted = iterators[r].aborted
          /\ it.cursor = iterators[r].cursor /\ it.opened = iterators[r].opened
          /\ ~it.offer.made /\ it.at = "failing"
    <3> DEFINE it == [iterators[r] EXCEPT !.offer = NoOffer, !.at = "failing"]
    <3>1. it \in Iterators
      BY <1>0, <1>z, RunFields
    <3>2. /\ it.token = iterators[r].token /\ it.aborted = iterators[r].aborted
          /\ it.cursor = iterators[r].cursor /\ it.opened = iterators[r].opened
          /\ ~it.offer.made /\ it.at = "failing"
      BY <1>0 DEF Iterators, NoOffer
    <3> QED
      BY <3>1, <3>2
  <2>2. /\ iterators[r].offer.made /\ iterators[r].at = "waiting" /\ Current(iterators[r])
        /\ Publishes(iterators[r].offer) /\ iterators' = [iterators EXCEPT ![r] = it]
        /\ UNCHANGED <<log, cuts, edge, controller, lifecycleToken>>
    BY <1>4, <2>1 DEF PersistThrows, journalVars
  <2> QED
    BY <2>1, <2>2, TakenStep
<1>5. ASSUME NEW r \in DOMAIN iterators, PumpThrows(r) PROVE KeepInv'
  <2>1. CASE Current(iterators[r])
    <3>1. PICK it \in Iterators :
            /\ it = [iterators[r] EXCEPT !.at = "failing"] /\ it.at = "failing"
            /\ it.token = iterators[r].token /\ it.aborted = iterators[r].aborted
      <4> DEFINE it == [iterators[r] EXCEPT !.at = "failing"]
      <4>1. it \in Iterators
        BY <1>0, <1>z, RunFields
      <4>2. /\ it.at = "failing" /\ it.token = iterators[r].token
            /\ it.aborted = iterators[r].aborted
        BY <1>0 DEF Iterators
      <4> QED
        BY <4>1, <4>2
    <3>2. /\ iterators[r].at = "waiting" /\ iterators' = [iterators EXCEPT ![r] = it]
          /\ UNCHANGED <<log, cuts, controller, lifecycleToken, coveredThrough, shown, edge>>
      BY <1>5, <2>1, <3>1 DEF PumpThrows, journalVars, toldVars
    <3> QED
      BY <3>1, <3>2, RunMoves
  <2>2. CASE ~Current(iterators[r])
    BY <1>2, <1>5, <2>2 DEF PumpThrows, journalVars, toldVars
  <2> QED
    BY <2>1, <2>2
<1>6. ASSUME NEW r \in DOMAIN iterators, NEW c \in 0..MaxSeq, NEW e \in 0..MaxSeq,
             Yields(r, c, e),
             cuts = 0 /\ Continues(iterators[r]) =>
               /\ coveredThrough <= c /\ c <= Len(log)
               /\ e # 0 => e = c /\ coveredThrough < c /\ log[c].public
               /\ \A s \in DOMAIN log :
                    edge < s /\ coveredThrough < s /\ s <= c /\ log[s].public => s = e
      PROVE  KeepInv'
  <2>1. PICK it \in Iterators :
          /\ it = [iterators[r] EXCEPT !.cursor = c, !.offer = Offer(c, e)]
          /\ it.token = iterators[r].token /\ it.aborted = iterators[r].aborted
          /\ it.at = iterators[r].at /\ it.cursor = c /\ it.opened = iterators[r].opened
          /\ it.offer = Offer(c, e)
    <3> DEFINE it == [iterators[r] EXCEPT !.cursor = c, !.offer = Offer(c, e)]
    <3>1. it \in Iterators
      BY <1>0, RunFields
    <3>2. /\ it.token = iterators[r].token /\ it.aborted = iterators[r].aborted
          /\ it.at = iterators[r].at /\ it.cursor = c /\ it.opened = iterators[r].opened
          /\ it.offer = Offer(c, e)
      BY <1>0 DEF Iterators
    <3> QED
      BY <3>1, <3>2
  <2>2. /\ iterators[r].at = "waiting" /\ iterators' = [iterators EXCEPT ![r] = it]
        /\ UNCHANGED <<log, cuts, controller, lifecycleToken, coveredThrough, shown, edge>>
    BY <1>6, <2>1 DEF Yields, journalVars, toldVars
  <2>3. ASSUME cuts = 0, Current(it) PROVE Continues(it)
    <3>1. Continues(iterators[r])
      BY <1>0, <2>1, <2>2, <2>3 DEF CoverInv, Current
    <3>2. it.offer.covered = c /\ it.offer.event = e /\ it.offer.made
      BY <2>1 DEF Offer
    <3> QED
      BY <1>6, <2>1, <2>3, <3>1, <3>2 DEF Continues
  <2> QED
    BY <2>1, <2>2, <2>3, RunMoves
<1>7. ASSUME NEW r \in DOMAIN iterators, ~iterators[r].offer.made,
             cuts = 0, Continues(iterators[r]), NEW high \in Int,
             NothingPublicTo(iterators[r], high),
             NEW s \in DOMAIN log, edge < s, coveredThrough < s, s <= high
      PROVE  iterators[r].cursor = coveredThrough /\ ~log[s].public
  <2>1. /\ iterators[r].cursor = coveredThrough
        /\ iterators[r].opened <= edge \/ iterators[r].opened <= coveredThrough
    BY <1>7 DEF Continues
  <2>2. iterators[r].opened \in Nat /\ s \in Nat
    BY <1>0 DEF Iterators
  <2>3. s > iterators[r].cursor /\ s > iterators[r].opened
    BY <1>0, <1>7, <2>1, <2>2
  <2> QED
    BY <1>7, <2>1, <2>3 DEF NothingPublicTo
<1>8. ASSUME NEW r \in DOMAIN iterators, YieldsPublic(r) PROVE KeepInv'
  <2>1. PICK s \in DOMAIN log : /\ s > iterators[r].cursor /\ log[s].public
                                /\ NothingPublicTo(iterators[r], s - 1) /\ Yields(r, s, s)
    BY <1>8 DEF YieldsPublic
  <2>2. s \in 0..MaxSeq /\ s \in 1..Len(log) /\ s - 1 \in Int
    BY <1>0
  <2>3. ~iterators[r].offer.made
    BY <2>1 DEF Yields
  <2>4. ASSUME cuts = 0, Continues(iterators[r])
        PROVE  /\ coveredThrough < s
               /\ \A t \in DOMAIN log :
                    edge < t /\ coveredThrough < t /\ t <= s /\ log[t].public => t = s
    <3>1. coveredThrough < s
      BY <2>1, <2>3, <2>4 DEF Continues
    <3>2. ASSUME NEW t \in DOMAIN log, edge < t, coveredThrough < t, t <= s, log[t].public, t # s
          PROVE  FALSE
      <4>1. t <= s - 1
        BY <1>0, <2>2, <3>2
      <4> QED
        BY <1>7, <2>1, <2>2, <2>3, <2>4, <3>2, <4>1
    <3> QED
      BY <3>1, <3>2
  <2> QED
    BY <1>0, <1>6, <2>1, <2>2, <2>4
<1>9. ASSUME NEW r \in DOMAIN iterators, YieldsCoverage(r) PROVE KeepInv'
  <2>1. PICK s \in DOMAIN log : /\ s > iterators[r].cursor
                                /\ NothingPublicTo(iterators[r], s) /\ Yields(r, s, 0)
    BY <1>9 DEF YieldsCoverage
  <2>2. s \in 0..MaxSeq /\ s \in 1..Len(log) /\ s \in Int /\ 0 \in 0..MaxSeq
    BY <1>0
  <2>3. ~iterators[r].offer.made
    BY <2>1 DEF Yields
  <2>4. ASSUME cuts = 0, Continues(iterators[r])
        PROVE  /\ coveredThrough < s
               /\ \A t \in DOMAIN log :
                    edge < t /\ coveredThrough < t /\ t <= s => ~log[t].public
    <3>1. coveredThrough < s
      BY <2>1, <2>3, <2>4 DEF Continues
    <3>2. ASSUME NEW t \in DOMAIN log, edge < t, coveredThrough < t, t <= s
          PROVE  ~log[t].public
      BY <1>7, <2>1, <2>2, <2>3, <2>4, <3>2
    <3> QED
      BY <3>1, <3>2
  <2> QED
    BY <1>0, <1>6, <2>1, <2>2, <2>4
<1>10. ASSUME NEW r \in DOMAIN iterators, YieldsStatus(r) PROVE KeepInv'
  <2>1. /\ iterators[r].cursor \in 0..MaxSeq /\ 0 \in 0..MaxSeq
        /\ Yields(r, iterators[r].cursor, 0) /\ ~iterators[r].offer.made
    BY <1>0, <1>10 DEF YieldsStatus, Yields, Iterators
  <2>2. PICK c \in 0..MaxSeq : c = iterators[r].cursor
    BY <2>1
  <2>3. ASSUME cuts = 0, Continues(iterators[r])
        PROVE  c = coveredThrough /\ coveredThrough <= Len(log)
    BY <1>0, <2>1, <2>2, <2>3 DEF Continues, CoverInv
  <2>4. Yields(r, c, 0)
    BY <2>1, <2>2
  <2>5. \A s \in DOMAIN log : ~(coveredThrough < s /\ s <= coveredThrough)
    BY <1>0
  <2> QED
    BY <1>0, <1>6, <2>1, <2>3, <2>4, <2>5
<1>11. ASSUME NEW r \in DOMAIN iterators, GoesBack(r) PROVE KeepInv'
  <2>1. PICK s \in 0..Len(log) :
          iterators' = [iterators EXCEPT ![r].cursor = s, ![r].opened = s]
    BY <1>11 DEF GoesBack
  <2>2. PICK it \in Iterators :
          /\ it = [iterators[r] EXCEPT !.cursor = s, !.opened = s]
          /\ it.token = iterators[r].token /\ it.aborted = iterators[r].aborted
          /\ it.at = iterators[r].at
    <3> DEFINE it == [iterators[r] EXCEPT !.cursor = s, !.opened = s]
    <3>1. it \in Iterators
      <4>1. s \in 0..MaxSeq
        BY <1>0
      <4> QED
        BY <1>0, <4>1, RunFields
    <3>2. /\ it.token = iterators[r].token /\ it.aborted = iterators[r].aborted
          /\ it.at = iterators[r].at
      BY <1>0 DEF Iterators
    <3> QED
      BY <3>1, <3>2
  <2>3. /\ iterators' = [iterators EXCEPT ![r] = it] /\ cuts > 0
        /\ UNCHANGED <<log, cuts, controller, lifecycleToken, coveredThrough, shown, edge>>
    BY <1>11, <2>1, <2>2 DEF GoesBack, journalVars, toldVars
  <2>4. ~(cuts = 0) /\ (it.at = "left" <=> iterators[r].at = "left")
    BY <2>2, <2>3
  <2> QED
    BY <2>2, <2>3, <2>4, RunMoves
<1>12. ASSUME NEW r \in DOMAIN iterators, JoinReturns(r) PROVE KeepInv'
  BY <1>2, <1>12 DEF JoinReturns, journalVars, toldVars
<1>13. CASE UNCHANGED factoryVars
  BY <1>13 DEF factoryVars, journalVars, toldVars, KeepInv, FactoryTypeOK, RunsInv, CoverInv,
               NothingLost, Continues, Current
<1> QED
  BY <1>1, <1>3, <1>4, <1>5, <1>8, <1>9, <1>10, <1>11, <1>12, <1>13,
     StartStep, StopStep, OpensStep, GrowsStep, ShrinksStep DEF FactoryNext

LEMMA KeepStart == FactoryInit => KeepInv
<1> SUFFICES ASSUME FactoryInit PROVE KeepInv
  OBVIOUS
<1>0. /\ MaxSeq \in Nat /\ MaxStarts \in Nat /\ MaxTruncations \in Nat
      /\ iterators = <<>> /\ shown = <<>> /\ controller = 0 /\ lifecycleToken = 0 /\ cuts = 0
  BY FactoryBoundAssumption DEF FactoryInit
<1>1. PICK n \in 0..MaxSeq : log \in [1..n -> Records]
  BY DEF FactoryInit
<1>2. log \in Seq(Records) /\ Len(log) = n /\ n \in Nat
  BY <1>0, <1>1, SeqDef
<1>3. /\ iterators \in Seq(Iterators) /\ Len(iterators) = 0 /\ DOMAIN iterators = 1..0
      /\ shown \in Seq(Shown) /\ DOMAIN shown = 1..0
  BY <1>0, EmptySeq, LenProperties
<1>4. coveredThrough \in 0..n /\ edge = coveredThrough
  BY <1>2 DEF FactoryInit
<1>5. FactoryTypeOK
  BY <1>0, <1>1, <1>2, <1>3, <1>4 DEF FactoryTypeOK
<1>6. RunsInv /\ CoverInv
  BY <1>0, <1>2, <1>3, <1>4 DEF RunsInv, CoverInv
<1>7. NothingLost
  <2>1. DOMAIN log = 1..n
    BY <1>1
  <2> QED
    BY <1>2, <1>3, <1>4, <2>1 DEF NothingLost
<1> QED
  BY <1>5, <1>6, <1>7 DEF KeepInv

\* A step of the store is a step of the feed it promises, or no step of it.
LEMMA PromiseStep ==
  ASSUME KeepInv, KeepInv', cuts = 0, cuts' = 0, [FactoryNext]_factoryVars
  PROVE  [StoreFeed!Next]_(StoreFeed!vars)
<1>0. /\ FactoryTypeOK /\ NothingLost /\ cuts = 0 /\ cuts' = 0
      /\ coveredThrough \in Nat /\ edge' \in Nat
      /\ DOMAIN shown = 1..Len(shown) /\ Len(shown) \in Nat /\ shown \in Seq(Shown)
      /\ \A i \in 1..Len(shown) : shown[i] \in Shown
  <2>1. FactoryTypeOK /\ FactoryTypeOK' /\ NothingLost
    BY DEF KeepInv
  <2>3. edge' \in Nat
    BY <2>1, FactoryBoundAssumption DEF FactoryTypeOK
  <2> QED
    BY <2>1, <2>3, StoreTypes
<1>1. CASE UNCHANGED <<log, coveredThrough, edge, shown>>
  BY <1>1 DEF StoreFeed!vars
<1>2. ASSUME coveredThrough = 0, edge' \in 0..Len(log), UNCHANGED <<log, coveredThrough, shown>>
      PROVE  StoreFeed!Open
  <2>1. shown = <<>>
    <3>1. \A i \in 1..Len(shown) : shown[i].seq \in 1..MaxSeq /\ shown[i].seq <= 0
      BY <1>0, <1>2 DEF NothingLost, Shown
    <3>2. Len(shown) = 0
      <4>1. Len(shown) # 0 => 1 \in 1..Len(shown)
        BY <1>0
      <4>2. MaxSeq \in Nat
        BY FactoryBoundAssumption
      <4> QED
        BY <3>1, <4>1, <4>2
    <3> QED
      BY <1>0, <3>2, EmptySeq
  <2> QED
    BY <1>2, <2>1 DEF StoreFeed!Open
<1>3. CASE FactoryStart
  <2>1. /\ UNCHANGED <<log, coveredThrough, shown>>
        /\ edge' = IF coveredThrough = 0 THEN 0 ELSE edge
    BY <1>3 DEF FactoryStart, journalVars, toldVars
  <2>2. 0 \in 0..Len(log)
    BY <1>0, StoreTypes
  <2> QED
    BY <1>1, <1>2, <2>1, <2>2 DEF StoreFeed!Next
<1>4. CASE FactoryStop \/ \E r \in DOMAIN iterators : SettleFailed(r)
  BY <1>1, <1>4 DEF FactoryStop, SettleFailed, journalVars, toldVars
<1>5. ASSUME NEW r \in DOMAIN iterators, Take(r) \/ PersistThrows(r)
      PROVE  [StoreFeed!Next]_(StoreFeed!vars)
  <2>1. CASE Current(iterators[r])
    <3>1. /\ iterators[r].offer.made /\ iterators[r].at = "waiting"
          /\ Publishes(iterators[r].offer) /\ UNCHANGED <<log, cuts, edge>>
      BY <1>5, <2>1 DEF Take, PersistThrows, journalVars
    <3> QED
      BY <1>0, <2>1, <3>1, PublishStep
  <2>2. CASE ~Current(iterators[r])
    BY <1>1, <1>5, <2>2 DEF Take, PersistThrows, journalVars, toldVars
  <2> QED
    BY <2>1, <2>2
<1>6. ASSUME NEW r \in DOMAIN iterators,
             \/ PumpThrows(r) \/ YieldsPublic(r) \/ YieldsCoverage(r) \/ YieldsStatus(r)
             \/ GoesBack(r) \/ JoinReturns(r)
      PROVE  UNCHANGED <<log, coveredThrough, edge, shown>>
  BY <1>6 DEF PumpThrows, YieldsPublic, YieldsCoverage, YieldsStatus, Yields, GoesBack,
              JoinReturns, journalVars, toldVars
<1>7. ASSUME NEW r \in DOMAIN iterators, OpensWindow(r)
      PROVE  [StoreFeed!Next]_(StoreFeed!vars)
  <2>1. /\ UNCHANGED <<log, coveredThrough, shown>>
        /\ \/ edge' = edge
           \/ coveredThrough = 0 /\ edge' \in 0..Len(log)
    BY <1>7 DEF OpensWindow, journalVars, toldVars
  <2> QED
    BY <1>1, <1>2, <2>1 DEF StoreFeed!Next
<1>8. CASE JournalGrows
  <2>1. StoreFeed!Grow
    BY <1>8 DEF JournalGrows, Records, StoreFeed!Grow, toldVars
  <2> QED
    BY <2>1 DEF StoreFeed!Next
<1>9. ~JournalShrinks
  BY <1>0 DEF JournalShrinks
<1>10. CASE UNCHANGED factoryVars
  BY <1>1, <1>10 DEF factoryVars, journalVars, toldVars
<1> QED
  BY <1>1, <1>3, <1>4, <1>5, <1>6, <1>7, <1>8, <1>9, <1>10 DEF FactoryNext

\* While the journal only grows, every public record between the window's edge
\* and the cursor the next join starts from was published, in order and once.
THEOREM StoreLosesNothing == FactorySpec => []NothingLost
<1>1. KeepInv => NothingLost
  BY DEF KeepInv
<1> QED
  BY <1>1, KeepStart, KeepStep, PTL DEF FactorySpec

\* The store hears one run at most, and has aborted or seen the end of every
\* other.
THEOREM OneRunHeard == FactorySpec => []RunsAsAsked
<1>1. KeepInv => RunsAsAsked
  <2> SUFFICES ASSUME KeepInv, ~Telling PROVE RunsAsAsked
    BY DEF RunsAsAsked
  <2>1. RunsInv /\ (controller # 0 => controller \in DOMAIN iterators)
    <3>1. FactoryTypeOK /\ RunsInv
      BY DEF KeepInv
    <3> QED
      BY <3>1, StoreTypes DEF FactoryTypeOK
  <2>2. \A r \in DOMAIN iterators : iterators[r].at \in {"waiting", "left"}
    BY StoreTypes DEF KeepInv, Telling, Iterators
  <2> QED
    BY <2>1, <2>2 DEF RunsInv, RunsAsAsked
<1> QED
  BY <1>1, KeepStart, KeepStep, PTL DEF FactorySpec

\* Over all its runs, and until the journal shrinks, the store publishes one
\* contiguous feed.
THEOREM StoreKeepsPromise == FactorySpec => KeepsThePromise
<1>1. FactoryInit => KeepInv /\ StoreFeed!Init
  <2>1. FactoryInit => StoreFeed!Init
    BY DEF FactoryInit, StoreFeed!Init
  <2> QED
    BY <2>1, KeepStart
<1>2. KeepInv /\ [FactoryNext]_factoryVars =>
        KeepInv' /\ [cuts = 0 /\ cuts' = 0 => StoreFeed!Next]_(StoreFeed!vars)
  BY KeepStep, PromiseStep
<1> QED
  BY <1>1, <1>2, PTL DEF FactorySpec, KeepsThePromise

\* The store loses no record, hears the run that was asked for and no other,
\* and publishes one contiguous feed until the journal shrinks.
THEOREM StoreIsFaithful == FactorySpec => StoreFaithful
  BY StoreLosesNothing, OneRunHeard, StoreKeepsPromise, PTL DEF StoreFaithful

-----------------------------------------------------------------------------
(* Reachability.                                                           *)

\* A failure that is being timed was a failure since the last sign of the host,
\* and is no older than it.
TimedInv ==
  /\ ProbeTypeOK /\ NeverHasty /\ TroubleNamed
  /\ failingFor # NotFailing => failures > 0 /\ failingFor <= silentFor

LEMMA OlderAge ==
  ASSUME NEW age \in 0..NotFailing
  PROVE  /\ Older(age) \in 0..NotFailing
         /\ age \in 0..After => Older(age) \in 0..After
         /\ age = NotFailing => Older(age) = age
         /\ age = After => Older(age) = age
         /\ Older(age) = NotFailing => age = NotFailing
         /\ \A other \in 0..After : age <= other => Older(age) <= Older(other)
BY AfterAssumption DEF Older, NotFailing

LEMMA TimedStep == TimedInv /\ [ProbeNext]_probeVars => TimedInv'
<1> SUFFICES ASSUME TimedInv, [ProbeNext]_probeVars
             PROVE  TimedInv'
  OBVIOUS
<1> USE AfterAssumption DEF TimedInv, ProbeTypeOK, NeverHasty, TroubleNamed
<1>0. watching' \in BOOLEAN
  BY Zenon DEF ProbeNext, Watched, ProbeUnmount, probeVars
<1>1. CASE Probe
  BY <1>0, <1>1 DEF Probe, shownVars, historyVars
<1>2. ASSUME Reached, UNCHANGED <<request, up>> \/ (request' = "none" /\ UNCHANGED up),
             sawNotify' \in BOOLEAN
      PROVE  TimedInv'
  <2>1. ProbeTypeOK' /\ failingFor' = NotFailing'
    <3>1. {watching, probeError, sawNotify, up}' \subseteq BOOLEAN
      BY <1>0, <1>2, Zenon DEF Reached
    <3>2. /\ state' = "reachable" /\ request' \in {"none", "sent", "answered", "failed"}
          /\ failingFor' = NotFailing /\ silentFor' = 0 /\ failures' = 0
      BY <1>2 DEF Reached
    <3> QED
      BY <3>1, <3>2 DEF NotFailing
  <2>2. NeverHasty' /\ TroubleNamed'
    <3>1. state' # "unreachable" /\ state' # "degraded" /\ state' = "reachable"
      BY <1>2 DEF Reached
    <3>2. ~probeError'
      BY <1>2, Zenon DEF Reached
    <3> QED
      BY <3>1, <3>2, Zenon
  <2> QED
    BY <2>1, <2>2
<1>3. CASE Interval
  BY <1>1, <1>2, <1>3 DEF Interval
<1>4. CASE Answered
  BY <1>2, <1>4 DEF Answered
<1>5. CASE Rejected
  <2>1. /\ failingFor' \in 0..After /\ failures' \in 1..2 /\ silentFor' = silentFor
        /\ failingFor' <= silentFor' /\ (failingFor' > 0 => failures' = 2)
    BY <1>5 DEF Rejected, NotFailing
  <2>2. probeError' = TRUE /\ state' \in {"degraded", "unreachable"}
    BY <1>5 DEF Rejected
  <2>3. state' = "unreachable" => failures' = 2 /\ silentFor' = After
    BY <1>5, <2>1 DEF Rejected
  <2> QED
    BY <1>0, <1>5, <2>1, <2>2, <2>3 DEF Rejected, NotFailing
<1>6. CASE Notify
  BY <1>0, <1>6 DEF Notify, shownVars, historyVars
<1>7. CASE Tick
  <2>1. silentFor \in 0..NotFailing
    BY DEF NotFailing
  <2>2. /\ failingFor' \in 0..NotFailing /\ silentFor' \in 0..After
        /\ failingFor' # NotFailing => failingFor # NotFailing /\ failingFor' <= silentFor'
        /\ silentFor = After => silentFor' = After
    BY <1>7, <2>1, OlderAge DEF Tick
  <2> QED
    BY <1>0, <1>7, <2>2 DEF Tick, shownVars
<1>8. CASE ComesOrGoes
  BY <1>0, <1>8 DEF ComesOrGoes, shownVars, historyVars
<1>9. CASE RequestSettles
  BY <1>0, <1>9 DEF RequestSettles, shownVars, historyVars
<1>10. CASE ProbeUnmount
  BY <1>0, <1>10 DEF ProbeUnmount, shownVars, historyVars
<1>11. CASE UNCHANGED probeVars
  BY <1>0, <1>11 DEF probeVars, shownVars, historyVars
<1> QED
  BY <1>1, <1>3, <1>4, <1>5, <1>6, <1>7, <1>8, <1>9, <1>10, <1>11
  DEF ProbeNext, Watched

\* The page gives the host up on two failures at least, After or more apart
\* from the last sign it took note of, and names an error exactly while it
\* shows trouble.
THEOREM NeverGivenUpEarly == ProbeSpec => [](NeverHasty /\ TroubleNamed)
<1>1. ProbeInit => TimedInv
  <2>1. ProbeInit => ProbeTypeOK /\ failingFor = NotFailing
    <3>1. ProbeInit => {watching, probeError, sawNotify, up} \subseteq BOOLEAN
      BY Zenon DEF ProbeInit
    <3>2. ProbeInit => /\ state = "reachable" /\ request = "sent"
                       /\ failingFor = NotFailing /\ silentFor = 0 /\ failures = 0
      BY DEF ProbeInit
    <3> QED
      BY <3>1, <3>2, AfterAssumption DEF ProbeTypeOK, NotFailing
  <2>2. ProbeInit => state # "unreachable" /\ state # "degraded" /\ state = "reachable"
    BY DEF ProbeInit
  <2>3. ProbeInit => ~probeError
    BY Zenon DEF ProbeInit
  <2>4. ProbeInit => NeverHasty /\ TroubleNamed
    BY <2>2, <2>3, Zenon DEF NeverHasty, TroubleNamed
  <2> QED
    BY <2>1, <2>4 DEF TimedInv
<1>2. TimedInv => NeverHasty /\ TroubleNamed
  BY DEF TimedInv
<1> QED
  BY <1>1, <1>2, TimedStep, PTL DEF ProbeSpec

-----------------------------------------------------------------------------
(* The session list.                                                       *)

\* What the snapshot says of a read that is the current one.
Says(l) ==
  IF ~l.heard THEN loading /\ error = "none"
  ELSE /\ ~loading /\ l.outcome # "pending"
       /\ IF l.outcome \in {"page", "empty"}
          THEN /\ page = [of |-> Len(reads), empty |-> l.outcome = "empty"]
               /\ error = "none"
          ELSE error = l.outcome

\* The snapshot is that of the newest read, which no cleanup aborts while the
\* page is mounted; and only an aborted read ends as one.
ListInv ==
  /\ ListTypeOK
  /\ reads # <<>> => Says(reads[Len(reads)])
  /\ \A r \in DOMAIN reads : reads[r].outcome = "aborted" => reads[r].aborted
  /\ mounted => reads # <<>> /\ ~reads[Len(reads)].aborted

\* The reads and the effect's, after its cleanup.
LEMMA ListReads ==
  ASSUME ListTypeOK
  PROVE  /\ reads \in Seq(Reads) /\ Len(reads) \in Nat /\ DOMAIN reads = 1..Len(reads)
         /\ reads # <<>> => Len(reads) \in 1..Len(reads)
         /\ \A r \in 1..Len(reads) : reads[r] \in Reads
BY LenProperties, ElementOfSeq, EmptySeq DEF ListTypeOK

\* Aborting one read, if any, leaves what every read came to.
LEMMA CleanedReads ==
  ASSUME ListTypeOK
  PROVE  /\ Cleaned \in Seq(Reads) /\ Len(Cleaned) = Len(reads)
         /\ \A r \in 1..Len(reads) :
              /\ Cleaned[r] \in Reads
              /\ Cleaned[r].heard = reads[r].heard /\ Cleaned[r].outcome = reads[r].outcome
              /\ reads[r].aborted => Cleaned[r].aborted
<1>1. CASE effectRead = NoRead
  BY <1>1, ListReads DEF Cleaned
<1>2. CASE effectRead # NoRead
  <2> DEFINE l == [reads[effectRead] EXCEPT !.aborted = TRUE]
  <2>1. effectRead \in 1..Len(reads)
    BY <1>2, ListReads DEF ListTypeOK, NoRead
  <2>2. /\ l \in Reads /\ l.heard = reads[effectRead].heard
        /\ l.outcome = reads[effectRead].outcome /\ l.aborted
    BY <2>1, ListReads DEF Reads
  <2>3. Cleaned = [reads EXCEPT ![effectRead] = l]
    BY <1>2 DEF Cleaned
  <2> HIDE DEF l
  <2> QED
    BY <2>1, <2>2, <2>3, ListReads, ExceptSeq
<1> QED
  BY <1>1, <1>2

\* A refresh makes a read that is the newest, pending and not aborted.
LEMMA RefreshStep ==
  ASSUME ListInv, NEW before \in Seq(Reads), Len(before) = Len(reads),
         \A r \in 1..Len(reads) : before[r].outcome = "aborted" => before[r].aborted,
         NEW of \in Queries, Refresh(before, of),
         mounted' \in BOOLEAN, query' \in Queries, effectRead' \in 0..Len(reads')
  PROVE  ListInv'
<1> DEFINE l == [query |-> of, aborted |-> FALSE, heard |-> FALSE, outcome |-> "pending"]
<1>0. Len(reads) \in Nat /\ Len(reads) < MaxReads
  BY ListReads DEF ListInv, Refresh
<1>1. l \in Reads /\ ~l.heard /\ ~l.aborted /\ l.outcome = "pending"
  BY DEF Reads
<1>2. reads' = Append(before, l) /\ loading' = TRUE /\ error' = "none" /\ page' = page
  BY DEF Refresh
<1> HIDE DEF l
<1>3. /\ reads' \in Seq(Reads) /\ Len(reads') = Len(reads) + 1
      /\ reads'[Len(reads')] = l
      /\ \A r \in 1..Len(reads) : reads'[r] = before[r]
  BY <1>0, <1>1, <1>2, AppendProperties
<1>4. DOMAIN reads' = 1..(Len(reads) + 1) /\ reads' # <<>>
  BY <1>0, <1>3, LenProperties, EmptySeq
<1>5. ListTypeOK'
  <2>1. page \in [of : 0..Len(reads'), empty : BOOLEAN]
    BY <1>0, <1>3 DEF ListInv, ListTypeOK
  <2> QED
    BY <1>0, <1>2, <1>3, <2>1, ListBoundAssumption DEF ListTypeOK
<1>6. Says(reads[Len(reads)])'
  BY <1>1, <1>2, <1>3 DEF Says
<1>7. \A r \in DOMAIN reads' : reads'[r].outcome = "aborted" => reads'[r].aborted
  <2> TAKE r \in DOMAIN reads'
  <2>1. r \in 1..Len(reads) \/ r = Len(reads')
    BY <1>0, <1>3, <1>4
  <2> QED
    BY <1>1, <1>3, <2>1
<1> QED
  BY <1>1, <1>3, <1>4, <1>5, <1>6, <1>7 DEF ListInv

\* One read changes to another that keeps the invariant.
LEMMA ReadStep ==
  ASSUME ListInv, NEW r \in DOMAIN reads, NEW l \in Reads,
         reads' = [reads EXCEPT ![r] = l], l.aborted = reads[r].aborted,
         l.outcome = "aborted" => l.aborted,
         UNCHANGED <<mounted, query, effectRead>>,
         page' \in [of : 0..Len(reads), empty : BOOLEAN], loading' \in BOOLEAN,
         error' \in {"none", "failed", "aborted"},
         IF r = Len(reads) THEN Says(l)' ELSE UNCHANGED snapshotVars
  PROVE  ListInv'
<1>0. /\ reads \in Seq(Reads) /\ Len(reads) \in Nat /\ r \in 1..Len(reads)
      /\ reads # <<>> /\ Len(reads) \in 1..Len(reads)
  <2>1. /\ reads \in Seq(Reads) /\ Len(reads) \in Nat /\ DOMAIN reads = 1..Len(reads)
    BY ListReads DEF ListInv
  <2> QED
    BY <2>1, EmptySeq
<1>1. /\ reads' \in Seq(Reads) /\ Len(reads') = Len(reads)
      /\ \A i \in 1..Len(reads) : reads'[i] = IF i = r THEN l ELSE reads[i]
  BY <1>0, ExceptSeq
<1>2. DOMAIN reads' = 1..Len(reads) /\ reads' # <<>>
  BY <1>0, <1>1, LenProperties, EmptySeq
<1>3. ListTypeOK'
  BY <1>1 DEF ListInv, ListTypeOK
<1>4. Says(reads[Len(reads)])'
  <2>1. CASE r = Len(reads)
    BY <1>0, <1>1, <2>1
  <2>2. CASE r # Len(reads)
    BY <1>0, <1>1, <2>2 DEF ListInv, Says, snapshotVars
  <2> QED
    BY <2>1, <2>2
<1>5. \A i \in DOMAIN reads' : reads'[i].outcome = "aborted" => reads'[i].aborted
  BY <1>0, <1>1, <1>2 DEF ListInv
<1>6. mounted' => ~reads'[Len(reads')].aborted
  BY <1>0, <1>1 DEF ListInv
<1> QED
  BY <1>2, <1>3, <1>4, <1>5, <1>6 DEF ListInv

LEMMA ListStep == ListInv /\ [ListNext]_listVars => ListInv'
<1> SUFFICES ASSUME ListInv, [ListNext]_listVars
             PROVE  ListInv'
  OBVIOUS
<1>0. /\ ListTypeOK /\ reads \in Seq(Reads) /\ Len(reads) \in Nat
      /\ DOMAIN reads = 1..Len(reads) /\ \A r \in 1..Len(reads) : reads[r] \in Reads
  BY ListReads DEF ListInv
<1>1. ASSUME NEW of \in Queries, Effect(of) PROVE ListInv'
  <2>1. \A r \in 1..Len(reads) : Cleaned[r].outcome = "aborted" => Cleaned[r].aborted
    BY <1>0, CleanedReads DEF ListInv
  <2>2. effectRead' \in 0..Len(reads')
    <3>1. reads' \in Seq(Reads)
      <4>1. [query |-> of, aborted |-> FALSE, heard |-> FALSE, outcome |-> "pending"] \in Reads
        BY <1>1 DEF Reads
      <4> QED
        BY <1>0, <1>1, <4>1, CleanedReads, AppendProperties DEF Effect, Refresh
    <3>2. Len(reads') \in Nat
      BY <3>1, LenProperties
    <3> QED
      BY <1>1, <3>2 DEF Effect
  <2> QED
    BY <1>0, <1>1, <2>1, <2>2, CleanedReads, RefreshStep DEF Effect
<1>2. CASE ListMount \/ QueryChanges
  BY <1>0, <1>1, <1>2 DEF ListMount, QueryChanges, ListTypeOK
<1>3. CASE ListUnmount
  <2>1. /\ reads' = Cleaned /\ mounted' = FALSE /\ effectRead' = NoRead
        /\ query' = query /\ page' = page /\ loading' = loading /\ error' = error
    BY <1>3 DEF ListUnmount, snapshotVars
  <2>2. /\ reads' \in Seq(Reads) /\ Len(reads') = Len(reads)
        /\ DOMAIN reads' = 1..Len(reads) /\ (reads' # <<>> => reads # <<>>)
    BY <1>0, <2>1, CleanedReads, LenProperties, EmptySeq
  <2>3. ListTypeOK'
    <3>1. {mounted, loading}' \subseteq BOOLEAN
      BY <1>0, <2>1, Zenon DEF ListTypeOK
    <3> QED
      BY <1>0, <2>1, <2>2, <3>1 DEF ListTypeOK, NoRead
  <2>4. reads' # <<>> => Says(reads[Len(reads)])'
    BY <1>0, <2>1, <2>2, CleanedReads, EmptySeq DEF ListInv, Says
  <2>5. \A r \in DOMAIN reads' : reads'[r].outcome = "aborted" => reads'[r].aborted
    BY <1>0, <2>1, <2>2, CleanedReads DEF ListInv
  <2> QED
    BY <2>1, <2>3, <2>4, <2>5 DEF ListInv
<1>4. CASE ManualRefresh
  <2>1. PICK q \in Queries : Refresh(reads, q)
    BY <1>4 DEF ManualRefresh
  <2>2. effectRead' \in 0..Len(reads')
    <3>1. Len(reads') = Len(reads) + 1
      <4>1. [query |-> q, aborted |-> FALSE, heard |-> FALSE, outcome |-> "pending"] \in Reads
        BY DEF Reads
      <4> QED
        BY <1>0, <2>1, <4>1, AppendProperties DEF Refresh
    <3> QED
      BY <1>0, <1>4, <3>1 DEF ManualRefresh, ListTypeOK
  <2>3. mounted' \in BOOLEAN /\ query' \in Queries
    BY <1>0, <1>4 DEF ManualRefresh, ListTypeOK
  <2> QED
    BY <1>0, <2>1, <2>2, <2>3, RefreshStep DEF ListInv
<1>5. ASSUME NEW r \in DOMAIN reads, Settles(r) PROVE ListInv'
  <2>1. PICK outcome \in IF reads[r].aborted THEN {"aborted"} ELSE {"page", "empty", "failed"} :
          reads' = [reads EXCEPT ![r].outcome = outcome]
    BY <1>5 DEF Settles
  <2>2. PICK l \in Reads : /\ l = [reads[r] EXCEPT !.outcome = outcome]
                           /\ l.aborted = reads[r].aborted /\ l.heard = reads[r].heard
                           /\ l.outcome = outcome
    <3> DEFINE l == [reads[r] EXCEPT !.outcome = outcome]
    <3>1. /\ l \in Reads /\ l.aborted = reads[r].aborted /\ l.heard = reads[r].heard
          /\ l.outcome = outcome
      BY <1>0 DEF Reads
    <3> QED
      BY <3>1
  <2>3. reads' = [reads EXCEPT ![r] = l]
    BY <2>1, <2>2
  <2>4. UNCHANGED <<mounted, query, effectRead, page, loading, error>>
    BY <1>5 DEF Settles, snapshotVars
  <2>5. r = Len(reads) => ~reads[r].heard /\ loading /\ error = "none"
    <3>1. r = Len(reads) => reads # <<>>
      BY <1>0, EmptySeq
    <3> QED
      BY <1>5, <3>1 DEF Settles, ListInv, Says
  <2>6. r = Len(reads) => Says(l)'
    BY <2>2, <2>4, <2>5 DEF Says
  <2>7. /\ page' \in [of : 0..Len(reads), empty : BOOLEAN]
        /\ error' \in {"none", "failed", "aborted"} /\ UNCHANGED snapshotVars
    BY <1>0, <2>4 DEF ListTypeOK, snapshotVars
  <2>8. loading' \in BOOLEAN
    BY <1>0, <2>4, Zenon DEF ListTypeOK
  <2>9. l.outcome = "aborted" => l.aborted
    BY <2>1, <2>2
  <2>10. IF r = Len(reads) THEN Says(l)' ELSE UNCHANGED snapshotVars
    BY <2>6, <2>7
  <2> QED
    BY <1>5, <2>2, <2>3, <2>4, <2>7, <2>8, <2>9, <2>10, ReadStep
<1>6. ASSUME NEW r \in DOMAIN reads, Heard(r) PROVE ListInv'
  <2>1. PICK l \in Reads : /\ l = [reads[r] EXCEPT !.heard = TRUE]
                           /\ l.aborted = reads[r].aborted /\ l.heard
                           /\ l.outcome = reads[r].outcome
    <3> DEFINE l == [reads[r] EXCEPT !.heard = TRUE]
    <3>1. /\ l \in Reads /\ l.aborted = reads[r].aborted /\ l.heard
          /\ l.outcome = reads[r].outcome
      BY <1>0 DEF Reads
    <3> QED
      BY <3>1
  <2>2. reads' = [reads EXCEPT ![r] = l] /\ UNCHANGED <<mounted, query, effectRead>>
    BY <1>6, <2>1 DEF Heard
  <2>3. reads[r].outcome \in {"page", "empty", "failed", "aborted"}
    BY <1>0, <1>6 DEF Heard, Reads
  <2>4. CASE r # Len(reads)
    <3>1. UNCHANGED <<page, loading, error>>
      BY <1>6, <2>4 DEF Heard, IsCurrent, snapshotVars
    <3> QED
      BY <1>0, <2>1, <2>2, <2>4, <3>1, ReadStep DEF snapshotVars, ListTypeOK, ListInv
  <2>5. CASE r = Len(reads)
    <3>1. error = "none"
      <4>1. reads # <<>>
        BY <1>0, EmptySeq
      <4> QED
        BY <1>6, <2>5, <4>1 DEF Heard, ListInv, Says
    <3>2. /\ loading' = FALSE
          /\ IF l.outcome \in {"page", "empty"}
             THEN page' = [of |-> r, empty |-> l.outcome = "empty"] /\ error' = error
             ELSE error' = l.outcome /\ page' = page
      BY <1>6, <2>1, <2>5 DEF Heard, IsCurrent
    <3>3. Len(reads') = Len(reads)
      BY <1>0, <2>1, <2>2, ExceptSeq
    <3>4. Says(l)'
      BY <2>1, <2>3, <2>5, <3>1, <3>2, <3>3 DEF Says
    <3>5. /\ page' \in [of : 0..Len(reads), empty : BOOLEAN] /\ loading' \in BOOLEAN
          /\ error' \in {"none", "failed", "aborted"}
      <4>1. loading' \in BOOLEAN
        BY <3>2, Zenon
      <4>2. CASE l.outcome \in {"page", "empty"}
        <5>1. (l.outcome = "empty") \in BOOLEAN
          BY Zenon
        <5>2. [of |-> r, empty |-> l.outcome = "empty"] \in [of : 0..Len(reads), empty : BOOLEAN]
          BY <1>0, <2>5, <5>1
        <5> QED
          BY <3>1, <3>2, <4>1, <4>2, <5>2
      <4>3. CASE l.outcome \notin {"page", "empty"}
        BY <1>0, <2>1, <2>3, <3>2, <4>1, <4>3 DEF ListTypeOK
      <4> QED
        BY <4>2, <4>3
    <3>6. l.outcome = "aborted" => l.aborted
      BY <2>1 DEF ListInv
    <3> QED
      BY <2>1, <2>2, <2>5, <3>4, <3>5, <3>6, ReadStep
  <2> QED
    BY <2>4, <2>5
<1>7. CASE UNCHANGED listVars
  BY <1>7 DEF listVars, snapshotVars, ListInv, ListTypeOK, Says
<1> QED
  BY <1>2, <1>3, <1>4, <1>5, <1>6, <1>7 DEF ListNext

LEMMA ListStart == ListInit => ListInv
<1> SUFFICES ASSUME ListInit PROVE ListInv
  OBVIOUS
<1>1. reads \in Seq(Reads) /\ Len(reads) = 0 /\ DOMAIN reads = 1..0
  <2>1. reads = <<>>
    BY DEF ListInit
  <2> QED
    BY <2>1, EmptySeq, LenProperties
<1>2. {mounted, loading} \subseteq BOOLEAN /\ ~mounted
  BY Zenon DEF ListInit
<1>3. ListTypeOK
  BY <1>1, <1>2, ListBoundAssumption DEF ListInit, ListTypeOK, NoPage, NoRead
<1> QED
  BY <1>1, <1>2, <1>3 DEF ListInit, ListInv

\* While the page is mounted it says what came of the read started last,
\* however reads overlap and in whatever order they settle.
THEOREM NewestReadShown == ListSpec => [](mounted => NewestTold)
<1>1. ListInv => (mounted => NewestTold)
  <2> SUFFICES ASSUME ListInv, mounted PROVE NewestTold
    OBVIOUS
  <2> DEFINE last == reads[Len(reads)]
  <2>1. reads # <<>> /\ Says(last) /\ ~last.aborted
    BY DEF ListInv
  <2>2. last \in Reads /\ Len(reads) \in Nat /\ Len(reads) # NoRead
    BY <2>1, ListReads DEF ListInv, NoRead
  <2>3. last.outcome # "aborted"
    BY <2>1, ListReads DEF ListInv
  <2> HIDE DEF last
  <2>4. CASE ~last.heard
    BY <2>1, <2>4 DEF NewestTold, SessionsListState, Says, last
  <2>5. CASE last.heard
    BY <2>1, <2>2, <2>3, <2>5 DEF NewestTold, SessionsListState, Says, Reads, last
  <2> QED
    BY <2>4, <2>5
<1> QED
  BY <1>1, ListStart, ListStep, PTL DEF ListSpec

\* The page of a read is never replaced by that of an earlier one.
LEMMA PageNeverBackwards == ListSpec => NeverBackwards
<1>1. ListInv /\ [ListNext]_listVars => [page'.of >= page.of]_page
  <2> SUFFICES ASSUME ListInv, [ListNext]_listVars, page' # page
               PROVE  page'.of >= page.of
    BY DEF ListInv
  <2>1. PICK r \in DOMAIN reads : Heard(r)
    BY DEF ListNext, ListMount, QueryChanges, Effect, Refresh, ListUnmount, ManualRefresh,
           Settles, snapshotVars, listVars
  <2>3. r = Len(reads) /\ page'.of = r
    BY <2>1 DEF Heard, IsCurrent, snapshotVars
  <2>2. page.of \in 0..Len(reads) /\ Len(reads) \in Nat
    BY ListReads DEF ListInv, ListTypeOK
  <2> QED
    BY <2>2, <2>3
<1> QED
  BY <1>1, ListStart, ListStep, PTL DEF ListSpec, NeverBackwards

\* What the list says is what came of the newest read, and its page is never
\* replaced by that of an earlier one.
THEOREM ListTellsTheNewest == ListSpec => ListTells
  BY NewestReadShown, PageNeverBackwards, PTL DEF ListTells

-----------------------------------------------------------------------------
(* The legacy session view store.                                          *)

Pumps == [of : 1..MaxGeneration, events : 0..MaxEvents, aborted : BOOLEAN]
Steps ==
  {"startReset", "startJoin", "stopRest", "pumpRest", "settle", "settleRest", "return"}
Outermost == {"pumpRest", "settle", "settleRest", "return"}

\* A listener calls back in a method only if the application calls back from
\* the channel that method speaks on.
Permitted(c) ==
  c.heard =>
    /\ c.next \in {"startReset", "stopRest", "settleRest"} => "lifecycle" \in habit
    /\ c.next = "startJoin" => "notify" \in habit

\* Only the method on top of the stack may be one whose listener calls nobody,
\* and what a pump does next is the bottom of the stack.
StackInv ==
  /\ calls \in Seq(Suspended) /\ habit \in Habits
  /\ \A i \in 1..Len(calls) :
       /\ i # 1 => calls[i].heard
       /\ calls[i].next \in Outermost => i = Len(calls)
       /\ Permitted(calls[i])

\* What is about to settle has left.
SettledGone ==
  \A i \in 1..Len(calls) : calls[i].next = "settle" =>
    /\ calls[i].of <= generation
    /\ \A j \in 1..Len(joins) : joins[j].of # calls[i].of

\* Each pump has a generation of its own, reached by now.
PumpInv ==
  /\ joins \in Seq(Pumps) /\ generation \in 0..MaxGeneration /\ active \in BOOLEAN
  /\ \A j \in 1..Len(joins) : joins[j].of <= generation
  /\ \A j, k \in 1..Len(joins) : joins[j].of = joins[k].of => j = k
  /\ SettledGone

Top(steps) == Len(calls) > 0 /\ calls[1].next \in steps
StartPending == \E i \in 1..Len(calls) : calls[i].next \in {"startReset", "startJoin"}

\* The run of this generation is on, and its handles are the ones held.
HasRun ==
  /\ \E j \in 1..Len(joins) : joins[j].of = generation /\ ~joins[j].aborted
  /\ abortController = generation /\ generation \in onVisibility

\* The store runs what was asked for, or is about to.
WantedInv ==
  "lifecycle" \notin habit /\ wanted = "running" =>
    /\ active
    /\ ~Top({"stopRest", "settleRest"})
    /\ StartPending \/ HasRun
    /\ \A i \in 1..Len(calls) :
         calls[i].next = "settle" /\ calls[i].of = generation => StartPending

Starting == Top({"startReset", "startJoin"})

\* A run not aborted is the one stop() reaches, and there is none while the
\* store is inactive or about to start one.
LeakInv ==
  habit \subseteq {"error"} =>
    /\ Starting => active
    /\ \A j \in 1..Len(joins) : ~joins[j].aborted => joins[j].of = abortController
    /\ ~Top({"stopRest"}) =>
         \A j \in 1..Len(joins) :
            joins[j].aborted \/ (joins[j].of = generation /\ active /\ ~Starting)
    /\ onVisibility \subseteq {offVisibility}
    /\ ~Top({"stopRest", "settleRest"}) =>
         onVisibility \subseteq (IF active /\ ~Starting THEN {generation} ELSE {})

HeldInv == StackInv /\ PumpInv /\ WantedInv /\ LeakInv

\* What the three operations on the stack do to it.
Pushed(c) ==
  /\ Len(calls') = Len(calls) + 1 /\ calls'[1] = c
  /\ \A i \in 2..Len(calls') : calls'[i] = calls[i - 1]
Replaced(c) ==
  /\ Len(calls') = Len(calls) /\ calls'[1] = c
  /\ \A i \in 2..Len(calls') : calls'[i] = calls[i]
Popped ==
  /\ Len(calls') = Len(calls) - 1
  /\ \A i \in 1..Len(calls') : calls'[i] = calls[i + 1]

LEMMA StackTypes ==
  ASSUME StackInv
  PROVE  /\ Len(calls) \in Nat /\ DOMAIN calls = 1..Len(calls)
         /\ calls = <<>> <=> Len(calls) = 0
         /\ \A i \in 1..Len(calls) : calls[i] \in Suspended
         /\ calls # <<>> => Head(calls) = calls[1]
         /\ "nobody" \notin habit
<1>1. calls \in Seq(Suspended) /\ habit \in Habits
  BY DEF StackInv
<1>2. Len(calls) \in Nat /\ DOMAIN calls = 1..Len(calls)
  BY <1>1, LenProperties
<1>3. calls = <<>> <=> Len(calls) = 0
  BY <1>1, EmptySeq, LenProperties
<1>4. \A i \in 1..Len(calls) : calls[i] \in Suspended
  BY <1>1, ElementOfSeq
<1>5. calls # <<>> => Head(calls) = calls[1]
  BY <1>1
<1>6. "nobody" \notin habit
  BY <1>1, HabitsAssumption
<1> QED
  BY <1>2, <1>3, <1>4, <1>5, <1>6

LEMMA PumpTypes ==
  ASSUME PumpInv
  PROVE  /\ Len(joins) \in Nat /\ DOMAIN joins = 1..Len(joins)
         /\ \A j \in 1..Len(joins) : joins[j] \in Pumps
         /\ generation \in Nat /\ MaxGeneration \in Nat /\ MaxEvents \in Nat
<1>1. joins \in Seq(Pumps)
  BY DEF PumpInv, SettledGone
<1>2. Len(joins) \in Nat /\ DOMAIN joins = 1..Len(joins)
  BY <1>1, LenProperties
<1>3. \A j \in 1..Len(joins) : joins[j] \in Pumps
  BY <1>1, ElementOfSeq
<1> QED
  BY <1>2, <1>3, BoundAssumption DEF PumpInv, SettledGone

LEMMA Consed ==
  ASSUME NEW S, NEW s \in Seq(S), NEW c \in S
  PROVE  /\ <<c>> \o s \in Seq(S) /\ Len(<<c>> \o s) = Len(s) + 1 /\ (<<c>> \o s)[1] = c
         /\ \A i \in 2..Len(s) + 1 : (<<c>> \o s)[i] = s[i - 1]
<1>1. <<c>> \in Seq(S) /\ Len(<<c>>) = 1 /\ <<c>>[1] = c /\ Len(s) \in Nat
  BY LenProperties
<1> DEFINE t == <<c>> \o s
<1>2. /\ t \in Seq(S) /\ Len(t) = Len(<<c>>) + Len(s)
      /\ \A i \in 1..Len(<<c>>) + Len(s) :
           t[i] = IF i <= Len(<<c>>) THEN <<c>>[i] ELSE s[i - Len(<<c>>)]
  BY <1>1, ConcatProperties
<1> HIDE DEF t
<1>3. /\ Len(t) = Len(s) + 1 /\ t[1] = c
      /\ \A i \in 2..Len(s) + 1 : t[i] = s[i - 1]
  BY <1>1, <1>2
<1> QED
  BY <1>2, <1>3 DEF t

\* A method waiting for the listener of a channel.
Waits(c, next, of, channel) ==
  c \in Suspended /\ c.next = next /\ c.of = of /\ (c.heard <=> channel \in habit)

LEMMA Suspending ==
  \A next \in Steps, of \in 0..MaxGeneration, flush \in BOOLEAN : \A channel :
    Waits(Suspend(next, of, flush, channel), next, of, channel)
<1> SUFFICES ASSUME NEW next \in Steps, NEW of \in 0..MaxGeneration, NEW flush \in BOOLEAN,
                    NEW channel
             PROVE  Waits(Suspend(next, of, flush, channel), next, of, channel)
  OBVIOUS
<1> DEFINE h == channel \in habit
<1>1. h \in BOOLEAN
  OBVIOUS
<1>2. Suspend(next, of, flush, channel) = [next |-> next, of |-> of, flush |-> flush, heard |-> h]
  BY Zenon DEF Suspend
<1>3. h <=> channel \in habit
  OBVIOUS
<1> HIDE DEF h
<1> QED
  BY <1>1, <1>2, <1>3 DEF Waits, Suspended, Steps

LEMMA PushKeeps ==
  ASSUME StackInv, UNCHANGED habit, NEW c \in Suspended, Push(c), Permitted(c),
         calls # <<>> => calls[1].heard,
         c.next \in Outermost => calls = <<>>
  PROVE  StackInv' /\ Pushed(c)
<1>3. calls \in Seq(Suspended) /\ calls' = <<c>> \o calls
  BY DEF StackInv, Push
<1>4. Len(calls) \in Nat
  BY StackTypes
<1>5. calls' \in Seq(Suspended) /\ Pushed(c)
  BY <1>3, <1>4, Consed DEF Pushed
<1>6. StackInv'
  <2>1. ASSUME NEW i \in 1..Len(calls')
        PROVE  /\ i # 1 => calls'[i].heard
               /\ calls'[i].next \in Outermost => i = Len(calls')
               /\ Permitted(calls'[i])
    BY <1>3, <1>4, <1>5, StackTypes DEF Pushed, StackInv
  <2> QED
    BY <1>5, <2>1 DEF StackInv, Permitted
<1> QED
  BY <1>5, <1>6

LEMMA ReplaceKeeps ==
  ASSUME StackInv, UNCHANGED habit, NEW c \in Suspended, Replace(c), Permitted(c),
         calls # <<>>,
         c.next \in Outermost => calls[1].next \in Outermost
  PROVE  StackInv' /\ Replaced(c)
<1>1. /\ calls \in Seq(Suspended) /\ Len(calls) \in Nat /\ Len(calls) > 0
      /\ calls' = <<c>> \o Tail(calls)
  BY StackTypes DEF StackInv, Replace
<1>2. /\ Tail(calls) \in Seq(Suspended) /\ Len(Tail(calls)) = Len(calls) - 1
      /\ \A i \in 1..Len(Tail(calls)) : Tail(calls)[i] = calls[i + 1]
  BY <1>1, HeadTailProperties
<1>3. /\ calls' \in Seq(Suspended) /\ Len(calls') = Len(Tail(calls)) + 1 /\ calls'[1] = c
      /\ \A i \in 2..Len(Tail(calls)) + 1 : calls'[i] = Tail(calls)[i - 1]
  BY <1>1, <1>2, Consed
<1>5. Replaced(c)
  BY <1>1, <1>2, <1>3 DEF Replaced
<1>6. StackInv'
  <2>1. ASSUME NEW i \in 1..Len(calls')
        PROVE  /\ i # 1 => calls'[i].heard
               /\ calls'[i].next \in Outermost => i = Len(calls')
               /\ Permitted(calls'[i])
    <3>1. CASE i = 1
      <4>1. c.next \in Outermost => 1 = Len(calls)
        BY <1>1 DEF StackInv
      <4> QED
        BY <1>5, <3>1, <4>1 DEF Replaced
    <3>2. CASE i # 1
      <4>1. i \in 1..Len(calls) /\ calls'[i] = calls[i] /\ Len(calls') = Len(calls)
        BY <1>1, <1>5, <3>2 DEF Replaced
      <4> QED
        BY <3>2, <4>1 DEF StackInv
    <3> QED
      BY <3>1, <3>2
  <2> QED
    BY <1>3, <2>1 DEF StackInv, Permitted
<1> QED
  BY <1>5, <1>6

LEMMA PopKeeps ==
  ASSUME StackInv, UNCHANGED habit, Pop, calls # <<>>
  PROVE  StackInv' /\ Popped
<1>1. calls \in Seq(Suspended) /\ Len(calls) \in Nat /\ Len(calls) > 0
  BY StackTypes DEF StackInv
<1>2. /\ calls' \in Seq(Suspended) /\ Len(calls') = Len(calls) - 1
      /\ \A i \in 1..Len(calls') : calls'[i] = calls[i + 1]
  BY <1>1, HeadTailProperties DEF Pop
<1>3. Popped
  BY <1>2 DEF Popped
<1>4. ASSUME NEW i \in 1..Len(calls')
      PROVE  /\ i # 1 => calls'[i].heard
             /\ calls'[i].next \in Outermost => i = Len(calls')
             /\ Permitted(calls'[i])
  BY <1>1, <1>2 DEF StackInv
<1> QED
  BY <1>2, <1>3, <1>4 DEF StackInv, Permitted

\* A pump that returns leaves the others as they were.
LEMMA Leaving ==
  ASSUME PumpInv, NEW i \in 1..Len(joins), Leave(i)
  PROVE  /\ joins' \in Seq(Pumps) /\ Len(joins') = Len(joins) - 1
         /\ \A j \in 1..Len(joins') : joins'[j] = joins[IF j < i THEN j ELSE j + 1]
<1>1. Len(joins) \in Nat /\ \A j \in 1..Len(joins) : joins[j] \in Pumps
  BY PumpTypes
<1> DEFINE before == SubSeq(joins, 1, i - 1)
           after == SubSeq(joins, i + 1, Len(joins))
<1>2. /\ before \in Seq(Pumps) /\ Len(before) = i - 1
      /\ \A j \in 1..i - 1 : before[j] = joins[j]
  <2>1. 1 \in Int /\ i - 1 \in Int /\ \A j \in 1..i - 1 : joins[j] \in Pumps
    BY <1>1
  <2>2. /\ before \in Seq(Pumps)
        /\ Len(before) = IF 1 <= i - 1 THEN i - 1 - 1 + 1 ELSE 0
        /\ \A j \in 1..i - 1 - 1 + 1 : before[j] = joins[1 + j - 1]
    BY <2>1, SubSeqProperties
  <2> HIDE DEF before
  <2>3. i \in Nat /\ i >= 1 /\ i - 1 - 1 + 1 = i - 1 /\ \A j \in 1..i - 1 : 1 + j - 1 = j
    BY <1>1
  <2>4. Len(before) = i - 1
    BY <2>2, <2>3
  <2>5. \A j \in 1..i - 1 : before[j] = joins[j]
    BY <2>2, <2>3
  <2> QED
    BY <2>2, <2>4, <2>5
<1>3. /\ after \in Seq(Pumps) /\ Len(after) = Len(joins) - i
      /\ \A j \in 1..Len(joins) - i : after[j] = joins[i + j]
  <2>1. i + 1 \in Int /\ Len(joins) \in Int /\ \A j \in i + 1..Len(joins) : joins[j] \in Pumps
    BY <1>1
  <2>2. /\ after \in Seq(Pumps)
        /\ Len(after) = IF i + 1 <= Len(joins) THEN Len(joins) - (i + 1) + 1 ELSE 0
        /\ \A j \in 1..Len(joins) - (i + 1) + 1 : after[j] = joins[i + 1 + j - 1]
    BY <2>1, SubSeqProperties
  <2> HIDE DEF after
  <2> QED
    BY <2>2, <1>1
<1>4. joins' = before \o after
  BY DEF Leave, RemoveAt
<1> HIDE DEF before, after
<1>5. /\ joins' \in Seq(Pumps) /\ Len(joins') = Len(before) + Len(after)
      /\ \A j \in 1..Len(before) + Len(after) :
           joins'[j] = IF j <= Len(before) THEN before[j] ELSE after[j - Len(before)]
  BY <1>2, <1>3, <1>4, ConcatProperties
<1>6. Len(joins') = Len(joins) - 1
  BY <1>1, <1>2, <1>3, <1>5
<1>7. ASSUME NEW j \in 1..Len(joins')
      PROVE  joins'[j] = joins[IF j < i THEN j ELSE j + 1]
  <2>1. CASE j < i
    BY <1>1, <1>2, <1>3, <1>5, <2>1
  <2>2. CASE ~(j < i)
    <3> DEFINE k == j - (i - 1)
    <3>1. joins'[j] = after[k] /\ k \in 1..Len(joins) - i /\ i + k = j + 1
      BY <1>1, <1>2, <1>3, <1>5, <1>6, <2>2
    <3> HIDE DEF k
    <3>2. after[k] = joins[i + k]
      BY <1>3, <3>1
    <3> QED
      BY <2>2, <3>1, <3>2
  <2> QED
    BY <2>1, <2>2
<1> QED
  BY <1>5, <1>6, <1>7

LEMMA OutermostAlone ==
  ASSUME StackInv, calls # <<>>, calls[1].next \in Outermost
  PROVE  Len(calls) = 1
<1>1. 1 \in 1..Len(calls)
  BY StackTypes
<1> QED
  BY <1>1 DEF StackInv

SameGenerations ==
  Len(joins') = Len(joins) /\ \A j \in 1..Len(joins) : joins'[j].of = joins[j].of
SettlingBefore ==
  \A i \in 1..Len(calls') : calls'[i].next = "settle" =>
    \E k \in 1..Len(calls) : calls'[i] = calls[k]

\* What was about to settle still has left, as generations go up.
LEMMA SettledKept ==
  ASSUME StackInv, SettledGone, generation \in Nat, generation' \in Nat,
         generation <= generation', SameGenerations, SettlingBefore
  PROVE  SettledGone'
<1> SUFFICES ASSUME NEW i \in 1..Len(calls'), calls'[i].next = "settle"
             PROVE  /\ calls'[i].of <= generation'
                    /\ \A j \in 1..Len(joins') : joins'[j].of # calls'[i].of
  BY DEF SettledGone
<1>1. PICK k \in 1..Len(calls) : calls'[i] = calls[k]
  BY DEF SettlingBefore
<1>2. calls[k].of \in Nat /\ calls[k].of <= generation
  BY <1>1, StackTypes, BoundAssumption DEF SettledGone, Suspended
<1>3. \A j \in 1..Len(joins) : joins[j].of # calls[k].of
  BY <1>1 DEF SettledGone
<1> QED
  BY <1>1, <1>2, <1>3 DEF SameGenerations

LEMMA PoppedFromStack ==
  ASSUME StackInv, calls # <<>>, Popped
  PROVE  \A i \in 1..Len(calls') : i + 1 \in 1..Len(calls) /\ calls'[i] = calls[i + 1]
BY StackTypes DEF Popped

\* Nothing is about to start, to stop or to settle.
Quiet == \A i \in 1..Len(calls) : calls[i].next \in {"pumpRest", "return"}

SameRuns ==
  /\ joins' \in Seq(Pumps) /\ Len(joins') = Len(joins)
  /\ \A j \in 1..Len(joins) :
       joins'[j].of = joins[j].of /\ joins'[j].aborted = joins[j].aborted

SameHold ==
  UNCHANGED <<habit, active, generation, abortController, offVisibility, onVisibility, wanted>>

LEMMA StillHeld ==
  ASSUME HeldInv, StackInv', SameRuns, SameHold, Quiet, Quiet'
  PROVE  HeldInv'
<1>0. Len(joins) \in Nat /\ Len(calls) \in Nat /\ Len(calls') \in Nat
  <2>1. calls' \in Seq(Suspended)
    BY DEF StackInv
  <2> QED
    BY <2>1, StackTypes, PumpTypes, LenProperties DEF HeldInv
<1>1. /\ ~StartPending /\ ~StartPending' /\ ~Starting /\ ~Starting'
      /\ ~Top({"stopRest", "settleRest"}) /\ ~Top({"stopRest", "settleRest"})'
      /\ ~Top({"stopRest"}) /\ ~Top({"stopRest"})'
  BY <1>0 DEF Quiet, Top, Starting, StartPending
<1>2. PumpInv'
  BY <1>0 DEF HeldInv, PumpInv, SettledGone, SameRuns, SameHold, Quiet
<1>3. WantedInv'
  <2>1. HasRun => HasRun'
    BY DEF HasRun, SameRuns, SameHold
  <2> QED
    BY <1>0, <1>1, <2>1 DEF HeldInv, WantedInv, SameHold, Quiet
<1>4. LeakInv'
  BY <1>0, <1>1 DEF HeldInv, LeakInv, SameRuns, SameHold
<1> QED
  BY <1>2, <1>3, <1>4 DEF HeldInv

LEMMA SameJoins ==
  ASSUME PumpInv, joins' = joins
  PROVE  SameRuns
BY DEF PumpInv, SettledGone, SameRuns

\* The application calls only between events or from a listener it may call
\* back from.
LEMMA CallerHeard ==
  ASSUME StackInv, MayCall
  PROVE  calls # <<>> => calls[1].heard
BY StackTypes DEF MayCall, Idle

LEMMA StartHeld ==
  ASSUME HeldInv, UNCHANGED habit, Start
  PROVE  HeldInv'
<1> DEFINE c == Suspend("startReset", 0, FALSE, "lifecycle")
<1>0. /\ StackInv /\ PumpInv /\ Len(calls) \in Nat /\ Len(joins) \in Nat
      /\ generation \in Nat /\ MaxGeneration \in Nat
  BY StackTypes, PumpTypes DEF HeldInv
<1>1. /\ ~active /\ active' /\ wanted' = "running" /\ Push(c) /\ MayCall
      /\ UNCHANGED <<generation, joins, abortController, offVisibility, onVisibility>>
  BY DEF Start, SetActive, runVars
<1>2. /\ c \in Suspended /\ Permitted(c) /\ c.next = "startReset"
  <2>1. Waits(c, "startReset", 0, "lifecycle")
    <3>1. 0 \in 0..MaxGeneration /\ {"startReset", "startJoin"} \subseteq Steps
      BY <1>0 DEF Steps
    <3> QED
      BY <3>1, Suspending
  <2> QED
    BY <2>1 DEF Permitted, Waits
<1> HIDE DEF c
<1>3. calls # <<>> => calls[1].heard
  BY <1>0, <1>1, CallerHeard
<1>4. StackInv' /\ Pushed(c)
  BY <1>0, <1>1, <1>2, <1>3, PushKeeps DEF Outermost
<1>5. active' \in BOOLEAN
  BY <1>1 DEF Start, SetActive
<1>6. PumpInv'
  <2>1. SettledGone'
    <3>1. SettlingBefore
      BY <1>0, <1>2, <1>4 DEF Pushed, SettlingBefore
    <3>2. SameGenerations /\ SettledGone /\ generation' \in Nat /\ generation <= generation'
      BY <1>0, <1>1 DEF SameGenerations, PumpInv
    <3> QED
      BY <1>0, <3>1, <3>2, SettledKept
  <2> QED
    BY <1>0, <1>1, <1>5, <2>1 DEF PumpInv
<1>7. Starting' /\ StartPending' /\ ~Top({"stopRest"})' /\ ~Top({"stopRest", "settleRest"})'
  BY <1>0, <1>2, <1>4 DEF Pushed, Top, Starting, StartPending
<1>8. WantedInv'
  BY <1>1, <1>7 DEF WantedInv
<1>9. LeakInv'
  <2> SUFFICES ASSUME habit \subseteq {"error"} PROVE LeakInv'
    BY DEF LeakInv
  <2>1. ~Top({"stopRest"}) /\ ~Top({"stopRest", "settleRest"})
    <3>1. CASE Len(calls) = 0
      BY <3>1 DEF Top
    <3>2. CASE Len(calls) # 0
      <4>1. calls[1].heard /\ Permitted(calls[1])
        BY <1>0, <1>3, <3>2, StackTypes DEF StackInv
      <4> QED
        BY <4>1 DEF Permitted, Top
    <3> QED
      BY <3>1, <3>2
  <2>2. /\ \A j \in 1..Len(joins) : joins[j].aborted
        /\ onVisibility = {}
    BY <1>1, <2>1 DEF HeldInv, LeakInv
  <2> QED
    BY <1>0, <1>1, <1>7, <2>2 DEF LeakInv
<1> QED
  BY <1>4, <1>6, <1>8, <1>9 DEF HeldInv

LEMMA StartResetHeld ==
  ASSUME HeldInv, UNCHANGED habit, StartReset
  PROVE  HeldInv'
<1>0. /\ StackInv /\ PumpInv /\ Len(calls) \in Nat /\ Len(joins) \in Nat
      /\ generation \in Nat /\ MaxGeneration \in Nat /\ "nobody" \notin habit
  BY StackTypes, PumpTypes DEF HeldInv
<1>1. /\ calls # <<>> /\ calls[1].next = "startReset" /\ Len(calls) > 0
      /\ UNCHANGED <<generation, active, wanted, joins, abortController, offVisibility, onVisibility>>
  BY <1>0, StackTypes DEF StartReset, Resumes, runVars
<1>2. PICK channel \in {"notify", "nobody"} : Replace(Suspend("startJoin", 0, FALSE, channel))
  BY DEF StartReset
<1> DEFINE c == Suspend("startJoin", 0, FALSE, channel)
<1>3. c \in Suspended /\ Permitted(c) /\ c.next = "startJoin" /\ Replace(c)
  <2>1. Waits(c, "startJoin", 0, channel)
    <3>1. 0 \in 0..MaxGeneration /\ {"startReset", "startJoin"} \subseteq Steps
      BY <1>0 DEF Steps
    <3> QED
      BY <3>1, Suspending
  <2> QED
    BY <1>0, <1>2, <2>1 DEF Permitted, Waits
<1> HIDE DEF c
<1>4. StackInv' /\ Replaced(c)
  BY <1>0, <1>1, <1>3, ReplaceKeeps DEF Outermost
<1>6. PumpInv'
  BY <1>0, <1>1, <1>3, <1>4 DEF PumpInv, SettledGone, Replaced
<1>7. /\ Starting' /\ StartPending' /\ ~Top({"stopRest"})' /\ ~Top({"stopRest", "settleRest"})'
      /\ Starting /\ ~Top({"stopRest"}) /\ ~Top({"stopRest", "settleRest"})
  BY <1>0, <1>1, <1>3, <1>4 DEF Replaced, Top, Starting, StartPending
<1>8. WantedInv'
  BY <1>1, <1>7 DEF WantedInv, HeldInv
<1>9. LeakInv'
  BY <1>0, <1>1, <1>7 DEF LeakInv, HeldInv
<1> QED
  BY <1>4, <1>6, <1>8, <1>9 DEF HeldInv

LEMMA StartJoinHeld ==
  ASSUME HeldInv, UNCHANGED habit, StartJoin
  PROVE  HeldInv'
<1> DEFINE g == generation + 1
           r == [of |-> g, events |-> 0, aborted |-> FALSE]
<1>0. /\ StackInv /\ PumpInv /\ Len(calls) \in Nat /\ Len(joins) \in Nat
      /\ generation \in Nat /\ MaxGeneration \in Nat /\ MaxEvents \in Nat /\ joins \in Seq(Pumps)
  BY StackTypes, PumpTypes DEF HeldInv, PumpInv, SettledGone
<1>1. /\ calls # <<>> /\ calls[1].next = "startJoin" /\ Len(calls) > 0
      /\ generation < MaxGeneration /\ generation' = g /\ joins' = Append(joins, r)
      /\ abortController' = g /\ offVisibility' = g /\ onVisibility' = onVisibility \union {g}
      /\ Pop /\ UNCHANGED <<active, wanted>>
  BY <1>0, StackTypes DEF StartJoin, Resumes
<1>2. r \in Pumps /\ r.of = g /\ ~r.aborted /\ g \in 1..MaxGeneration
  BY <1>0, <1>1 DEF Pumps
<1> HIDE DEF r
<1>3. /\ joins' \in Seq(Pumps) /\ Len(joins') = Len(joins) + 1
      /\ \A j \in 1..Len(joins) : joins'[j] = joins[j]
      /\ joins'[Len(joins) + 1] = r
  BY <1>0, <1>1, <1>2, AppendProperties
<1>4. StackInv' /\ Popped
  BY <1>0, <1>1, PopKeeps
<1>5. \A j \in 1..Len(joins) : joins[j].of # g
  BY <1>0 DEF PumpInv, SettledGone, Pumps
<1>6. PumpInv'
  <2>1. \A i \in 1..Len(calls') : calls'[i].next = "settle" =>
          calls'[i].of <= generation /\ \A j \in 1..Len(joins) : joins[j].of # calls'[i].of
    BY <1>0, <1>1, <1>4, PoppedFromStack, SMTT(30) DEF PumpInv, SettledGone
  <2>2. \A i \in 1..Len(calls') : calls'[i].of \in Nat
    <3>1. \A i \in 1..Len(calls) : calls[i].of \in Nat
      BY <1>0, StackTypes DEF Suspended
    <3> QED
      BY <1>0, <1>4, <3>1 DEF Popped
  <2>3. \A j \in 1..Len(joins) : joins[j].of \in Nat
    BY <1>0, PumpTypes DEF Pumps
  <2>4. generation' \in 0..MaxGeneration /\ active' \in BOOLEAN
    BY <1>0, <1>1 DEF PumpInv, SettledGone
  <2>5. \A j \in 1..Len(joins') : joins'[j].of <= generation'
    BY <1>0, <1>1, <1>2, <1>3, <2>3 DEF PumpInv, SettledGone
  <2>6. \A j, k \in 1..Len(joins') : joins'[j].of = joins'[k].of => j = k
    <3>1. \A j, k \in 1..Len(joins) : joins[j].of = joins[k].of => j = k
      BY <1>0 DEF PumpInv
    <3>2. \A j \in 1..Len(joins') : j \in 1..Len(joins) \/ j = Len(joins) + 1
      BY <1>0, <1>3
    <3> QED
      BY <1>2, <1>3, <1>5, <3>1, <3>2
  <2>7. \A i \in 1..Len(calls') : calls'[i].next = "settle" =>
          /\ calls'[i].of <= generation'
          /\ \A j \in 1..Len(joins') : joins'[j].of # calls'[i].of
    BY <1>0, <1>1, <1>2, <1>3, <2>1, <2>2
  <2> QED
    BY <1>3, <2>4, <2>5, <2>6, <2>7 DEF PumpInv, SettledGone
<1>7. HasRun'
  BY <1>0, <1>1, <1>2, <1>3 DEF HasRun
<1>8. WantedInv'
  <2> SUFFICES ASSUME "lifecycle" \notin habit, wanted = "running" PROVE WantedInv'
    BY <1>1 DEF WantedInv
  <2>1. ~Top({"stopRest", "settleRest"})'
    BY <1>0, <1>4 DEF StackInv, Popped, Permitted, Top
  <2>2. active'
    BY <1>1 DEF HeldInv, WantedInv
  <2>3. \A i \in 1..Len(calls') : calls'[i].next = "settle" => calls'[i].of # generation'
    <3>1. \A i \in 1..Len(calls') : calls'[i].next = "settle" => calls'[i].of <= generation
      BY <1>0, <1>4 DEF PumpInv, SettledGone, Popped
    <3> QED
      BY <1>0, <1>1, <3>1
  <2> QED
    BY <1>7, <2>1, <2>2, <2>3 DEF WantedInv
<1>9. LeakInv'
  <2> SUFFICES ASSUME habit \subseteq {"error"} PROVE LeakInv'
    BY DEF LeakInv
  <2>1. Starting /\ ~Top({"stopRest"}) /\ ~Top({"stopRest", "settleRest"})
    BY <1>0, <1>1 DEF Starting, Top
  <2>2. active /\ onVisibility = {} /\ \A j \in 1..Len(joins) : joins[j].aborted
    BY <2>1 DEF HeldInv, LeakInv
  <2>3. ~Starting'
    BY <1>0, <1>4 DEF StackInv, Popped, Permitted, Top, Starting
  <2>4. \A j \in 1..Len(joins') : joins'[j].aborted \/ joins'[j].of = g
    BY <1>0, <1>2, <1>3, <2>2
  <2> HIDE DEF g
  <2> QED
    BY <1>0, <1>1, <2>2, <2>3, <2>4 DEF LeakInv
<1> QED
  BY <1>4, <1>6, <1>8, <1>9 DEF HeldInv

LEMMA StopHeld ==
  ASSUME HeldInv, UNCHANGED habit, Stop
  PROVE  HeldInv'
<1> DEFINE channel == IF active THEN "lifecycle" ELSE "nobody"
           c == Suspend("stopRest", 0, FALSE, channel)
<1>0. /\ StackInv /\ PumpInv /\ Len(calls) \in Nat /\ Len(joins) \in Nat
      /\ generation \in Nat /\ MaxGeneration \in Nat /\ "nobody" \notin habit
  BY StackTypes, PumpTypes DEF HeldInv
<1>1. /\ active' = FALSE /\ Push(c) /\ MayCall
      /\ generation < MaxGeneration /\ generation' = generation + 1
      /\ wanted' = IF active THEN "stopped" ELSE wanted
      /\ UNCHANGED <<joins, abortController, offVisibility, onVisibility>>
  BY <1>0 DEF Stop, SetActive, runVars, PumpInv, SettledGone
<1>2. /\ c \in Suspended /\ Permitted(c) /\ c.next = "stopRest"
  <2>1. Waits(c, "stopRest", 0, channel)
    <3>1. 0 \in 0..MaxGeneration /\ "stopRest" \in Steps
      BY <1>0 DEF Steps
    <3> QED
      BY <3>1, Suspending
  <2> QED
    BY <1>0, <2>1 DEF Permitted, Waits
<1> HIDE DEF c
<1>3. calls # <<>> => calls[1].heard
  BY <1>0, <1>1, CallerHeard
<1>4. StackInv' /\ Pushed(c)
  BY <1>0, <1>1, <1>2, <1>3, PushKeeps DEF Outermost
<1>6. PumpInv'
  <2>1. \A i \in 1..Len(calls) : calls[i].of \in Nat
    BY <1>0, StackTypes DEF Suspended
  <2>2. \A j \in 1..Len(joins) : joins[j].of \in Nat
    BY <1>0, PumpTypes DEF Pumps
  <2>3. SettledGone'
    <3>1. SettledGone /\ generation' \in Nat /\ generation <= generation'
      BY <1>0, <1>1 DEF PumpInv
    <3>2. SameGenerations
      BY <1>0, <1>1 DEF SameGenerations
    <3>3. SettlingBefore
      BY <1>0, <1>2, <1>4 DEF Pushed, SettlingBefore
    <3> QED
      BY <1>0, <3>1, <3>2, <3>3, SettledKept
  <2>4. generation' \in 0..MaxGeneration /\ active' \in BOOLEAN
    <3>1. active' = FALSE
      BY <1>1
    <3>2. generation' \in 0..MaxGeneration
      BY <1>0, <1>1
    <3> QED
      BY <3>1, <3>2
  <2>5. \A j \in 1..Len(joins) : joins[j].of <= generation'
    BY <1>0, <1>1, <2>2 DEF PumpInv
  <2> QED
    BY <1>0, <1>1, <2>3, <2>4, <2>5 DEF PumpInv
<1>7. ~Starting' /\ Top({"stopRest"})' /\ Top({"stopRest", "settleRest"})'
  BY <1>0, <1>2, <1>4 DEF Pushed, Top, Starting
<1>8. WantedInv'
  BY <1>1 DEF WantedInv, HeldInv
<1>9. LeakInv'
  BY <1>0, <1>1, <1>7 DEF LeakInv, HeldInv
<1> QED
  BY <1>4, <1>6, <1>8, <1>9 DEF HeldInv

LEMMA StopRestHeld ==
  ASSUME HeldInv, UNCHANGED habit, StopRest
  PROVE  HeldInv'
<1>0. /\ StackInv /\ PumpInv /\ Len(calls) \in Nat /\ Len(joins) \in Nat
      /\ generation \in Nat /\ DOMAIN joins = 1..Len(joins)
      /\ \A j \in 1..Len(joins) : joins[j] \in Pumps
  BY StackTypes, PumpTypes DEF HeldInv
<1>1. /\ calls # <<>> /\ calls[1].next = "stopRest" /\ Len(calls) > 0
      /\ joins' = [j \in 1..Len(joins) |->
                     [joins[j] EXCEPT !.aborted = @ \/ joins[j].of = abortController]]
      /\ onVisibility' = onVisibility \ {offVisibility}
      /\ Pop /\ UNCHANGED <<generation, active, wanted>>
  BY <1>0, StackTypes DEF StopRest, Resumes, Unlisten
<1>2. /\ joins' \in Seq(Pumps) /\ Len(joins') = Len(joins)
      /\ \A j \in 1..Len(joins) :
           /\ joins'[j].of = joins[j].of
           /\ joins'[j].aborted <=> joins[j].aborted \/ joins[j].of = abortController
  <2>1. ASSUME NEW j \in 1..Len(joins)
        PROVE  /\ joins'[j] \in Pumps
               /\ joins'[j].of = joins[j].of
               /\ joins'[j].aborted <=> joins[j].aborted \/ joins[j].of = abortController
    <3> DEFINE gone == joins[j].aborted \/ joins[j].of = abortController
    <3>1. joins'[j] = [joins[j] EXCEPT !.aborted = gone]
      BY <1>1
    <3>2. gone \in BOOLEAN /\ joins[j] \in Pumps
      BY <1>0
    <3>3. gone <=> joins[j].aborted \/ joins[j].of = abortController
      OBVIOUS
    <3> HIDE DEF gone
    <3> QED
      BY <3>1, <3>2, <3>3 DEF Pumps
  <2>2. joins' \in [1..Len(joins) -> Pumps]
    BY <1>1, <2>1
  <2>3. joins' \in Seq(Pumps) /\ Len(joins') = Len(joins)
    BY <1>0, <2>2, SeqDef
  <2> QED
    BY <2>1, <2>3
<1>4. StackInv' /\ Popped
  BY <1>0, <1>1, PopKeeps
<1>6. PumpInv'
  <2>1. SettledGone'
    <3>1. \A i \in 1..Len(calls') : \E k \in 1..Len(calls) : calls'[i] = calls[k]
      BY <1>0, <1>1, <1>4, PoppedFromStack
    <3>2. SettledGone /\ generation' \in Nat /\ generation <= generation'
      BY <1>0, <1>1 DEF PumpInv
    <3>3. SameGenerations
      BY <1>0, <1>1, <1>2 DEF SameGenerations
    <3>4. SettlingBefore
      BY <3>1 DEF SettlingBefore
    <3> QED
      BY <1>0, <3>2, <3>3, <3>4, SettledKept
  <2>2. generation' \in 0..MaxGeneration /\ active' \in BOOLEAN
    BY <1>0, <1>1 DEF PumpInv
  <2>3. \A j \in 1..Len(joins') : joins'[j].of <= generation'
    BY <1>0, <1>1, <1>2 DEF PumpInv
  <2>4. \A j, k \in 1..Len(joins') : joins'[j].of = joins'[k].of => j = k
    BY <1>0, <1>2 DEF PumpInv
  <2> QED
    BY <1>2, <2>1, <2>2, <2>3, <2>4 DEF PumpInv
<1>8. WantedInv'
  BY <1>0, <1>1 DEF WantedInv, HeldInv, Top
<1>9. LeakInv'
  <2> SUFFICES ASSUME habit \subseteq {"error"} PROVE LeakInv'
    BY DEF LeakInv
  <2>1. ~Starting'
    BY <1>0, <1>4 DEF StackInv, Popped, Permitted, Top, Starting
  <2>2. onVisibility' = {} /\ \A j \in 1..Len(joins) : joins'[j].aborted
    BY <1>1, <1>2 DEF HeldInv, LeakInv
  <2> QED
    BY <1>0, <1>1, <1>2, <2>1, <2>2 DEF LeakInv
<1> QED
  BY <1>4, <1>6, <1>8, <1>9 DEF HeldInv

\* A pump that returns between events has its settling all to itself.
LEMMA PumpLeaves ==
  ASSUME HeldInv, UNCHANGED habit, Idle, NEW i \in 1..Len(joins), Leave(i),
         NEW channel \in {"error", "nobody"},
         Push(Suspend("settle", joins[i].of, FALSE, channel)),
         UNCHANGED <<active, generation, abortController, offVisibility, onVisibility>>,
         wanted' = "running" =>
           wanted = "running" /\ ~(joins[i].of = generation /\ ~joins[i].aborted)
  PROVE  HeldInv'
<1> DEFINE c == Suspend("settle", joins[i].of, FALSE, channel)
           at(j) == IF j < i THEN j ELSE j + 1
<1>0. /\ StackInv /\ PumpInv /\ Len(calls) = 0 /\ calls = <<>> /\ Len(joins) \in Nat
      /\ generation \in Nat /\ MaxGeneration \in Nat
      /\ joins[i] \in Pumps /\ joins[i].of \in 0..MaxGeneration
  BY StackTypes, PumpTypes DEF HeldInv, Idle, Pumps
<1>2. /\ c \in Suspended /\ Permitted(c) /\ c.next = "settle" /\ c.of = joins[i].of /\ Push(c)
  <2>1. Waits(c, "settle", joins[i].of, channel)
    <3>1. "settle" \in Steps
      BY DEF Steps
    <3> QED
      BY <1>0, <3>1, Suspending
  <2> QED
    BY <1>0, <2>1 DEF Permitted, Waits
<1> HIDE DEF c
<1>3. /\ joins' \in Seq(Pumps) /\ Len(joins') = Len(joins) - 1
      /\ \A j \in 1..Len(joins') : joins'[j] = joins[at(j)] /\ at(j) \in 1..Len(joins) /\ at(j) # i
  BY <1>0, Leaving
<1>4. StackInv' /\ Pushed(c) /\ Len(calls') = 1 /\ calls'[1] = c
  <2>1. StackInv' /\ Pushed(c)
    BY <1>0, <1>2, PushKeeps
  <2> QED
    BY <1>0, <2>1 DEF Pushed
<1>5. PumpInv'
  <2>0. /\ \A j \in 1..Len(joins) : joins[j].of <= generation
        /\ \A j, k \in 1..Len(joins) : joins[j].of = joins[k].of => j = k
    BY <1>0 DEF PumpInv
  <2>a. \A j, k \in Nat : at(j) = at(k) => j = k
    OBVIOUS
  <2> HIDE DEF at
  <2>1. \A j \in 1..Len(joins') : joins'[j].of <= generation /\ joins'[j].of # joins[i].of
    BY <1>3, <2>0
  <2>2. \A j, k \in 1..Len(joins') : joins'[j].of = joins'[k].of => j = k
    <3> SUFFICES ASSUME NEW j \in 1..Len(joins'), NEW k \in 1..Len(joins'),
                        joins'[j].of = joins'[k].of
                 PROVE  j = k
      OBVIOUS
    <3>1. at(j) = at(k)
      BY <1>3, <2>0
    <3> QED
      BY <2>a, <3>1
  <2> QED
    BY <1>0, <1>2, <1>3, <1>4, <2>1, <2>2 DEF PumpInv, SettledGone
<1>6. ~Starting' /\ ~Top({"stopRest"})' /\ ~Top({"stopRest", "settleRest"})'
  BY <1>2, <1>4 DEF Top, Starting
<1>7. ~Starting /\ ~StartPending /\ ~Top({"stopRest"}) /\ ~Top({"stopRest", "settleRest"})
  BY <1>0 DEF Top, Starting, StartPending
<1>8. WantedInv'
  <2> SUFFICES ASSUME "lifecycle" \notin habit, wanted' = "running" PROVE WantedInv'
    BY DEF WantedInv
  <2>1. active /\ HasRun
    BY <1>7 DEF HeldInv, WantedInv
  <2>2. PICK j \in 1..Len(joins) : joins[j].of = generation /\ ~joins[j].aborted
    BY <2>1 DEF HasRun
  <2>3. joins[i].of # generation /\ j # i
    <3>1. \A k, l \in 1..Len(joins) : joins[k].of = joins[l].of => k = l
      BY <1>0 DEF PumpInv
    <3>2. ~(joins[i].of = generation /\ ~joins[i].aborted)
      OBVIOUS
    <3> QED
      BY <2>2, <3>1, <3>2
  <2>4. \E k \in 1..Len(joins') : at(k) = j
    <3>0. Len(joins') = Len(joins) - 1 /\ Len(joins) \in Nat
      BY <1>0, <1>3
    <3>1. CASE j < i
      <4>1. j \in 1..Len(joins') /\ at(j) = j
        BY <3>0, <3>1
      <4> QED
        BY <4>1
    <3>2. CASE j > i
      <4>1. j - 1 \in 1..Len(joins') /\ at(j - 1) = j
        BY <3>0, <3>2
      <4> QED
        BY <4>1
    <3> QED
      BY <2>3, <3>1, <3>2
  <2>5. HasRun'
    BY <1>3, <2>1, <2>2, <2>4 DEF HasRun
  <2> QED
    BY <1>2, <1>4, <1>6, <2>1, <2>3, <2>5 DEF WantedInv
<1>9. LeakInv'
  BY <1>3, <1>6, <1>7 DEF HeldInv, LeakInv
<1> QED
  BY <1>4, <1>5, <1>8, <1>9 DEF HeldInv

LEMMA PumpEndsHeld ==
  ASSUME HeldInv, UNCHANGED habit, NEW i \in 1..Len(joins), PumpEnds(i)
  PROVE  HeldInv'
<1>1. /\ Idle /\ Leave(i) /\ Push(Suspend("settle", joins[i].of, FALSE, "nobody"))
      /\ wanted' = IF joins[i].of = generation /\ ~joins[i].aborted THEN "ended" ELSE wanted
      /\ UNCHANGED <<active, generation, abortController, offVisibility, onVisibility>>
  BY DEF PumpEnds
<1> QED
  BY <1>1, PumpLeaves

LEMMA PumpFailsHeld ==
  ASSUME HeldInv, UNCHANGED habit, NEW i \in 1..Len(joins), PumpFails(i)
  PROVE  HeldInv'
<1>1. /\ Idle /\ Leave(i) /\ Push(Suspend("settle", joins[i].of, FALSE, "error"))
      /\ wanted' = IF joins[i].aborted THEN wanted ELSE "failed"
      /\ UNCHANGED <<active, generation, abortController, offVisibility, onVisibility>>
  BY DEF PumpFails
<1> QED
  BY <1>1, PumpLeaves

LEMMA SettleHeld ==
  ASSUME HeldInv, UNCHANGED habit, Settle
  PROVE  HeldInv'
<1> DEFINE channel == IF active THEN "lifecycle" ELSE "nobody"
           c == Suspend("settleRest", 0, FALSE, channel)
<1>0. /\ StackInv /\ PumpInv /\ Len(joins) \in Nat
      /\ generation \in Nat /\ MaxGeneration \in Nat /\ "nobody" \notin habit
  BY StackTypes, PumpTypes DEF HeldInv
<1>1. /\ calls # <<>> /\ Len(calls) = 1 /\ calls[1].next = "settle" /\ Head(calls) = calls[1]
      /\ UNCHANGED <<generation, joins, abortController, offVisibility, onVisibility, wanted>>
  <2>1. calls # <<>> /\ calls[1].next = "settle" /\ Head(calls) = calls[1] /\ Len(calls) > 0
    BY <1>0, StackTypes DEF Settle, Resumes
  <2>2. Len(calls) = 1
    BY <1>0, <2>1, OutermostAlone DEF Outermost
  <2> QED
    BY <2>1, <2>2 DEF Settle, runVars
<1>2. \A j \in 1..Len(joins) : joins[j].of # calls[1].of
  BY <1>0, <1>1 DEF PumpInv, SettledGone
<1>3. ~Starting /\ ~StartPending /\ ~Top({"stopRest"}) /\ ~Top({"stopRest", "settleRest"})
  BY <1>1 DEF Top, Starting, StartPending
<1>4. CASE calls[1].of = generation
  <2>1. active' = FALSE /\ Replace(c)
    BY <1>0, <1>1, <1>4 DEF Settle, SetActive, PumpInv, SettledGone
  <2>2. c \in Suspended /\ Permitted(c) /\ c.next = "settleRest"
    <3>1. 0 \in 0..MaxGeneration /\ "settleRest" \in Steps
      BY <1>0 DEF Steps
    <3>2. Waits(c, "settleRest", 0, channel)
      BY <3>1, Suspending
    <3> QED
      BY <1>0, <3>2 DEF Permitted, Waits
  <2> HIDE DEF c
  <2>3. StackInv' /\ Replaced(c)
    BY <1>0, <1>1, <2>1, <2>2, ReplaceKeeps DEF Outermost
  <2>4. Len(calls') = 1 /\ calls'[1] = c
    BY <1>1, <2>3 DEF Replaced
  <2>5. PumpInv'
    <3>1. SettledGone'
      BY <2>2, <2>4 DEF SettledGone
    <3> QED
      BY <1>0, <1>1, <2>1, <3>1 DEF PumpInv
  <2>6. ~Starting' /\ ~Top({"stopRest"})' /\ Top({"stopRest", "settleRest"})'
    BY <2>2, <2>4 DEF Top, Starting
  <2>7. WantedInv'
    BY <1>1, <1>3, <1>4 DEF HeldInv, WantedInv
  <2>8. LeakInv'
    BY <1>1, <1>2, <1>3, <1>4, <2>1, <2>6 DEF HeldInv, LeakInv
  <2> QED
    BY <2>3, <2>5, <2>7, <2>8 DEF HeldInv
<1>5. CASE calls[1].of # generation
  <2>1. Pop /\ active' = active
    BY <1>1, <1>5 DEF Settle
  <2>2. StackInv' /\ Popped
    BY <1>0, <1>1, <2>1, PopKeeps
  <2>3. Len(calls') = 0
    BY <1>1, <2>2 DEF Popped
  <2>4. PumpInv'
    BY <1>0, <1>1, <2>1, <2>3 DEF PumpInv, SettledGone
  <2>5. ~Starting' /\ ~Top({"stopRest"})' /\ ~Top({"stopRest", "settleRest"})'
    BY <2>3 DEF Top, Starting
  <2>6. HasRun => HasRun'
    BY <1>1 DEF HasRun
  <2>7. WantedInv'
    BY <1>1, <1>3, <2>1, <2>3, <2>5, <2>6 DEF HeldInv, WantedInv
  <2>8. LeakInv'
    BY <1>1, <1>3, <2>1, <2>5 DEF HeldInv, LeakInv
  <2> QED
    BY <2>2, <2>4, <2>7, <2>8 DEF HeldInv
<1> QED
  BY <1>4, <1>5

LEMMA SettleRestHeld ==
  ASSUME HeldInv, UNCHANGED habit, SettleRest
  PROVE  HeldInv'
<1>0. StackInv /\ PumpInv /\ Len(joins) \in Nat /\ Len(calls) \in Nat
  BY StackTypes, PumpTypes DEF HeldInv
<1>1. /\ calls # <<>> /\ Len(calls) = 1 /\ calls[1].next = "settleRest"
      /\ UNCHANGED <<generation, joins, abortController, active, wanted>>
      /\ onVisibility' = onVisibility \ {offVisibility} /\ Pop
  <2>1. calls # <<>> /\ calls[1].next = "settleRest" /\ Len(calls) > 0
    BY <1>0, StackTypes DEF SettleRest, Resumes
  <2>2. Len(calls) = 1
    BY <1>0, <2>1, OutermostAlone DEF Outermost
  <2> QED
    BY <2>1, <2>2 DEF SettleRest, Unlisten
<1>2. StackInv' /\ Popped
  BY <1>0, <1>1, PopKeeps
<1>3. Len(calls') = 0
  BY <1>1, <1>2 DEF Popped
<1>4. PumpInv'
  BY <1>0, <1>1, <1>3 DEF PumpInv, SettledGone
<1>5. /\ ~Starting /\ ~Top({"stopRest"}) /\ Top({"stopRest", "settleRest"})
      /\ ~Starting' /\ ~Top({"stopRest"})' /\ ~Top({"stopRest", "settleRest"})'
  BY <1>1, <1>3 DEF Top, Starting
<1>6. WantedInv'
  BY <1>1, <1>5 DEF HeldInv, WantedInv
<1>7. LeakInv'
  BY <1>1, <1>5 DEF HeldInv, LeakInv
<1> QED
  BY <1>2, <1>4, <1>6, <1>7 DEF HeldInv

LEMMA PumpEventHeld ==
  ASSUME HeldInv, UNCHANGED habit, NEW i \in 1..Len(joins), PumpEvent(i)
  PROVE  HeldInv'
<1>0. /\ StackInv /\ PumpInv /\ Len(calls) = 0 /\ calls = <<>> /\ Len(joins) \in Nat
      /\ joins \in Seq(Pumps) /\ joins[i] \in Pumps /\ MaxGeneration \in Nat /\ MaxEvents \in Nat
  BY StackTypes, PumpTypes DEF HeldInv, Idle, PumpEvent, PumpInv
<1>1. PICK ok, flush \in BOOLEAN :
        Push(Suspend("pumpRest", joins[i].of, flush, IF ok THEN "nobody" ELSE "error"))
  BY DEF PumpEvent
<1> DEFINE channel == IF ok THEN "nobody" ELSE "error"
           c == Suspend("pumpRest", joins[i].of, flush, channel)
           r == [joins[i] EXCEPT !.events = @ + 1]
<1>2. /\ joins[i].events < MaxEvents /\ joins' = [joins EXCEPT ![i] = r] /\ Push(c)
  BY <1>1 DEF PumpEvent
<1>3. c \in Suspended /\ Permitted(c) /\ c.next = "pumpRest"
  <2>1. joins[i].of \in 0..MaxGeneration /\ "pumpRest" \in Steps
    BY <1>0 DEF Steps, Pumps
  <2>2. Waits(c, "pumpRest", joins[i].of, channel)
    BY <2>1, Suspending
  <2> QED
    BY <2>2 DEF Permitted, Waits
<1> HIDE DEF c
<1>4. StackInv' /\ Pushed(c)
  BY <1>0, <1>2, <1>3, PushKeeps
<1>5. r \in Pumps /\ r.of = joins[i].of /\ r.aborted = joins[i].aborted
  <2> DEFINE n == joins[i].events + 1
  <2>1. n \in 0..MaxEvents
    BY <1>0, <1>2 DEF Pumps
  <2>2. r = [joins[i] EXCEPT !.events = n]
    OBVIOUS
  <2> HIDE DEF n, r
  <2> QED
    BY <1>0, <2>1, <2>2 DEF Pumps
<1> HIDE DEF r
<1>6. SameRuns
  <2>1. /\ joins' \in Seq(Pumps) /\ Len(joins') = Len(joins)
        /\ \A j \in 1..Len(joins) : joins'[j] = IF j = i THEN r ELSE joins[j]
    BY <1>0, <1>2, <1>5, ExceptSeq
  <2> QED
    BY <1>5, <2>1 DEF SameRuns
<1>7. Quiet /\ Quiet'
  <2>1. Len(calls') = 1 /\ calls'[1] = c
    BY <1>0, <1>4 DEF Pushed
  <2> QED
    BY <1>0, <1>3, <2>1 DEF Quiet
<1>8. SameHold
  BY DEF SameHold, PumpEvent
<1> QED
  BY <1>4, <1>6, <1>7, <1>8, StillHeld

\* A method at the bottom of the stack that only returns.
LEMMA QuietReturn ==
  ASSUME HeldInv, Pop, calls # <<>>, calls[1].next \in {"pumpRest", "return"},
         SameHold, joins' = joins
  PROVE  HeldInv'
<1>1. StackInv /\ PumpInv /\ UNCHANGED habit
  BY DEF HeldInv, SameHold
<1>2. Len(calls) = 1
  BY <1>1, OutermostAlone DEF Outermost
<1>3. StackInv' /\ Popped
  BY <1>1, PopKeeps
<1>4. Quiet /\ Quiet'
  <2>1. Len(calls') = 0
    BY <1>2, <1>3 DEF Popped
  <2> QED
    BY <1>2, <2>1 DEF Quiet
<1> QED
  BY <1>1, <1>3, <1>4, SameJoins, StillHeld

\* What happens between events and leaves the runs alone, though a listener
\* may hear of it.
LEMMA QuietEvent ==
  ASSUME HeldInv, calls = <<>>, calls' = calls \/ Push(Returning), SameHold, joins' = joins
  PROVE  HeldInv'
<1>0. StackInv /\ PumpInv /\ UNCHANGED habit /\ Len(calls) = 0 /\ MaxGeneration \in Nat
  BY StackTypes, PumpTypes DEF HeldInv, SameHold
<1>1. CASE calls' = calls
  <2>1. StackInv' /\ Quiet /\ Quiet'
    BY <1>0, <1>1 DEF StackInv, Quiet, Permitted
  <2> QED
    BY <1>0, <2>1, SameJoins, StillHeld
<1>2. CASE Push(Returning)
  <2> DEFINE c == Returning
  <2>1. Waits(c, "return", 0, "error")
    <3>1. 0 \in 0..MaxGeneration /\ "return" \in Steps
      BY <1>0 DEF Steps
    <3> QED
      BY <3>1, Suspending DEF Returning
  <2>2. c \in Suspended /\ Permitted(c) /\ c.next = "return"
    BY <2>1 DEF Permitted, Waits
  <2>3. StackInv' /\ Pushed(c)
    BY <1>0, <1>2, <2>2, PushKeeps
  <2> HIDE DEF c
  <2>4. Len(calls') = 1 /\ calls'[1] = c
    BY <1>0, <2>3 DEF Pushed
  <2>5. Quiet /\ Quiet'
    BY <1>0, <2>2, <2>4 DEF Quiet
  <2> QED
    BY <1>0, <2>3, <2>5, SameJoins, StillHeld
<1> QED
  BY <1>1, <1>2

LEMMA HeldStart == Init => HeldInv
<1> SUFFICES ASSUME Init PROVE HeldInv
  OBVIOUS
<1>1. /\ calls = <<>> /\ calls \in Seq(Suspended) /\ Len(calls) = 0
      /\ joins = <<>> /\ joins \in Seq(Pumps) /\ Len(joins) = 0
  <2>1. calls = <<>> /\ joins = <<>>
    BY DEF Init
  <2> QED
    BY <2>1, EmptySeq
<1>2. active = FALSE /\ generation = 0 /\ onVisibility = {} /\ wanted = "nothing" /\ habit \in Habits
  BY DEF Init
<1>3. active \in BOOLEAN /\ generation \in 0..MaxGeneration
  <2>1. active \in BOOLEAN
    BY <1>2
  <2>2. generation \in 0..MaxGeneration
    BY <1>2, BoundAssumption
  <2> QED
    BY <2>1, <2>2
<1>4. StackInv /\ PumpInv
  BY <1>1, <1>2, <1>3 DEF StackInv, PumpInv, SettledGone
<1>5. WantedInv /\ LeakInv
  BY <1>1, <1>2 DEF WantedInv, LeakInv, Top, Starting
<1> QED
  BY <1>4, <1>5 DEF HeldInv

LEMMA HeldStep == HeldInv /\ [Next]_vars => HeldInv'
<1> SUFFICES ASSUME HeldInv, [Next]_vars PROVE HeldInv'
  OBVIOUS
<1>0. StackInv /\ PumpInv /\ DOMAIN joins = 1..Len(joins)
  BY PumpTypes DEF HeldInv
<1>1. CASE UNCHANGED vars
  BY <1>1 DEF HeldInv, StackInv, PumpInv, SettledGone, WantedInv, LeakInv, Permitted, Top,
              Starting, StartPending, HasRun, vars, runVars
<1>2. CASE UNCHANGED habit /\ (Start \/ Stop \/ StartReset \/ StartJoin \/ StopRest
                               \/ Settle \/ SettleRest)
  BY <1>2, StartHeld, StopHeld, StartResetHeld, StartJoinHeld, StopRestHeld, SettleHeld,
     SettleRestHeld
<1>3. CASE UNCHANGED habit /\ (PumpRest \/ Return)
  <2>1. calls # <<>> /\ Head(calls).next \in {"pumpRest", "return"} /\ Pop
    BY <1>3 DEF PumpRest, Return, Resumes
  <2>2. SameHold /\ joins' = joins
    BY <1>3 DEF PumpRest, Return, SameHold, runVars
  <2>3. Head(calls) = calls[1]
    BY <1>0, <2>1, StackTypes
  <2> QED
    BY <2>1, <2>2, <2>3, QuietReturn
<1>4. ASSUME NEW i \in 1..Len(joins), UNCHANGED habit, PumpEvent(i) \/ PumpEnds(i) \/ PumpFails(i)
      PROVE  HeldInv'
  BY <1>4, PumpEventHeld, PumpEndsHeld, PumpFailsHeld
<1>5. ASSUME NEW i \in 1..Len(joins), UNCHANGED habit,
             QueueOverflow(i) \/ RepairRequired(i) \/ RepairDone(i)
      PROVE  HeldInv'
  <2>1. /\ calls = <<>> /\ (calls' = calls \/ Push(Returning))
        /\ SameHold /\ joins' = joins
    BY <1>5 DEF QueueOverflow, RepairRequired, RepairDone, Idle, SameHold, runVars
  <2> QED
    BY <2>1, QuietEvent
<1>6. CASE UNCHANGED habit /\ (FlushTask \/ WarnTask \/ Frame \/ Visibility)
  <2>1. calls = <<>> /\ calls' = calls /\ SameHold /\ joins' = joins
    BY <1>6 DEF FlushTask, WarnTask, Frame, Visibility, Idle, SameHold, runVars
  <2> QED
    BY <2>1, QuietEvent
<1> QED
  BY <1>0, <1>1, <1>2, <1>3, <1>4, <1>5, <1>6 DEF Next, Resume

\* The run that is wanted runs, and no other holds a connection or a listener,
\* whatever the listeners call back in the middle of the methods of the store.
THEOREM OneRunIsHeld == Spec => []OneRunHeld
<1>1. HeldInv => OneRunHeld
  <2> SUFFICES ASSUME HeldInv, Idle PROVE OneRunHeld
    BY DEF OneRunHeld, WantedRuns, NothingLeaks
  <2>0. /\ Len(calls) = 0 /\ DOMAIN joins = 1..Len(joins) /\ Len(joins) \in Nat
        /\ generation \in Nat /\ \A j \in 1..Len(joins) : joins[j] \in Pumps
    BY StackTypes, PumpTypes DEF HeldInv, Idle
  <2>1. /\ ~StartPending /\ ~Starting /\ ~Top({"stopRest"})
        /\ ~Top({"stopRest", "settleRest"})
    BY <2>0 DEF StartPending, Starting, Top
  <2>2. WantedRuns
    BY <2>0, <2>1 DEF HeldInv, WantedInv, WantedRuns, HasRun
  <2>3. NothingLeaks
    BY <2>0, <2>1 DEF HeldInv, LeakInv, NothingLeaks, Pumps
  <2> QED
    BY <2>2, <2>3 DEF OneRunHeld
<1> QED
  BY <1>1, HeldStart, HeldStep, PTL DEF Spec

-----------------------------------------------------------------------------
(* The transcript: rows and views, and what is appended to them.           *)

\* A row and a view have their fields.
IsRow(r) == /\ r = [kind |-> r.kind, loop |-> r.loop, seq |-> r.seq, live |-> r.live, orphan |-> r.orphan,
                    text |-> r.text, use |-> r.use, exec |-> r.exec, status |-> r.status,
                    spawned |-> r.spawned]
            /\ r.seq \in Nat
IsView(v) == /\ v = [rows |-> v.rows, next |-> v.next, loops |-> v.loops, gates |-> v.gates,
                     pending |-> v.pending, outcomes |-> v.outcomes, cards |-> v.cards]
             /\ v.next \in Nat /\ DOMAIN v.rows \subseteq Nat
             /\ \A o \in DOMAIN v.rows : o < v.next /\ IsRow(v.rows[o])

\* Everything of a view but its rows, and what is appended to them.
SameBeside(v, w) == /\ w.loops = v.loops /\ w.gates = v.gates /\ w.pending = v.pending
                    /\ w.outcomes = v.outcomes

\* A row goes behind the others, and everything else stays.
LEMMA AppendedRow ==
    ASSUME NEW v, IsView(v), NEW row, IsRow(row), NEW w, w = AppendRow(v, row)
    PROVE  /\ IsView(w) /\ SameBeside(v, w) /\ w.next = v.next + 1
           /\ DOMAIN w.rows = DOMAIN v.rows \union {v.next} /\ v.next \notin DOMAIN v.rows
           /\ w.rows[v.next] = row /\ \A o \in DOMAIN v.rows : w.rows[o] = v.rows[o]
<1>1. v.next \in Nat /\ v.next \notin DOMAIN v.rows
  BY DEF IsView
<1>2. w = [rows |-> Set(v.rows, v.next, row), next |-> v.next + 1, loops |-> v.loops, gates |-> v.gates,
           pending |-> v.pending, outcomes |-> v.outcomes, cards |-> v.cards]
  BY DEF IsView, AppendRow
<1>3. /\ DOMAIN w.rows = DOMAIN v.rows \union {v.next}
      /\ w.rows[v.next] = row /\ \A o \in DOMAIN v.rows : w.rows[o] = v.rows[o]
  BY <1>1, <1>2 DEF Set
<1> QED BY <1>1, <1>2, <1>3 DEF IsView, SameBeside

\* Rows go, and everything else stays.
LEMMA DroppedRows ==
    ASSUME NEW v, IsView(v), NEW at, NEW w, w = DropRows(v, at)
    PROVE  /\ IsView(w) /\ SameBeside(v, w) /\ w.next = v.next
           /\ DOMAIN w.rows = DOMAIN v.rows \ at
           /\ \A o \in DOMAIN w.rows : w.rows[o] = v.rows[o]
<1>1. w = [rows |-> Without(v.rows, at), next |-> v.next, loops |-> v.loops, gates |-> v.gates,
           pending |-> v.pending, outcomes |-> v.outcomes, cards |-> v.cards]
  BY DEF IsView, DropRows
<1>2. DOMAIN w.rows = DOMAIN v.rows \ at /\ \A o \in DOMAIN w.rows : w.rows[o] = v.rows[o]
  BY <1>1 DEF Without
<1> QED BY <1>1, <1>2 DEF IsView, SameBeside

\* Rows replaced in their places.
LEMMA ReplacedRows ==
    ASSUME NEW v, IsView(v), NEW f, f = [o \in DOMAIN f |-> f[o]], DOMAIN f = DOMAIN v.rows,
           \A o \in DOMAIN f : IsRow(f[o]), NEW w, w = [v EXCEPT !.rows = f]
    PROVE  IsView(w) /\ SameBeside(v, w) /\ w.next = v.next /\ w.rows = f
<1>1. w = [rows |-> f, next |-> v.next, loops |-> v.loops, gates |-> v.gates,
           pending |-> v.pending, outcomes |-> v.outcomes, cards |-> v.cards]
  BY DEF IsView
<1> QED BY <1>1 DEF IsView, SameBeside

-----------------------------------------------------------------------------
(* The transcript: what folding one record does to the rows.               *)

Kinds == {"LoopStarted", "TurnStarted", "StepDone", "TurnDone", "TurnInterrupted", "TurnFailed",
          "TurnRejected", "InputCancelled", "GateOpened", "GateResolved"}
IsRecord(e) ==
    /\ e = [kind |-> e.kind, loop |-> e.loop, cause |-> e.cause, command |-> e.command,
            step |-> e.step, prose |-> e.prose, use |-> e.use, signed |-> e.signed]
    /\ e.kind \in Kinds /\ e.loop \in Loops /\ e.cause \in Loops \union {NoLoop}
    /\ e.step \in Nat /\ e.use \in Nat

\* The rows a record brings.
ProseRow(v, e, seq) == [Draft(v, "assistant", e.loop, seq) EXCEPT !.text = {e.step}]
CallRow(v, e, seq) == [Draft(v, "tool", e.loop, seq) EXCEPT !.use = e.use, !.status = "ok",
                         !.spawned = ChildLoopFor(v, e.loop, e.use)]
IsFresh(r, v, e, seq) ==
    \/ e.kind = "TurnStarted" /\ e.cause = NoLoop /\ r = Draft(v, "user", e.loop, seq)
    \/ e.kind = "StepDone" /\ e.prose /\ r = ProseRow(v, e, seq)
    \/ e.kind = "StepDone" /\ e.use # 0 /\ r = CallRow(v, e, seq)
    \/ e.kind = "TurnInterrupted" /\ r = Draft(v, "tombstone", e.loop, seq)
    \/ e.kind \in {"TurnFailed", "TurnRejected"} /\ r = Draft(v, "notice", e.loop, seq)
    \/ e.kind = "GateResolved" /\ e.signed /\ r = Draft(v, "notice", e.loop, seq)

\* What it makes of a row that was there.
Relinked(r, e) == IF r.kind = "tool" /\ e.use # 0 /\ r.loop = e.cause /\ r.use = e.use
                  THEN [r EXCEPT !.spawned = e.loop]
                  ELSE IF r.loop = e.loop THEN [r EXCEPT !.orphan = FALSE] ELSE r
Ended(r, q, seq) == q = [r EXCEPT !.live = FALSE, !.seq = seq, !.status = q.status]
Kept(r, q, e, seq) ==
    IF e.kind \in Terminals /\ IsLiveSegmentRow(r, e.loop)
    THEN Ended(r, q, seq)
    ELSE IF e.kind = "LoopStarted" THEN q = Relinked(r, e) ELSE q = r

GatesAfter(gates, e) ==
    IF e.kind = "GateOpened" THEN gates \union {Gate}
    ELSE IF e.kind = "GateResolved" THEN gates \ {Gate} ELSE gates
OutcomesAfter(outcomes, e) ==
    IF e.kind \in {"TurnStarted", "TurnRejected", "InputCancelled"} /\ e.command # NoCommand
    THEN Set(outcomes, e.command,
             CASE e.kind = "TurnStarted" -> "started" [] e.kind = "TurnRejected" -> "rejected"
               [] e.kind = "InputCancelled" -> "cancelled")
    ELSE outcomes

\* Record e, folded as number seq, makes w of v.  Only live rows go.
NewRows(v, w, e, seq) ==
    LET new == DOMAIN w.rows \ DOMAIN v.rows IN
    /\ \A o \in new : o >= v.next /\ IsFresh(w.rows[o], v, e, seq)
    /\ \A r : IsFresh(r, v, e, seq) => \E o \in new : w.rows[o] = r
    /\ \A o, p \in new : o < p => w.rows[o].kind = "assistant" /\ w.rows[p].kind = "tool"
OldRows(v, w, e, seq) ==
    /\ \A o \in DOMAIN v.rows \ DOMAIN w.rows : v.rows[o].live
    /\ \A o \in DOMAIN v.rows \intersect DOMAIN w.rows : Kept(v.rows[o], w.rows[o], e, seq)
Folded(v, w, e, seq) ==
    /\ IsView(w) /\ w.next >= v.next
    /\ NewRows(v, w, e, seq) /\ OldRows(v, w, e, seq)
    /\ e.kind = "StepDone" => \A o \in DOMAIN w.rows : ~IsLiveSegmentRow(w.rows[o], e.loop)
    /\ w.loops = IF e.kind = "LoopStarted"
                 THEN Set(v.loops, e.loop, [observed |-> TRUE, parent |-> e.cause, use |-> e.use])
                 ELSE v.loops
    /\ \A c \in DOMAIN w.pending : c \in DOMAIN v.pending /\ w.pending[c] = v.pending[c]
    /\ w.gates = GatesAfter(v.gates, e) /\ w.outcomes = OutcomesAfter(v.outcomes, e)

\* A draft, by its fields.
LEMMA DraftIsRow ==
    ASSUME NEW v, NEW kind, NEW l, NEW seq \in Nat
    PROVE  \A r : r = Draft(v, kind, l, seq) =>
             /\ IsRow(r) /\ r.kind = kind /\ r.loop = l /\ r.seq = seq /\ (r.live <=> seq = 0)
             /\ (r.orphan <=> IsOrphanLoop(v, l)) /\ r.text = {} /\ r.use = 0 /\ r.spawned = NoLoop
<1>1. PICK a, b : a = (seq = 0) /\ b = IsOrphanLoop(v, l)
  OBVIOUS
<1>2. PICK r : r = Draft(v, kind, l, seq)
  OBVIOUS
<1>3. r = [kind |-> kind, loop |-> l, seq |-> seq, live |-> a, orphan |-> b,
           text |-> {}, use |-> 0, exec |-> 0, status |-> "", spawned |-> NoLoop]
  BY <1>1, <1>2 DEF Draft, NoRow
<1>4. /\ IsRow(r) /\ r.kind = kind /\ r.loop = l /\ r.seq = seq /\ r.live = a
      /\ r.orphan = b /\ r.text = {} /\ r.use = 0 /\ r.spawned = NoLoop
  BY <1>3 DEF IsRow
<1> QED BY <1>1, <1>2, <1>4, Zenon

\* What a row of the record itself shows, whichever it is.
ShowsRecord(r, v, e, seq) ==
    /\ IsRow(r) /\ ~r.live /\ r.seq = seq /\ r.loop = e.loop /\ (r.orphan <=> IsOrphanLoop(v, e.loop))
    /\ r.kind = "assistant" => e.kind = "StepDone" /\ r.text = {e.step}
    /\ r.kind = "tool" => /\ e.kind = "StepDone" /\ r.use = e.use /\ r.use # 0
                          /\ r.spawned = ChildLoopFor(v, e.loop, e.use)
    /\ r.kind # "tool" => r.spawned = NoLoop /\ r.use = 0

LEMMA FreshRow ==
    ASSUME NEW v, NEW e, IsRecord(e), NEW seq \in Nat \ {0}, NEW r, IsFresh(r, v, e, seq)
    PROVE  ShowsRecord(r, v, e, seq)
<1>1. CASE e.kind = "StepDone" /\ r = ProseRow(v, e, seq)
  <2>1. PICK d : d = Draft(v, "assistant", e.loop, seq)
    OBVIOUS
  <2>2. r = [d EXCEPT !.text = {e.step}]
    BY <1>1, <2>1 DEF ProseRow
  <2>3. /\ IsRow(d) /\ d.kind = "assistant" /\ d.loop = e.loop /\ d.seq = seq /\ ~d.live
        /\ (d.orphan <=> IsOrphanLoop(v, e.loop)) /\ d.use = 0 /\ d.spawned = NoLoop
    BY <2>1, DraftIsRow
  <2> QED BY <1>1, <2>2, <2>3 DEF IsRow, ShowsRecord
<1>2. CASE e.kind = "StepDone" /\ e.use # 0 /\ r = CallRow(v, e, seq)
  <2>1. PICK d : d = Draft(v, "tool", e.loop, seq)
    OBVIOUS
  <2>2. r = [d EXCEPT !.use = e.use, !.status = "ok", !.spawned = ChildLoopFor(v, e.loop, e.use)]
    BY <1>2, <2>1 DEF CallRow
  <2>3. /\ IsRow(d) /\ d.kind = "tool" /\ d.loop = e.loop /\ d.seq = seq /\ ~d.live
        /\ (d.orphan <=> IsOrphanLoop(v, e.loop))
    BY <2>1, DraftIsRow
  <2> QED BY <1>2, <2>2, <2>3 DEF IsRow, ShowsRecord
<1>3. CASE \E kind \in {"user", "tombstone", "notice"} : r = Draft(v, kind, e.loop, seq)
  <2>1. PICK kind \in {"user", "tombstone", "notice"} : r = Draft(v, kind, e.loop, seq)
    BY <1>3
  <2> QED BY <2>1, DraftIsRow DEF ShowsRecord
<1> QED BY <1>1, <1>2, <1>3 DEF IsFresh

\* commitLiveRows(), commitTerminalSegment(): the live rows of the loop stay, and
\* are live no more; its empty prose goes.
LEMMA CommittedRows ==
    ASSUME NEW v, IsView(v), NEW l, NEW seq, seq \in Nat, NEW running, NEW w, w = CommitLiveRows(v, l, seq, running)
    PROVE  /\ IsView(w) /\ SameBeside(v, w) /\ w.next = v.next /\ DOMAIN w.rows = DOMAIN v.rows
           /\ \A o \in DOMAIN v.rows :
                /\ IsLiveSegmentRow(v.rows[o], l) => Ended(v.rows[o], w.rows[o], seq)
                /\ ~IsLiveSegmentRow(v.rows[o], l) => w.rows[o] = v.rows[o]
<1> DEFINE At == {o \in DOMAIN v.rows : IsLiveSegmentRow(v.rows[o], l)}
           Op(r) == [r EXCEPT !.live = FALSE, !.seq = seq,
                             !.status = IF r.status = "running" THEN running ELSE r.status]
<1>1. PICK f : f = [o \in DOMAIN v.rows |-> IF o \in At THEN Op(v.rows[o]) ELSE v.rows[o]]
  OBVIOUS
<1>2. w = [v EXCEPT !.rows = f]
  BY <1>1 DEF CommitLiveRows, ReplaceRows, Ordinals
<1>3. ASSUME NEW r, IsRow(r) PROVE IsRow(Op(r)) /\ Ended(r, Op(r), seq)
  <2>1. PICK mark : mark = IF r.status = "running" THEN running ELSE r.status
    OBVIOUS
  <2>2. Op(r) = [r EXCEPT !.live = FALSE, !.seq = seq, !.status = mark]
    BY <2>1
  <2> HIDE DEF Op
  <2>3. IsRow(Op(r))
    BY <1>3, <2>2 DEF IsRow
  <2>4. Op(r).status = mark
    BY <1>3, <2>2 DEF IsRow
  <2> QED BY <2>2, <2>3, <2>4 DEF Ended
<1> HIDE DEF Op
<1>4. DOMAIN f = DOMAIN v.rows /\ f = [o \in DOMAIN f |-> f[o]]
  BY <1>1
<1>5. \A o \in DOMAIN v.rows : f[o] = IF IsLiveSegmentRow(v.rows[o], l) THEN Op(v.rows[o]) ELSE v.rows[o]
  BY <1>1
<1>6. \A o \in DOMAIN f : IsRow(f[o])
  BY <1>3, <1>4, <1>5 DEF IsView
<1>7. IsView(w) /\ SameBeside(v, w) /\ w.next = v.next /\ w.rows = f
  BY <1>2, <1>4, <1>6, ReplacedRows
<1>8. \A o \in DOMAIN v.rows : IsRow(v.rows[o])
  BY DEF IsView
<1> QED BY <1>3, <1>4, <1>5, <1>7, <1>8

SegmentEnded(v, w, l, seq) ==
    /\ IsView(w) /\ SameBeside(v, w) /\ w.next = v.next /\ DOMAIN w.rows \subseteq DOMAIN v.rows
    /\ \A o \in DOMAIN v.rows \ DOMAIN w.rows : v.rows[o].live
    /\ \A o \in DOMAIN w.rows :
         /\ IsLiveSegmentRow(v.rows[o], l) => Ended(v.rows[o], w.rows[o], seq)
         /\ ~IsLiveSegmentRow(v.rows[o], l) => w.rows[o] = v.rows[o]

\* commitTerminalSegment(): the rows that stay are live no more.
LEMMA TerminalRows ==
    ASSUME NEW v, IsView(v), NEW l, NEW seq, seq \in Nat, NEW running
    PROVE  SegmentEnded(v, CommitTerminalSegment(v, l, seq, running), l, seq)
<1>1. PICK w : w = CommitTerminalSegment(v, l, seq, running)
  OBVIOUS
<1>2. PICK at : at = {o \in DOMAIN v.rows : IsEmptyLiveProse(v.rows[o], l)}
  OBVIOUS
<1>3. PICK u : u = DropRows(v, at)
  OBVIOUS
<1>4. w = CommitLiveRows(u, l, seq, running)
  BY <1>1, <1>2, <1>3 DEF CommitTerminalSegment, Ordinals
<1>5. /\ IsView(u) /\ SameBeside(v, u) /\ u.next = v.next /\ DOMAIN u.rows = DOMAIN v.rows \ at
      /\ \A o \in DOMAIN u.rows : u.rows[o] = v.rows[o]
  BY <1>3, DroppedRows
<1>6. /\ IsView(w) /\ SameBeside(u, w) /\ w.next = u.next /\ DOMAIN w.rows = DOMAIN u.rows
      /\ \A o \in DOMAIN u.rows :
           /\ IsLiveSegmentRow(u.rows[o], l) => Ended(u.rows[o], w.rows[o], seq)
           /\ ~IsLiveSegmentRow(u.rows[o], l) => w.rows[o] = u.rows[o]
  BY <1>4, <1>5, CommittedRows
<1>7. \A o \in at : v.rows[o].live
  BY <1>2 DEF IsEmptyLiveProse
<1>8. SameBeside(v, w)
  BY <1>5, <1>6 DEF SameBeside
<1>9. SegmentEnded(v, w, l, seq)
  BY <1>5, <1>6, <1>7, <1>8 DEF SegmentEnded
<1> QED BY <1>1, <1>9

\* One row is appended to what is left of a view.
LEMMA OneRow ==
    ASSUME NEW v, IsView(v), NEW u, IsView(u), u.next = v.next, DOMAIN u.rows \subseteq DOMAIN v.rows,
           NEW row, IsRow(row), NEW w, w = AppendRow(u, row)
    PROVE  /\ IsView(w) /\ SameBeside(u, w) /\ w.next >= v.next
           /\ DOMAIN w.rows \ DOMAIN v.rows = {v.next} /\ w.rows[v.next] = row
           /\ \A o \in DOMAIN v.rows \ DOMAIN w.rows : o \notin DOMAIN u.rows
           /\ \A o \in DOMAIN v.rows \intersect DOMAIN w.rows : o \in DOMAIN u.rows /\ w.rows[o] = u.rows[o]
           /\ \A o \in DOMAIN w.rows : o \in DOMAIN u.rows \/ w.rows[o] = row
<1>1. /\ IsView(w) /\ SameBeside(u, w) /\ w.next = u.next + 1
      /\ DOMAIN w.rows = DOMAIN u.rows \union {u.next} /\ u.next \notin DOMAIN u.rows
      /\ w.rows[u.next] = row /\ \A o \in DOMAIN u.rows : w.rows[o] = u.rows[o]
  BY AppendedRow
<1>2. v.next \in Nat /\ v.next \notin DOMAIN v.rows
  BY DEF IsView
<1> QED BY <1>1, <1>2

\* resolveCommand(): at most the command's pending row goes.
LEMMA ResolvedRows ==
    ASSUME NEW v, IsView(v), NEW c, NEW outcome, NEW w, w = ResolveCommand(v, c, outcome),
           \A k \in DOMAIN v.pending : v.pending[k] \in DOMAIN v.rows => v.rows[v.pending[k]].live
    PROVE  /\ IsView(w) /\ w.next = v.next /\ w.loops = v.loops /\ w.gates = v.gates
           /\ DOMAIN w.rows \subseteq DOMAIN v.rows
           /\ \A o \in DOMAIN v.rows \ DOMAIN w.rows : v.rows[o].live
           /\ \A o \in DOMAIN w.rows : w.rows[o] = v.rows[o]
           /\ \A k \in DOMAIN w.pending : k \in DOMAIN v.pending /\ w.pending[k] = v.pending[k]
           /\ w.outcomes = IF c = NoCommand THEN v.outcomes ELSE Set(v.outcomes, c, outcome)
<1>1. CASE c = NoCommand
  BY <1>1 DEF ResolveCommand
<1>2. CASE c # NoCommand
  <2>1. PICK at : at = {o \in DOMAIN v.rows : c \in DOMAIN v.pending /\ o = v.pending[c]}
    OBVIOUS
  <2>2. PICK u : u = DropRows(v, at)
    OBVIOUS
  <2>3. w = [u EXCEPT !.outcomes = Set(v.outcomes, c, outcome), !.pending = Without(v.pending, {c})]
    BY <1>2, <2>1, <2>2 DEF ResolveCommand
  <2>4. /\ IsView(u) /\ SameBeside(v, u) /\ u.next = v.next /\ DOMAIN u.rows = DOMAIN v.rows \ at
        /\ \A o \in DOMAIN u.rows : u.rows[o] = v.rows[o]
    BY <2>2, DroppedRows
  <2>5. w = [rows |-> u.rows, next |-> u.next, loops |-> u.loops, gates |-> u.gates,
             pending |-> Without(v.pending, {c}), outcomes |-> Set(v.outcomes, c, outcome), cards |-> u.cards]
    BY <2>3, <2>4 DEF IsView
  <2>6. IsView(w)
    BY <2>4, <2>5 DEF IsView
  <2>7. \A k \in DOMAIN w.pending : k \in DOMAIN v.pending /\ w.pending[k] = v.pending[k]
    BY <2>5 DEF Without
  <2>8. \A o \in at : v.rows[o].live
    BY <2>1
  <2> QED BY <1>2, <2>4, <2>5, <2>6, <2>7, <2>8 DEF SameBeside
<1> QED BY <1>1, <1>2

\* A draft shows only what the loops tell of its own.
LEMMA SameDraft ==
    ASSUME NEW v, NEW u, u.loops = v.loops, NEW kind, NEW l, NEW seq
    PROVE  Draft(u, kind, l, seq) = Draft(v, kind, l, seq)
BY DEF Draft, IsOrphanLoop

\* What is left of a view, without or with one new row.
LeftOf(v, u, e, seq) ==
    /\ IsView(v) /\ IsView(u) /\ u.next = v.next /\ DOMAIN u.rows \subseteq DOMAIN v.rows
    /\ \A o \in DOMAIN v.rows \ DOMAIN u.rows : v.rows[o].live
    /\ \A o \in DOMAIN u.rows : Kept(v.rows[o], u.rows[o], e, seq)

\* A record that brings no row.
LEMMA NoneFresh ==
    ASSUME NEW v, NEW u, NEW e, NEW seq, LeftOf(v, u, e, seq), \A r : ~IsFresh(r, v, e, seq)
    PROVE  u.next >= v.next /\ NewRows(v, u, e, seq) /\ OldRows(v, u, e, seq)
<1>1. DOMAIN u.rows \ DOMAIN v.rows = {} /\ u.next >= v.next
  BY DEF LeftOf, IsView
<1>2. NewRows(v, u, e, seq)
  BY <1>1 DEF NewRows
<1>3. OldRows(v, u, e, seq)
  BY DEF OldRows, LeftOf
<1> QED BY <1>1, <1>2, <1>3

\* A record that brings one.
LEMMA OneFresh ==
    ASSUME NEW v, NEW u, NEW e, NEW seq, LeftOf(v, u, e, seq), NEW d, IsRow(d),
           \A r : IsFresh(r, v, e, seq) <=> r = d, NEW w, w = AppendRow(u, d)
    PROVE  /\ IsView(w) /\ SameBeside(u, w) /\ w.next >= v.next
           /\ NewRows(v, w, e, seq) /\ OldRows(v, w, e, seq)
           /\ \A o \in DOMAIN w.rows : w.rows[o] = d \/ (o \in DOMAIN u.rows /\ w.rows[o] = u.rows[o])
<1>1. /\ IsView(w) /\ SameBeside(u, w) /\ w.next >= v.next
      /\ DOMAIN w.rows \ DOMAIN v.rows = {v.next} /\ w.rows[v.next] = d
      /\ \A o \in DOMAIN v.rows \ DOMAIN w.rows : o \notin DOMAIN u.rows
      /\ \A o \in DOMAIN v.rows \intersect DOMAIN w.rows : o \in DOMAIN u.rows /\ w.rows[o] = u.rows[o]
  BY OneRow DEF LeftOf
<1>2. v.next \in Nat
  BY DEF LeftOf, IsView
<1>3. NewRows(v, w, e, seq)
  BY <1>1, <1>2 DEF NewRows
<1>4. OldRows(v, w, e, seq)
  BY <1>1 DEF OldRows, LeftOf
<1>5. \A o \in DOMAIN w.rows : w.rows[o] = d \/ (o \in DOMAIN u.rows /\ w.rows[o] = u.rows[o])
  BY <1>1
<1> QED BY <1>1, <1>3, <1>4, <1>5

\* A turn's start: its command's pending row goes, a user row comes.
LEMMA FoldedTurnStarted ==
    ASSUME NEW v, IsView(v), NEW e, IsRecord(e), e.kind = "TurnStarted", NEW seq \in Nat \ {0},
           \A k \in DOMAIN v.pending : v.pending[k] \in DOMAIN v.rows => v.rows[v.pending[k]].live,
           NEW w, w = FoldTurnStarted(v, e, seq)
    PROVE  Folded(v, w, e, seq)
<1>1. PICK u : u = ResolveCommand(v, e.command, "started")
  OBVIOUS
<1>2. /\ IsView(u) /\ u.next = v.next /\ u.loops = v.loops /\ u.gates = v.gates
      /\ DOMAIN u.rows \subseteq DOMAIN v.rows
      /\ \A o \in DOMAIN v.rows \ DOMAIN u.rows : v.rows[o].live
      /\ \A o \in DOMAIN u.rows : u.rows[o] = v.rows[o]
      /\ \A k \in DOMAIN u.pending : k \in DOMAIN v.pending /\ u.pending[k] = v.pending[k]
      /\ u.outcomes = IF e.command = NoCommand THEN v.outcomes ELSE Set(v.outcomes, e.command, "started")
  BY <1>1, ResolvedRows
<1>3. u.outcomes = OutcomesAfter(v.outcomes, e) /\ u.gates = GatesAfter(v.gates, e)
  BY <1>2 DEF OutcomesAfter, GatesAfter
<1>4. LeftOf(v, u, e, seq)
  BY <1>2 DEF LeftOf, Kept, Terminals
<1>5. CASE e.cause # NoLoop
  <2>1. w = u
    BY <1>1, <1>5 DEF FoldTurnStarted
  <2>2. \A r : ~IsFresh(r, v, e, seq)
    BY <1>5 DEF IsFresh
  <2> QED BY <1>2, <1>3, <1>4, <2>1, <2>2, NoneFresh DEF Folded
<1>6. CASE e.cause = NoLoop
  <2>1. PICK d : d = Draft(v, "user", e.loop, seq)
    OBVIOUS
  <2>2. w = AppendRow(u, d)
    BY <1>1, <1>2, <1>6, <2>1, SameDraft DEF FoldTurnStarted
  <2>3. \A r : IsFresh(r, v, e, seq) <=> r = d
    BY <1>6, <2>1 DEF IsFresh
  <2>4. IsRow(d)
    BY <2>1, DraftIsRow
  <2>5. IsView(w) /\ SameBeside(u, w) /\ w.next >= v.next /\ NewRows(v, w, e, seq) /\ OldRows(v, w, e, seq)
    BY <1>4, <2>2, <2>3, <2>4, OneFresh
  <2> QED BY <1>2, <1>3, <2>5 DEF Folded, SameBeside
<1> QED BY <1>5, <1>6

\* A refused or cancelled input.
LEMMA FoldedRefusal ==
    ASSUME NEW v, IsView(v), NEW e, IsRecord(e), e.kind \in {"TurnRejected", "InputCancelled"},
           NEW seq \in Nat \ {0},
           \A k \in DOMAIN v.pending : v.pending[k] \in DOMAIN v.rows => v.rows[v.pending[k]].live,
           NEW w, w = FoldRefusal(v, e, seq)
    PROVE  Folded(v, w, e, seq)
<1>1. PICK outcome : outcome = IF e.kind = "InputCancelled" THEN "cancelled" ELSE "rejected"
  OBVIOUS
<1>2. PICK u : u = ResolveCommand(v, e.command, outcome)
  OBVIOUS
<1>3. /\ IsView(u) /\ u.next = v.next /\ u.loops = v.loops /\ u.gates = v.gates
      /\ DOMAIN u.rows \subseteq DOMAIN v.rows
      /\ \A o \in DOMAIN v.rows \ DOMAIN u.rows : v.rows[o].live
      /\ \A o \in DOMAIN u.rows : u.rows[o] = v.rows[o]
      /\ \A k \in DOMAIN u.pending : k \in DOMAIN v.pending /\ u.pending[k] = v.pending[k]
      /\ u.outcomes = IF e.command = NoCommand THEN v.outcomes ELSE Set(v.outcomes, e.command, outcome)
  BY <1>2, ResolvedRows
<1>4. u.outcomes = OutcomesAfter(v.outcomes, e) /\ u.gates = GatesAfter(v.gates, e)
  BY <1>1, <1>3 DEF OutcomesAfter, GatesAfter
<1>5. LeftOf(v, u, e, seq)
  BY <1>3 DEF LeftOf, Kept, Terminals
<1>6. CASE e.kind = "InputCancelled"
  <2>1. w = u
    BY <1>1, <1>2, <1>6 DEF FoldRefusal
  <2>2. \A r : ~IsFresh(r, v, e, seq)
    BY <1>6 DEF IsFresh
  <2> QED BY <1>3, <1>4, <1>5, <1>6, <2>1, <2>2, NoneFresh DEF Folded
<1>7. CASE e.kind = "TurnRejected"
  <2>1. PICK d : d = Draft(v, "notice", e.loop, seq)
    OBVIOUS
  <2>2. w = AppendRow(u, d)
    BY <1>1, <1>2, <1>7, <2>1 DEF FoldRefusal
  <2>3. \A r : IsFresh(r, v, e, seq) <=> r = d
    BY <1>7, <2>1 DEF IsFresh
  <2>4. IsRow(d)
    BY <2>1, DraftIsRow
  <2>5. IsView(w) /\ SameBeside(u, w) /\ w.next >= v.next /\ NewRows(v, w, e, seq) /\ OldRows(v, w, e, seq)
    BY <1>5, <2>2, <2>3, <2>4, OneFresh
  <2> QED BY <1>3, <1>4, <1>7, <2>5 DEF Folded, SameBeside
<1> QED BY <1>6, <1>7

\* The end of a turn keeps what is live of its loop.
LEMMA FoldedTerminal ==
    ASSUME NEW v, IsView(v), NEW e, IsRecord(e), e.kind \in Terminals, NEW seq \in Nat \ {0},
           NEW w, w = FoldTerminal(v, e, seq)
    PROVE  Folded(v, w, e, seq)
<1>1. PICK running : running = IF e.kind = "TurnDone" THEN "ok"
                               ELSE IF e.kind = "TurnInterrupted" THEN "cancelled" ELSE "error"
  OBVIOUS
<1>2. PICK u : u = CommitTerminalSegment(v, e.loop, seq, running)
  OBVIOUS
<1>3. SegmentEnded(v, u, e.loop, seq)
  BY <1>2, TerminalRows
<1>4. v.outcomes = OutcomesAfter(v.outcomes, e) /\ v.gates = GatesAfter(v.gates, e)
  BY DEF OutcomesAfter, GatesAfter, Terminals
<1>5. e.kind \notin {"LoopStarted", "StepDone"}
  BY DEF Terminals
<1>6. LeftOf(v, u, e, seq)
  BY <1>3, <1>5 DEF LeftOf, Kept, SegmentEnded
<1>7. CASE e.kind = "TurnDone"
  <2>1. w = u
    BY <1>1, <1>2, <1>7 DEF FoldTerminal
  <2>2. \A r : ~IsFresh(r, v, e, seq)
    BY <1>7 DEF IsFresh
  <2> QED BY <1>3, <1>4, <1>5, <1>6, <2>1, <2>2, NoneFresh DEF Folded, SameBeside, SegmentEnded
<1>8. CASE e.kind # "TurnDone"
  <2>1. PICK d : d = Draft(v, IF e.kind = "TurnInterrupted" THEN "tombstone" ELSE "notice", e.loop, seq)
    OBVIOUS
  <2>2. w = AppendRow(u, d)
    BY <1>1, <1>2, <1>8, <2>1 DEF FoldTerminal, Terminals
  <2>3. \A r : IsFresh(r, v, e, seq) <=> r = d
    BY <1>8, <2>1 DEF IsFresh, Terminals
  <2>4. IsRow(d)
    BY <2>1, DraftIsRow
  <2>5. IsView(w) /\ SameBeside(u, w) /\ w.next >= v.next /\ NewRows(v, w, e, seq) /\ OldRows(v, w, e, seq)
    BY <1>6, <2>2, <2>3, <2>4, OneFresh
  <2> QED BY <1>3, <1>4, <1>5, <2>5 DEF Folded, SameBeside, SegmentEnded
<1> QED BY <1>7, <1>8

\* A gate opens or is answered.
LEMMA FoldedGate ==
    ASSUME NEW v, IsView(v), NEW e, IsRecord(e), e.kind \in {"GateOpened", "GateResolved"},
           NEW seq \in Nat \ {0}, NEW w, w = FoldGate(v, e, seq)
    PROVE  Folded(v, w, e, seq)
<1>1. v.outcomes = OutcomesAfter(v.outcomes, e)
  BY DEF OutcomesAfter
<1>2. LeftOf(v, v, e, seq)
  BY DEF LeftOf, Kept, Terminals
<1>3. PICK u : u = IF e.kind = "GateResolved" /\ e.signed
                   THEN AppendRow(v, Draft(v, "notice", e.loop, seq)) ELSE v
  OBVIOUS
<1>4. IsView(u) /\ SameBeside(v, u) /\ u.next >= v.next /\ NewRows(v, u, e, seq) /\ OldRows(v, u, e, seq)
  <2>1. CASE e.kind = "GateResolved" /\ e.signed
    <3>1. PICK d : d = Draft(v, "notice", e.loop, seq)
      OBVIOUS
    <3>2. u = AppendRow(v, d)
      BY <1>3, <2>1, <3>1
    <3>3. \A r : IsFresh(r, v, e, seq) <=> r = d
      BY <2>1, <3>1 DEF IsFresh
    <3>4. IsRow(d)
      BY <3>1, DraftIsRow
    <3> QED BY <1>2, <3>2, <3>3, <3>4, OneFresh
  <2>2. CASE ~(e.kind = "GateResolved" /\ e.signed)
    <3>1. u = v
      BY <1>3, <2>2
    <3>2. \A r : ~IsFresh(r, v, e, seq)
      BY <2>2 DEF IsFresh
    <3> QED BY <1>2, <3>1, <3>2, NoneFresh DEF SameBeside
  <2> QED BY <2>1, <2>2
<1>5. w = [u EXCEPT !.gates = GatesAfter(v.gates, e)]
  <2>1. CASE e.kind = "GateOpened"
    BY <1>3, <2>1 DEF FoldGate, GatesAfter
  <2>2. CASE e.kind = "GateResolved"
    <3>1. w = [u EXCEPT !.gates = u.gates \ {Gate}]
      BY <1>3, <2>2 DEF FoldGate
    <3> QED BY <1>4, <2>2, <3>1 DEF GatesAfter, SameBeside
  <2> QED BY <2>1, <2>2
<1>6. w = [rows |-> u.rows, next |-> u.next, loops |-> u.loops, gates |-> GatesAfter(v.gates, e),
           pending |-> u.pending, outcomes |-> u.outcomes, cards |-> u.cards]
  BY <1>4, <1>5 DEF IsView
<1>7. w.rows = u.rows /\ IsView(w)
  BY <1>4, <1>6 DEF IsView
<1>8. NewRows(v, w, e, seq) /\ OldRows(v, w, e, seq)
  BY <1>4, <1>7 DEF NewRows, OldRows
<1>9. w.next >= v.next /\ w.loops = v.loops /\ w.pending = v.pending /\ w.outcomes = v.outcomes
      /\ w.gates = GatesAfter(v.gates, e)
  BY <1>4, <1>6 DEF SameBeside
<1> QED BY <1>1, <1>7, <1>8, <1>9 DEF Folded

\* Two rows are appended to what is left of a view.
LEMMA TwoFresh ==
    ASSUME NEW v, NEW u, NEW e, NEW seq, LeftOf(v, u, e, seq), NEW c, IsRow(c), NEW d, IsRow(d),
           c.kind = "assistant", d.kind = "tool",
           \A r : IsFresh(r, v, e, seq) <=> r \in {c, d},
           NEW t, t = AppendRow(u, c), NEW w, w = AppendRow(t, d)
    PROVE  /\ IsView(w) /\ SameBeside(u, w) /\ w.next >= v.next
           /\ NewRows(v, w, e, seq) /\ OldRows(v, w, e, seq)
           /\ \A o \in DOMAIN w.rows : w.rows[o] \in {c, d} \/ (o \in DOMAIN u.rows /\ w.rows[o] = u.rows[o])
<1>1. u.next = v.next /\ v.next \in Nat /\ DOMAIN u.rows \subseteq DOMAIN v.rows
      /\ v.next \notin DOMAIN v.rows /\ v.next + 1 \notin DOMAIN v.rows /\ IsView(u)
  BY DEF LeftOf, IsView
<1>2. /\ IsView(t) /\ SameBeside(u, t) /\ t.next = u.next + 1
      /\ DOMAIN t.rows = DOMAIN u.rows \union {u.next}
      /\ t.rows[u.next] = c /\ \A o \in DOMAIN u.rows : t.rows[o] = u.rows[o]
  BY <1>1, AppendedRow
<1>3. /\ IsView(w) /\ SameBeside(t, w) /\ w.next = t.next + 1
      /\ DOMAIN w.rows = DOMAIN t.rows \union {t.next} /\ t.next \notin DOMAIN t.rows
      /\ w.rows[t.next] = d /\ \A o \in DOMAIN t.rows : w.rows[o] = t.rows[o]
  BY <1>2, AppendedRow
<1>4. /\ DOMAIN w.rows = DOMAIN u.rows \union {v.next, v.next + 1}
      /\ w.rows[v.next] = c /\ w.rows[v.next + 1] = d /\ \A o \in DOMAIN u.rows : w.rows[o] = u.rows[o]
  BY <1>1, <1>2, <1>3
<1>5. DOMAIN w.rows \ DOMAIN v.rows = {v.next, v.next + 1}
  BY <1>1, <1>4
<1>6. NewRows(v, w, e, seq)
  <2>1. \A o \in {v.next, v.next + 1} : o >= v.next /\ IsFresh(w.rows[o], v, e, seq)
    BY <1>1, <1>4
  <2>2. \A r : IsFresh(r, v, e, seq) => \E o \in {v.next, v.next + 1} : w.rows[o] = r
    BY <1>4
  <2>3. \A o, p \in {v.next, v.next + 1} : o < p => w.rows[o].kind = "assistant" /\ w.rows[p].kind = "tool"
    BY <1>1, <1>4
  <2> QED BY <1>5, <2>1, <2>2, <2>3 DEF NewRows
<1>7. OldRows(v, w, e, seq)
  <2>1. \A o \in DOMAIN v.rows \ DOMAIN w.rows : o \notin DOMAIN u.rows
    BY <1>4
  <2>2. \A o \in DOMAIN v.rows \intersect DOMAIN w.rows : o \in DOMAIN u.rows /\ w.rows[o] = u.rows[o]
    BY <1>1, <1>4
  <2> QED BY <2>1, <2>2 DEF OldRows, LeftOf
<1>8. SameBeside(u, w) /\ w.next >= v.next
  BY <1>1, <1>2, <1>3 DEF SameBeside
<1> QED BY <1>3, <1>4, <1>6, <1>7, <1>8

\* A step's commit: what is live of its loop goes, its prose and call come.
LEMMA FoldedStepDone ==
    ASSUME NEW v, IsView(v), NEW e, IsRecord(e), e.kind = "StepDone", NEW seq \in Nat \ {0},
           NEW w, w = FoldStepDone(v, e, seq)
    PROVE  Folded(v, w, e, seq)
<1>1. v.outcomes = OutcomesAfter(v.outcomes, e) /\ v.gates = GatesAfter(v.gates, e)
  BY DEF OutcomesAfter, GatesAfter
<1>2. PICK at : at = {o \in DOMAIN v.rows : IsLiveSegmentRow(v.rows[o], e.loop)}
  OBVIOUS
<1>3. PICK u : u = DropRows(v, at)
  OBVIOUS
<1>4. PICK c : c = ProseRow(v, e, seq)
  OBVIOUS
<1>5. PICK d : d = CallRow(v, e, seq)
  OBVIOUS
<1>6. PICK t : t = IF ~e.prose THEN u ELSE AppendRow(u, c)
  OBVIOUS
<1>7. w = IF e.use = 0 THEN t ELSE AppendRow(t, d)
  BY <1>2, <1>3, <1>4, <1>5, <1>6 DEF FoldStepDone, DropLiveRows, Ordinals, ProseRow, CallRow
<1>8. /\ IsView(u) /\ SameBeside(v, u) /\ u.next = v.next /\ DOMAIN u.rows = DOMAIN v.rows \ at
      /\ \A o \in DOMAIN u.rows : u.rows[o] = v.rows[o]
  BY <1>3, DroppedRows
<1>9. LeftOf(v, u, e, seq)
  BY <1>2, <1>8 DEF LeftOf, Kept, Terminals, IsLiveSegmentRow
<1>10. \A o \in DOMAIN u.rows : ~IsLiveSegmentRow(u.rows[o], e.loop)
  BY <1>2, <1>8
<1>11. \A r : IsFresh(r, v, e, seq) <=> (e.prose /\ r = c) \/ (e.use # 0 /\ r = d)
  BY <1>4, <1>5 DEF IsFresh
<1>12. IsRow(c) /\ ~c.live /\ c.kind = "assistant"
  <2>1. PICK b : b = Draft(v, "assistant", e.loop, seq)
    OBVIOUS
  <2>2. c = [b EXCEPT !.text = {e.step}]
    BY <1>4, <2>1 DEF ProseRow
  <2>3. IsRow(b) /\ b.kind = "assistant" /\ ~b.live
    BY <2>1, DraftIsRow
  <2> QED BY <2>2, <2>3 DEF IsRow
<1>13. IsRow(d) /\ ~d.live /\ d.kind = "tool"
  <2>1. PICK b : b = Draft(v, "tool", e.loop, seq)
    OBVIOUS
  <2>2. d = [b EXCEPT !.use = e.use, !.status = "ok", !.spawned = ChildLoopFor(v, e.loop, e.use)]
    BY <1>5, <2>1 DEF CallRow
  <2>3. IsRow(b) /\ b.kind = "tool" /\ ~b.live
    BY <2>1, DraftIsRow
  <2> QED BY <2>2, <2>3 DEF IsRow
<1>14. /\ IsView(w) /\ SameBeside(u, w) /\ w.next >= v.next
       /\ NewRows(v, w, e, seq) /\ OldRows(v, w, e, seq)
       /\ \A o \in DOMAIN w.rows : ~w.rows[o].live \/ (o \in DOMAIN u.rows /\ w.rows[o] = u.rows[o])
  <2>1. CASE ~e.prose /\ e.use = 0
    <3>1. w = u /\ \A r : ~IsFresh(r, v, e, seq)
      BY <1>6, <1>7, <1>11, <2>1
    <3> QED BY <1>8, <1>9, <3>1, NoneFresh DEF SameBeside
  <2>2. CASE e.prose /\ e.use = 0
    <3>1. w = AppendRow(u, c) /\ \A r : IsFresh(r, v, e, seq) <=> r = c
      BY <1>6, <1>7, <1>11, <2>2
    <3> QED BY <1>9, <1>12, <3>1, OneFresh
  <2>3. CASE ~e.prose /\ e.use # 0
    <3>1. w = AppendRow(u, d) /\ \A r : IsFresh(r, v, e, seq) <=> r = d
      BY <1>6, <1>7, <1>11, <2>3
    <3> QED BY <1>9, <1>13, <3>1, OneFresh
  <2>4. CASE e.prose /\ e.use # 0
    <3>1. w = AppendRow(t, d) /\ t = AppendRow(u, c) /\ \A r : IsFresh(r, v, e, seq) <=> r \in {c, d}
      BY <1>6, <1>7, <1>11, <2>4
    <3> QED BY <1>9, <1>12, <1>13, <3>1, TwoFresh
  <2> QED BY <2>1, <2>2, <2>3, <2>4
<1>15. \A o \in DOMAIN w.rows : ~IsLiveSegmentRow(w.rows[o], e.loop)
  BY <1>10, <1>14 DEF IsLiveSegmentRow
<1> QED BY <1>1, <1>8, <1>14, <1>15 DEF Folded, SameBeside

\* relinkLoop(), after the loop's record is noted.
LEMMA FoldedLoopStarted ==
    ASSUME NEW v, IsView(v), NEW e, IsRecord(e), e.kind = "LoopStarted", NEW seq \in Nat \ {0},
           NEW w, w = FoldLoopStarted(v, e)
    PROVE  Folded(v, w, e, seq)
<1>1. v.outcomes = OutcomesAfter(v.outcomes, e) /\ v.gates = GatesAfter(v.gates, e)
  BY DEF OutcomesAfter, GatesAfter
<1>2. PICK loops : loops = Set(v.loops, e.loop, [observed |-> TRUE, parent |-> e.cause, use |-> e.use])
  OBVIOUS
<1>3. PICK f : f = [o \in DOMAIN v.rows |-> Relinked(v.rows[o], e)]
  OBVIOUS
<1>4. PICK u : u = [v EXCEPT !.loops = loops]
  OBVIOUS
<1>5. u = [rows |-> v.rows, next |-> v.next, loops |-> loops, gates |-> v.gates,
           pending |-> v.pending, outcomes |-> v.outcomes, cards |-> v.cards]
  BY <1>4 DEF IsView
<1>6. IsView(u) /\ u.rows = v.rows /\ u.next = v.next
  BY <1>5 DEF IsView
<1>7. w = [u EXCEPT !.rows = [o \in DOMAIN v.rows |-> Relinked(v.rows[o], e)]]
  <2>1. w = RelinkLoop(u, e)
    BY <1>2, <1>4 DEF FoldLoopStarted
  <2>2. w = [u EXCEPT !.rows = [o \in DOMAIN u.rows |->
                                   IF o \in DOMAIN u.rows THEN Relinked(u.rows[o], e) ELSE u.rows[o]]]
    BY <2>1 DEF RelinkLoop, ReplaceRows, Relinked
  <2> HIDE DEF Relinked
  <2> QED BY <1>6, <2>2
<1>8. \A r : IsRow(r) => IsRow(Relinked(r, e))
  BY DEF IsRow, Relinked
<1>9. DOMAIN f = DOMAIN v.rows /\ f = [o \in DOMAIN f |-> f[o]] /\ \A o \in DOMAIN f : IsRow(f[o])
  BY <1>3, <1>8 DEF IsView
<1>10. IsView(w) /\ SameBeside(u, w) /\ w.next = u.next /\ w.rows = f
  BY <1>3, <1>6, <1>7, <1>9, ReplacedRows
<1>11. LeftOf(v, w, e, seq)
  BY <1>3, <1>6, <1>9, <1>10 DEF LeftOf, Kept, Terminals
<1>12. \A r : ~IsFresh(r, v, e, seq)
  BY DEF IsFresh
<1>13. w.next >= v.next /\ NewRows(v, w, e, seq) /\ OldRows(v, w, e, seq)
  BY <1>11, <1>12, NoneFresh
<1> QED BY <1>1, <1>2, <1>5, <1>10, <1>13 DEF Folded, SameBeside

\* ensureLoop(): the loop is known, and nothing else changes.
Ensured(u, v, l) ==
    /\ IsView(v) /\ v.rows = u.rows /\ v.next = u.next /\ v.gates = u.gates
    /\ v.pending = u.pending /\ v.outcomes = u.outcomes
    /\ v.loops = IF l \in DOMAIN u.loops THEN u.loops
                 ELSE Set(u.loops, l, [observed |-> FALSE, parent |-> NoLoop, use |-> 0])

\* ensureLoop().
LEMMA LoopEnsured ==
    ASSUME NEW u, IsView(u), NEW l \in Loops
    PROVE  Ensured(u, EnsureLoop(u, l), l)
<1>1. l # NoLoop
  BY TranscriptAssumption
<1>2. PICK v : v = EnsureLoop(u, l)
  OBVIOUS
<1>3. CASE l \in DOMAIN u.loops
  BY <1>1, <1>2, <1>3 DEF EnsureLoop, Ensured
<1>4. CASE l \notin DOMAIN u.loops
  <2>1. PICK loops : loops = Set(u.loops, l, [observed |-> FALSE, parent |-> NoLoop, use |-> 0])
    OBVIOUS
  <2>2. v = [u EXCEPT !.loops = loops]
    BY <1>1, <1>2, <1>4, <2>1 DEF EnsureLoop
  <2>3. v = [rows |-> u.rows, next |-> u.next, loops |-> loops, gates |-> u.gates,
             pending |-> u.pending, outcomes |-> u.outcomes, cards |-> u.cards]
    BY <2>2 DEF IsView
  <2>4. IsView(v)
    BY <2>3 DEF IsView
  <2> QED BY <1>2, <1>4, <2>1, <2>3, <2>4 DEF Ensured
<1> QED BY <1>3, <1>4

PendingLive(v) == \A k \in DOMAIN v.pending : v.pending[k] \in DOMAIN v.rows => v.rows[v.pending[k]].live

\* Whatever the record is.
LEMMA FoldedEnduring ==
    ASSUME NEW u, IsView(u), PendingLive(u), NEW e, IsRecord(e), NEW seq \in Nat \ {0},
           NEW w, w = FoldEnduring(u, e, seq)
    PROVE  \E v : Ensured(u, v, e.loop) /\ Folded(v, w, e, seq)
<1>1. PICK v : v = EnsureLoop(u, e.loop)
  OBVIOUS
<1>2. Ensured(u, v, e.loop)
  BY <1>1, LoopEnsured DEF IsRecord
<1>3. IsView(v) /\ PendingLive(v)
  BY <1>2 DEF Ensured, PendingLive
<1>4. e.kind \in Kinds
  BY DEF IsRecord
<1>5. CASE e.kind = "TurnStarted"
  <2>1. w = FoldTurnStarted(v, e, seq)
    BY <1>1, <1>5 DEF FoldEnduring, Terminals
  <2> QED BY <1>2, <1>3, <1>5, <2>1, FoldedTurnStarted DEF PendingLive
<1>6. CASE e.kind = "StepDone"
  <2>1. w = FoldStepDone(v, e, seq)
    BY <1>1, <1>6 DEF FoldEnduring, Terminals
  <2> QED BY <1>2, <1>3, <1>6, <2>1, FoldedStepDone
<1>7. CASE e.kind \in Terminals
  <2>1. w = FoldTerminal(v, e, seq)
    BY <1>1, <1>7 DEF FoldEnduring, Terminals
  <2> QED BY <1>2, <1>3, <1>7, <2>1, FoldedTerminal
<1>8. CASE e.kind \in {"TurnRejected", "InputCancelled"}
  <2>1. w = FoldRefusal(v, e, seq)
    BY <1>1, <1>8 DEF FoldEnduring, Terminals
  <2> QED BY <1>2, <1>3, <1>8, <2>1, FoldedRefusal DEF PendingLive
<1>9. CASE e.kind = "LoopStarted"
  <2>1. w = FoldLoopStarted(v, e)
    BY <1>1, <1>9 DEF FoldEnduring, Terminals
  <2> QED BY <1>2, <1>3, <1>9, <2>1, FoldedLoopStarted
<1>10. CASE e.kind \in {"GateOpened", "GateResolved"}
  <2>1. w = FoldGate(v, e, seq)
    BY <1>1, <1>10 DEF FoldEnduring, Terminals
  <2> QED BY <1>2, <1>3, <1>10, <2>1, FoldedGate
<1> QED BY <1>4, <1>5, <1>6, <1>7, <1>8, <1>9, <1>10 DEF Kinds, Terminals

-----------------------------------------------------------------------------
(* What folding one frame does: only a live row comes, and only live rows  *)
(* change.                                                                 *)

\* A live row at its old place keeps what the journal gave it.
Grown(r, q) ==
    q = [kind |-> r.kind, loop |-> r.loop, seq |-> r.seq, live |-> r.live, orphan |-> r.orphan,
         text |-> q.text, use |-> r.use, exec |-> r.exec, status |-> q.status, spawned |-> r.spawned]
IsSaid(text, f) == \A s \in text : f.kind = "delta" /\ s = f.step
IsFrameRow(r, v, f) ==
    /\ IsRow(r) /\ r.kind \in {"assistant", "tool"} /\ r.loop = f.loop /\ r.live
    /\ (r.orphan <=> IsOrphanLoop(v, f.loop)) /\ r.use = 0 /\ r.spawned = NoLoop
    /\ r.kind = "assistant" => IsSaid(r.text, f)
Framed(v, w, f) ==
    /\ IsView(w) /\ SameBeside(v, w) /\ w.next >= v.next /\ DOMAIN v.rows \subseteq DOMAIN w.rows
    /\ \A o \in DOMAIN w.rows \ DOMAIN v.rows : o >= v.next /\ IsFrameRow(w.rows[o], v, f)
    /\ \A o \in DOMAIN v.rows : LET r == v.rows[o] IN
         \/ w.rows[o] = r
         \/ /\ r.live /\ r.kind \in {"assistant", "tool"} /\ r.loop = f.loop /\ Grown(r, w.rows[o])
            /\ IsSaid(w.rows[o].text \ r.text, f)

\* The session's frames, by what is folded of them.
FrameKinds == {"delta", "started", "completed"}

\* A frame that starts a row.
LEMMA FrameAppended ==
    ASSUME NEW v, IsView(v), NEW u, IsView(u), u.rows = v.rows, u.next = v.next, SameBeside(v, u),
           NEW f, NEW row, IsFrameRow(row, v, f), NEW w, w = AppendRow(u, row)
    PROVE  Framed(v, w, f)
<1>1. /\ IsView(w) /\ SameBeside(u, w) /\ w.next = u.next + 1
      /\ DOMAIN w.rows = DOMAIN u.rows \union {u.next} /\ u.next \notin DOMAIN u.rows
      /\ w.rows[u.next] = row /\ \A o \in DOMAIN u.rows : w.rows[o] = u.rows[o]
  BY AppendedRow DEF IsFrameRow
<1>2. v.next \in Nat
  BY DEF IsView
<1>3. SameBeside(v, w)
  BY <1>1 DEF SameBeside
<1>4. DOMAIN w.rows \ DOMAIN v.rows = {v.next} /\ DOMAIN v.rows \subseteq DOMAIN w.rows
  BY <1>1
<1> QED BY <1>1, <1>2, <1>3, <1>4 DEF Framed

\* Rows of the frame's kind, extended in their places.
RowsGrow(v, g, f) ==
    \A o \in DOMAIN g : LET r == v.rows[o] IN
      \/ g[o] = r
      \/ /\ r.live /\ r.kind \in {"assistant", "tool"} /\ r.loop = f.loop /\ Grown(r, g[o])
         /\ IsSaid(g[o].text \ r.text, f)

LEMMA FrameGrows ==
    ASSUME NEW v, IsView(v), NEW u, IsView(u), u.rows = v.rows, u.next = v.next, SameBeside(v, u),
           NEW f, NEW g, DOMAIN g = DOMAIN v.rows, g = [o \in DOMAIN g |-> g[o]],
           RowsGrow(v, g, f), NEW w, w = [u EXCEPT !.rows = g]
    PROVE  Framed(v, w, f)
<1>1. \A r, q : IsRow(r) /\ Grown(r, q) => IsRow(q)
  BY DEF IsRow, Grown
<1>2. \A o \in DOMAIN g : IsRow(g[o])
  BY <1>1 DEF IsView, RowsGrow
<1>3. IsView(w) /\ SameBeside(u, w) /\ w.next = u.next /\ w.rows = g
  BY <1>2, ReplacedRows
<1>4. v.next \in Nat /\ SameBeside(v, w)
  BY <1>3 DEF IsView, SameBeside
<1>5. DOMAIN w.rows \ DOMAIN v.rows = {} /\ DOMAIN v.rows \subseteq DOMAIN w.rows
  BY <1>3
<1> QED BY <1>3, <1>4, <1>5 DEF Framed, RowsGrow

\* A delta.
LEMMA FramedDelta ==
    ASSUME NEW v, IsView(v), NEW f, f.kind = "delta", NEW w, w = FoldDelta(v, f)
    PROVE  Framed(v, w, f)
<1>1. PICK at : at = LiveAssistantIndex(v, f.loop)
  OBVIOUS
<1>2. PICK text : text = IF f.blank THEN {} ELSE {f.step}
  OBVIOUS
<1>3. \A s \in text : s = f.step
  BY <1>2
<1>4. SameBeside(v, v)
  BY DEF SameBeside
<1>5. CASE at = {}
  <2>1. PICK d : d = Draft(v, "assistant", f.loop, 0)
    OBVIOUS
  <2>2. w = AppendRow(v, [d EXCEPT !.text = text])
    BY <1>1, <1>2, <1>5, <2>1 DEF FoldDelta
  <2>3. /\ IsRow(d) /\ d.kind = "assistant" /\ d.loop = f.loop /\ d.live
        /\ (d.orphan <=> IsOrphanLoop(v, f.loop)) /\ d.use = 0 /\ d.spawned = NoLoop
    BY <2>1, DraftIsRow
  <2>4. PICK row : row = [d EXCEPT !.text = text]
    OBVIOUS
  <2>5. IsFrameRow(row, v, f)
    BY <1>3, <2>3, <2>4 DEF IsFrameRow, IsRow, IsSaid
  <2> QED BY <1>4, <2>2, <2>4, <2>5, FrameAppended
<1>6. CASE at # {}
  <2>1. PICK g : g = [o \in DOMAIN v.rows |-> IF o \in at THEN [v.rows[o] EXCEPT !.text = v.rows[o].text \union text]
                                               ELSE v.rows[o]]
    OBVIOUS
  <2>2. w = [v EXCEPT !.rows = g]
    BY <1>1, <1>2, <1>6, <2>1 DEF FoldDelta, ReplaceRows
  <2>3. \A o \in at : o \in DOMAIN v.rows /\ v.rows[o].live /\ v.rows[o].kind = "assistant" /\ v.rows[o].loop = f.loop
    BY <1>1 DEF LiveAssistantIndex, Latest, Ordinals
  <2>4. ASSUME NEW o \in DOMAIN v.rows, o \in at
        PROVE  Grown(v.rows[o], g[o]) /\ IsSaid(g[o].text \ v.rows[o].text, f)
    <3>1. PICK r : r = v.rows[o]
      OBVIOUS
    <3>2. g[o] = [r EXCEPT !.text = r.text \union text]
      BY <2>1, <2>4, <3>1
    <3>3. IsRow(r)
      BY <3>1 DEF IsView
    <3>4. Grown(r, g[o]) /\ g[o].text = r.text \union text
      BY <3>2, <3>3 DEF Grown, IsRow
    <3> QED BY <1>3, <3>1, <3>4 DEF IsSaid
  <2>5. \A o \in DOMAIN v.rows : o \notin at => g[o] = v.rows[o]
    BY <2>1
  <2>6. DOMAIN g = DOMAIN v.rows /\ g = [o \in DOMAIN g |-> g[o]]
    BY <2>1
  <2>7. RowsGrow(v, g, f)
    <3> SUFFICES ASSUME NEW o \in DOMAIN v.rows, o \in at
                 PROVE  LET r == v.rows[o] IN
                        /\ r.live /\ r.kind \in {"assistant", "tool"} /\ r.loop = f.loop
                        /\ Grown(r, g[o]) /\ IsSaid(g[o].text \ r.text, f)
      BY <2>5, <2>6 DEF RowsGrow
    <3>1. v.rows[o].live /\ v.rows[o].kind \in {"assistant", "tool"} /\ v.rows[o].loop = f.loop
      BY <2>3
    <3>2. Grown(v.rows[o], g[o]) /\ IsSaid(g[o].text \ v.rows[o].text, f)
      BY <2>4
    <3> QED BY <3>1, <3>2
  <2> QED BY <1>4, <2>2, <2>6, <2>7, FrameGrows
<1> QED BY <1>5, <1>6

\* A tool's frame.
LEMMA FramedTool ==
    ASSUME NEW v, IsView(v), NEW f, f.kind \in {"started", "completed"}, NEW w, w = FoldTool(v, f)
    PROVE  Framed(v, w, f)
<1>1. PICK u : u = FoldCard(v, f)
  OBVIOUS
<1>2. PICK mark : mark = IF f.kind = "started" THEN "running" ELSE "ok"
  OBVIOUS
<1>3. PICK at : at = LiveToolIndex(u, f)
  OBVIOUS
<1>4. IsView(u) /\ u.rows = v.rows /\ u.next = v.next /\ SameBeside(v, u)
  <2>1. PICK cards : cards = Set(v.cards, f.exec,
          IF f.exec \in DOMAIN v.cards /\ f.kind = "started" THEN v.cards[f.exec] ELSE f.kind)
    OBVIOUS
  <2>2. u = [v EXCEPT !.cards = cards]
    BY <1>1, <2>1 DEF FoldCard
  <2>3. u = [rows |-> v.rows, next |-> v.next, loops |-> v.loops, gates |-> v.gates,
             pending |-> v.pending, outcomes |-> v.outcomes, cards |-> cards]
    BY <2>2 DEF IsView
  <2> QED BY <2>3 DEF IsView, SameBeside
<1>5. CASE at = {}
  <2>1. PICK d : d = Draft(v, "tool", f.loop, 0)
    OBVIOUS
  <2>2. PICK row : row = [d EXCEPT !.exec = f.exec, !.status = mark]
    OBVIOUS
  <2>3. w = AppendRow(u, row)
    BY <1>1, <1>2, <1>3, <1>5, <2>1, <2>2 DEF FoldTool
  <2>4. /\ IsRow(d) /\ d.kind = "tool" /\ d.loop = f.loop /\ d.live
        /\ (d.orphan <=> IsOrphanLoop(v, f.loop)) /\ d.use = 0 /\ d.spawned = NoLoop
    BY <2>1, DraftIsRow
  <2>5. IsFrameRow(row, v, f)
    BY <2>2, <2>4 DEF IsFrameRow, IsRow
  <2> QED BY <1>4, <2>3, <2>5, FrameAppended
<1>6. CASE at # {} /\ f.kind = "started"
  <2>1. w = u
    BY <1>1, <1>3, <1>6 DEF FoldTool
  <2>2. v.next \in Nat
    BY DEF IsView
  <2> QED BY <1>4, <2>1, <2>2 DEF Framed
<1>7. CASE at # {} /\ f.kind # "started"
  <2>1. PICK g : g = [o \in DOMAIN u.rows |-> IF o \in at THEN [u.rows[o] EXCEPT !.status = mark] ELSE u.rows[o]]
    OBVIOUS
  <2>2. w = [u EXCEPT !.rows = g]
    BY <1>1, <1>2, <1>3, <1>7, <2>1 DEF FoldTool, ReplaceRows
  <2>3. \A o \in at : o \in DOMAIN v.rows /\ v.rows[o].live /\ v.rows[o].kind = "tool" /\ v.rows[o].loop = f.loop
    BY <1>3, <1>4 DEF LiveToolIndex, Earliest, Ordinals
  <2>4. ASSUME NEW o \in DOMAIN v.rows, o \in at
        PROVE  Grown(v.rows[o], g[o]) /\ IsSaid(g[o].text \ v.rows[o].text, f)
    <3>1. PICK r : r = v.rows[o]
      OBVIOUS
    <3>2. g[o] = [r EXCEPT !.status = mark]
      BY <1>4, <2>1, <2>4, <3>1
    <3>3. IsRow(r)
      BY <3>1 DEF IsView
    <3>4. Grown(r, g[o]) /\ g[o].text = r.text
      BY <3>2, <3>3 DEF Grown, IsRow
    <3> QED BY <3>1, <3>4 DEF IsSaid
  <2>5. \A o \in DOMAIN v.rows : o \notin at => g[o] = v.rows[o]
    BY <1>4, <2>1
  <2>6. DOMAIN g = DOMAIN v.rows /\ g = [o \in DOMAIN g |-> g[o]]
    BY <1>4, <2>1
  <2>7. RowsGrow(v, g, f)
    <3> SUFFICES ASSUME NEW o \in DOMAIN v.rows, o \in at
                 PROVE  LET r == v.rows[o] IN
                        /\ r.live /\ r.kind \in {"assistant", "tool"} /\ r.loop = f.loop
                        /\ Grown(r, g[o]) /\ IsSaid(g[o].text \ r.text, f)
      BY <2>5, <2>6 DEF RowsGrow
    <3>1. v.rows[o].live /\ v.rows[o].kind \in {"assistant", "tool"} /\ v.rows[o].loop = f.loop
      BY <2>3
    <3>2. Grown(v.rows[o], g[o]) /\ IsSaid(g[o].text \ v.rows[o].text, f)
      BY <2>4
    <3> QED BY <3>1, <3>2
  <2> QED BY <1>4, <2>2, <2>6, <2>7, FrameGrows
<1> QED BY <1>5, <1>6, <1>7

\* Whatever the frame is.
LEMMA FramedEphemeral ==
    ASSUME NEW u, IsView(u), NEW f, f.kind \in FrameKinds, f.loop \in Loops,
           NEW w, w = FoldEphemeral(u, f)
    PROVE  \E v : Ensured(u, v, f.loop) /\ Framed(v, w, f)
<1>1. PICK v : v = EnsureLoop(u, f.loop)
  OBVIOUS
<1>2. Ensured(u, v, f.loop)
  BY <1>1, LoopEnsured
<1>3. IsView(v)
  BY <1>2 DEF Ensured
<1>4. CASE f.kind = "delta"
  <2>1. w = FoldDelta(v, f)
    BY <1>1, <1>4 DEF FoldEphemeral
  <2> QED BY <1>2, <1>3, <1>4, <2>1, FramedDelta
<1>5. CASE f.kind # "delta"
  <2>1. w = FoldTool(v, f)
    BY <1>1, <1>5 DEF FoldEphemeral
  <2>2. f.kind \in {"started", "completed"}
    BY <1>5 DEF FrameKinds
  <2> QED BY <1>2, <1>3, <2>1, <2>2, FramedTool
<1> QED BY <1>4, <1>5
-----------------------------------------------------------------------------
(* What a view is to the journal it was folded from.                       *)

IsSeq(s) == s \in Seq({s[i] : i \in DOMAIN s})

StepsOf(J, l) == {i \in DOMAIN J : J[i].kind = "StepDone" /\ J[i].loop = l}
Ends(J, l) == {i \in DOMAIN J : J[i].kind \in Terminals /\ J[i].loop = l}

\* The session's records: a loop's steps rise, and its own record is one; only
\* the child has a tool call behind it.
JournalOK(J) ==
    /\ IsSeq(J) /\ \A i \in DOMAIN J : IsRecord(J[i])
    /\ \A l \in Loops : \A i \in StepsOf(J, l) : J[i].use \in {0, J[i].step}
    /\ \A l \in Loops : \A i, j \in StepsOf(J, l) : i < j => J[i].step < J[j].step
    /\ \A i \in DOMAIN J : J[i].kind = "LoopStarted" =>
         IF J[i].loop = Root THEN i = 1 /\ J[i].use = 0 ELSE J[i].cause = Root
    /\ \A i, j \in DOMAIN J :
         J[i].kind = "LoopStarted" /\ J[j].kind = "LoopStarted" /\ J[i].loop = J[j].loop => i = j

\* The step a loop is at is above every one it completed.
WorkOK(J, W) ==
    /\ W = [l \in Loops |-> [started |-> W[l].started, running |-> W[l].running, step |-> W[l].step]]
    /\ \A l \in Loops : W[l].step \in Nat /\ \A i \in StepsOf(J, l) : J[i].step < W[l].step
    /\ \A i \in DOMAIN J : J[i].kind = "LoopStarted" /\ J[i].loop = Child => W[Child].started

\* What the journal wrote (Durable), and the loops it told of.
DurableIn(r, J) == ~r.live /\ (r.kind \in {"assistant", "tool"} => J[r.seq].kind = "StepDone")
Observed(v) == {l \in DOMAIN v.loops : v.loops[l].observed}
\* An observed loop is what its record, folded, said of it.
LoopsOK(v, n, J) ==
    /\ DOMAIN v.loops \subseteq Loops
    /\ \A l \in Observed(v) : \E i \in DOMAIN J :
         /\ i <= n /\ J[i].kind = "LoopStarted" /\ J[i].loop = l
         /\ v.loops[l] = [observed |-> TRUE, parent |-> J[i].cause, use |-> J[i].use]

\* A row is of a loop that is known; one that is not live, of a record that was
\* folded.  One the journal wrote holds what its record says, no other tool row
\* has a number, and the tree it shows is the loops'.
RowOK(v, r, n, J) ==
    /\ r.loop \in DOMAIN v.loops \/ (r.loop = NoLoop /\ r.live /\ r.kind = "user")
    /\ r.live => r.kind \in {"user", "assistant", "tool"}
    /\ ~r.live => r.seq \in DOMAIN J /\ r.seq <= n
    /\ DurableIn(r, J) /\ r.kind \in {"assistant", "tool"} =>
         /\ J[r.seq].loop = r.loop
         /\ r.kind = "assistant" => r.text = {J[r.seq].step}
         /\ r.kind = "tool" => r.use = J[r.seq].use /\ r.use # 0
    /\ r.kind = "tool" /\ ~DurableIn(r, J) => r.use = 0
    /\ r.orphan <=> IsOrphanLoop(v, r.loop)
    /\ r.spawned = IF r.kind = "tool" THEN ChildLoopFor(v, r.loop, r.use) ELSE NoLoop

\* Rows of the journal stand in its order, a step's prose before its call.
Precedes(r, q) == r.seq < q.seq \/ (r.seq = q.seq /\ r.kind = "assistant" /\ q.kind = "tool")
InOrder(v, J) ==
    \A o, p \in DOMAIN v.rows :
      o < p /\ DurableIn(v.rows[o], J) /\ DurableIn(v.rows[p], J) => Precedes(v.rows[o], v.rows[p])
\* A pending command's row is a live user row.
PendingOK(v) ==
    \A c \in DOMAIN v.pending :
      /\ v.pending[c] \in Nat /\ v.pending[c] < v.next
      /\ v.pending[c] \in DOMAIN v.rows => v.rows[v.pending[c]].live /\ v.rows[v.pending[c]].kind = "user"
\* View v is what n records of J make, with whatever frames came between.
ViewOK(v, n, J) ==
    /\ IsView(v) /\ LoopsOK(v, n, J) /\ InOrder(v, J) /\ PendingOK(v)
    /\ \A o \in DOMAIN v.rows : RowOK(v, v.rows[o], n, J)

\* A live row holds text only of a step no folded record committed, and none
\* that would be committed once the turn it is of has ended;
SaidLive(l, s, n, J, W) ==
    /\ s \in Nat /\ s <= W[l].step /\ \A i \in StepsOf(J, l) : i <= n => J[i].step < s
    /\ \A k \in Ends(J, l) : k > n => /\ W[l].running => s < W[l].step
                                      /\ \A j \in StepsOf(J, l) : j > k => J[j].step > s
\* and a row that is not, only text no other record commits.
SaidKept(l, s, k, J, W) ==
    /\ s \in Nat /\ s <= W[l].step /\ (W[l].running => s < W[l].step)
    /\ \A i \in StepsOf(J, l) : i # k => J[i].step # s
TextOK(v, n, J, W) ==
    \A o \in DOMAIN v.rows : LET r == v.rows[o] IN r.kind = "assistant" =>
      \A s \in r.text : IF r.live THEN SaidLive(r.loop, s, n, J, W) ELSE SaidKept(r.loop, s, r.seq, J, W)

\* What two clients agree on, when the second had no frames.
ShownRows(v, J) == {v.rows[o] : o \in {x \in DOMAIN v.rows : DurableIn(v.rows[x], J)}}
Agree(v, d, J) ==
    /\ \A o \in DOMAIN d.rows : DurableIn(d.rows[o], J)
    /\ ShownRows(v, J) = ShownRows(d, J)
    /\ v.gates = d.gates /\ v.outcomes = d.outcomes /\ Observed(v) = Observed(d)
    /\ \A l \in Observed(v) : v.loops[l] = d.loops[l]

\* Only the child has a tool call to name it.
LEMMA ChildIs ==
    ASSUME NEW J, JournalOK(J), NEW n, NEW v, LoopsOK(v, n, J), NEW l, NEW use
    PROVE  ChildLoopFor(v, l, use) =
             IF Child \in Observed(v) /\ use # 0 /\ v.loops[Child].parent = l /\ v.loops[Child].use = use
             THEN Child ELSE NoLoop
<1>1. PICK born : born = {c \in DOMAIN v.loops : /\ v.loops[c].observed /\ use # 0
                                        /\ v.loops[c].parent = l /\ v.loops[c].use = use}
  OBVIOUS
<1>2. ChildLoopFor(v, l, use) = IF born = {} THEN NoLoop ELSE CHOOSE c \in born : TRUE
  BY <1>1 DEF ChildLoopFor
<1>3. ASSUME NEW c \in born PROVE c = Child
  <2>1. c \in Observed(v) /\ use # 0 /\ v.loops[c].use = use
    BY <1>1 DEF Observed
  <2>2. PICK i \in DOMAIN J : /\ J[i].kind = "LoopStarted" /\ J[i].loop = c
                              /\ v.loops[c] = [observed |-> TRUE, parent |-> J[i].cause, use |-> J[i].use]
    BY <2>1 DEF LoopsOK
  <2>3. c # Root
    BY <2>1, <2>2 DEF JournalOK
  <2> QED BY <2>1, <2>3 DEF LoopsOK, Observed, Loops
<1>4. Child \in born <=> Child \in Observed(v) /\ use # 0 /\ v.loops[Child].parent = l /\ v.loops[Child].use = use
  BY <1>1 DEF Observed
<1>5. CASE born = {}
  BY <1>2, <1>4, <1>5
<1>6. CASE born # {}
  <2>1. (CHOOSE c \in born : TRUE) \in born
    BY <1>6
  <2> QED BY <1>2, <1>3, <1>4, <1>6, <2>1
<1> QED BY <1>5, <1>6

\* What a row shows of the loops is the same where they are observed alike.
LEMMA SameChild ==
    ASSUME NEW J, JournalOK(J), NEW n, NEW m, NEW v, LoopsOK(v, n, J), NEW w, LoopsOK(w, m, J),
           Observed(w) = Observed(v), \A l \in Observed(v) : w.loops[l] = v.loops[l], NEW l, NEW use
    PROVE  ChildLoopFor(w, l, use) = ChildLoopFor(v, l, use)
<1>1. ChildLoopFor(v, l, use) =
             IF Child \in Observed(v) /\ use # 0 /\ v.loops[Child].parent = l /\ v.loops[Child].use = use
             THEN Child ELSE NoLoop
  BY ChildIs
<1>2. ChildLoopFor(w, l, use) =
             IF Child \in Observed(w) /\ use # 0 /\ w.loops[Child].parent = l /\ w.loops[Child].use = use
             THEN Child ELSE NoLoop
  BY ChildIs
<1> QED BY <1>1, <1>2

\* Naming a loop observes none.
LEMMA EnsuredLoops ==
    ASSUME NEW u, NEW v, NEW l \in Loops, Ensured(u, v, l)
    PROVE  /\ l \in DOMAIN v.loops /\ DOMAIN v.loops = DOMAIN u.loops \union {l}
           /\ \A k \in DOMAIN u.loops : v.loops[k] = u.loops[k]
           /\ Observed(v) = Observed(u)
<1>1. CASE l \in DOMAIN u.loops
  BY <1>1 DEF Ensured, Observed
<1>2. CASE l \notin DOMAIN u.loops
  <2>1. v.loops = Set(u.loops, l, [observed |-> FALSE, parent |-> NoLoop, use |-> 0])
    BY <1>2 DEF Ensured
  <2>2. /\ l \in DOMAIN v.loops /\ DOMAIN v.loops = DOMAIN u.loops \union {l}
        /\ \A k \in DOMAIN u.loops : v.loops[k] = u.loops[k]
        /\ ~v.loops[l].observed
    BY <1>2, <2>1 DEF Set
  <2> QED BY <1>2, <2>2 DEF Observed
<1> QED BY <1>1, <1>2

\* Naming a loop leaves the view what it is.
LEMMA EnsuredOK ==
    ASSUME NEW J, JournalOK(J), NEW n, NEW u, ViewOK(u, n, J), NEW l \in Loops, NEW v, Ensured(u, v, l)
    PROVE  ViewOK(v, n, J)
<1>1. /\ DOMAIN v.loops = DOMAIN u.loops \union {l}
      /\ \A k \in DOMAIN u.loops : v.loops[k] = u.loops[k]
      /\ Observed(v) = Observed(u)
  BY EnsuredLoops
<1>2. IsView(v) /\ v.rows = u.rows /\ v.next = u.next /\ v.pending = u.pending
  BY DEF Ensured
<1>3. LoopsOK(u, n, J) /\ Observed(u) \subseteq DOMAIN u.loops
  BY DEF ViewOK, Observed
<1>4. LoopsOK(v, n, J)
  BY <1>1, <1>3 DEF LoopsOK
<1>5. ASSUME NEW r, RowOK(u, r, n, J) PROVE RowOK(v, r, n, J)
  <2>1. \A k, use : ChildLoopFor(v, k, use) = ChildLoopFor(u, k, use)
    BY <1>1, <1>3, <1>4, SameChild
  <2>2. IsOrphanLoop(v, r.loop) <=> IsOrphanLoop(u, r.loop)
    <3>1. CASE r.loop \in DOMAIN u.loops
      BY <1>1, <3>1 DEF IsOrphanLoop
    <3>2. CASE r.loop \notin DOMAIN u.loops
      <4>1. r.loop \notin DOMAIN v.loops
        BY <1>4, <1>5, <3>2, TranscriptAssumption DEF RowOK, LoopsOK
      <4> QED BY <3>2, <4>1 DEF IsOrphanLoop
    <3> QED BY <3>1, <3>2
  <2> QED BY <1>1, <1>5, <2>1, <2>2 DEF RowOK
<1>6. InOrder(v, J) /\ PendingOK(v)
  BY <1>2 DEF ViewOK, InOrder, PendingOK
<1> QED BY <1>2, <1>4, <1>5, <1>6 DEF ViewOK

-----------------------------------------------------------------------------
(* A record folded.                                                        *)

\* Record n + 1 is folded, and its loop is known.
NextFolded(v, w, n, J) ==
    /\ n \in Nat /\ n + 1 \in DOMAIN J /\ IsRecord(J[n + 1]) /\ J[n + 1].loop \in DOMAIN v.loops
    /\ Folded(v, w, J[n + 1], n + 1)

\* The loops observed after a record, and the one its own record tells of.
LEMMA FoldedLoops ==
    ASSUME NEW J, JournalOK(J), NEW n, NEW v, LoopsOK(v, n, J), NEW w, NextFolded(v, w, n, J)
    PROVE  /\ LoopsOK(w, n + 1, J) /\ DOMAIN w.loops = DOMAIN v.loops
           /\ J[n + 1].kind # "LoopStarted" => w.loops = v.loops
           /\ J[n + 1].kind = "LoopStarted" =>
                /\ J[n + 1].loop \notin Observed(v)
                /\ Observed(w) = Observed(v) \union {J[n + 1].loop}
                /\ w.loops[J[n + 1].loop] = [observed |-> TRUE, parent |-> J[n + 1].cause, use |-> J[n + 1].use]
                /\ \A l \in DOMAIN v.loops \ {J[n + 1].loop} : w.loops[l] = v.loops[l]
<1>1. n \in Nat /\ n + 1 \in DOMAIN J
  BY DEF NextFolded
<1>2. PICK e : e = J[n + 1]
  OBVIOUS
<1>3. CASE e.kind # "LoopStarted"
  <2>1. w.loops = v.loops
    BY <1>2, <1>3 DEF NextFolded, Folded
  <2>2. Observed(w) = Observed(v)
    BY <2>1 DEF Observed
  <2>3. \A l \in Observed(v), i \in DOMAIN J : i <= n => i <= n + 1
    BY <1>1 DEF JournalOK, IsSeq
  <2>4. LoopsOK(w, n + 1, J)
    BY <2>1, <2>2, <2>3 DEF LoopsOK
  <2> QED BY <1>2, <1>3, <2>1, <2>4
<1>4. CASE e.kind = "LoopStarted"
  <2>1. PICK x : x = [observed |-> TRUE, parent |-> e.cause, use |-> e.use]
    OBVIOUS
  <2>2. w.loops = Set(v.loops, e.loop, x) /\ e.loop \in DOMAIN v.loops
    BY <1>2, <1>4, <2>1 DEF NextFolded, Folded
  <2>3. /\ DOMAIN w.loops = DOMAIN v.loops /\ w.loops[e.loop] = x
        /\ \A l \in DOMAIN v.loops \ {e.loop} : w.loops[l] = v.loops[l]
    BY <2>2 DEF Set
  <2>4. e.loop \notin Observed(v)
    <3>1. \A i \in DOMAIN J : i <= n /\ J[i].kind = "LoopStarted" => J[i].loop # e.loop
      BY <1>1, <1>2, <1>4 DEF JournalOK
    <3> QED BY <3>1 DEF LoopsOK
  <2>5. Observed(w) = Observed(v) \union {e.loop}
    <3>1. w.loops[e.loop].observed
      BY <2>1, <2>3
    <3>2. e.loop \in DOMAIN v.loops /\ DOMAIN w.loops = DOMAIN v.loops
      BY <2>2, <2>3
    <3>3. \A l \in DOMAIN v.loops : l # e.loop => (w.loops[l].observed <=> v.loops[l].observed)
      BY <2>3
    <3>4. \A l : l \in Observed(w) <=> l \in Observed(v) \union {e.loop}
      BY <3>1, <3>2, <3>3, Zenon DEF Observed
    <3> QED BY <3>4
  <2>6. LoopsOK(w, n + 1, J)
    <3>1. ASSUME NEW l \in Observed(w)
          PROVE  \E i \in DOMAIN J :
                   /\ i <= n + 1 /\ J[i].kind = "LoopStarted" /\ J[i].loop = l
                   /\ w.loops[l] = [observed |-> TRUE, parent |-> J[i].cause, use |-> J[i].use]
      <4>1. CASE l = e.loop
        <5>1. w.loops[l] = [observed |-> TRUE, parent |-> J[n + 1].cause, use |-> J[n + 1].use]
          BY <1>2, <2>1, <2>3, <4>1, Zenon
        <5>2. n + 1 <= n + 1 /\ J[n + 1].kind = "LoopStarted" /\ J[n + 1].loop = l
          BY <1>1, <1>2, <1>4, <4>1
        <5> QED BY <1>1, <5>1, <5>2, Zenon
      <4>2. CASE l # e.loop
        <5>1. l \in Observed(v) /\ w.loops[l] = v.loops[l]
          BY <2>3, <2>5, <3>1, <4>2 DEF Observed
        <5>2. PICK i \in DOMAIN J :
                   /\ i <= n /\ J[i].kind = "LoopStarted" /\ J[i].loop = l
                   /\ v.loops[l] = [observed |-> TRUE, parent |-> J[i].cause, use |-> J[i].use]
          BY <5>1 DEF LoopsOK
        <5>3. i <= n + 1
          BY <1>1, <5>2 DEF JournalOK, IsSeq
        <5> QED BY <5>1, <5>2, <5>3
      <4> QED BY <4>1, <4>2
    <3> QED BY <2>3, <3>1 DEF LoopsOK
  <2> QED BY <1>2, <1>4, <2>1, <2>3, <2>4, <2>5, <2>6
<1> QED BY <1>3, <1>4

\* A row of the record itself.
LEMMA FreshOK ==
    ASSUME NEW J, JournalOK(J), NEW n, NEW v, LoopsOK(v, n, J), NEW w, NextFolded(v, w, n, J),
           NEW r, IsFresh(r, v, J[n + 1], n + 1)
    PROVE  RowOK(w, r, n + 1, J) /\ DurableIn(r, J) /\ r.seq = n + 1
<1>1. PICK e : e = J[n + 1]
  OBVIOUS
<1>2. /\ n \in Nat /\ n + 1 \in DOMAIN J /\ n + 1 \in Nat \ {0} /\ IsRecord(e) /\ e.loop \in DOMAIN v.loops
  BY <1>1 DEF NextFolded
<1>3. /\ IsRow(r) /\ ~r.live /\ r.seq = n + 1 /\ r.loop = e.loop /\ (r.orphan <=> IsOrphanLoop(v, e.loop))
      /\ r.kind = "assistant" => e.kind = "StepDone" /\ r.text = {e.step}
      /\ r.kind = "tool" => /\ e.kind = "StepDone" /\ r.use = e.use /\ r.use # 0
                            /\ r.spawned = ChildLoopFor(v, e.loop, e.use)
      /\ r.kind # "tool" => r.spawned = NoLoop /\ r.use = 0
  <2>1. PICK k : k = n + 1
    OBVIOUS
  <2>2. k \in Nat \ {0} /\ IsFresh(r, v, e, k)
    BY <1>1, <1>2, <2>1
  <2>3. ShowsRecord(r, v, e, k)
    BY <1>2, <2>2, FreshRow
  <2> QED BY <2>1, <2>3, Zenon DEF ShowsRecord
<1>4. e.kind # "LoopStarted"
  BY <1>1 DEF IsFresh
<1>5. w.loops = v.loops
  BY <1>1, <1>4 DEF NextFolded, Folded
<1>6. IsOrphanLoop(w, e.loop) <=> IsOrphanLoop(v, e.loop)
  BY <1>5 DEF IsOrphanLoop
<1>7. ChildLoopFor(w, e.loop, e.use) = ChildLoopFor(v, e.loop, e.use)
  BY <1>5 DEF ChildLoopFor
<1>8. DurableIn(r, J)
  BY <1>1, <1>3 DEF DurableIn
<1> QED BY <1>1, <1>2, <1>3, <1>5, <1>6, <1>7, <1>8 DEF RowOK

\* A row that was there; one the end of the turn keeps is not of the journal.
LEMMA KeptOK ==
    ASSUME NEW J, JournalOK(J), NEW n, NEW v, LoopsOK(v, n, J), NEW w, NextFolded(v, w, n, J),
           NEW r, RowOK(v, r, n, J), IsRow(r), NEW q, Kept(r, q, J[n + 1], n + 1)
    PROVE  /\ RowOK(w, q, n + 1, J) /\ q.kind = r.kind /\ q.loop = r.loop
           /\ DurableIn(q, J) <=> DurableIn(r, J)
           /\ DurableIn(r, J) => q.seq = r.seq
           /\ r.kind = "user" => (q.live <=> r.live)
<1>1. PICK e : e = J[n + 1]
  OBVIOUS
<1>2. n \in Nat /\ n + 1 \in DOMAIN J /\ IsRecord(e) /\ e.loop \in DOMAIN v.loops
  BY <1>1 DEF NextFolded
<1>3. r.seq \in Nat /\ DOMAIN v.loops \subseteq Loops
  BY DEF IsRow, LoopsOK
<1>4. CASE e.kind # "LoopStarted"
  <2>1. w.loops = v.loops
    BY <1>1, <1>4 DEF NextFolded, Folded
  <2>2. /\ \A l : IsOrphanLoop(w, l) <=> IsOrphanLoop(v, l)
        /\ \A l, use : ChildLoopFor(w, l, use) = ChildLoopFor(v, l, use)
    BY <2>1 DEF IsOrphanLoop, ChildLoopFor
  <2>3. CASE q = r
    <3>1. ~r.live => r.seq <= n + 1
      BY <1>2, <1>3 DEF RowOK
    <3> QED BY <2>1, <2>2, <2>3, <3>1 DEF RowOK
  <2>4. CASE e.kind \in Terminals /\ IsLiveSegmentRow(r, e.loop)
    <3>1. Ended(r, q, n + 1)
      BY <1>1, <2>4 DEF Kept
    <3>2. /\ q.kind = r.kind /\ q.loop = r.loop /\ ~q.live /\ q.seq = n + 1 /\ (q.orphan <=> r.orphan)
          /\ q.use = r.use /\ q.spawned = r.spawned
      BY <3>1 DEF Ended, IsRow
    <3>3. r.live /\ r.kind \in {"assistant", "tool"} /\ r.kind # "user"
      BY <2>4 DEF IsLiveSegmentRow, RowOK
    <3>4. ~DurableIn(r, J) /\ ~DurableIn(q, J)
      BY <1>1, <2>4, <3>2, <3>3 DEF DurableIn, Terminals
    <3>5. r.kind = "tool" => r.use = 0
      BY <3>4 DEF RowOK
    <3>6. RowOK(w, q, n + 1, J)
      BY <1>2, <2>1, <2>2, <3>2, <3>3, <3>4, <3>5 DEF RowOK
    <3> QED BY <3>2, <3>3, <3>4, <3>6
  <2> QED BY <1>1, <1>4, <2>3, <2>4 DEF Kept
<1>5. CASE e.kind = "LoopStarted"
  <2>1. q = Relinked(r, e)
    BY <1>1, <1>5 DEF Kept, Terminals
  <2>2. /\ LoopsOK(w, n + 1, J) /\ DOMAIN w.loops = DOMAIN v.loops
        /\ e.loop \notin Observed(v) /\ Observed(w) = Observed(v) \union {e.loop}
        /\ w.loops[e.loop] = [observed |-> TRUE, parent |-> e.cause, use |-> e.use]
        /\ \A l \in DOMAIN v.loops \ {e.loop} : w.loops[l] = v.loops[l]
    BY <1>1, <1>5, FoldedLoops
  <2>3. e.loop # Child => e.use = 0
    BY <1>1, <1>2, <1>5 DEF JournalOK, IsRecord, Loops
  <2>4. e.loop = Child => e.cause # e.loop
    BY <1>1, <1>2, <1>5, TranscriptAssumption DEF JournalOK
  <2>5. ChildLoopFor(v, r.loop, r.use) =
             IF Child \in Observed(v) /\ r.use # 0 /\ v.loops[Child].parent = r.loop /\ v.loops[Child].use = r.use
             THEN Child ELSE NoLoop
    BY ChildIs
  <2>6. ChildLoopFor(w, r.loop, r.use) =
             IF Child \in Observed(w) /\ r.use # 0 /\ w.loops[Child].parent = r.loop /\ w.loops[Child].use = r.use
             THEN Child ELSE NoLoop
    BY <2>2, ChildIs
  <2>7. PICK takes : takes <=> r.kind = "tool" /\ e.use # 0 /\ r.loop = e.cause /\ r.use = e.use
    OBVIOUS
  <2>8. /\ q.kind = r.kind /\ q.loop = r.loop /\ (q.live <=> r.live) /\ q.seq = r.seq
        /\ q.text = r.text /\ q.use = r.use
        /\ q.spawned = IF takes THEN e.loop ELSE r.spawned
        /\ IF ~takes /\ r.loop = e.loop THEN ~q.orphan ELSE (q.orphan <=> r.orphan)
    BY <2>1, <2>7 DEF Relinked, IsRow
  <2>9. r.kind = "tool" => q.spawned = ChildLoopFor(w, r.loop, r.use)
    <3>1. CASE e.loop = Child
      <4>1. ChildLoopFor(v, r.loop, r.use) = NoLoop
        BY <2>2, <2>5, <3>1
      <4>2. ChildLoopFor(w, r.loop, r.use) = IF r.use # 0 /\ e.cause = r.loop /\ e.use = r.use THEN Child ELSE NoLoop
        BY <2>2, <2>6, <3>1
      <4>3. r.kind = "tool" => r.spawned = NoLoop
        BY <4>1 DEF RowOK
      <4> QED BY <2>7, <2>8, <3>1, <4>2, <4>3
    <3>2. CASE e.loop # Child
      <4>1. ~takes
        BY <2>3, <2>7, <3>2
      <4>2. Child \in Observed(w) <=> Child \in Observed(v)
        BY <2>2, <3>2
      <4>3. Child \in Observed(v) => w.loops[Child] = v.loops[Child]
        BY <2>2, <3>2 DEF Observed
      <4>4. ChildLoopFor(w, r.loop, r.use) = ChildLoopFor(v, r.loop, r.use)
        BY <2>5, <2>6, <4>2, <4>3
      <4> QED BY <2>8, <4>1, <4>4 DEF RowOK
    <3> QED BY <3>1, <3>2
  <2>10. r.kind # "tool" => q.spawned = NoLoop
    BY <2>7, <2>8 DEF RowOK
  <2>11. q.orphan <=> IsOrphanLoop(w, q.loop)
    <3>1. CASE r.loop = e.loop
      <4>1. ~takes
        BY <2>3, <2>4, <2>7, <3>1
      <4>2. ~IsOrphanLoop(w, r.loop)
        BY <2>2, <3>1 DEF IsOrphanLoop
      <4> QED BY <2>8, <3>1, <4>1, <4>2
    <3>2. CASE r.loop # e.loop
      <4>1. IsOrphanLoop(w, r.loop) <=> IsOrphanLoop(v, r.loop)
        BY <2>2, <3>2 DEF IsOrphanLoop
      <4> QED BY <2>8, <3>2, <4>1 DEF RowOK
    <3> QED BY <3>1, <3>2
  <2>12. DurableIn(q, J) <=> DurableIn(r, J)
    BY <2>8 DEF DurableIn
  <2>13. ~r.live => r.seq <= n + 1
    BY <1>2, <1>3 DEF RowOK
  <2>14. RowOK(w, q, n + 1, J)
    BY <2>2, <2>8, <2>9, <2>10, <2>11, <2>12, <2>13 DEF RowOK
  <2> QED BY <2>8, <2>12, <2>14
<1> QED BY <1>4, <1>5

\* A view is what it should be after the next record.
LEMMA FoldedOK ==
    ASSUME NEW J, JournalOK(J), NEW n, NEW v, ViewOK(v, n, J), NEW w, NextFolded(v, w, n, J)
    PROVE  ViewOK(w, n + 1, J)
<1>1. PICK e : e = J[n + 1]
  OBVIOUS
<1>2. n \in Nat /\ Folded(v, w, e, n + 1) /\ LoopsOK(v, n, J) /\ IsView(v)
  BY <1>1 DEF NextFolded, ViewOK
<1>3. LoopsOK(w, n + 1, J)
  BY <1>2, FoldedLoops
<1>4. IsView(w) /\ w.next >= v.next /\ v.next \in Nat /\ w.next \in Nat
  BY <1>2 DEF Folded, IsView
<1>5. \A o \in DOMAIN v.rows : o \in Nat /\ o < v.next /\ IsRow(v.rows[o]) /\ RowOK(v, v.rows[o], n, J)
  BY <1>2 DEF IsView, ViewOK
<1>6. \A o \in DOMAIN w.rows \ DOMAIN v.rows :
        o >= v.next /\ IsFresh(w.rows[o], v, e, n + 1) /\ RowOK(w, w.rows[o], n + 1, J) /\ w.rows[o].seq = n + 1
  BY <1>1, <1>2, FreshOK DEF Folded, NewRows
<1>7. \A o \in DOMAIN v.rows \intersect DOMAIN w.rows : LET r == v.rows[o]  q == w.rows[o] IN
        /\ RowOK(w, q, n + 1, J) /\ q.kind = r.kind
        /\ DurableIn(q, J) <=> DurableIn(r, J)
        /\ DurableIn(r, J) => q.seq = r.seq
        /\ r.kind = "user" => (q.live <=> r.live)
  <2>1. ASSUME NEW o \in DOMAIN v.rows \intersect DOMAIN w.rows, NEW r, r = v.rows[o], NEW q, q = w.rows[o]
        PROVE  /\ RowOK(w, q, n + 1, J) /\ q.kind = r.kind
               /\ DurableIn(q, J) <=> DurableIn(r, J)
               /\ DurableIn(r, J) => q.seq = r.seq
               /\ r.kind = "user" => (q.live <=> r.live)
    <3>1. Kept(r, q, J[n + 1], n + 1)
      BY <1>1, <1>2, <2>1 DEF Folded, OldRows
    <3>2. RowOK(v, r, n, J) /\ IsRow(r)
      BY <1>5, <2>1
    <3> QED BY <1>2, <3>1, <3>2, KeptOK
  <2> QED BY <2>1
<1>8. \A o \in DOMAIN w.rows : RowOK(w, w.rows[o], n + 1, J)
  BY <1>6, <1>7
<1>9. InOrder(w, J)
  <2> SUFFICES ASSUME NEW o \in DOMAIN w.rows, NEW p \in DOMAIN w.rows, o < p,
                      DurableIn(w.rows[o], J), DurableIn(w.rows[p], J)
               PROVE  Precedes(w.rows[o], w.rows[p])
    BY DEF InOrder
  <2>1. CASE o \in DOMAIN v.rows /\ p \in DOMAIN v.rows
    <3>1. Precedes(v.rows[o], v.rows[p])
      BY <1>7, <2>1 DEF ViewOK, InOrder
    <3> QED BY <1>7, <2>1, <3>1 DEF Precedes
  <2>2. CASE o \in DOMAIN v.rows /\ p \notin DOMAIN v.rows
    <3>1. DurableIn(v.rows[o], J) /\ w.rows[o].seq = v.rows[o].seq
      BY <1>7, <2>2
    <3>2. v.rows[o].seq <= n /\ v.rows[o].seq \in Nat
      BY <1>5, <2>2, <3>1 DEF RowOK, DurableIn, IsRow
    <3>3. w.rows[p].seq = n + 1
      BY <1>6, <2>2
    <3> QED BY <1>2, <3>1, <3>2, <3>3 DEF Precedes
  <2>3. CASE o \notin DOMAIN v.rows /\ p \in DOMAIN v.rows
    <3>1. o \in Nat /\ p \in Nat /\ o >= v.next /\ p < v.next
      BY <1>4, <1>5, <1>6, <2>3 DEF IsView
    <3> QED BY <1>4, <3>1
  <2>4. CASE o \notin DOMAIN v.rows /\ p \notin DOMAIN v.rows
    <3>1. w.rows[o].kind = "assistant" /\ w.rows[p].kind = "tool"
      BY <1>2, <2>4 DEF Folded, NewRows
    <3> QED BY <1>6, <2>4, <3>1 DEF Precedes
  <2> QED BY <2>1, <2>2, <2>3, <2>4
<1>10. PendingOK(w)
  <2> SUFFICES ASSUME NEW c \in DOMAIN w.pending
               PROVE  /\ w.pending[c] \in Nat /\ w.pending[c] < w.next
                      /\ w.pending[c] \in DOMAIN w.rows =>
                           w.rows[w.pending[c]].live /\ w.rows[w.pending[c]].kind = "user"
    BY DEF PendingOK
  <2>1. c \in DOMAIN v.pending /\ w.pending[c] = v.pending[c]
    BY <1>2 DEF Folded
  <2>2. PICK o : o = v.pending[c]
    OBVIOUS
  <2>3. o \in Nat /\ o < v.next /\ (o \in DOMAIN v.rows => v.rows[o].live /\ v.rows[o].kind = "user")
    BY <2>1, <2>2 DEF ViewOK, PendingOK
  <2>4. o \in DOMAIN w.rows => o \in DOMAIN v.rows
    BY <1>4, <1>6, <2>3
  <2> QED BY <1>4, <1>7, <2>1, <2>2, <2>3, <2>4
<1> QED BY <1>3, <1>4, <1>8, <1>9, <1>10 DEF ViewOK

\* And after a frame.
LEMMA FramedOK ==
    ASSUME NEW J, JournalOK(J), NEW n, NEW v, ViewOK(v, n, J), NEW f, f.loop \in DOMAIN v.loops,
           NEW w, Framed(v, w, f)
    PROVE  /\ ViewOK(w, n, J)
           /\ \A o \in DOMAIN w.rows \ DOMAIN v.rows : ~DurableIn(w.rows[o], J)
           /\ \A o \in DOMAIN v.rows : w.rows[o] = v.rows[o]
                                        \/ (~DurableIn(v.rows[o], J) /\ ~DurableIn(w.rows[o], J))
<1>1. IsView(w) /\ w.loops = v.loops /\ w.pending = v.pending /\ w.next >= v.next
      /\ v.next \in Nat /\ w.next \in Nat /\ DOMAIN v.rows \subseteq DOMAIN w.rows
  BY DEF Framed, SameBeside, ViewOK, IsView
<1>2. LoopsOK(v, n, J) /\ LoopsOK(w, n, J)
  BY <1>1 DEF ViewOK, LoopsOK, Observed
<1>3. /\ \A l : IsOrphanLoop(w, l) <=> IsOrphanLoop(v, l)
      /\ \A l, use : ChildLoopFor(w, l, use) = ChildLoopFor(v, l, use)
  BY <1>1 DEF IsOrphanLoop, ChildLoopFor
<1>4. \A l : ChildLoopFor(v, l, 0) = NoLoop
  BY <1>2, ChildIs
<1>5. ASSUME NEW o \in DOMAIN w.rows \ DOMAIN v.rows
      PROVE  RowOK(w, w.rows[o], n, J) /\ ~DurableIn(w.rows[o], J) /\ o >= v.next
  <2>1. PICK r : r = w.rows[o]
    OBVIOUS
  <2>2. IsFrameRow(r, v, f) /\ o >= v.next
    BY <1>5, <2>1 DEF Framed
  <2>3. ~DurableIn(r, J)
    BY <2>2 DEF IsFrameRow, DurableIn
  <2>4. RowOK(w, r, n, J)
    BY <1>1, <1>3, <1>4, <2>2, <2>3 DEF RowOK, IsFrameRow
  <2> QED BY <2>1, <2>2, <2>3, <2>4
<1>6. ASSUME NEW o \in DOMAIN v.rows
      PROVE  /\ RowOK(w, w.rows[o], n, J)
             /\ \/ w.rows[o] = v.rows[o]
                \/ ~DurableIn(v.rows[o], J) /\ ~DurableIn(w.rows[o], J) /\ v.rows[o].kind # "user"
  <2>1. PICK r : r = v.rows[o]
    OBVIOUS
  <2>2. PICK q : q = w.rows[o]
    OBVIOUS
  <2>3. RowOK(v, r, n, J)
    BY <1>6, <2>1 DEF ViewOK
  <2>4. CASE q = r
    <3>1. RowOK(w, q, n, J)
      BY <1>1, <1>3, <2>3, <2>4 DEF RowOK
    <3> QED BY <2>1, <2>2, <2>4, <3>1
  <2>5. CASE r.live /\ r.kind \in {"assistant", "tool"} /\ Grown(r, q)
    <3>1. /\ q.kind = r.kind /\ q.loop = r.loop /\ (q.live <=> r.live) /\ (q.orphan <=> r.orphan)
          /\ q.seq = r.seq /\ q.use = r.use /\ q.spawned = r.spawned
      BY <2>5 DEF Grown
    <3>2. ~DurableIn(r, J) /\ ~DurableIn(q, J)
      BY <2>5, <3>1 DEF DurableIn
    <3>3. RowOK(w, q, n, J)
      BY <1>1, <1>3, <2>3, <3>1, <3>2 DEF RowOK
    <3> QED BY <2>1, <2>2, <2>5, <3>2, <3>3
  <2> QED BY <2>1, <2>2, <2>4, <2>5 DEF Framed
<1>7. InOrder(w, J)
  BY <1>5, <1>6 DEF InOrder, ViewOK
<1>8. PendingOK(w)
  <2> SUFFICES ASSUME NEW c \in DOMAIN w.pending
               PROVE  /\ w.pending[c] \in Nat /\ w.pending[c] < w.next
                      /\ w.pending[c] \in DOMAIN w.rows =>
                           w.rows[w.pending[c]].live /\ w.rows[w.pending[c]].kind = "user"
    BY DEF PendingOK
  <2>1. PICK o : o = v.pending[c]
    OBVIOUS
  <2>2. o \in Nat /\ o < v.next /\ (o \in DOMAIN v.rows => v.rows[o].live /\ v.rows[o].kind = "user")
    BY <1>1, <2>1 DEF ViewOK, PendingOK
  <2>3. o \in DOMAIN w.rows => o \in DOMAIN v.rows
    BY <1>1, <1>5, <2>2
  <2> QED BY <1>1, <1>6, <2>1, <2>2, <2>3
<1> QED BY <1>1, <1>2, <1>5, <1>6, <1>7, <1>8 DEF ViewOK

\* The loops are told of as before.
LEMMA SameLoops ==
    ASSUME NEW v, NEW w, w.loops = v.loops
    PROVE  /\ \A n, J : LoopsOK(v, n, J) => LoopsOK(w, n, J)
           /\ \A l : IsOrphanLoop(w, l) <=> IsOrphanLoop(v, l)
           /\ \A l, use : ChildLoopFor(w, l, use) = ChildLoopFor(v, l, use)
<1>1. Observed(w) = Observed(v)
  BY DEF Observed
<1>2. \A n, J : LoopsOK(v, n, J) => LoopsOK(w, n, J)
  BY <1>1 DEF LoopsOK
<1>3. \A l : IsOrphanLoop(w, l) <=> IsOrphanLoop(v, l)
  BY DEF IsOrphanLoop
<1>4. \A l, use : ChildLoopFor(w, l, use) = ChildLoopFor(v, l, use)
  BY DEF ChildLoopFor
<1> QED BY <1>2, <1>3, <1>4

\* addPendingRow(): the row of a command nobody has answered yet.
Submitted(v, w, c) ==
    /\ IsView(w) /\ w.loops = v.loops /\ w.gates = v.gates /\ w.outcomes = v.outcomes
    /\ w.next = v.next + 1 /\ w.pending = Set(v.pending, c, v.next)
    /\ DOMAIN w.rows = DOMAIN v.rows \union {v.next} /\ v.next \notin DOMAIN v.rows
    /\ \A o \in DOMAIN v.rows : w.rows[o] = v.rows[o]
    /\ LET r == w.rows[v.next] IN
       r.kind = "user" /\ r.live /\ ~r.orphan /\ r.loop = NoLoop /\ r.spawned = NoLoop

\* addPendingRow().
LEMMA SubmittedRow ==
    ASSUME NEW v, IsView(v), NEW c, NEW w,
           w = [AppendRow(v, [NoRow EXCEPT !.kind = "user", !.live = TRUE])
                  EXCEPT !.pending = Set(v.pending, c, v.next)]
    PROVE  Submitted(v, w, c)
<1>1. PICK row : row = [NoRow EXCEPT !.kind = "user", !.live = TRUE]
  OBVIOUS
<1>2. PICK u : u = AppendRow(v, row)
  OBVIOUS
<1>3. PICK pending : pending = Set(v.pending, c, v.next)
  OBVIOUS
<1>4. w = [u EXCEPT !.pending = pending]
  BY <1>1, <1>2, <1>3
<1>5. /\ IsRow(row) /\ row.kind = "user" /\ row.live /\ ~row.orphan /\ row.loop = NoLoop /\ row.spawned = NoLoop
  BY <1>1 DEF NoRow, IsRow
<1>6. /\ IsView(u) /\ SameBeside(v, u) /\ u.next = v.next + 1
      /\ DOMAIN u.rows = DOMAIN v.rows \union {v.next} /\ v.next \notin DOMAIN v.rows
      /\ u.rows[v.next] = row /\ \A o \in DOMAIN v.rows : u.rows[o] = v.rows[o]
  BY <1>2, <1>5, AppendedRow
<1>7. w = [rows |-> u.rows, next |-> u.next, loops |-> u.loops, gates |-> u.gates,
           pending |-> pending, outcomes |-> u.outcomes, cards |-> u.cards]
  BY <1>4, <1>6 DEF IsView
<1>8. IsView(w)
  BY <1>6, <1>7 DEF IsView
<1> QED BY <1>3, <1>5, <1>6, <1>7, <1>8 DEF Submitted, SameBeside

\* It leaves the view what it is, and shows nothing of the journal.
LEMMA SubmittedOK ==
    ASSUME NEW J, JournalOK(J), NEW n, NEW v, ViewOK(v, n, J), NEW c, NEW w, Submitted(v, w, c)
    PROVE  /\ ViewOK(w, n, J) /\ \A o \in DOMAIN w.rows \ DOMAIN v.rows : ~DurableIn(w.rows[o], J)
<1>1. PICK row : row = w.rows[v.next]
  OBVIOUS
<1>2. /\ row.kind = "user" /\ row.live /\ ~row.orphan /\ row.loop = NoLoop /\ row.spawned = NoLoop
  BY <1>1 DEF Submitted
<1>3. /\ DOMAIN w.rows = DOMAIN v.rows \union {v.next} /\ w.rows[v.next] = row
      /\ \A o \in DOMAIN v.rows : w.rows[o] = v.rows[o]
  BY <1>1 DEF Submitted
<1>4. IsView(w) /\ w.next = v.next + 1 /\ w.loops = v.loops /\ w.pending = Set(v.pending, c, v.next)
  BY DEF Submitted
<1>5. v.next \in Nat /\ LoopsOK(v, n, J) /\ LoopsOK(w, n, J)
  <2>1. w.loops = v.loops
    BY <1>4
  <2>2. v.next \in Nat /\ LoopsOK(v, n, J)
    BY DEF ViewOK, IsView
  <2> QED BY <2>1, <2>2, SameLoops
<1>6. /\ \A l : IsOrphanLoop(w, l) <=> IsOrphanLoop(v, l)
      /\ \A l, use : ChildLoopFor(w, l, use) = ChildLoopFor(v, l, use)
  <2>1. w.loops = v.loops
    BY <1>4
  <2>2. \A l : IsOrphanLoop(w, l) <=> IsOrphanLoop(v, l)
    BY <2>1, SameLoops
  <2>3. \A l, use : ChildLoopFor(w, l, use) = ChildLoopFor(v, l, use)
    BY <2>1, SameLoops
  <2> QED BY <2>2, <2>3
<1>7. RowOK(w, row, n, J) /\ ~DurableIn(row, J)
  <2>1. ~IsOrphanLoop(w, NoLoop)
    BY <1>5, TranscriptAssumption DEF LoopsOK, IsOrphanLoop
  <2>2. ~DurableIn(row, J)
    BY <1>2 DEF DurableIn
  <2> QED BY <1>2, <2>1, <2>2 DEF RowOK
<1>8. \A o \in DOMAIN v.rows : RowOK(w, v.rows[o], n, J)
  BY <1>4, <1>6 DEF RowOK, ViewOK
<1>9. \A o \in DOMAIN w.rows : RowOK(w, w.rows[o], n, J)
  BY <1>3, <1>7, <1>8
<1>10. InOrder(w, J)
  BY <1>3, <1>4, <1>7 DEF InOrder, ViewOK
<1>11. PendingOK(w)
  <2> SUFFICES ASSUME NEW k \in DOMAIN w.pending
               PROVE  /\ w.pending[k] \in Nat /\ w.pending[k] < w.next
                      /\ w.pending[k] \in DOMAIN w.rows =>
                           w.rows[w.pending[k]].live /\ w.rows[w.pending[k]].kind = "user"
    BY DEF PendingOK
  <2>1. CASE k = c
    <3>1. w.pending[k] = v.next
      BY <1>4, <2>1 DEF Set
    <3> QED BY <1>2, <1>3, <1>4, <1>5, <3>1
  <2>2. CASE k # c
    <3>1. k \in DOMAIN v.pending /\ w.pending[k] = v.pending[k]
      BY <1>4, <2>2 DEF Set
    <3>2. PICK o : o = v.pending[k]
      OBVIOUS
    <3>3. o \in Nat /\ o < v.next /\ (o \in DOMAIN v.rows => v.rows[o].live /\ v.rows[o].kind = "user")
      BY <3>1, <3>2 DEF ViewOK, PendingOK
    <3> QED BY <1>3, <1>4, <1>5, <3>1, <3>2, <3>3
  <2> QED BY <2>1, <2>2
<1> QED BY <1>3, <1>4, <1>5, <1>7, <1>9, <1>10, <1>11 DEF ViewOK

\* A longer journal says the same of what a view shows.
Longer(J, K) == DOMAIN J \subseteq DOMAIN K /\ \A i \in DOMAIN J : K[i] = J[i]

\* And the view is to it what it was.
LEMMA LongerOK ==
    ASSUME NEW J, NEW K, Longer(J, K), NEW n, NEW v, ViewOK(v, n, J)
    PROVE  /\ ViewOK(v, n, K)
           /\ \A o \in DOMAIN v.rows : DurableIn(v.rows[o], K) <=> DurableIn(v.rows[o], J)
<1>1. \A o \in DOMAIN v.rows : DurableIn(v.rows[o], K) <=> DurableIn(v.rows[o], J)
  BY DEF Longer, ViewOK, RowOK, DurableIn
<1>2. ASSUME NEW o \in DOMAIN v.rows PROVE RowOK(v, v.rows[o], n, K)
  <2>1. PICK r : r = v.rows[o]
    OBVIOUS
  <2>2. RowOK(v, r, n, J) /\ (DurableIn(r, K) <=> DurableIn(r, J))
    BY <1>1, <1>2, <2>1 DEF ViewOK
  <2>3. ~r.live => r.seq \in DOMAIN J /\ r.seq \in DOMAIN K /\ K[r.seq] = J[r.seq]
    BY <2>2 DEF RowOK, Longer
  <2>4. DurableIn(r, J) => ~r.live
    BY DEF DurableIn
  <2>5. RowOK(v, r, n, K)
    BY <2>2, <2>3, <2>4 DEF RowOK
  <2> QED BY <2>1, <2>5
<1>3. LoopsOK(v, n, K)
  <2>1. ASSUME NEW l \in Observed(v)
        PROVE  \E i \in DOMAIN K : /\ i <= n /\ K[i].kind = "LoopStarted" /\ K[i].loop = l
                                   /\ v.loops[l] = [observed |-> TRUE, parent |-> K[i].cause, use |-> K[i].use]
    <3>1. PICK i \in DOMAIN J : /\ i <= n /\ J[i].kind = "LoopStarted" /\ J[i].loop = l
                                /\ v.loops[l] = [observed |-> TRUE, parent |-> J[i].cause, use |-> J[i].use]
      BY <2>1 DEF ViewOK, LoopsOK
    <3>2. i \in DOMAIN K /\ K[i] = J[i]
      BY DEF Longer
    <3> QED BY <3>1, <3>2
  <2> QED BY <2>1 DEF ViewOK, LoopsOK
<1>4. InOrder(v, K)
  BY <1>1 DEF ViewOK, InOrder
<1> QED BY <1>1, <1>2, <1>3, <1>4 DEF ViewOK

\* One row hangs a child's block: a call's number is its step's, and steps rise.
LEMMA OneAnchor ==
    ASSUME NEW J, JournalOK(J), NEW n, NEW v, ViewOK(v, n, J),
           NEW o \in DOMAIN v.rows, NEW p \in DOMAIN v.rows,
           v.rows[o].kind = "tool", v.rows[p].kind = "tool", v.rows[o].loop = v.rows[p].loop,
           v.rows[o].use = v.rows[p].use, v.rows[o].use # 0
    PROVE  o = p
<1>1. PICK r : r = v.rows[o]
  OBVIOUS
<1>2. PICK q : q = v.rows[p]
  OBVIOUS
<1>3. r.kind = "tool" /\ q.kind = "tool" /\ r.loop = q.loop /\ r.use = q.use /\ r.use # 0
  BY <1>1, <1>2
<1>4. RowOK(v, r, n, J) /\ RowOK(v, q, n, J) /\ IsRow(r) /\ IsRow(q) /\ o \in Nat /\ p \in Nat
  BY <1>1, <1>2 DEF ViewOK, IsView
<1>5. DurableIn(r, J) /\ DurableIn(q, J)
  BY <1>3, <1>4 DEF RowOK
<1>6. r.seq \in StepsOf(J, r.loop) /\ q.seq \in StepsOf(J, r.loop) /\ J[r.seq].use = r.use /\ J[q.seq].use = r.use
  BY <1>3, <1>4, <1>5 DEF RowOK, DurableIn, StepsOf
<1>7. r.loop \in Loops
  BY <1>3, <1>4 DEF RowOK, ViewOK, LoopsOK
<1>8. J[r.seq].step = r.use /\ J[q.seq].step = r.use
  BY <1>3, <1>6, <1>7 DEF JournalOK
<1>9. r.seq \in Nat /\ q.seq \in Nat /\ J[r.seq].step \in Nat
  <2>1. r.seq \in DOMAIN J
    BY <1>6 DEF StepsOf
  <2> QED BY <1>4, <2>1 DEF IsRow, JournalOK, IsRecord
<1>10. r.seq = q.seq
  BY <1>6, <1>7, <1>8, <1>9 DEF JournalOK
<1>11. ~Precedes(r, q) /\ ~Precedes(q, r)
  BY <1>3, <1>9, <1>10 DEF Precedes
<1>12. ~(o < p) /\ ~(p < o)
  BY <1>1, <1>2, <1>5, <1>11 DEF ViewOK, InOrder
<1> QED BY <1>4, <1>12

\* Such a view knows its tree.
LEMMA TreeOfView ==
    ASSUME JournalOK(journal), ViewOK(view, folded, journal)
    PROVE  TreeKnown
<1> SUFFICES ASSUME NEW o \in DOMAIN view.rows, NEW r, r = view.rows[o]
             PROVE  /\ r.orphan <=> IsOrphanLoop(view, r.loop)
                    /\ r.kind = "tool" => r.spawned = ChildLoopFor(view, r.loop, r.use)
                    /\ r.spawned # NoLoop => o \in AnchorOf(view, r.spawned)
  BY DEF TreeKnown
<1>1. RowOK(view, r, folded, journal) /\ LoopsOK(view, folded, journal) /\ DOMAIN view.rows \subseteq Nat
  BY DEF ViewOK, IsView
<1>2. ASSUME r.spawned # NoLoop PROVE o \in AnchorOf(view, r.spawned)
  <2>1. r.kind = "tool" /\ r.spawned = ChildLoopFor(view, r.loop, r.use)
    BY <1>1, <1>2 DEF RowOK
  <2>2. ChildLoopFor(view, r.loop, r.use) =
             IF /\ Child \in Observed(view) /\ r.use # 0
                /\ view.loops[Child].parent = r.loop /\ view.loops[Child].use = r.use
             THEN Child ELSE NoLoop
    BY <1>1, ChildIs
  <2>3. /\ r.spawned = Child /\ Child \in Observed(view) /\ r.use # 0
        /\ view.loops[Child].parent = r.loop /\ view.loops[Child].use = r.use
    BY <1>2, <2>1, <2>2
  <2>4. PICK at : at = {p \in DOMAIN view.rows : /\ view.loops[Child].observed /\ view.loops[Child].use # 0
                          /\ view.rows[p].kind = "tool" /\ view.rows[p].loop = view.loops[Child].parent
                          /\ view.rows[p].use = view.loops[Child].use}
    OBVIOUS
  <2>5. o \in at
    BY <2>1, <2>3, <2>4 DEF Observed
  <2>6. \A p \in at : p = o
    BY <2>1, <2>3, <2>4, OneAnchor
  <2>7. o \in Earliest(at)
    BY <1>1, <2>5, <2>6 DEF Earliest
  <2>8. AnchorOf(view, r.spawned) = Earliest(at)
    BY <2>3, <2>4 DEF AnchorOf, Ordinals
  <2> QED BY <2>7, <2>8
<1> QED BY <1>1, <1>2 DEF RowOK
-----------------------------------------------------------------------------
(* Two clients, one with frames and one without.                           *)

\* Rows two clients both show come in the same order.
LEMMA ViewAgrees ==
    ASSUME NEW J, JournalOK(J), NEW n, NEW v, ViewOK(v, n, J), NEW d, ViewOK(d, n, J), Agree(v, d, J),
           NEW o \in DOMAIN v.rows, NEW p \in DOMAIN v.rows, NEW x \in DOMAIN d.rows, NEW y \in DOMAIN d.rows,
           DurableIn(v.rows[o], J), DurableIn(v.rows[p], J),
           v.rows[o] = d.rows[x], v.rows[p] = d.rows[y]
    PROVE  o < p <=> x < y
<1>1. PICK r : r = v.rows[o]
  OBVIOUS
<1>2. PICK q : q = v.rows[p]
  OBVIOUS
<1>3. r = d.rows[x] /\ q = d.rows[y]
  BY <1>1, <1>2
<1>4. r.seq \in Nat /\ q.seq \in Nat /\ o \in Nat /\ p \in Nat /\ x \in Nat /\ y \in Nat
  BY <1>1, <1>2 DEF ViewOK, IsView, IsRow
<1>5. DurableIn(r, J) /\ DurableIn(q, J)
  BY <1>1, <1>2
<1>6. /\ o < p => Precedes(r, q)
      /\ p < o => Precedes(q, r)
  BY <1>1, <1>2, <1>5 DEF ViewOK, InOrder
<1>7. /\ x < y => Precedes(r, q)
      /\ y < x => Precedes(q, r)
  BY <1>3, <1>5 DEF ViewOK, InOrder
<1>8. ~(Precedes(r, q) /\ Precedes(q, r)) /\ (r = q => ~Precedes(r, q))
  BY <1>4 DEF Precedes
<1>9. (o = p => r = q) /\ (x = y => r = q)
  BY <1>1, <1>2, <1>3
<1> QED BY <1>4, <1>6, <1>7, <1>8, <1>9

\* The same record brings both the same rows.
LEMMA SameFresh ==
    ASSUME NEW J, JournalOK(J), NEW n, NEW m, NEW v, LoopsOK(v, n, J), NEW d, LoopsOK(d, m, J),
           Observed(v) = Observed(d), \A l \in Observed(v) : v.loops[l] = d.loops[l],
           NEW e, e.loop \in DOMAIN v.loops, e.loop \in DOMAIN d.loops, NEW seq, NEW r
    PROVE  IsFresh(r, v, e, seq) <=> IsFresh(r, d, e, seq)
<1>1. IsOrphanLoop(v, e.loop) = IsOrphanLoop(d, e.loop)
  <2>1. IsOrphanLoop(v, e.loop) <=> IsOrphanLoop(d, e.loop)
    BY DEF IsOrphanLoop, Observed
  <2>2. IsOrphanLoop(v, e.loop) \in BOOLEAN /\ IsOrphanLoop(d, e.loop) \in BOOLEAN
    BY DEF IsOrphanLoop
  <2> QED BY <2>1, <2>2
<1>2. \A kind : Draft(v, kind, e.loop, seq) = Draft(d, kind, e.loop, seq)
  BY <1>1, Zenon DEF Draft
<1>3. ChildLoopFor(v, e.loop, e.use) = ChildLoopFor(d, e.loop, e.use)
  BY SameChild
<1>4. ProseRow(v, e, seq) = ProseRow(d, e, seq)
  BY <1>2, Zenon DEF ProseRow
<1>5. CallRow(v, e, seq) = CallRow(d, e, seq)
  BY <1>2, <1>3, Zenon DEF CallRow
<1> QED BY <1>2, <1>4, <1>5, Zenon DEF IsFresh

\* What the journal wrote, after one more record.
LEMMA FoldedShown ==
    ASSUME NEW J, JournalOK(J), NEW n, NEW v, ViewOK(v, n, J), NEW w, NextFolded(v, w, n, J), NEW q
    PROVE  q \in ShownRows(w, J) <=>
             \/ IsFresh(q, v, J[n + 1], n + 1)
             \/ \E r \in ShownRows(v, J) : q = IF J[n + 1].kind = "LoopStarted" THEN Relinked(r, J[n + 1]) ELSE r
<1>1. PICK e : e = J[n + 1]
  OBVIOUS
<1>2. PICK seq : seq = n + 1
  OBVIOUS
<1>3. Folded(v, w, e, seq) /\ LoopsOK(v, n, J)
  BY <1>1, <1>2 DEF NextFolded, ViewOK
<1>4. \A r : IsFresh(r, v, e, seq) => DurableIn(r, J)
  BY <1>1, <1>2, <1>3, FreshOK
<1>5. \A o \in DOMAIN v.rows : DurableIn(v.rows[o], J) =>
        /\ o \in DOMAIN w.rows /\ DurableIn(w.rows[o], J)
        /\ w.rows[o] = IF e.kind = "LoopStarted" THEN Relinked(v.rows[o], e) ELSE v.rows[o]
  <2>1. ASSUME NEW o \in DOMAIN v.rows, NEW r, r = v.rows[o], DurableIn(r, J), NEW t, t = w.rows[o]
        PROVE  /\ o \in DOMAIN w.rows /\ DurableIn(t, J)
               /\ t = IF e.kind = "LoopStarted" THEN Relinked(r, e) ELSE r
    <3>1. ~r.live
      BY <2>1 DEF DurableIn
    <3>2. o \in DOMAIN w.rows
      BY <1>3, <2>1, <3>1 DEF Folded, OldRows
    <3>3. Kept(r, t, e, seq)
      BY <1>3, <2>1, <3>2 DEF Folded, OldRows
    <3>4. t = IF e.kind = "LoopStarted" THEN Relinked(r, e) ELSE r
      BY <3>1, <3>3 DEF Kept, IsLiveSegmentRow
    <3>5. RowOK(v, r, n, J) /\ IsRow(r) /\ Kept(r, t, J[n + 1], n + 1)
      BY <1>1, <1>2, <2>1, <3>3 DEF ViewOK, IsView
    <3>6. DurableIn(t, J)
      BY <1>3, <2>1, <3>5, KeptOK
    <3> QED BY <3>2, <3>4, <3>6
  <2> QED BY <2>1
<1>6. \A o \in DOMAIN w.rows : DurableIn(w.rows[o], J) =>
        \/ IsFresh(w.rows[o], v, e, seq)
        \/ o \in DOMAIN v.rows /\ DurableIn(v.rows[o], J)
  <2>1. ASSUME NEW o \in DOMAIN w.rows, o \in DOMAIN v.rows, DurableIn(w.rows[o], J)
        PROVE  DurableIn(v.rows[o], J)
    <3>1. Kept(v.rows[o], w.rows[o], J[n + 1], n + 1)
      BY <1>1, <1>2, <1>3, <2>1 DEF Folded, OldRows
    <3>2. RowOK(v, v.rows[o], n, J) /\ IsRow(v.rows[o])
      BY <2>1 DEF ViewOK, IsView
    <3> QED BY <1>3, <2>1, <3>1, <3>2, KeptOK
  <2>2. ASSUME NEW o \in DOMAIN w.rows, o \notin DOMAIN v.rows
        PROVE  IsFresh(w.rows[o], v, e, seq)
    BY <1>3, <2>2 DEF Folded, NewRows
  <2> QED BY <2>1, <2>2
<1>7. \A r : IsFresh(r, v, e, seq) => \E o \in DOMAIN w.rows : w.rows[o] = r
  BY <1>3 DEF Folded, NewRows
<1>8. /\ \A r : r \in ShownRows(v, J) <=> \E o \in DOMAIN v.rows : DurableIn(v.rows[o], J) /\ r = v.rows[o]
      /\ \A r : r \in ShownRows(w, J) <=> \E o \in DOMAIN w.rows : DurableIn(w.rows[o], J) /\ r = w.rows[o]
  BY DEF ShownRows
<1> DEFINE Made(r) == IF e.kind = "LoopStarted" THEN Relinked(r, e) ELSE r
<1> HIDE DEF Made
<1>9. \A o \in DOMAIN v.rows : DurableIn(v.rows[o], J) =>
        o \in DOMAIN w.rows /\ DurableIn(w.rows[o], J) /\ w.rows[o] = Made(v.rows[o])
  BY <1>5 DEF Made
<1>10. q \in ShownRows(w, J) <=> IsFresh(q, v, e, seq) \/ \E r \in ShownRows(v, J) : q = Made(r)
  <2>1. ASSUME q \in ShownRows(w, J) PROVE IsFresh(q, v, e, seq) \/ \E r \in ShownRows(v, J) : q = Made(r)
    BY <1>6, <1>8, <1>9, <2>1
  <2>2. ASSUME IsFresh(q, v, e, seq) PROVE q \in ShownRows(w, J)
    BY <1>4, <1>7, <1>8, <2>2
  <2>3. ASSUME NEW r \in ShownRows(v, J), q = Made(r) PROVE q \in ShownRows(w, J)
    BY <1>8, <1>9, <2>3
  <2> QED BY <2>1, <2>2, <2>3
<1> QED BY <1>1, <1>2, <1>10 DEF Made

\* They agree after both fold the next record.
LEMMA FoldedAgree ==
    ASSUME NEW J, JournalOK(J), NEW n, NEW v, ViewOK(v, n, J), NEW d, ViewOK(d, n, J), Agree(v, d, J),
           NEW w, NextFolded(v, w, n, J), NEW c, NextFolded(d, c, n, J)
    PROVE  Agree(w, c, J)
<1>1. PICK e : e = J[n + 1]
  OBVIOUS
<1>2. PICK seq : seq = n + 1
  OBVIOUS
<1>3. /\ Folded(v, w, e, seq) /\ Folded(d, c, e, seq) /\ LoopsOK(v, n, J) /\ LoopsOK(d, n, J)
      /\ e.loop \in DOMAIN v.loops /\ e.loop \in DOMAIN d.loops
  BY <1>1, <1>2 DEF NextFolded, ViewOK
<1>4. Observed(v) = Observed(d) /\ \A l \in Observed(v) : v.loops[l] = d.loops[l]
  BY DEF Agree
<1>5. ShownRows(w, J) = ShownRows(c, J)
  <2>1. \A r : IsFresh(r, v, e, seq) <=> IsFresh(r, d, e, seq)
    BY <1>3, <1>4, SameFresh
  <2>2. ShownRows(v, J) = ShownRows(d, J)
    BY DEF Agree
  <2>3. ASSUME NEW q PROVE q \in ShownRows(w, J) <=> q \in ShownRows(c, J)
    <3>1. q \in ShownRows(w, J) <=>
             \/ IsFresh(q, v, e, seq)
             \/ \E r \in ShownRows(v, J) : q = IF e.kind = "LoopStarted" THEN Relinked(r, e) ELSE r
      BY <1>1, <1>2, FoldedShown
    <3>2. q \in ShownRows(c, J) <=>
             \/ IsFresh(q, d, e, seq)
             \/ \E r \in ShownRows(d, J) : q = IF e.kind = "LoopStarted" THEN Relinked(r, e) ELSE r
      BY <1>1, <1>2, FoldedShown
    <3> QED BY <2>1, <2>2, <3>1, <3>2
  <2> QED BY <2>3
<1>6. \A o \in DOMAIN c.rows : DurableIn(c.rows[o], J)
  <2>1. ASSUME NEW o \in DOMAIN c.rows, o \notin DOMAIN d.rows PROVE DurableIn(c.rows[o], J)
    <3>1. IsFresh(c.rows[o], d, J[n + 1], n + 1)
      BY <1>1, <1>2, <1>3, <2>1 DEF Folded, NewRows
    <3> QED BY <1>3, <3>1, FreshOK
  <2>2. ASSUME NEW o \in DOMAIN c.rows, o \in DOMAIN d.rows PROVE DurableIn(c.rows[o], J)
    <3>1. Kept(d.rows[o], c.rows[o], J[n + 1], n + 1)
      BY <1>1, <1>2, <1>3, <2>2 DEF Folded, OldRows
    <3>2. RowOK(d, d.rows[o], n, J) /\ IsRow(d.rows[o]) /\ DurableIn(d.rows[o], J)
      BY <2>2 DEF ViewOK, IsView, Agree
    <3> QED BY <1>3, <3>1, <3>2, KeptOK
  <2> QED BY <2>1, <2>2
<1>7. w.gates = c.gates /\ w.outcomes = c.outcomes
  BY <1>3 DEF Agree, Folded
<1>8. Observed(w) = Observed(c) /\ \A l \in Observed(w) : w.loops[l] = c.loops[l]
  <2>1. CASE e.kind # "LoopStarted"
    <3>1. w.loops = v.loops /\ c.loops = d.loops
      BY <1>3, <2>1 DEF Folded
    <3>2. Observed(w) = Observed(v) /\ Observed(c) = Observed(d)
      BY <3>1 DEF Observed
    <3> QED BY <1>4, <3>1, <3>2
  <2>2. CASE e.kind = "LoopStarted"
    <3>1. /\ Observed(w) = Observed(v) \union {e.loop} /\ Observed(v) \subseteq DOMAIN v.loops
          /\ w.loops[e.loop] = [observed |-> TRUE, parent |-> e.cause, use |-> e.use]
          /\ \A l \in DOMAIN v.loops \ {e.loop} : w.loops[l] = v.loops[l]
      BY <1>1, <1>3, <2>2, FoldedLoops DEF Observed
    <3>2. /\ Observed(c) = Observed(d) \union {e.loop} /\ Observed(d) \subseteq DOMAIN d.loops
          /\ c.loops[e.loop] = [observed |-> TRUE, parent |-> e.cause, use |-> e.use]
          /\ \A l \in DOMAIN d.loops \ {e.loop} : c.loops[l] = d.loops[l]
      BY <1>1, <1>3, <2>2, FoldedLoops DEF Observed
    <3> QED BY <1>4, <3>1, <3>2
  <2> QED BY <2>1, <2>2
<1> QED BY <1>5, <1>6, <1>7, <1>8 DEF Agree

\* A change of what no journal wrote.
LEMMA StillAgree ==
    ASSUME NEW J, NEW v, NEW w, NEW d, Agree(v, d, J), DOMAIN v.rows \subseteq DOMAIN w.rows,
           w.loops = v.loops, w.gates = v.gates, w.outcomes = v.outcomes,
           \A o \in DOMAIN w.rows \ DOMAIN v.rows : ~DurableIn(w.rows[o], J),
           \A o \in DOMAIN v.rows : w.rows[o] = v.rows[o]
                                    \/ (~DurableIn(v.rows[o], J) /\ ~DurableIn(w.rows[o], J))
    PROVE  Agree(w, d, J)
<1>1. \A r : r \in ShownRows(w, J) <=> r \in ShownRows(v, J)
  BY DEF ShownRows
<1>2. Observed(w) = Observed(v)
  BY DEF Observed
<1> QED BY <1>1, <1>2 DEF Agree

\* Naming a loop changes nothing they agree on.
LEMMA EnsuredAgree ==
    ASSUME NEW J, NEW u, NEW d, Agree(u, d, J), NEW l \in Loops, NEW v, Ensured(u, v, l)
    PROVE  Agree(v, d, J) /\ \A c : Ensured(d, c, l) => Agree(v, c, J)
<1>1. Agree(v, d, J)
  <2>1. /\ \A k \in DOMAIN u.loops : v.loops[k] = u.loops[k]
        /\ Observed(v) = Observed(u) /\ Observed(u) \subseteq DOMAIN u.loops
    BY EnsuredLoops DEF Observed
  <2>2. ShownRows(v, J) = ShownRows(u, J) /\ v.gates = u.gates /\ v.outcomes = u.outcomes
    BY DEF Ensured, ShownRows
  <2> QED BY <2>1, <2>2 DEF Agree
<1>2. ASSUME NEW c, Ensured(d, c, l) PROVE Agree(v, c, J)
  <2>1. /\ \A k \in DOMAIN d.loops : c.loops[k] = d.loops[k]
        /\ Observed(c) = Observed(d) /\ Observed(d) \subseteq DOMAIN d.loops
    BY <1>2, EnsuredLoops DEF Observed
  <2>2. ShownRows(c, J) = ShownRows(d, J) /\ c.rows = d.rows /\ c.gates = d.gates /\ c.outcomes = d.outcomes
    BY <1>2 DEF Ensured, ShownRows
  <2> QED BY <1>1, <2>1, <2>2 DEF Agree
<1> QED BY <1>1, <1>2

\* Nor does a longer journal.
LEMMA LongerAgree ==
    ASSUME NEW J, NEW K, Longer(J, K), NEW n, NEW v, ViewOK(v, n, J), NEW d, ViewOK(d, n, J), Agree(v, d, J)
    PROVE  Agree(v, d, K)
<1>1. /\ \A o \in DOMAIN v.rows : DurableIn(v.rows[o], K) <=> DurableIn(v.rows[o], J)
      /\ \A o \in DOMAIN d.rows : DurableIn(d.rows[o], K) <=> DurableIn(d.rows[o], J)
  BY LongerOK
<1>2. ShownRows(v, K) = ShownRows(v, J) /\ ShownRows(d, K) = ShownRows(d, J)
  BY <1>1 DEF ShownRows
<1> QED BY <1>1, <1>2 DEF Agree

\* One item more at the end of a sequence.
LEMMA SeqAppended ==
    ASSUME NEW s, IsSeq(s), NEW x
    PROVE  LET t == Append(s, x) IN
           /\ IsSeq(t) /\ Len(t) = Len(s) + 1 /\ Len(s) \in Nat
           /\ DOMAIN s = 1..Len(s) /\ DOMAIN t = 1..(Len(s) + 1)
           /\ t[Len(s) + 1] = x /\ \A i \in DOMAIN s : t[i] = s[i]
<1>1. PICK S : S = {s[i] : i \in DOMAIN s} \union {x}
  OBVIOUS
<1>2. s \in Seq(S) /\ x \in S
  BY <1>1 DEF IsSeq
<1>3. PICK t : t = Append(s, x)
  OBVIOUS
<1>4. /\ t \in Seq(S) /\ Len(t) = Len(s) + 1 /\ Len(s) \in Nat
      /\ DOMAIN s = 1..Len(s) /\ DOMAIN t = 1..(Len(s) + 1)
      /\ t[Len(s) + 1] = x /\ \A i \in DOMAIN s : t[i] = s[i]
  BY <1>2, <1>3
<1>5. t \in Seq({t[i] : i \in DOMAIN t})
  BY <1>4
<1> QED BY <1>3, <1>4, <1>5 DEF IsSeq

\* One less at its front.
LEMMA SeqTail ==
    ASSUME NEW s, IsSeq(s), s # <<>>
    PROVE  LET t == Tail(s) IN
           /\ IsSeq(t) /\ Len(t) = Len(s) - 1 /\ Len(s) \in Nat \ {0}
           /\ DOMAIN s = 1..Len(s) /\ DOMAIN t = 1..(Len(s) - 1)
           /\ Head(s) = s[1] /\ 1 \in DOMAIN s /\ \A i \in DOMAIN t : t[i] = s[i + 1] /\ i + 1 \in DOMAIN s
<1>1. PICK S : S = {s[i] : i \in DOMAIN s}
  OBVIOUS
<1>2. s \in Seq(S)
  BY <1>1 DEF IsSeq
<1>3. PICK t : t = Tail(s)
  OBVIOUS
<1>4. /\ t \in Seq(S) /\ Len(t) = Len(s) - 1 /\ Len(s) \in Nat \ {0}
      /\ DOMAIN s = 1..Len(s) /\ DOMAIN t = 1..(Len(s) - 1)
      /\ Head(s) = s[1] /\ 1 \in DOMAIN s /\ \A i \in DOMAIN t : t[i] = s[i + 1] /\ i + 1 \in DOMAIN s
  BY <1>2, <1>3
<1>5. t \in Seq({t[i] : i \in DOMAIN t})
  BY <1>4
<1> QED BY <1>3, <1>4, <1>5 DEF IsSeq

-----------------------------------------------------------------------------
(* What the session writes, and what it does to what is said.              *)

IsWork(W) ==
    /\ W = [l \in Loops |-> [started |-> W[l].started, running |-> W[l].running, step |-> W[l].step]]
    /\ \A l \in Loops : W[l].step \in Nat

\* A loop's step only rises, and does when it begins to run.
Later(W, X) ==
    \A l \in Loops : /\ X[l].step >= W[l].step
                     /\ X[l].running => W[l].running \/ X[l].step > W[l].step
                     /\ W[l].started => X[l].started

\* Record e is written by a session at W, which is at X then.
Writes(e, J, W, X) ==
    /\ IsRecord(e) /\ IsWork(X) /\ Later(W, X)
    /\ e.kind = "StepDone" => /\ W[e.loop].running /\ e.step = W[e.loop].step /\ X[e.loop].step > W[e.loop].step
                              /\ e.use \in {0, e.step}
    /\ e.kind \in Terminals => ~X[e.loop].running
    /\ e.kind = "LoopStarted" => IF e.loop = Root THEN J = <<>> /\ e.use = 0
                                 ELSE e.cause = Root /\ ~W[Child].started /\ X[Child].started

\* Record e is the new one of the journal.
Added(J, K, e, m) ==
    /\ IsSeq(K) /\ Len(J) \in Nat /\ m = Len(J) + 1 /\ Len(K) = m
    /\ DOMAIN J = 1..Len(J) /\ DOMAIN K = DOMAIN J \union {m}
    /\ K[m] = e /\ Longer(J, K)
    /\ \A l, i : i \in StepsOf(K, l) => i \in StepsOf(J, l) \/ (i = m /\ e.kind = "StepDone" /\ e.loop = l)
    /\ \A l, i : i \in Ends(K, l) => i \in Ends(J, l) \/ (i = m /\ e.kind \in Terminals /\ e.loop = l)

\* What is written is the journal's last record.
LEMMA Appended ==
    ASSUME NEW J, JournalOK(J), NEW e, NEW K, K = Append(J, e)
    PROVE  Added(J, K, e, Len(J) + 1)
<1>1. /\ IsSeq(K) /\ Len(K) = Len(J) + 1 /\ Len(J) \in Nat
      /\ DOMAIN J = 1..Len(J) /\ DOMAIN K = 1..(Len(J) + 1)
      /\ K[Len(J) + 1] = e /\ \A i \in DOMAIN J : K[i] = J[i]
  BY SeqAppended DEF JournalOK
<1>2. DOMAIN K = DOMAIN J \union {Len(J) + 1}
  BY <1>1
<1>3. \A i \in DOMAIN K : (i \in DOMAIN J /\ K[i] = J[i]) \/ (i = Len(J) + 1 /\ K[i] = e)
  BY <1>1, <1>2
<1>4. \A l, i : i \in StepsOf(K, l) => \/ i \in StepsOf(J, l)
                                       \/ i = Len(J) + 1 /\ e.kind = "StepDone" /\ e.loop = l
  BY <1>3 DEF StepsOf
<1>5. \A l, i : i \in Ends(K, l) => i \in Ends(J, l) \/ (i = Len(J) + 1 /\ e.kind \in Terminals /\ e.loop = l)
  BY <1>3 DEF Ends
<1>6. Longer(J, K)
  BY <1>1, <1>2 DEF Longer
<1> QED BY <1>1, <1>2, <1>4, <1>5, <1>6 DEF Added

\* The journal and the loops' work stay in step.
LEMMA WrittenOK ==
    ASSUME NEW J, JournalOK(J), NEW W, WorkOK(J, W), NEW e, NEW X, Writes(e, J, W, X),
           NEW K, NEW m, Added(J, K, e, m)
    PROVE  JournalOK(K) /\ WorkOK(K, X)
<1>1. /\ IsSeq(K) /\ Len(J) \in Nat /\ DOMAIN J = 1..Len(J) /\ DOMAIN K = DOMAIN J \union {m}
      /\ K[m] = e /\ Longer(J, K)
      /\ \A l, i : i \in StepsOf(K, l) => i \in StepsOf(J, l) \/ (i = m /\ e.kind = "StepDone" /\ e.loop = l)
  BY DEF Added
<1>2. m \in Nat /\ \A i \in DOMAIN J : i \in Nat /\ i < m
  BY <1>1 DEF Added
<1>3. \A i \in DOMAIN J : K[i] = J[i]
  BY <1>1 DEF Longer
<1>4. \A i \in DOMAIN K : IsRecord(K[i])
  BY <1>1, <1>3 DEF JournalOK, Writes
<1>5. \A l \in Loops : \A i \in StepsOf(J, l) : J[i].step < W[l].step /\ i \in DOMAIN J /\ J[i].step \in Nat
  BY DEF WorkOK, StepsOf, JournalOK, IsRecord
<1>6. \A l \in Loops : X[l].step \in Nat /\ W[l].step \in Nat /\ X[l].step >= W[l].step
  BY DEF Writes, Later, IsWork, WorkOK
<1>7. \A l \in Loops : \A i \in StepsOf(K, l) : K[i].use \in {0, K[i].step} /\ K[i].step < X[l].step
  <2>1. ASSUME NEW l \in Loops, NEW i \in StepsOf(J, l) PROVE K[i].use \in {0, K[i].step} /\ K[i].step < X[l].step
    BY <1>3, <1>5, <1>6 DEF JournalOK
  <2>2. e.kind = "StepDone" => e.use \in {0, e.step} /\ e.step < X[e.loop].step
    BY <1>6 DEF Writes, IsRecord
  <2>3. ASSUME NEW l \in Loops, NEW i \in StepsOf(K, l), i \notin StepsOf(J, l)
        PROVE  K[i].use \in {0, K[i].step} /\ K[i].step < X[l].step
    <3>1. K[i] = e /\ e.kind = "StepDone" /\ e.loop = l
      BY <1>1, <2>3
    <3> QED BY <2>2, <3>1
  <2> QED BY <2>1, <2>3
<1>8. \A l \in Loops : \A i, j \in StepsOf(K, l) : i < j => K[i].step < K[j].step
  <2> SUFFICES ASSUME NEW l \in Loops, NEW i \in StepsOf(K, l), NEW j \in StepsOf(K, l), i < j
               PROVE  K[i].step < K[j].step
    OBVIOUS
  <2>1. CASE i \in StepsOf(J, l) /\ j \in StepsOf(J, l)
    BY <1>3, <1>5, <2>1 DEF JournalOK
  <2>2. CASE i \in StepsOf(J, l) /\ j \notin StepsOf(J, l)
    <3>1. j = m /\ e.kind = "StepDone" /\ e.loop = l
      BY <1>1, <2>2
    <3>2. K[j].step = W[l].step
      BY <1>1, <3>1 DEF Writes
    <3> QED BY <1>3, <1>5, <2>2, <3>2
  <2>3. CASE i \notin StepsOf(J, l)
    <3>1. i = m
      BY <1>1, <2>3
    <3>2. j \in DOMAIN K
      BY DEF StepsOf
    <3> QED BY <1>1, <1>2, <3>1, <3>2
  <2> QED BY <2>1, <2>2, <2>3
<1>9. \A i \in DOMAIN K : K[i].kind = "LoopStarted" =>
        IF K[i].loop = Root THEN i = 1 /\ K[i].use = 0 ELSE K[i].cause = Root
  <2>1. e.kind = "LoopStarted" => IF e.loop = Root THEN m = 1 /\ e.use = 0 ELSE e.cause = Root
    BY DEF Writes, Added
  <2> QED BY <1>1, <1>3, <2>1 DEF JournalOK
<1>10. \A i \in DOMAIN K : K[i].kind = "LoopStarted" /\ K[i].loop = Child => X[Child].started
  <2>1. Child \in Loops /\ Child # Root
    BY TranscriptAssumption DEF Loops
  <2> QED BY <1>1, <1>3, <2>1 DEF WorkOK, Writes, Later
<1>11. \A i \in DOMAIN J : J[i].kind = "LoopStarted" /\ e.kind = "LoopStarted" => J[i].loop # e.loop
  <2>1. CASE e.loop = Root
    BY <1>1, <2>1 DEF Writes
  <2>2. CASE e.loop # Root
    <3>1. e.kind = "LoopStarted" => e.loop = Child /\ ~W[Child].started
      BY <2>2 DEF Writes, IsRecord, Loops
    <3> QED BY <3>1 DEF WorkOK
  <2> QED BY <2>1, <2>2
<1>12. \A i, j \in DOMAIN K :
         K[i].kind = "LoopStarted" /\ K[j].kind = "LoopStarted" /\ K[i].loop = K[j].loop => i = j
  BY <1>1, <1>3, <1>11 DEF JournalOK
<1>13. JournalOK(K)
  BY <1>1, <1>4, <1>7, <1>8, <1>9, <1>12 DEF JournalOK
<1>14. WorkOK(K, X)
  BY <1>6, <1>7, <1>10 DEF WorkOK, Writes, IsWork
<1> QED BY <1>13, <1>14

\* What was said stays said, and what is written later is not it.
LEMMA WrittenText ==
    ASSUME NEW J, JournalOK(J), NEW W, WorkOK(J, W), NEW e, NEW X, Writes(e, J, W, X),
           NEW K, NEW m, Added(J, K, e, m), NEW n, n \in Nat, NEW v, ViewOK(v, n, J), TextOK(v, n, J, W),
           n > Len(J) => \A o \in DOMAIN v.rows : v.rows[o].kind = "user"
    PROVE  TextOK(v, n, K, X)
<1>1. m = Len(J) + 1
  BY DEF Added
<1>2. Len(J) \in Nat /\ DOMAIN J = 1..Len(J) /\ \A i \in DOMAIN J : K[i] = J[i]
  BY DEF Added, Longer
<1>3. K[m] = e /\ \A l, i : i \in StepsOf(K, l) => i \in StepsOf(J, l) \/ (i = m /\ e.kind = "StepDone" /\ e.loop = l)
  BY DEF Added
<1>4. \A l, i : i \in Ends(K, l) => i \in Ends(J, l) \/ (i = m /\ e.kind \in Terminals /\ e.loop = l)
  BY DEF Added
<1>5. \A l : /\ \A i \in StepsOf(J, l) : i \in DOMAIN J /\ i \in Nat /\ i < m
             /\ \A i \in Ends(J, l) : i \in DOMAIN J /\ i \in Nat /\ i < m
  BY <1>1, <1>2 DEF StepsOf, Ends
<1>6. \A l \in Loops : /\ X[l].step \in Nat /\ W[l].step \in Nat /\ X[l].step >= W[l].step
                       /\ X[l].running => W[l].running \/ X[l].step > W[l].step
  BY DEF Writes, Later, IsWork, WorkOK
<1>7. e.kind = "StepDone" => W[e.loop].running /\ e.step = W[e.loop].step
  BY DEF Writes
<1>8. e.kind \in Terminals => ~X[e.loop].running
  BY DEF Writes
<1>9. ASSUME NEW l \in Loops, NEW s, SaidLive(l, s, n, J, W), n < m PROVE SaidLive(l, s, n, K, X)
  <2>1. s \in Nat /\ s <= W[l].step /\ s <= X[l].step
    BY <1>6, <1>9 DEF SaidLive
  <2>2. \A i \in StepsOf(K, l) : i <= n => K[i].step < s
    BY <1>1, <1>2, <1>3, <1>5, <1>9 DEF SaidLive
  <2>3. ASSUME NEW k \in Ends(K, l), k > n
        PROVE  /\ X[l].running => s < X[l].step
               /\ \A j \in StepsOf(K, l) : j > k => K[j].step > s
    <3>1. CASE k \in Ends(J, l)
      <4>1. W[l].running => s < W[l].step
        BY <1>9, <2>3, <3>1 DEF SaidLive
      <4>2. \A j \in StepsOf(J, l) : j > k => K[j].step > s
        BY <1>2, <1>5, <1>9, <2>3, <3>1 DEF SaidLive
      <4>3. \A j \in StepsOf(K, l) : j \notin StepsOf(J, l) => K[j].step > s
        BY <1>3, <1>6, <1>7, <2>1, <4>1
      <4>4. X[l].running => s < X[l].step
        BY <1>6, <2>1, <4>1
      <4> QED BY <4>2, <4>3, <4>4
    <3>2. CASE k \notin Ends(J, l)
      <4>1. k = m /\ e.kind \in Terminals /\ e.loop = l
        BY <1>4, <2>3, <3>2
      <4>2. \A j \in StepsOf(K, l) : ~(j > k)
        BY <1>1, <1>2, <1>3, <1>5, <4>1
      <4> QED BY <1>8, <4>1, <4>2
    <3> QED BY <3>1, <3>2
  <2> QED BY <2>1, <2>2, <2>3 DEF SaidLive
<1>10. ASSUME NEW l \in Loops, NEW s, NEW k \in DOMAIN J, SaidKept(l, s, k, J, W) PROVE SaidKept(l, s, k, K, X)
  <2>1. s \in Nat /\ s <= W[l].step /\ s <= X[l].step /\ (W[l].running => s < W[l].step)
    BY <1>6, <1>10 DEF SaidKept
  <2>2. X[l].running => s < X[l].step
    BY <1>6, <2>1
  <2>3. \A i \in StepsOf(J, l) : i # k => K[i].step # s
    BY <1>2, <1>5, <1>10 DEF SaidKept
  <2>4. \A i \in StepsOf(K, l) : i \notin StepsOf(J, l) => K[i].step # s
    <3> SUFFICES ASSUME NEW i \in StepsOf(K, l), i \notin StepsOf(J, l) PROVE K[i].step # s
      OBVIOUS
    <3>1. K[i] = e /\ e.kind = "StepDone" /\ e.loop = l
      BY <1>3
    <3>2. K[i].step = W[l].step /\ s < W[l].step
      BY <1>7, <2>1, <3>1
    <3> QED BY <1>6, <2>1, <3>2
  <2> QED BY <2>1, <2>2, <2>3, <2>4 DEF SaidKept
<1> SUFFICES ASSUME NEW o \in DOMAIN v.rows, NEW r, r = v.rows[o], r.kind = "assistant", NEW s \in r.text
             PROVE  IF r.live THEN SaidLive(r.loop, s, n, K, X) ELSE SaidKept(r.loop, s, r.seq, K, X)
  BY DEF TextOK
<1>11. n < m
  BY <1>1, <1>2
<1>12. r.loop \in Loops /\ (~r.live => r.seq \in DOMAIN J)
  BY DEF ViewOK, RowOK, LoopsOK
<1>13. IF r.live THEN SaidLive(r.loop, s, n, J, W) ELSE SaidKept(r.loop, s, r.seq, J, W)
  BY DEF TextOK
<1> QED BY <1>9, <1>10, <1>11, <1>12, <1>13

\* The next record, once folded, tells each step's text once.
LEMMA FoldedText ==
    ASSUME NEW J, JournalOK(J), NEW W, WorkOK(J, W), NEW n, NEW v, ViewOK(v, n, J), TextOK(v, n, J, W),
           NEW w, NextFolded(v, w, n, J)
    PROVE  TextOK(w, n + 1, J, W)
<1>1. PICK e : e = J[n + 1]
  OBVIOUS
<1>2. PICK m : m = n + 1
  OBVIOUS
<1>3. /\ n \in Nat /\ m \in DOMAIN J /\ m \in Nat \ {0} /\ IsRecord(e) /\ e.loop \in Loops
      /\ Folded(v, w, e, m) /\ LoopsOK(v, n, J)
  BY <1>1, <1>2 DEF NextFolded, ViewOK, IsRecord
<1>4. \A l : /\ \A i \in StepsOf(J, l) : i \in DOMAIN J /\ i \in Nat /\ (i > n <=> i >= m)
             /\ \A i \in Ends(J, l) : i \in DOMAIN J /\ i \in Nat /\ (i > n <=> i >= m)
  BY <1>2, <1>3 DEF StepsOf, Ends, JournalOK, IsSeq
<1> SUFFICES ASSUME NEW o \in DOMAIN w.rows, NEW q, q = w.rows[o], q.kind = "assistant", NEW s \in q.text
             PROVE  IF q.live THEN SaidLive(q.loop, s, m, J, W) ELSE SaidKept(q.loop, s, q.seq, J, W)
  BY <1>2 DEF TextOK
<1>5. CASE o \notin DOMAIN v.rows
  <2>1. IsFresh(q, v, e, m)
    BY <1>3, <1>5 DEF Folded, NewRows
  <2>2. ~q.live /\ q.seq = m /\ q.loop = e.loop /\ e.kind = "StepDone" /\ q.text = {e.step}
    <3>1. ShowsRecord(q, v, e, m)
      BY <1>3, <2>1, FreshRow
    <3> QED BY <3>1 DEF ShowsRecord
  <2>3. m \in StepsOf(J, e.loop) /\ s = e.step
    BY <1>1, <1>2, <1>3, <2>2 DEF StepsOf
  <2>4. e.step \in Nat /\ e.step < W[e.loop].step /\ W[e.loop].step \in Nat
    BY <1>1, <1>2, <1>3, <2>3 DEF WorkOK, IsRecord
  <2>5. \A i \in StepsOf(J, e.loop) : i # m => J[i].step # e.step
    <3> SUFFICES ASSUME NEW i \in StepsOf(J, e.loop), i # m PROVE J[i].step # e.step
      OBVIOUS
    <3>1. J[i].step \in Nat /\ i \in Nat
      BY <1>4 DEF JournalOK, IsRecord
    <3>2. i < m => J[i].step < e.step
      BY <1>1, <1>2, <1>3, <2>3 DEF JournalOK
    <3>3. m < i => e.step < J[i].step
      BY <1>1, <1>2, <1>3, <2>3 DEF JournalOK
    <3> QED BY <1>3, <2>4, <3>1, <3>2, <3>3
  <2> QED BY <2>2, <2>3, <2>4, <2>5 DEF SaidKept
<1>6. CASE o \in DOMAIN v.rows
  <2>1. PICK r : r = v.rows[o]
    OBVIOUS
  <2>2. Kept(r, q, e, m) /\ RowOK(v, r, n, J) /\ IsRow(r)
    BY <1>3, <1>6, <2>1 DEF Folded, OldRows, ViewOK, IsView
  <2>3. CASE e.kind \in Terminals /\ IsLiveSegmentRow(r, e.loop)
    <3>1. q = [r EXCEPT !.live = FALSE, !.seq = m, !.status = q.status]
      BY <2>2, <2>3 DEF Kept, Ended
    <3>2. ~q.live /\ q.seq = m /\ q.loop = r.loop /\ q.kind = r.kind /\ q.text = r.text
      BY <2>2, <3>1 DEF IsRow
    <3>3. r.live /\ r.loop = e.loop /\ m \in Ends(J, e.loop) /\ m > n
      BY <1>1, <1>2, <1>3, <2>3 DEF IsLiveSegmentRow, Ends
    <3>4. SaidLive(e.loop, s, n, J, W)
      BY <1>6, <2>1, <3>2, <3>3 DEF TextOK
    <3>5. s \in Nat /\ s <= W[e.loop].step /\ (W[e.loop].running => s < W[e.loop].step)
      BY <3>3, <3>4 DEF SaidLive
    <3>6. \A i \in StepsOf(J, e.loop) : i # m => J[i].step # s
      <4> SUFFICES ASSUME NEW i \in StepsOf(J, e.loop), i # m PROVE J[i].step # s
        OBVIOUS
      <4>1. J[i].step \in Nat /\ i \in Nat /\ (i <= n \/ i > m)
        BY <1>2, <1>3, <1>4 DEF JournalOK, IsRecord
      <4>2. i <= n => J[i].step < s
        BY <3>4 DEF SaidLive
      <4>3. i > m => J[i].step > s
        BY <3>3, <3>4 DEF SaidLive
      <4> QED BY <3>5, <4>1, <4>2, <4>3
    <3> QED BY <3>2, <3>3, <3>5, <3>6 DEF SaidKept
  <2>4. CASE ~(e.kind \in Terminals /\ IsLiveSegmentRow(r, e.loop))
    <3>1. (q.live <=> r.live) /\ q.seq = r.seq /\ q.loop = r.loop /\ q.kind = r.kind /\ q.text = r.text
      <4>1. CASE q = r
        BY <4>1
      <4>2. CASE q = Relinked(r, e)
        BY <2>2, <4>2 DEF Relinked, IsRow
      <4> QED BY <2>2, <2>4, <4>1, <4>2 DEF Kept
    <3>2. CASE ~r.live
      BY <1>6, <2>1, <3>1, <3>2 DEF TextOK
    <3>3. CASE r.live
      <4>1. SaidLive(r.loop, s, n, J, W)
        BY <1>6, <2>1, <3>1, <3>3 DEF TextOK
      <4>2. e.kind = "StepDone" => r.loop # e.loop
        BY <1>3, <3>1, <3>3 DEF Folded, IsLiveSegmentRow
      <4>3. \A i \in StepsOf(J, r.loop) : i <= m => i <= n
        BY <1>1, <1>2, <1>3, <1>4, <4>2 DEF StepsOf
      <4>4. \A i \in Ends(J, r.loop) : i > m => i > n
        BY <1>2, <1>3, <1>4
      <4>5. SaidLive(r.loop, s, m, J, W)
        BY <4>1, <4>3, <4>4 DEF SaidLive
      <4> QED BY <3>1, <3>3, <4>5
    <3> QED BY <3>2, <3>3
  <2> QED BY <2>3, <2>4
<1> QED BY <1>5, <1>6

\* A frame of the running step, once the journal is folded to its end.
LEMMA FramedText ==
    ASSUME NEW J, JournalOK(J), NEW W, WorkOK(J, W), NEW n, NEW v, ViewOK(v, n, J), TextOK(v, n, J, W),
           n = Len(J), NEW f, f.loop \in Loops, W[f.loop].running,
           f.kind = "delta" => f.step = W[f.loop].step, NEW w, Framed(v, w, f)
    PROVE  TextOK(w, n, J, W)
<1>1. DOMAIN J = 1..n /\ n \in Nat
  BY DEF JournalOK, IsSeq
<1>2. f.kind = "delta" => SaidLive(f.loop, f.step, n, J, W)
  <2>1. \A k \in Ends(J, f.loop) : ~(k > n)
    BY <1>1 DEF Ends
  <2>2. W[f.loop].step \in Nat /\ \A i \in StepsOf(J, f.loop) : J[i].step < W[f.loop].step
    BY DEF WorkOK
  <2> QED BY <2>1, <2>2 DEF SaidLive
<1> SUFFICES ASSUME NEW o \in DOMAIN w.rows, NEW q, q = w.rows[o], q.kind = "assistant", NEW s \in q.text
             PROVE  IF q.live THEN SaidLive(q.loop, s, n, J, W) ELSE SaidKept(q.loop, s, q.seq, J, W)
  BY DEF TextOK
<1>3. CASE o \notin DOMAIN v.rows
  <2>1. q.live /\ q.loop = f.loop /\ IsSaid(q.text, f)
    BY <1>3 DEF Framed, IsFrameRow
  <2> QED BY <1>2, <2>1 DEF IsSaid
<1>4. CASE o \in DOMAIN v.rows
  <2>1. PICK r : r = v.rows[o]
    OBVIOUS
  <2>2. CASE q = r
    BY <1>4, <2>1, <2>2 DEF TextOK
  <2>3. CASE r.live /\ r.loop = f.loop /\ Grown(r, q) /\ IsSaid(q.text \ r.text, f)
    <3>1. q.live /\ q.loop = r.loop /\ q.kind = r.kind
      BY <2>3 DEF Grown
    <3>2. CASE s \in r.text
      BY <1>4, <2>1, <2>3, <3>1, <3>2 DEF TextOK
    <3>3. CASE s \notin r.text
      <4>1. f.kind = "delta" /\ s = f.step
        BY <2>3, <3>3 DEF IsSaid
      <4> QED BY <1>2, <2>3, <3>1, <4>1
    <3> QED BY <3>2, <3>3
  <2> QED BY <1>4, <2>1, <2>2, <2>3 DEF Framed
<1> QED BY <1>3, <1>4

\* Both clients fold the next record.
LEMMA BothFold ==
    ASSUME NEW J, JournalOK(J), NEW W, WorkOK(J, W), NEW n, n \in Nat, n + 1 \in DOMAIN J,
           NEW v, ViewOK(v, n, J), NEW d, ViewOK(d, n, J), Agree(v, d, J),
           NEW w, w = FoldEnduring(v, J[n + 1], n + 1), NEW c, c = FoldEnduring(d, J[n + 1], n + 1)
    PROVE  /\ ViewOK(w, n + 1, J) /\ ViewOK(c, n + 1, J) /\ Agree(w, c, J)
           /\ TextOK(v, n, J, W) => TextOK(w, n + 1, J, W)
<1>1. PICK e : e = J[n + 1]
  OBVIOUS
<1>2. PICK seq : seq = n + 1
  OBVIOUS
<1>3. IsRecord(e) /\ e.loop \in Loops /\ seq \in Nat \ {0}
  BY <1>1, <1>2 DEF JournalOK, IsRecord
<1>4. IsView(v) /\ PendingLive(v) /\ IsView(d) /\ PendingLive(d)
  BY DEF ViewOK, PendingOK, PendingLive
<1>5. w = FoldEnduring(v, e, seq) /\ c = FoldEnduring(d, e, seq)
  BY <1>1, <1>2
<1>6. PICK x : Ensured(v, x, e.loop) /\ Folded(x, w, e, seq)
  BY <1>3, <1>4, <1>5, FoldedEnduring
<1>7. PICK y : Ensured(d, y, e.loop) /\ Folded(y, c, e, seq)
  BY <1>3, <1>4, <1>5, FoldedEnduring
<1>8. ViewOK(x, n, J) /\ ViewOK(y, n, J)
  BY <1>3, <1>6, <1>7, EnsuredOK
<1>9. e.loop \in DOMAIN x.loops /\ e.loop \in DOMAIN y.loops
  BY <1>3, <1>6, <1>7, EnsuredLoops
<1>10. NextFolded(x, w, n, J) /\ NextFolded(y, c, n, J)
  BY <1>1, <1>2, <1>3, <1>6, <1>7, <1>9 DEF NextFolded
<1>11. ViewOK(w, n + 1, J) /\ ViewOK(c, n + 1, J)
  BY <1>8, <1>10, FoldedOK
<1>12. Agree(x, y, J)
  BY <1>3, <1>6, <1>7, EnsuredAgree
<1>13. Agree(w, c, J)
  BY <1>8, <1>10, <1>12, FoldedAgree
<1>14. ASSUME TextOK(v, n, J, W) PROVE TextOK(w, n + 1, J, W)
  <2>1. TextOK(x, n, J, W)
    BY <1>6, <1>14 DEF Ensured, TextOK
  <2> QED BY <1>8, <1>10, <2>1, FoldedText
<1> QED BY <1>11, <1>13, <1>14

\* One client folds a frame.
LEMMA OneFrames ==
    ASSUME NEW J, JournalOK(J), NEW W, WorkOK(J, W), NEW n, n \in Nat,
           NEW v, ViewOK(v, n, J), NEW d, Agree(v, d, J),
           NEW f, f.kind \in {"delta", "started", "completed"}, f.loop \in Loops, NEW w, w = FoldEphemeral(v, f)
    PROVE  /\ ViewOK(w, n, J) /\ Agree(w, d, J)
           /\ n = Len(J) /\ W[f.loop].running /\ (f.kind = "delta" => f.step = W[f.loop].step)
                /\ TextOK(v, n, J, W) => TextOK(w, n, J, W)
<1>1. IsView(v)
  BY DEF ViewOK
<1>2. PICK x : Ensured(v, x, f.loop) /\ Framed(x, w, f)
  BY <1>1, FramedEphemeral DEF FrameKinds
<1>3. ViewOK(x, n, J) /\ Agree(x, d, J) /\ f.loop \in DOMAIN x.loops
  BY <1>2, EnsuredOK, EnsuredLoops, EnsuredAgree
<1>4. /\ ViewOK(w, n, J)
      /\ \A o \in DOMAIN w.rows \ DOMAIN x.rows : ~DurableIn(w.rows[o], J)
      /\ \A o \in DOMAIN x.rows : w.rows[o] = x.rows[o]
                                   \/ (~DurableIn(x.rows[o], J) /\ ~DurableIn(w.rows[o], J))
  BY <1>2, <1>3, FramedOK
<1>5. /\ DOMAIN x.rows \subseteq DOMAIN w.rows /\ w.loops = x.loops
      /\ w.gates = x.gates /\ w.outcomes = x.outcomes
  BY <1>2 DEF Framed, SameBeside
<1>6. Agree(w, d, J)
  BY <1>3, <1>4, <1>5, StillAgree
<1>7. ASSUME n = Len(J), W[f.loop].running, f.kind = "delta" => f.step = W[f.loop].step, TextOK(v, n, J, W)
      PROVE  TextOK(w, n, J, W)
  <2>1. TextOK(x, n, J, W)
    BY <1>2, <1>7 DEF Ensured, TextOK
  <2> QED BY <1>2, <1>3, <1>7, <2>1, FramedText
<1> QED BY <1>4, <1>6, <1>7

\* A submit changes neither.
SubmitKept(v, w, d, n, J, W) ==
    /\ ViewOK(w, n, J) /\ Agree(w, d, J)
    /\ TextOK(v, n, J, W) => TextOK(w, n, J, W)
    /\ \A o \in DOMAIN w.rows : w.rows[o].kind = "user" \/ (o \in DOMAIN v.rows /\ w.rows[o] = v.rows[o])

LEMMA OneSubmits ==
    ASSUME NEW J, JournalOK(J), NEW W, NEW n, NEW v, ViewOK(v, n, J), NEW d, Agree(v, d, J), NEW c,
           NEW w, w = [AppendRow(v, [NoRow EXCEPT !.kind = "user", !.live = TRUE])
                         EXCEPT !.pending = Set(v.pending, c, v.next)]
    PROVE  SubmitKept(v, w, d, n, J, W)
<1>1. Submitted(v, w, c)
  BY SubmittedRow DEF ViewOK
<1>2. PICK x : x = w
  OBVIOUS
<1>3. Submitted(v, x, c)
  BY <1>1, <1>2
<1>4. /\ DOMAIN v.rows \subseteq DOMAIN x.rows /\ x.loops = v.loops /\ x.gates = v.gates
      /\ x.outcomes = v.outcomes /\ \A o \in DOMAIN v.rows : x.rows[o] = v.rows[o]
      /\ \A o \in DOMAIN x.rows : x.rows[o].kind = "user" \/ (o \in DOMAIN v.rows /\ x.rows[o] = v.rows[o])
  BY <1>3 DEF Submitted
<1>5. ViewOK(x, n, J) /\ \A o \in DOMAIN x.rows \ DOMAIN v.rows : ~DurableIn(x.rows[o], J)
  BY <1>3, SubmittedOK
<1>6. Agree(x, d, J)
  BY <1>4, <1>5, StillAgree
<1>7. TextOK(v, n, J, W) => TextOK(x, n, J, W)
  BY <1>4 DEF TextOK
<1> QED BY <1>2, <1>4, <1>5, <1>6, <1>7, Zenon DEF SubmitKept
-----------------------------------------------------------------------------
(* The connection, and the invariant.                                      *)

\* An item of the queue.
IsFrame(f, J) == /\ f.kind \in {"enduring", "delta", "started", "completed"}
                 /\ f.kind = "enduring" => f.step \in Nat /\ f.step <= Len(J)
                 /\ f.kind # "enduring" => f.loop \in Loops
                 /\ f.kind = "delta" => f.step \in Nat
\* The connection: what is folded, what was read, and what waits.
LinkOK ==
    /\ folded \in Nat
    /\ phase \in {"off", "attached", "reading", "live"}
    /\ phase = "reading" => coldTip = Len(journal) /\ coldTip >= folded
    /\ phase = "live" => folded <= Len(journal)
    /\ phase = "off" => stream = <<>>
    /\ IsSeq(stream) /\ \A i \in DOMAIN stream : IsFrame(stream[i], journal)
    /\ folded > Len(journal) => \A o \in DOMAIN view.rows : view.rows[o].kind = "user"

\* A quiet session writes one item at a time, and it is the journal's next record
\* or of the running step.
QuietFrame(f) ==
    IF f.kind = "enduring" THEN folded + 1 = Len(journal) /\ f.step = Len(journal)
    ELSE /\ folded = Len(journal) /\ work[f.loop].running
         /\ f.kind = "delta" => f.step = work[f.loop].step
QuietOK == quiet =>
    /\ phase \in {"attached", "reading"} => stream = <<>>
    /\ phase = "live" =>
         \/ stream = <<>> /\ folded = Len(journal)
         \/ Len(stream) = 1 /\ QuietFrame(stream[1])

\* The inductive invariant.
TranscriptIInv ==
    /\ JournalOK(journal) /\ WorkOK(journal, work) /\ LinkOK /\ QuietOK
    /\ ViewOK(view, folded, journal) /\ ViewOK(durable, folded, journal)
    /\ Agree(view, durable, journal)
    /\ quiet => TextOK(view, folded, journal, work)

\* A record written keeps the invariant.
LEMMA WriteKeeps ==
    ASSUME TranscriptIInv, NEW e, Write(e), Writes(e, journal, work, work')
    PROVE  TranscriptIInv'
<1> USE DEF TranscriptIInv
<1>1. PICK m : m = Len(journal) + 1
  OBVIOUS
<1>2. /\ MayWrite /\ journal' = Append(journal, e)
      /\ quiet' = quiet /\ phase' = phase /\ coldTip' = coldTip /\ folded' = folded
      /\ view' = view /\ durable' = durable
  BY DEF Write
<1>3. Added(journal, journal', e, m)
  BY <1>1, <1>2, Appended
<1>4. /\ Len(journal) \in Nat /\ Len(journal') = m /\ Longer(journal, journal') /\ m \in Nat
  BY <1>1, <1>3 DEF Added
<1>5. JournalOK(journal') /\ WorkOK(journal', work')
  BY <1>3, WrittenOK
<1>6. /\ ViewOK(view, folded, journal') /\ ViewOK(durable, folded, journal')
      /\ Agree(view, durable, journal')
  BY <1>4, LongerOK, LongerAgree
<1>7. quiet => TextOK(view, folded, journal', work')
  BY <1>3, WrittenText DEF LinkOK
<1>8. PICK item : item = [NoEvent EXCEPT !.kind = "enduring", !.step = m]
  OBVIOUS
<1>9. item.kind = "enduring" /\ item.step = m
  BY <1>8 DEF NoEvent
<1>10. stream' = IF phase = "off" THEN stream ELSE Append(stream, item)
  BY <1>1, <1>8 DEF Write
<1>11. \A f : IsFrame(f, journal) => IsFrame(f, journal')
  BY <1>1, <1>4 DEF IsFrame
<1>12. IsFrame(item, journal')
  BY <1>4, <1>9 DEF IsFrame
<1>13. LinkOK'
  <2>1. IsSeq(stream') /\ \A i \in DOMAIN stream' : IsFrame(stream'[i], journal')
    <3>1. CASE phase = "off"
      BY <1>10, <1>11, <3>1 DEF LinkOK
    <3>2. CASE phase # "off"
      <4>1. PICK t : t = Append(stream, item)
        OBVIOUS
      <4>2. /\ IsSeq(t) /\ Len(stream) \in Nat /\ DOMAIN stream = 1..Len(stream) /\ DOMAIN t = 1..(Len(stream) + 1)
            /\ t[Len(stream) + 1] = item /\ \A i \in DOMAIN stream : t[i] = stream[i]
        BY <4>1, SeqAppended DEF LinkOK
      <4>3. \A i \in DOMAIN t : IsFrame(t[i], journal')
        BY <1>11, <1>12, <4>2 DEF LinkOK
      <4> QED BY <1>10, <3>2, <4>1, <4>2, <4>3
    <3> QED BY <3>1, <3>2
  <2>2. phase # "reading"
    BY <1>2 DEF MayWrite
  <2>3. folded > Len(journal') => folded > Len(journal)
    BY <1>1, <1>4 DEF LinkOK
  <2>4. phase = "live" => folded <= Len(journal')
    BY <1>1, <1>4 DEF LinkOK
  <2>5. phase = "off" => stream' = <<>>
    BY <1>10 DEF LinkOK
  <2> QED BY <1>2, <2>1, <2>2, <2>3, <2>4, <2>5 DEF LinkOK
<1>14. QuietOK'
  <2>1. CASE quiet /\ phase = "live"
    <3>1. stream = <<>> /\ folded = Len(journal)
      BY <1>2, <2>1 DEF MayWrite, QuietOK
    <3>2. stream' = <<item>>
      BY <1>10, <2>1, <3>1
    <3>3. Len(stream') = 1 /\ stream'[1] = item
      BY <3>2
    <3>4. folded + 1 = Len(journal') /\ item.step = Len(journal')
      BY <1>1, <1>4, <1>9, <3>1
    <3> QED BY <1>2, <1>9, <2>1, <3>3, <3>4 DEF QuietOK, QuietFrame
  <2>2. CASE ~(quiet /\ phase = "live")
    <3>1. quiet => phase = "off"
      BY <1>2, <2>2 DEF MayWrite
    <3> QED BY <1>2, <3>1 DEF QuietOK
  <2> QED BY <2>1, <2>2
<1> QED BY <1>2, <1>5, <1>6, <1>7, <1>13, <1>14

\* So does a frame.
LEMMA EmitKeeps ==
    ASSUME TranscriptIInv, NEW f, Emit(f), f.kind \in {"delta", "started", "completed"}, f.loop \in Loops,
           f.kind = "delta" => f.step = work[f.loop].step
    PROVE  TranscriptIInv'
<1> USE DEF TranscriptIInv
<1>1. /\ MayWrite /\ work[f.loop].running /\ journal' = journal /\ work' = work
      /\ stream' = IF phase = "off" THEN stream ELSE Append(stream, f)
      /\ quiet' = quiet /\ phase' = phase /\ coldTip' = coldTip /\ folded' = folded
      /\ view' = view /\ durable' = durable
  BY DEF Emit
<1>2. IsFrame(f, journal)
  BY DEF IsFrame, WorkOK
<1>3. IsSeq(stream') /\ \A i \in DOMAIN stream' : IsFrame(stream'[i], journal)
  <2>1. CASE phase = "off"
    BY <1>1, <2>1 DEF LinkOK
  <2>2. CASE phase # "off"
    <3>1. PICK t : t = Append(stream, f)
      OBVIOUS
    <3>2. /\ IsSeq(t) /\ Len(stream) \in Nat /\ DOMAIN stream = 1..Len(stream) /\ DOMAIN t = 1..(Len(stream) + 1)
          /\ t[Len(stream) + 1] = f /\ \A i \in DOMAIN stream : t[i] = stream[i]
      BY <3>1, SeqAppended DEF LinkOK
    <3>3. \A i \in DOMAIN t : IsFrame(t[i], journal)
      BY <1>2, <3>2 DEF LinkOK
    <3> QED BY <1>1, <2>2, <3>1, <3>2, <3>3
  <2> QED BY <2>1, <2>2
<1>4. LinkOK'
  BY <1>1, <1>3 DEF LinkOK
<1>5. QuietOK'
  <2>1. CASE quiet /\ phase = "live"
    <3>1. stream = <<>> /\ folded = Len(journal)
      BY <1>1, <2>1 DEF MayWrite, QuietOK
    <3>2. stream' = <<f>>
      BY <1>1, <2>1, <3>1
    <3>3. Len(stream') = 1 /\ stream'[1] = f
      BY <3>2
    <3> QED BY <1>1, <2>1, <3>1, <3>3 DEF QuietOK, QuietFrame
  <2>2. CASE ~(quiet /\ phase = "live")
    <3>1. quiet => phase = "off"
      BY <1>1, <2>2 DEF MayWrite
    <3> QED BY <1>1, <3>1 DEF QuietOK
  <2> QED BY <2>1, <2>2
<1> QED BY <1>1, <1>4, <1>5

\* One loop's work moves on.
IsWorkOfOne(r) == r = [started |-> r.started, running |-> r.running, step |-> r.step] /\ r.step \in Nat

MovesOn(r, x) == x.step >= r.step /\ (x.running => r.running \/ x.step > r.step) /\ (r.started => x.started)
MovedTo(W, X, l, x) == IsWork(X) /\ Later(W, X) /\ X[l] = x

\* One loop that moves on is the session moving on.
LEMMA WorkMoved ==
    ASSUME NEW W, IsWork(W), NEW l \in Loops, NEW x, IsWorkOfOne(x), MovesOn(W[l], x),
           NEW X, X = [W EXCEPT ![l] = x]
    PROVE  MovedTo(W, X, l, x)
<1>1. DOMAIN W = Loops /\ \A k \in Loops : W[k].step \in Nat
  BY DEF IsWork
<1>2. X = [k \in Loops |-> IF k = l THEN x ELSE W[k]]
  BY <1>1
<1>3. X[l] = x /\ \A k \in Loops \ {l} : X[k] = W[k]
  BY <1>2
<1>4. \A k \in Loops : IsWorkOfOne(W[k])
  BY DEF IsWork, IsWorkOfOne
<1>5. \A k \in Loops : IsWorkOfOne(X[k])
  BY <1>3, <1>4
<1>6. IsWork(X)
  BY <1>2, <1>5 DEF IsWork, IsWorkOfOne
<1>7. \A k \in Loops \ {l} : X[k].step >= W[k].step
  BY <1>1, <1>3
<1>8. Later(W, X)
  BY <1>3, <1>7 DEF Later, MovesOn
<1> QED BY <1>3, <1>6, <1>8 DEF MovedTo

\* An event has its fields.
LEMMA EventFields ==
    ASSUME NEW kind \in Kinds, NEW l \in Loops
    PROVE  LET e == Event(kind, l) IN
           /\ e = [kind |-> kind, loop |-> l, cause |-> NoLoop, command |-> NoCommand,
                   step |-> 0, prose |-> e.prose, use |-> 0, signed |-> e.signed]
           /\ IsRecord(e) /\ e.kind = kind /\ e.loop = l /\ e.cause = NoLoop /\ e.step = 0 /\ e.use = 0
<1>1. PICK no : no = FALSE
  OBVIOUS
<1>2. PICK e : e = Event(kind, l)
  OBVIOUS
<1>3. e = [kind |-> kind, loop |-> l, cause |-> NoLoop, command |-> NoCommand,
           step |-> 0, prose |-> no, use |-> 0, signed |-> no]
  BY <1>1, <1>2 DEF Event, NoEvent
<1>4. /\ e = [kind |-> kind, loop |-> l, cause |-> NoLoop, command |-> NoCommand,
              step |-> 0, prose |-> e.prose, use |-> 0, signed |-> e.signed]
      /\ IsRecord(e) /\ e.kind = kind /\ e.loop = l /\ e.cause = NoLoop /\ e.step = 0 /\ e.use = 0
  BY <1>3 DEF IsRecord
<1> QED BY <1>2, <1>4

\* A loop announces itself.
LEMMA StartLoopKeeps ==
    ASSUME TranscriptIInv, StartLoop
    PROVE  TranscriptIInv'
<1>1. IsWork(work) /\ WorkOK(journal, work) /\ Root \in Loops /\ Child \in Loops /\ Root # Child
      /\ "LoopStarted" \in Kinds
  BY TranscriptAssumption DEF TranscriptIInv, WorkOK, IsWork, Loops, Kinds
<1>2. ASSUME NEW l \in Loops, work' = [work EXCEPT ![l].started = TRUE]
      PROVE  IsWork(work') /\ Later(work, work') /\ work'[l].started
  <2>1. PICK r : r = work[l]
    OBVIOUS
  <2>2. PICK x : x = [r EXCEPT !.started = TRUE]
    OBVIOUS
  <2>3. work' = [work EXCEPT ![l] = x]
    BY <1>2, <2>1, <2>2
  <2>4. IsWorkOfOne(r)
    BY <1>1, <2>1 DEF IsWork, IsWorkOfOne
  <2>5. IsWorkOfOne(x) /\ x.step = r.step /\ x.started /\ (x.running <=> r.running)
    BY <2>2, <2>4 DEF IsWorkOfOne
  <2>6. MovesOn(work[l], x)
    BY <2>1, <2>4, <2>5 DEF IsWorkOfOne, MovesOn
  <2>7. MovedTo(work, work', l, x)
    BY <1>1, <2>3, <2>5, <2>6, WorkMoved
  <2> QED BY <2>1, <2>4, <2>5, <2>7 DEF IsWorkOfOne, MovedTo
<1>3. CASE journal = <<>> /\ Write(Event("LoopStarted", Root)) /\ work' = [work EXCEPT ![Root].started = TRUE]
  <2>1. PICK e : e = Event("LoopStarted", Root)
    OBVIOUS
  <2>2. IsRecord(e) /\ e.kind = "LoopStarted" /\ e.loop = Root /\ e.use = 0
    BY <1>1, <2>1, EventFields
  <2>3. Writes(e, journal, work, work')
    BY <1>1, <1>2, <1>3, <2>2 DEF Writes, Terminals
  <2> QED BY <1>3, <2>1, <2>3, WriteKeeps
<1>4. ASSUME ~work[Child].started, work' = [work EXCEPT ![Child].started = TRUE],
             NEW use \in {1, work[Root].step},
             Write([Event("LoopStarted", Child) EXCEPT !.cause = Root, !.use = use])
      PROVE  TranscriptIInv'
  <2>1. PICK b : b = Event("LoopStarted", Child)
    OBVIOUS
  <2>2. PICK e : e = [b EXCEPT !.cause = Root, !.use = use]
    OBVIOUS
  <2>3. IsRecord(b) /\ b.kind = "LoopStarted" /\ b.loop = Child
    BY <1>1, <2>1, EventFields
  <2>4. use \in Nat
    BY <1>1 DEF IsWork
  <2>5. IsRecord(e) /\ e.kind = "LoopStarted" /\ e.loop = Child /\ e.cause = Root
    BY <1>1, <2>2, <2>3, <2>4 DEF IsRecord
  <2>6. Writes(e, journal, work, work')
    BY <1>1, <1>2, <1>4, <2>5 DEF Writes, Terminals
  <2> QED BY <1>4, <2>1, <2>2, <2>6, WriteKeeps
<1> QED BY <1>3, <1>4 DEF StartLoop

\* A turn starts.
LEMMA StartTurnKeeps ==
    ASSUME TranscriptIInv, NEW l \in Loops, StartTurn(l)
    PROVE  TranscriptIInv'
<1>1. IsWork(work) /\ WorkOK(journal, work) /\ Root \in Loops /\ Child \in Loops /\ "TurnStarted" \in Kinds
  BY DEF TranscriptIInv, WorkOK, IsWork, Loops, Kinds
<1>2. PICK c \in Commands \union {NoCommand} :
        Write([Event("TurnStarted", l) EXCEPT !.command = c,
                  !.cause = IF c # NoCommand THEN NoLoop ELSE IF l = Root THEN Child ELSE Root])
  BY DEF StartTurn
<1>3. /\ IsWork(work') /\ Later(work, work') /\ work'[l].step > work[l].step
  <2>1. PICK r : r = work[l]
    OBVIOUS
  <2>2. PICK yes : yes = TRUE
    OBVIOUS
  <2>3. PICK x : x = [r EXCEPT !.running = yes, !.step = r.step + 1]
    OBVIOUS
  <2>4. work' = [work EXCEPT ![l] = x]
    BY <2>2, <2>1, <2>3 DEF StartTurn
  <2>5. IsWorkOfOne(r)
    BY <1>1, <2>1 DEF IsWork, IsWorkOfOne
  <2>6. IsWorkOfOne(x) /\ x.step = r.step + 1 /\ (x.started <=> r.started)
    <3>1. PICK a, d : a = r.started /\ d = r.step + 1 /\ d \in Nat
      BY <2>5 DEF IsWorkOfOne
    <3>2. x = [started |-> a, running |-> yes, step |-> d]
      BY <2>3, <2>5, <3>1 DEF IsWorkOfOne
    <3>3. IsWorkOfOne(x) /\ x.step = d /\ x.started = a
      BY <3>1, <3>2 DEF IsWorkOfOne
    <3> QED BY <3>1, <3>3, Zenon
  <2>7. MovesOn(work[l], x)
    BY <2>1, <2>5, <2>6 DEF IsWorkOfOne, MovesOn
  <2>8. MovedTo(work, work', l, x)
    BY <1>1, <2>4, <2>6, <2>7, WorkMoved
  <2> QED BY <2>1, <2>5, <2>6, <2>8 DEF IsWorkOfOne, MovedTo
<1>4. PICK b : b = Event("TurnStarted", l)
  OBVIOUS
<1>5. PICK cause : cause = IF c # NoCommand THEN NoLoop ELSE IF l = Root THEN Child ELSE Root
  OBVIOUS
<1>6. PICK e : e = [b EXCEPT !.command = c, !.cause = cause]
  OBVIOUS
<1>7. IsRecord(b) /\ b.kind = "TurnStarted" /\ b.loop = l /\ cause \in Loops \union {NoLoop}
  BY <1>1, <1>4, <1>5, EventFields
<1>8. IsRecord(e) /\ e.kind = "TurnStarted"
  BY <1>6, <1>7 DEF IsRecord
<1>9. Writes(e, journal, work, work')
  BY <1>1, <1>3, <1>8 DEF Writes, Terminals
<1> QED BY <1>2, <1>4, <1>5, <1>6, <1>9, WriteKeeps

\* A step completes.
LEMMA CompleteStepKeeps ==
    ASSUME TranscriptIInv, NEW l \in Loops, CompleteStep(l)
    PROVE  TranscriptIInv'
<1>1. IsWork(work) /\ WorkOK(journal, work) /\ "StepDone" \in Kinds /\ work[l].running
  BY DEF TranscriptIInv, WorkOK, IsWork, Kinds, CompleteStep
<1>2. PICK prose, called :
        Write([Event("StepDone", l) EXCEPT !.step = work[l].step, !.prose = prose,
                  !.use = IF called THEN work[l].step ELSE 0])
  BY DEF CompleteStep
<1>3. /\ IsWork(work') /\ Later(work, work') /\ work'[l].step > work[l].step
  <2>1. PICK r : r = work[l]
    OBVIOUS
  <2>2. PICK x : x = [r EXCEPT !.step = @ + 1]
    OBVIOUS
  <2>3. work' = [work EXCEPT ![l] = x]
    BY <2>1, <2>2 DEF CompleteStep
  <2>4. IsWorkOfOne(r)
    BY <1>1, <2>1 DEF IsWork, IsWorkOfOne
  <2>5. IsWorkOfOne(x) /\ x.step = r.step + 1 /\ (x.started <=> r.started)
    BY <2>2, <2>4 DEF IsWorkOfOne
  <2>6. MovesOn(work[l], x)
    BY <2>1, <2>4, <2>5 DEF IsWorkOfOne, MovesOn
  <2>7. MovedTo(work, work', l, x)
    BY <1>1, <2>3, <2>5, <2>6, WorkMoved
  <2> QED BY <2>1, <2>4, <2>5, <2>7 DEF IsWorkOfOne, MovedTo
<1>4. PICK b : b = Event("StepDone", l)
  OBVIOUS
<1>5. PICK use : use = IF called THEN work[l].step ELSE 0
  OBVIOUS
<1>6. PICK e : e = [b EXCEPT !.step = work[l].step, !.prose = prose, !.use = use]
  OBVIOUS
<1>7. IsRecord(b) /\ b.kind = "StepDone" /\ b.loop = l /\ work[l].step \in Nat
      /\ use \in Nat /\ use \in {0, work[l].step}
  BY <1>1, <1>4, <1>5, EventFields DEF IsWork
<1>8. IsRecord(e) /\ e.kind = "StepDone" /\ e.loop = l /\ e.step = work[l].step /\ e.use = use
  BY <1>6, <1>7 DEF IsRecord
<1>9. Writes(e, journal, work, work')
  BY <1>1, <1>3, <1>7, <1>8 DEF Writes, Terminals
<1> QED BY <1>2, <1>4, <1>5, <1>6, <1>9, WriteKeeps

\* A turn ends.
LEMMA EndTurnKeeps ==
    ASSUME TranscriptIInv, NEW l \in Loops, EndTurn(l)
    PROVE  TranscriptIInv'
<1>1. IsWork(work) /\ WorkOK(journal, work) /\ Terminals \subseteq Kinds /\ work[l].running
  BY DEF TranscriptIInv, WorkOK, IsWork, Kinds, Terminals, EndTurn
<1>2. PICK kind \in Terminals : Write(Event(kind, l))
  BY DEF EndTurn
<1>3. /\ IsWork(work') /\ Later(work, work') /\ ~work'[l].running
  <2>1. PICK r : r = work[l]
    OBVIOUS
  <2>2. PICK x : x = [r EXCEPT !.running = FALSE]
    OBVIOUS
  <2>3. work' = [work EXCEPT ![l] = x]
    BY <2>1, <2>2 DEF EndTurn
  <2>4. IsWorkOfOne(r)
    BY <1>1, <2>1 DEF IsWork, IsWorkOfOne
  <2>5. IsWorkOfOne(x) /\ x.step = r.step /\ ~x.running /\ (x.started <=> r.started)
    BY <2>2, <2>4 DEF IsWorkOfOne
  <2>6. MovesOn(work[l], x)
    BY <2>1, <2>4, <2>5 DEF IsWorkOfOne, MovesOn
  <2>7. MovedTo(work, work', l, x)
    BY <1>1, <2>3, <2>5, <2>6, WorkMoved
  <2> QED BY <2>1, <2>4, <2>5, <2>7 DEF IsWorkOfOne, MovedTo
<1>4. PICK e : e = Event(kind, l)
  OBVIOUS
<1>5. IsRecord(e) /\ e.kind = kind /\ e.loop = l
  BY <1>1, <1>2, <1>4, EventFields
<1>6. Writes(e, journal, work, work')
  BY <1>1, <1>2, <1>3, <1>5 DEF Writes, Terminals
<1> QED BY <1>2, <1>4, <1>6, WriteKeeps

\* A record of what moves no loop's work.
LEMMA IdleWrites ==
    ASSUME TranscriptIInv, NEW e, IsRecord(e), work' = work, Write(e),
           e.kind \in {"TurnRejected", "InputCancelled", "GateOpened", "GateResolved"}
    PROVE  TranscriptIInv'
<1>1. IsWork(work) /\ WorkOK(journal, work)
  BY DEF TranscriptIInv, WorkOK, IsWork
<1>2. Later(work, work')
  BY <1>1 DEF Later, IsWork
<1>3. Writes(e, journal, work, work')
  BY <1>1, <1>2 DEF Writes, Terminals
<1> QED BY <1>3, WriteKeeps

\* An input is refused.
LEMMA RefuseKeeps ==
    ASSUME TranscriptIInv, Refuse
    PROVE  TranscriptIInv'
<1>1. PICK c \in Commands, kind \in {"TurnRejected", "InputCancelled"} :
        Write([Event(kind, Root) EXCEPT !.command = c])
  BY DEF Refuse
<1>2. PICK b : b = Event(kind, Root)
  OBVIOUS
<1>3. PICK e : e = [b EXCEPT !.command = c]
  OBVIOUS
<1>4. IsRecord(b) /\ b.kind = kind
  BY <1>1, <1>2, EventFields DEF Kinds, Loops
<1>5. IsRecord(e) /\ e.kind = kind
  BY <1>3, <1>4 DEF IsRecord
<1>6. work' = work
  BY DEF Refuse
<1> QED BY <1>1, <1>2, <1>3, <1>5, <1>6, IdleWrites

\* A gate moves.
LEMMA MoveGateKeeps ==
    ASSUME TranscriptIInv, MoveGate
    PROVE  TranscriptIInv'
<1>1. PICK open, signed :
        Write([Event(IF open THEN "GateResolved" ELSE "GateOpened", Root) EXCEPT !.signed = signed])
  BY Zenon DEF MoveGate
<1>2. PICK kind : kind = IF open THEN "GateResolved" ELSE "GateOpened"
  OBVIOUS
<1>3. PICK b : b = Event(kind, Root)
  OBVIOUS
<1>4. PICK e : e = [b EXCEPT !.signed = signed]
  OBVIOUS
<1>5. IsRecord(b) /\ b.kind = kind
  BY <1>2, <1>3, EventFields DEF Kinds, Loops
<1>6. IsRecord(e) /\ e.kind = kind
  BY <1>4, <1>5 DEF IsRecord
<1>7. work' = work
  BY DEF MoveGate
<1> QED BY <1>1, <1>2, <1>3, <1>4, <1>6, <1>7, IdleWrites

\* Deltas and tool executions are streamed.
LEMMA StreamKeeps ==
    ASSUME TranscriptIInv, NEW l \in Loops, Stream(l) \/ RunTool(l)
    PROVE  TranscriptIInv'
<1>1. CASE Stream(l)
  <2>1. PICK blank : Emit([kind |-> "delta", loop |-> l, step |-> work[l].step, blank |-> blank])
    BY <1>1 DEF Stream
  <2>2. PICK f : f = [kind |-> "delta", loop |-> l, step |-> work[l].step, blank |-> blank]
    OBVIOUS
  <2>3. f.kind = "delta" /\ f.loop = l /\ f.step = work[l].step
    BY <2>2
  <2> QED BY <2>1, <2>2, <2>3, EmitKeeps
<1>2. CASE RunTool(l)
  <2>1. PICK x : \/ Emit([kind |-> "started", loop |-> l, exec |-> x])
                 \/ Emit([kind |-> "completed", loop |-> l, exec |-> x])
    BY <1>2 DEF RunTool
  <2>2. PICK f : Emit(f) /\ (\/ f = [kind |-> "started", loop |-> l, exec |-> x]
                            \/ f = [kind |-> "completed", loop |-> l, exec |-> x])
    BY <2>1
  <2>3. f.kind \in {"started", "completed"} /\ f.loop = l
    BY <2>2
  <2> QED BY <2>2, <2>3, EmitKeeps
<1> QED BY <1>1, <1>2

\* The connection attaches, reads where the journal ends, or drops.
LEMMA AttachKeeps ==
    ASSUME TranscriptIInv, Attach \/ ColdRead \/ Drop
    PROVE  TranscriptIInv'
<1> USE DEF TranscriptIInv
<1>1. journal' = journal /\ work' = work /\ quiet' = quiet /\ folded' = folded /\ view' = view /\ durable' = durable
  BY DEF Attach, ColdRead, Drop, sessionVars
<1>2. LinkOK' /\ QuietOK'
  <2>1. CASE Attach \/ Drop
    <3>1. phase' \in {"off", "attached"} /\ stream' = <<>>
      BY <2>1 DEF Attach, Drop
    <3>2. IsSeq(stream') /\ DOMAIN stream' = {}
      BY <3>1 DEF IsSeq
    <3> QED BY <1>1, <3>1, <3>2 DEF LinkOK, QuietOK, QuietFrame
  <2>2. CASE ColdRead
    <3>1. phase' = "reading" /\ coldTip' = Len(journal) /\ stream' = stream /\ phase = "attached"
          /\ Len(journal) >= folded
      BY <2>2 DEF ColdRead
    <3> QED BY <1>1, <3>1 DEF LinkOK, QuietOK, QuietFrame
  <2> QED BY <2>1, <2>2
<1> QED BY <1>1, <1>2

\* The next record is folded, by both clients.
LEMMA FoldNextKeeps ==
    ASSUME TranscriptIInv, folded + 1 \in DOMAIN journal, FoldNext, journal' = journal, work' = work, quiet' = quiet
    PROVE  /\ folded' = folded + 1 /\ folded' \in Nat /\ folded' <= Len(journal)
           /\ JournalOK(journal') /\ WorkOK(journal', work')
           /\ ViewOK(view', folded', journal') /\ ViewOK(durable', folded', journal')
           /\ Agree(view', durable', journal')
           /\ quiet' => TextOK(view', folded', journal', work')
<1>1. /\ JournalOK(journal) /\ WorkOK(journal, work) /\ folded \in Nat /\ ViewOK(view, folded, journal)
      /\ ViewOK(durable, folded, journal) /\ Agree(view, durable, journal)
      /\ quiet => TextOK(view, folded, journal, work)
  BY DEF TranscriptIInv, LinkOK
<1>2. /\ folded' = folded + 1
      /\ view' = FoldEnduring(view, journal[folded + 1], folded + 1)
      /\ durable' = FoldEnduring(durable, journal[folded + 1], folded + 1)
  BY DEF FoldNext
<1>3. /\ ViewOK(view', folded + 1, journal) /\ ViewOK(durable', folded + 1, journal)
      /\ Agree(view', durable', journal)
      /\ TextOK(view, folded, journal, work) => TextOK(view', folded + 1, journal, work)
  BY <1>1, <1>2, BothFold
<1>4. folded + 1 <= Len(journal)
  BY <1>1 DEF JournalOK, IsSeq
<1> QED BY <1>1, <1>2, <1>3, <1>4

\* The journal is folded up to where it ended.
LEMMA FoldColdKeeps ==
    ASSUME TranscriptIInv, FoldCold
    PROVE  TranscriptIInv'
<1>1. /\ phase = "reading" /\ journal' = journal /\ work' = work /\ quiet' = quiet
      /\ coldTip' = coldTip /\ stream' = stream
      /\ folded \in Nat /\ coldTip = Len(journal) /\ coldTip >= folded
  BY DEF FoldCold, sessionVars, TranscriptIInv, LinkOK
<1>2. CASE folded < coldTip
  <2>1. FoldNext /\ phase' = phase
    BY <1>2 DEF FoldCold
  <2>2. folded + 1 \in DOMAIN journal
    BY <1>1, <1>2 DEF TranscriptIInv, JournalOK, IsSeq
  <2>3. /\ folded' = folded + 1 /\ folded' \in Nat /\ folded' <= Len(journal)
        /\ JournalOK(journal') /\ WorkOK(journal', work')
        /\ ViewOK(view', folded', journal') /\ ViewOK(durable', folded', journal')
        /\ Agree(view', durable', journal')
        /\ quiet' => TextOK(view', folded', journal', work')
    BY <1>1, <2>1, <2>2, FoldNextKeeps
  <2>4. LinkOK' /\ QuietOK'
    BY <1>1, <2>1, <2>3 DEF TranscriptIInv, LinkOK, QuietOK, QuietFrame
  <2> QED BY <2>3, <2>4 DEF TranscriptIInv
<1>3. CASE ~(folded < coldTip)
  <2>1. phase' = "live" /\ folded' = folded /\ view' = view /\ durable' = durable
    BY <1>3 DEF FoldCold
  <2>2. folded = Len(journal)
    BY <1>1, <1>3 DEF TranscriptIInv, JournalOK, IsSeq
  <2>3. LinkOK' /\ QuietOK'
    BY <1>1, <2>1, <2>2 DEF TranscriptIInv, LinkOK, QuietOK, QuietFrame
  <2> QED BY <1>1, <2>1, <2>3 DEF TranscriptIInv
<1> QED BY <1>2, <1>3

\* The queue is folded behind it.
LEMMA FoldLiveKeeps ==
    ASSUME TranscriptIInv, FoldLive
    PROVE  TranscriptIInv'
<1>1. /\ phase = "live" /\ phase' = "live" /\ stream # <<>> /\ stream' = Tail(stream)
      /\ journal' = journal /\ work' = work /\ quiet' = quiet /\ coldTip' = coldTip
  BY DEF FoldLive, sessionVars
<1>2. /\ IsSeq(stream') /\ Len(stream') = Len(stream) - 1 /\ Len(stream) \in Nat \ {0}
      /\ DOMAIN stream' = 1..(Len(stream) - 1) /\ Head(stream) = stream[1] /\ 1 \in DOMAIN stream
      /\ \A i \in DOMAIN stream' : stream'[i] = stream[i + 1] /\ i + 1 \in DOMAIN stream
  BY <1>1, SeqTail DEF TranscriptIInv, LinkOK
<1>3. PICK f : f = Head(stream)
  OBVIOUS
<1>4. IsFrame(f, journal) /\ f = stream[1]
  BY <1>2, <1>3 DEF TranscriptIInv, LinkOK
<1>5. \A i \in DOMAIN stream' : IsFrame(stream'[i], journal)
  BY <1>2 DEF TranscriptIInv, LinkOK
<1>6. folded \in Nat /\ folded <= Len(journal) /\ Len(journal) \in Nat
  BY <1>1 DEF TranscriptIInv, LinkOK, JournalOK, IsSeq
<1>7. quiet => /\ stream' = <<>>
               /\ f.kind = "enduring" => folded + 1 = Len(journal) /\ f.step = Len(journal)
               /\ f.kind # "enduring" => /\ folded = Len(journal) /\ work[f.loop].running
                                         /\ f.kind = "delta" => f.step = work[f.loop].step
  <2>1. ASSUME quiet PROVE Len(stream) = 1
    BY <1>1, <2>1 DEF TranscriptIInv, QuietOK
  <2>2. PICK t : t = stream'
    OBVIOUS
  <2>3. PICK S : t \in Seq(S)
    BY <1>2, <2>2 DEF IsSeq
  <2>4. Len(t) = 0 => t = <<>>
    BY <2>3
  <2>5. ASSUME quiet PROVE stream' = <<>>
    BY <1>2, <2>1, <2>2, <2>4, <2>5
  <2>6. ASSUME quiet PROVE QuietFrame(stream[1])
    BY <1>1, <2>6, Zenon DEF TranscriptIInv, QuietOK
  <2>7. ASSUME quiet PROVE QuietFrame(f)
    BY <1>4, <2>6, <2>7
  <2>8. /\ quiet /\ f.kind = "enduring" => folded + 1 = Len(journal) /\ f.step = Len(journal)
        /\ quiet /\ f.kind # "enduring" => /\ folded = Len(journal) /\ work[f.loop].running
                                           /\ f.kind = "delta" => f.step = work[f.loop].step
    BY <2>7, Zenon DEF QuietFrame
  <2> QED BY <2>5, <2>7, <2>8
<1>8. CASE f.kind # "enduring"
  <2>1. view' = FoldEphemeral(view, f) /\ folded' = folded /\ durable' = durable
    BY <1>3, <1>8 DEF FoldLive
  <2>2. f.kind \in {"delta", "started", "completed"} /\ f.loop \in Loops
    BY <1>4, <1>8 DEF IsFrame
  <2>3. /\ JournalOK(journal) /\ WorkOK(journal, work) /\ ViewOK(view, folded, journal)
        /\ Agree(view, durable, journal)
    BY DEF TranscriptIInv
  <2>4. /\ ViewOK(view', folded, journal) /\ Agree(view', durable, journal)
        /\ folded = Len(journal) /\ work[f.loop].running /\ (f.kind = "delta" => f.step = work[f.loop].step)
             /\ TextOK(view, folded, journal, work) => TextOK(view', folded, journal, work)
    BY <1>6, <2>1, <2>2, <2>3, OneFrames
  <2>5. quiet => TextOK(view', folded, journal, work)
    BY <1>7, <1>8, <2>4 DEF TranscriptIInv
  <2>6. LinkOK' /\ QuietOK'
    BY <1>1, <1>2, <1>5, <1>6, <1>7, <1>8, <2>1 DEF TranscriptIInv, LinkOK, QuietOK, QuietFrame
  <2> QED BY <1>1, <2>1, <2>3, <2>4, <2>5, <2>6 DEF TranscriptIInv
<1>9. CASE f.kind = "enduring" /\ f.step <= folded
  <2>1. view' = view /\ folded' = folded /\ durable' = durable
    BY <1>3, <1>9 DEF FoldLive
  <2>2. ~quiet
    BY <1>6, <1>7, <1>9
  <2>3. LinkOK' /\ QuietOK'
    BY <1>1, <1>2, <1>5, <1>6, <2>1, <2>2 DEF LinkOK, QuietOK, QuietFrame
  <2> QED BY <1>1, <2>1, <2>3 DEF TranscriptIInv
<1>10. CASE f.kind = "enduring" /\ ~(f.step <= folded)
  <2>1. FoldNext
    BY <1>3, <1>10 DEF FoldLive
  <2>2. f.step \in Nat /\ f.step <= Len(journal)
    BY <1>4, <1>10 DEF IsFrame
  <2>3. folded + 1 \in DOMAIN journal
    BY <1>6, <1>10, <2>2 DEF TranscriptIInv, JournalOK, IsSeq
  <2>4. /\ folded' = folded + 1 /\ folded' \in Nat /\ folded' <= Len(journal)
        /\ JournalOK(journal') /\ WorkOK(journal', work')
        /\ ViewOK(view', folded', journal') /\ ViewOK(durable', folded', journal')
        /\ Agree(view', durable', journal')
        /\ quiet' => TextOK(view', folded', journal', work')
    BY <1>1, <2>1, <2>3, FoldNextKeeps
  <2>5. LinkOK' /\ QuietOK'
    BY <1>1, <1>2, <1>5, <1>6, <1>7, <1>10, <2>4 DEF TranscriptIInv, LinkOK, QuietOK, QuietFrame
  <2> QED BY <2>4, <2>5 DEF TranscriptIInv
<1> QED BY <1>8, <1>9, <1>10

\* The composer submits.
LEMMA AddPendingRowKeeps ==
    ASSUME TranscriptIInv, AddPendingRow
    PROVE  TranscriptIInv'
<1>1. PICK c : view' = [AppendRow(view, [NoRow EXCEPT !.kind = "user", !.live = TRUE])
                          EXCEPT !.pending = Set(view.pending, c, view.next)]
  BY DEF AddPendingRow
<1>2. /\ journal' = journal /\ work' = work /\ quiet' = quiet /\ phase' = phase /\ coldTip' = coldTip
      /\ stream' = stream /\ folded' = folded /\ durable' = durable
  BY DEF AddPendingRow, sessionVars, linkVars
<1>3. JournalOK(journal) /\ ViewOK(view, folded, journal) /\ Agree(view, durable, journal)
  BY DEF TranscriptIInv
<1>4. PICK w : w = view'
  OBVIOUS
<1>5. SubmitKept(view, w, durable, folded, journal, work)
  BY <1>1, <1>3, <1>4, OneSubmits
<1>6. /\ ViewOK(w, folded, journal) /\ Agree(w, durable, journal)
      /\ TextOK(view, folded, journal, work) => TextOK(w, folded, journal, work)
      /\ \A o \in DOMAIN w.rows : w.rows[o].kind = "user" \/ (o \in DOMAIN view.rows /\ w.rows[o] = view.rows[o])
  BY <1>5, Zenon DEF SubmitKept
<1>7. LinkOK' /\ QuietOK'
  BY <1>2, <1>4, <1>6 DEF TranscriptIInv, LinkOK, QuietOK, QuietFrame
<1> QED BY <1>2, <1>4, <1>6, <1>7 DEF TranscriptIInv

\* It holds at the start,
LEMMA TranscriptStarts ==
    ASSUME TranscriptInit
    PROVE  TranscriptIInv
<1>1. /\ journal = <<>> /\ stream = <<>> /\ phase = "off" /\ coldTip = 0 /\ folded \in Firsts
      /\ work = [l \in Loops |-> [started |-> FALSE, running |-> FALSE, step |-> 0]]
      /\ view = emptySessionView /\ durable = emptySessionView
  BY DEF TranscriptInit
<1>2. JournalOK(journal) /\ DOMAIN journal = {}
  BY <1>1 DEF JournalOK, IsSeq, StepsOf
<1>3. WorkOK(journal, work)
  <2>1. PICK no : no = FALSE
    OBVIOUS
  <2>2. work = [l \in Loops |-> [started |-> no, running |-> no, step |-> 0]]
    BY <1>1, <2>1
  <2>3. \A l \in Loops : work[l].started = no /\ work[l].running = no /\ work[l].step = 0
    BY <2>2
  <2>4. work = [l \in Loops |-> [started |-> work[l].started, running |-> work[l].running, step |-> work[l].step]]
    BY <2>2, <2>3
  <2> QED BY <1>2, <2>3, <2>4 DEF WorkOK, StepsOf
<1>4. PICK v : v = emptySessionView
  OBVIOUS
<1>5. v.rows = <<>> /\ v.next = 0 /\ v.loops = <<>> /\ v.pending = <<>> /\ IsView(v)
  BY <1>4 DEF emptySessionView, IsView
<1>6. DOMAIN v.rows = {} /\ DOMAIN v.loops = {} /\ DOMAIN v.pending = {} /\ Observed(v) = {}
  BY <1>5 DEF Observed
<1>7. ViewOK(v, folded, journal) /\ TextOK(v, folded, journal, work)
  BY <1>5, <1>6 DEF ViewOK, LoopsOK, InOrder, PendingOK, TextOK
<1>8. Agree(v, v, journal)
  BY <1>6 DEF Agree
<1>9. folded \in Nat
  BY <1>1, TranscriptAssumption
<1>10. LinkOK /\ QuietOK
  BY <1>1, <1>4, <1>6, <1>9 DEF LinkOK, QuietOK, QuietFrame, IsSeq
<1> QED BY <1>1, <1>2, <1>3, <1>4, <1>7, <1>8, <1>10 DEF TranscriptIInv

\* and every step keeps it.
LEMMA TranscriptKeeps ==
    ASSUME TranscriptIInv, [TranscriptNext]_transcriptVars
    PROVE  TranscriptIInv'
<1>1. CASE Session
  BY <1>1, StartLoopKeeps, RefuseKeeps, MoveGateKeeps, StartTurnKeeps, CompleteStepKeeps, EndTurnKeeps,
     StreamKeeps DEF Session
<1>2. CASE Attach \/ ColdRead \/ Drop
  BY <1>2, AttachKeeps
<1>3. CASE FoldCold
  BY <1>3, FoldColdKeeps
<1>4. CASE FoldLive
  BY <1>4, FoldLiveKeeps
<1>5. CASE AddPendingRow
  BY <1>5, AddPendingRowKeeps
<1>6. CASE UNCHANGED transcriptVars
  BY <1>6 DEF transcriptVars, sessionVars, linkVars, TranscriptIInv, LinkOK, QuietOK, QuietFrame
<1> QED BY <1>1, <1>2, <1>3, <1>4, <1>5, <1>6 DEF TranscriptNext

\* Both clients show what the journal they folded says, whatever was streamed
\* between (fold.ts: foldEnduring, foldEphemeral).
THEOREM TranscriptInvariant == TranscriptSpec => []TranscriptIInv
<1>1. TranscriptInit => TranscriptIInv
  BY TranscriptStarts
<1>2. TranscriptIInv /\ [TranscriptNext]_transcriptVars => TranscriptIInv'
  BY TranscriptKeeps
<1> QED BY <1>1, <1>2, PTL DEF TranscriptSpec

\* The tree is known: an orphan is a row of a loop whose record was not seen, and
\* a tool call names the loop it spawned and is the one row that does.
THEOREM TreeIsKnown == TranscriptSpec => []TreeKnown
<1>1. TranscriptIInv => TreeKnown
  BY TreeOfView DEF TranscriptIInv
<1> QED BY <1>1, TranscriptInvariant, PTL

\* However the frames came, the journal is shown as to a client without them.
THEOREM ReplayShowsTheSame == TranscriptSpec => []ReplayAgrees
<1>1. ASSUME TranscriptIInv PROVE ReplayAgrees
  <2>1. /\ JournalOK(journal) /\ ViewOK(view, folded, journal) /\ ViewOK(durable, folded, journal)
        /\ Agree(view, durable, journal)
    BY <1>1 DEF TranscriptIInv
  <2>2. PICK kept : kept = Ordinals(view, Durable)
    OBVIOUS
  <2>3. \A o : o \in kept <=> o \in DOMAIN view.rows /\ DurableIn(view.rows[o], journal)
    BY <2>2 DEF Ordinals, Durable, DurableIn
  <2>4. {view.rows[o] : o \in kept} = ShownRows(view, journal)
    BY <2>3 DEF ShownRows
  <2>5. {durable.rows[o] : o \in DOMAIN durable.rows} = ShownRows(durable, journal)
    BY <2>1 DEF ShownRows, Agree
  <2>6. {view.rows[o] : o \in kept} = {durable.rows[o] : o \in DOMAIN durable.rows}
    BY <2>1, <2>4, <2>5 DEF Agree
  <2>7. \A o, p \in kept, x, y \in DOMAIN durable.rows :
         view.rows[o] = durable.rows[x] /\ view.rows[p] = durable.rows[y] => (o < p <=> x < y)
    BY <2>1, <2>3, ViewAgrees
  <2>8. view.gates = durable.gates /\ view.outcomes = durable.outcomes
    BY <2>1 DEF Agree
  <2>9. {<<l, view.loops[l]>> : l \in Observed(view)} = {<<l, durable.loops[l]>> : l \in Observed(durable)}
    BY <2>1 DEF Agree
  <2> QED BY <2>2, <2>6, <2>7, <2>8, <2>9 DEF ReplayAgrees, Observed
<1> QED BY <1>1, TranscriptInvariant, PTL

\* Where the session was quiet while the page read the journal, no row but the
\* step's own holds what it said.
THEOREM StepsAreToldOnce == TranscriptSpec => []QuietlyToldOnce
<1>1. ASSUME TranscriptIInv, quiet PROVE ToldOnce
  <2> SUFFICES ASSUME NEW i \in DOMAIN journal, journal[i].kind = "StepDone", i <= folded,
                      NEW o \in DOMAIN view.rows, NEW r, r = view.rows[o],
                      r.kind = "assistant", r.loop = journal[i].loop, journal[i].step \in r.text
               PROVE  r.seq = i
    BY DEF ToldOnce
  <2>1. i \in StepsOf(journal, r.loop)
    BY DEF StepsOf
  <2>2. TextOK(view, folded, journal, work)
    BY <1>1 DEF TranscriptIInv
  <2>3. CASE r.live
    <3>1. SaidLive(r.loop, journal[i].step, folded, journal, work)
      BY <2>2, <2>3 DEF TextOK
    <3>2. journal[i].step < journal[i].step /\ journal[i].step \in Nat
      BY <2>1, <3>1 DEF SaidLive
    <3> QED BY <3>2
  <2>4. CASE ~r.live
    <3>1. SaidKept(r.loop, journal[i].step, r.seq, journal, work)
      BY <2>2, <2>4 DEF TextOK
    <3> QED BY <2>1, <3>1 DEF SaidKept
  <2> QED BY <2>3, <2>4
<1>2. TranscriptIInv => QuietlyToldOnce
  BY <1>1 DEF QuietlyToldOnce
<1> QED BY <1>2, TranscriptInvariant, PTL

-----------------------------------------------------------------------------
(* A loop's rows as they are read.                                         *)

\* From v to w nothing committed goes or is rewritten, and what is committed now
\* is of a record above n.
StaysCommitted(r, q) ==
    ~q.live /\ q.seq = r.seq /\ q.loop = r.loop /\ q.kind = r.kind /\ q.text = r.text /\ q.status = r.status
Grows(v, w, n) ==
    /\ \A o \in DOMAIN v.rows : ~v.rows[o].live => o \in DOMAIN w.rows /\ StaysCommitted(v.rows[o], w.rows[o])
    /\ \A p \in DOMAIN w.rows : ~w.rows[p].live =>
         (p \in DOMAIN v.rows /\ ~v.rows[p].live) \/ w.rows[p].seq = n + 1

\* Then its committed part grows at its end.
LEMMA EndGrows ==
    ASSUME NEW J, NEW n \in Nat, NEW v, ViewOK(v, n, J), NEW w, IsView(w), Grows(v, w, n), NEW l
    PROVE  GrowsAtItsEnd(v, w, l)
<1>1. PICK had : had = Committed(v, l)
  OBVIOUS
<1>2. \A o : o \in had <=> o \in DOMAIN v.rows /\ v.rows[o].loop = l /\ ~v.rows[o].live
  BY <1>1 DEF Committed, RowsForLoop, Ordinals
<1>3. \A o : o \in Committed(w, l) <=> o \in DOMAIN w.rows /\ w.rows[o].loop = l /\ ~w.rows[o].live
  BY DEF Committed, RowsForLoop, Ordinals
<1>4. \A o \in had : /\ o \in DOMAIN w.rows /\ StaysCommitted(v.rows[o], w.rows[o])
                     /\ v.rows[o].seq <= n /\ v.rows[o].seq \in Nat
  BY <1>2 DEF Grows, ViewOK, RowOK, IsView, IsRow
<1>5. had \subseteq Committed(w, l) /\ \A o \in had : Told(w.rows[o]) = Told(v.rows[o])
  BY <1>2, <1>3, <1>4 DEF StaysCommitted, Told
<1>6. ASSUME NEW o \in had, NEW p \in had PROVE ReadFirst(w, o, p) <=> ReadFirst(v, o, p)
  <2>1. ~v.rows[o].live /\ ~v.rows[p].live /\ ~w.rows[o].live /\ ~w.rows[p].live
    BY <1>2, <1>4 DEF StaysCommitted
  <2>2. w.rows[o].seq = v.rows[o].seq /\ w.rows[p].seq = v.rows[p].seq
    BY <1>4 DEF StaysCommitted
  <2>3. \A u : u \in {v, w} =>
          (ReadFirst(u, o, p) <=> u.rows[o].seq < u.rows[p].seq \/ (u.rows[o].seq = u.rows[p].seq /\ o < p))
    BY <2>1 DEF ReadFirst
  <2> QED BY <2>2, <2>3
<1>7. ASSUME NEW o \in had, NEW p \in Committed(w, l) \ had PROVE ReadFirst(w, o, p)
  <2>1. w.rows[p].seq = n + 1
    <3>1. p \in DOMAIN w.rows /\ w.rows[p].loop = l /\ ~w.rows[p].live /\ p \notin had
      BY <1>3, <1>7
    <3>2. ASSUME p \in DOMAIN v.rows, ~v.rows[p].live PROVE FALSE
      <4>1. w.rows[p].loop = v.rows[p].loop
        BY <3>2 DEF Grows, StaysCommitted
      <4> QED BY <1>2, <3>1, <3>2, <4>1
    <3> QED BY <3>1, <3>2 DEF Grows
  <2>2. w.rows[o].seq <= n /\ w.rows[o].seq \in Nat
    BY <1>4 DEF StaysCommitted
  <2>3. ~w.rows[o].live /\ ~w.rows[p].live /\ w.rows[o].seq < w.rows[p].seq
    BY <1>3, <1>4, <1>7, <2>1, <2>2 DEF StaysCommitted
  <2> QED BY <2>3 DEF ReadFirst
<1> QED BY <1>1, <1>5, <1>6, <1>7 DEF GrowsAtItsEnd

\* The next record commits at the end,
LEMMA FoldGrows ==
    ASSUME NEW v, IsView(v), NEW e, IsRecord(e), NEW n \in Nat, NEW w, Folded(v, w, e, n + 1)
    PROVE  Grows(v, w, n)
<1>1. PICK k : k = n + 1
  OBVIOUS
<1>2. k \in Nat \ {0} /\ NewRows(v, w, e, k) /\ OldRows(v, w, e, k)
  BY <1>1 DEF Folded
<1>3. ASSUME NEW o \in DOMAIN v.rows, ~v.rows[o].live
      PROVE  o \in DOMAIN w.rows /\ StaysCommitted(v.rows[o], w.rows[o])
  <2>1. PICK r, q : r = v.rows[o] /\ q = w.rows[o]
    OBVIOUS
  <2>2. o \in DOMAIN w.rows /\ IsRow(r) /\ ~r.live
    BY <1>2, <1>3, <2>1 DEF OldRows, IsView
  <2>3. q = r \/ q = Relinked(r, e)
    BY <1>2, <2>1, <2>2 DEF OldRows, Kept, IsLiveSegmentRow
  <2>4. StaysCommitted(r, Relinked(r, e)) /\ StaysCommitted(r, r)
    BY <2>2 DEF IsRow, Relinked, StaysCommitted
  <2> QED BY <2>1, <2>2, <2>3, <2>4
<1>4. ASSUME NEW p \in DOMAIN w.rows, ~w.rows[p].live, ~(p \in DOMAIN v.rows /\ ~v.rows[p].live)
      PROVE  w.rows[p].seq = k
  <2>1. CASE p \notin DOMAIN v.rows
    <3>1. PICK r : r = w.rows[p]
      OBVIOUS
    <3>2. ShowsRecord(r, v, e, k)
      BY <1>2, <2>1, <3>1, FreshRow DEF NewRows
    <3> QED BY <3>1, <3>2 DEF ShowsRecord
  <2>2. CASE p \in DOMAIN v.rows
    <3>1. PICK r, q : r = v.rows[p] /\ q = w.rows[p]
      OBVIOUS
    <3>2. r.live /\ ~q.live /\ IsRow(r) /\ Kept(r, q, e, k)
      BY <1>2, <1>4, <2>2, <3>1 DEF OldRows, IsView
    <3>3. Relinked(r, e).live = r.live
      BY <3>2 DEF IsRow, Relinked
    <3>4. Ended(r, q, k)
      BY <3>2, <3>3 DEF Kept
    <3> QED BY <3>1, <3>2, <3>4 DEF Ended, IsRow
  <2> QED BY <2>1, <2>2
<1> QED BY <1>1, <1>3, <1>4 DEF Grows

\* and a frame, or a submit, commits nothing.
LEMMA FrameGrowsNothing ==
    ASSUME NEW v, IsView(v), NEW f, NEW n, NEW w, Framed(v, w, f)
    PROVE  Grows(v, w, n)
<1>1. \A o \in DOMAIN v.rows : w.rows[o] = v.rows[o] \/ (v.rows[o].live /\ Grown(v.rows[o], w.rows[o]))
  BY DEF Framed
<1>2. \A r, q : Grown(r, q) => (q.live <=> r.live)
  <2> SUFFICES ASSUME NEW r, NEW q, Grown(r, q) PROVE q.live = r.live
    OBVIOUS
  <2> QED BY DEF Grown
<1>3. \A p \in DOMAIN w.rows \ DOMAIN v.rows : w.rows[p].live
  BY DEF Framed, IsFrameRow
<1>4. DOMAIN v.rows \subseteq DOMAIN w.rows
  BY DEF Framed
<1> QED BY <1>1, <1>2, <1>3, <1>4 DEF Grows, StaysCommitted

LEMMA SubmitGrowsNothing ==
    ASSUME NEW v, NEW c, NEW n, NEW w, Submitted(v, w, c)
    PROVE  Grows(v, w, n)
BY DEF Submitted, Grows, StaysCommitted

\* Naming a loop does not either.
LEMMA EnsuredGrows ==
    ASSUME NEW u, NEW v, NEW l, Ensured(u, v, l), NEW w, NEW n, Grows(v, w, n)
    PROVE  Grows(u, w, n)
BY DEF Ensured, Grows

\* What a step does to what is shown.
LEMMA ViewGrows ==
    ASSUME TranscriptIInv, [TranscriptNext]_transcriptVars
    PROVE  Grows(view, view', folded) /\ IsView(view')
<1>1. /\ JournalOK(journal) /\ ViewOK(view, folded, journal) /\ folded \in Nat
      /\ IsView(view) /\ PendingLive(view)
  BY DEF TranscriptIInv, LinkOK, ViewOK, PendingOK, PendingLive
<1>2. CASE view' = view
  BY <1>1, <1>2 DEF Grows, StaysCommitted
<1>3. CASE folded + 1 \in DOMAIN journal /\ FoldNext
  <2>1. PICK e, k, w : e = journal[folded + 1] /\ k = folded + 1 /\ w = view'
    OBVIOUS
  <2>2. IsRecord(e) /\ k \in Nat \ {0} /\ w = FoldEnduring(view, e, k)
    BY <1>1, <1>3, <2>1 DEF JournalOK, FoldNext
  <2>3. PICK v : Ensured(view, v, e.loop) /\ Folded(v, w, e, k)
    BY <1>1, <2>2, FoldedEnduring
  <2>4. IsView(v) /\ IsView(w) /\ Grows(v, w, folded)
    BY <1>1, <2>1, <2>2, <2>3, FoldGrows DEF Ensured, Folded
  <2>5. Grows(view, w, folded)
    BY <2>3, <2>4, EnsuredGrows
  <2> QED BY <2>1, <2>4, <2>5
<1>4. ASSUME NEW f, f.kind \in FrameKinds, f.loop \in Loops, view' = FoldEphemeral(view, f)
      PROVE  Grows(view, view', folded) /\ IsView(view')
  <2>1. PICK w : w = view'
    OBVIOUS
  <2>2. PICK v : Ensured(view, v, f.loop) /\ Framed(v, w, f)
    BY <1>1, <1>4, <2>1, FramedEphemeral
  <2>3. IsView(v) /\ IsView(w) /\ Grows(v, w, folded)
    BY <2>2, FrameGrowsNothing DEF Ensured, Framed
  <2>4. Grows(view, w, folded)
    BY <2>2, <2>3, EnsuredGrows
  <2> QED BY <2>1, <2>3, <2>4
<1>5. CASE Session \/ Attach \/ ColdRead \/ Drop \/ UNCHANGED transcriptVars
  <2>1. view' = view
    BY <1>5 DEF Session, StartLoop, Refuse, MoveGate, StartTurn, CompleteStep, EndTurn, Stream, RunTool,
                Write, Emit, Attach, ColdRead, Drop, transcriptVars
  <2> QED BY <1>2, <2>1
<1>6. CASE FoldCold
  <2>1. CASE folded < coldTip
    <3>1. coldTip = Len(journal) /\ DOMAIN journal = 1..Len(journal) /\ Len(journal) \in Nat
      BY <1>6 DEF FoldCold, TranscriptIInv, LinkOK, JournalOK, IsSeq
    <3> QED BY <1>1, <1>3, <1>6, <2>1, <3>1 DEF FoldCold
  <2>2. CASE ~(folded < coldTip)
    BY <1>2, <1>6, <2>2 DEF FoldCold
  <2> QED BY <2>1, <2>2
<1>7. CASE FoldLive
  <2>1. PICK f : f = Head(stream)
    OBVIOUS
  <2>2. stream # <<>> /\ IsSeq(stream) /\ \A i \in DOMAIN stream : IsFrame(stream[i], journal)
    BY <1>7 DEF FoldLive, TranscriptIInv, LinkOK
  <2>3. IsFrame(f, journal)
    BY <2>1, <2>2, SeqTail
  <2>4. CASE f.kind # "enduring"
    <3>1. f.kind \in FrameKinds /\ f.loop \in Loops
      BY <2>3, <2>4 DEF IsFrame, FrameKinds
    <3>2. view' = FoldEphemeral(view, f)
      BY <1>7, <2>1, <2>4 DEF FoldLive
    <3> QED BY <1>4, <3>1, <3>2
  <2>5. CASE f.kind = "enduring" /\ f.step <= folded
    BY <1>2, <1>7, <2>1, <2>5 DEF FoldLive
  <2>6. CASE f.kind = "enduring" /\ ~(f.step <= folded)
    <3>1. f.step \in Nat /\ f.step <= Len(journal) /\ DOMAIN journal = 1..Len(journal) /\ Len(journal) \in Nat
      BY <1>1, <2>3, <2>6 DEF IsFrame, JournalOK, IsSeq
    <3>2. folded + 1 \in DOMAIN journal
      BY <1>1, <2>6, <3>1
    <3>3. FoldNext
      BY <1>7, <2>1, <2>6 DEF FoldLive
    <3> QED BY <1>3, <3>2, <3>3
  <2> QED BY <2>4, <2>5, <2>6
<1>8. CASE AddPendingRow
  <2>1. PICK c, w : w = view' /\ w = [AppendRow(view, [NoRow EXCEPT !.kind = "user", !.live = TRUE])
                                        EXCEPT !.pending = Set(view.pending, c, view.next)]
    BY <1>8 DEF AddPendingRow
  <2>2. Submitted(view, w, c)
    BY <1>1, <2>1, SubmittedRow
  <2>3. Grows(view, w, folded) /\ IsView(w)
    BY <2>2, SubmitGrowsNothing DEF Submitted
  <2> QED BY <2>1, <2>3
<1> QED BY <1>5, <1>6, <1>7, <1>8 DEF TranscriptNext

\* What is committed of a loop is read as it was, and what is committed later
\* comes after it (rows.ts: rowsForLoop).
THEOREM PartitionsGrow == TranscriptSpec => PartitionGrows
<1>1. ASSUME TranscriptIInv, [TranscriptNext]_transcriptVars PROVE \A l \in Loops : GrowsAtItsEnd(view, view', l)
  <2>1. PICK w : w = view'
    OBVIOUS
  <2>2. Grows(view, w, folded) /\ IsView(w)
    BY <1>1, <2>1, ViewGrows
  <2>3. folded \in Nat /\ ViewOK(view, folded, journal)
    BY <1>1 DEF TranscriptIInv, LinkOK
  <2>4. \A l : GrowsAtItsEnd(view, w, l)
    BY <2>2, <2>3, EndGrows
  <2> QED BY <2>1, <2>4
<1>2. TranscriptIInv /\ [TranscriptNext]_transcriptVars
        => [\A l \in Loops : GrowsAtItsEnd(view, view', l)]_transcriptVars
  BY <1>1
<1> QED BY <1>2, TranscriptInvariant, PTL DEF PartitionGrows, TranscriptSpec
=============================================================================
