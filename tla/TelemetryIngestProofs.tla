----------------------- MODULE TelemetryIngestProofs ------------------------
(***************************************************************************)
(* Proofs about TelemetryIngest, for any producers, batches, sources and   *)
(* number of tries.                                                        *)
(*                                                                         *)
(* A request passes the readings of its batch in order.  Each one it has   *)
(* passed is stored, or it has inserted it itself; and no two transactions *)
(* have inserted the same identity.  So when a request has passed all of   *)
(* them its own rows are just those the table lacked, and when it commits, *)
(* no other try of its batch has anything left to add.                     *)
(***************************************************************************)
EXTENDS TelemetryIngest, FiniteSetTheorems, WellFoundedInduction, TLAPS

-----------------------------------------------------------------------------
(* The inductive invariant                                                 *)

(* Only a request that is inserting has rows, and none of those has an     *)
(* answer; a try that was not sent has done nothing.                       *)
PhasesFit ==
    \A q \in Requests :
        /\ q[2] > tries[q[1]] => phase[q] = "unsent"
        /\ phase[q] # "inserting" => todo[q] = {} /\ pending[q] = {}
        /\ phase[q] = "inserting" => Valid(q) # {}
        /\ phase[q] # "stored" => accepted[q] = Unanswered

(* What a request has passed comes before what it has not reached, and is  *)
(* stored, or about to be by its own transaction.                          *)
PassedInOrder ==
    \A q \in Requests : phase[q] = "inserting" =>
        \A j \in Valid(q) \ todo[q] :
            /\ \A k \in todo[q] : j < k
            /\ Identity(Row(q, j)) \in IdentitiesOf(Stored(q))

FirstOfItsIdentity(q, j) ==
    \A i \in Valid(q) : i < j => Identity(Row(q, i)) # Identity(Row(q, j))

(* A request has inserted what it passed, was not stored and came first.   *)
PendingIsNew ==
    \A q \in Requests : phase[q] = "inserting" =>
        \A x : x \in pending[q] <=>
            \E j \in Valid(q) \ todo[q] :
                /\ x = Row(q, j)
                /\ Identity(x) \notin IdentitiesOf(rows)
                /\ FirstOfItsIdentity(q, j)

Labelled(q) == {x \in rows : x.batch = q}
IsWhole(q) == IdentitiesOf(ValidRows(q)) \subseteq IdentitiesOf(rows)

(* A request that has stored anything, or said so, has stored everything.  *)
CommitsAreWhole ==
    \A q \in Requests :
        /\ phase[q] = "stored" => IsWhole(q)
        /\ Labelled(q) # {} => IsWhole(q)
        /\ accepted[q] \in {0, Unanswered} \/ Labelled(q) # {}

(* Rows of one try only are there of every batch.                          *)
OneLabel ==
    \A q, r \in Requests : q # r /\ q[1] = r[1] => Labelled(q) = {} \/ Labelled(r) = {}

(* A producer heard of success only from the try it was waiting for.       *)
OutcomesFit ==
    \A p \in Producers :
        /\ outcome[p] # "unsubmitted" => tries[p] > 0
        /\ outcome[p] = "created" => phase[Current(p)] = "stored"

IInv == /\ TypeOK
        /\ StoredOnce
        /\ PhasesFit
        /\ PassedInOrder
        /\ PendingIsNew
        /\ CommitsAreWhole
        /\ OneLabel
        /\ OutcomesFit
-----------------------------------------------------------------------------
(* Rules                                                                   *)

(* The tries of one producer send the same readings.                       *)
LEMMA SameBatch ==
  ASSUME NEW q, NEW r, q[1] = r[1]
  PROVE  /\ Valid(q) = Valid(r)
         /\ \A k : Identity(Row(q, k)) = Identity(Row(r, k))
         /\ IdentitiesOf(ValidRows(q)) = IdentitiesOf(ValidRows(r))
<1>1. Valid(q) = Valid(r)
  BY DEF Valid
<1>2. \A k : Identity(Row(q, k)) = Identity(Row(r, k))
  BY DEF Identity, Row
<1>3. QED
  BY <1>1, <1>2 DEF IdentitiesOf, ValidRows

LEMMA RowIsLabelled == \A q, k : Row(q, k).batch = q
BY DEF Row

(* A batch has finitely many positions, which are numbers.                 *)
LEMMA PositionsAreFinite ==
  ASSUME NEW q \in Requests
  PROVE  Valid(q) \subseteq Nat /\ IsFiniteSet(Valid(q))
<1>1. Batch[q[1]] \in Seq(Reports)
  BY IngestAssumption DEF Requests
<1>2. /\ DOMAIN Batch[q[1]] = 1 .. Len(Batch[q[1]])
      /\ Len(Batch[q[1]]) \in Nat
  BY <1>1
<1>3. IsFiniteSet(1 .. Len(Batch[q[1]]))
  BY <1>2, FS_Interval
<1>4. Valid(q) \subseteq 1 .. Len(Batch[q[1]])
  BY <1>2 DEF Valid
<1>5. QED
  BY <1>2, <1>3, <1>4, FS_Subset

LEMMA RowsAreFinite ==
  ASSUME NEW q \in Requests, NEW S \in SUBSET ValidRows(q)
  PROVE  IsFiniteSet(S) /\ Cardinality(S) \in Nat
<1> DEFINE f == [k \in Valid(q) |-> Row(q, k)]
<1>1. f \in Surjection(Valid(q), ValidRows(q))
  BY DEF ValidRows, Surjection
<1>2. IsFiniteSet(ValidRows(q))
  BY <1>1, PositionsAreFinite, FS_Surjection
<1>3. QED
  BY <1>2, FS_Subset, FS_CardinalityType

(* A set of numbers that is not empty has a least one.                     *)
LEMMA HasLeast ==
  ASSUME NEW S \in SUBSET Nat, S # {}
  PROVE  \E m \in S : \A n \in S : m <= n
<1> DEFINE R == {ss \in Nat \X Nat : ss[1] < ss[2]}
<1>1. IsWellFoundedOn(R, Nat)
  BY NatLessThanWellFounded DEF OpToRel
<1>2. PICK m \in S : \A n \in S : ~(<<n, m>> \in R)
  BY <1>1, WFMin
<1>3. ASSUME NEW n \in S
      PROVE  m <= n
  <2>1. m \in Nat /\ n \in Nat /\ <<n, m>> \notin R
    BY <1>2
  <2>2. ~(n < m)
    BY <2>1
  <2>3. QED
    BY <2>1, <2>2
<1>4. QED
  BY <1>3

(* A batch adds one row of each identity the table lacks and leaves none   *)
(* of its own out, so the same batch sent again adds nothing               *)
(* (create_many, on_conflict_do_nothing).                                  *)
THEOREM SameBatchAddsNothing ==
  ASSUME NEW q \in Requests, NEW r \in Requests, q[1] = r[1], NEW S
  PROVE  /\ IdentitiesOf(S \union NewRows(q, S)) = IdentitiesOf(S) \union IdentitiesOf(ValidRows(q))
         /\ \A x, y \in NewRows(q, S) : Identity(x) = Identity(y) => x = y
         /\ NewRows(r, S \union NewRows(q, S)) = {}
<1>1. ASSUME NEW k \in Valid(q), Identity(Row(q, k)) \notin IdentitiesOf(S)
      PROVE  \E x \in NewRows(q, S) : Identity(x) = Identity(Row(q, k))
  <2> DEFINE Like == {j \in Valid(q) : Identity(Row(q, j)) = Identity(Row(q, k))}
  <2>1. Like \in SUBSET Nat /\ Like # {}
    BY PositionsAreFinite
  <2>2. PICK m \in Like : \A n \in Like : m <= n
    BY <2>1, HasLeast
  <2>3. \A i \in Valid(q) : i < m => Identity(Row(q, i)) # Identity(Row(q, m))
    <3>1. ASSUME NEW i \in Valid(q), Identity(Row(q, i)) = Identity(Row(q, m))
          PROVE  m <= i
      BY <2>2, <3>1
    <3>2. QED
      BY <2>1, <3>1, PositionsAreFinite
  <2>4. Row(q, m) \in NewRows(q, S)
    BY <1>1, <2>2, <2>3 DEF NewRows
  <2>5. QED
    BY <2>2, <2>4
<1>2. \A k \in Valid(q) : Identity(Row(q, k)) \in IdentitiesOf(S \union NewRows(q, S))
  BY <1>1 DEF IdentitiesOf
<1>3. NewRows(q, S) \subseteq ValidRows(q)
  BY DEF NewRows, ValidRows
<1>4. IdentitiesOf(S \union NewRows(q, S)) = IdentitiesOf(S) \union IdentitiesOf(ValidRows(q))
  <2>1. IdentitiesOf(ValidRows(q)) \subseteq IdentitiesOf(S \union NewRows(q, S))
    BY <1>2 DEF IdentitiesOf, ValidRows
  <2>2. IdentitiesOf(S) \subseteq IdentitiesOf(S \union NewRows(q, S))
    BY DEF IdentitiesOf
  <2>3. IdentitiesOf(S \union NewRows(q, S)) \subseteq IdentitiesOf(S) \union IdentitiesOf(ValidRows(q))
    BY <1>3 DEF IdentitiesOf
  <2>4. QED
    BY <2>1, <2>2, <2>3
<1>5. ASSUME NEW x \in NewRows(q, S), NEW y \in NewRows(q, S), Identity(x) = Identity(y)
      PROVE  x = y
  <2>1. PICK i \in Valid(q) : /\ x = Row(q, i)
                             /\ \A k \in Valid(q) : k < i => Identity(Row(q, k)) # Identity(Row(q, i))
    BY DEF NewRows
  <2>2. PICK j \in Valid(q) : /\ y = Row(q, j)
                             /\ \A k \in Valid(q) : k < j => Identity(Row(q, k)) # Identity(Row(q, j))
    BY DEF NewRows
  <2>3. ~(i < j) /\ ~(j < i) /\ i \in Nat /\ j \in Nat
    BY <1>5, <2>1, <2>2, PositionsAreFinite
  <2>4. QED
    BY <2>1, <2>2, <2>3
<1>6. NewRows(r, S \union NewRows(q, S)) = {}
  <2>1. Valid(r) = Valid(q) /\ \A k : Identity(Row(r, k)) = Identity(Row(q, k))
    BY SameBatch
  <2>2. QED
    BY <1>2, <2>1 DEF NewRows
<1>7. QED
  BY <1>4, <1>5, <1>6

-----------------------------------------------------------------------------
(* Steps                                                                   *)

LEMMA InitIInv == Init => IInv
<1> SUFFICES ASSUME Init PROVE IInv
  OBVIOUS
<1>1. TypeOK
  BY IngestAssumption DEF Init, TypeOK, Phases, Outcomes, Unanswered
<1>2. StoredOnce
  BY DEF Init, StoredOnce
<1>3. PhasesFit
  BY DEF Init, PhasesFit
<1>4. PassedInOrder /\ PendingIsNew
  BY DEF Init, PassedInOrder, PendingIsNew
<1>5. CommitsAreWhole /\ OneLabel
  BY DEF Init, CommitsAreWhole, OneLabel, Labelled, Unanswered
<1>6. OutcomesFit
  BY DEF Init, OutcomesFit
<1>7. QED
  BY <1>1, <1>2, <1>3, <1>4, <1>5, <1>6 DEF IInv

(* What the tables and the open transactions hold is right as long as they *)
(* stay as they are.                                                       *)
LEMMA TablesUntouched ==
  ASSUME IInv, UNCHANGED <<rows, pending, accepted, todo>>,
         \A q \in Requests :
            /\ phase'[q] = "stored" <=> phase[q] = "stored"
            /\ phase'[q] = "inserting" <=> phase[q] = "inserting"
  PROVE  StoredOnce' /\ PassedInOrder' /\ PendingIsNew' /\ CommitsAreWhole' /\ OneLabel'
<1>1. StoredOnce'
  BY DEF IInv, StoredOnce
<1>2. PassedInOrder'
  BY DEF IInv, PassedInOrder, Stored
<1>3. PendingIsNew'
  BY DEF IInv, PendingIsNew, FirstOfItsIdentity
<1>4. CommitsAreWhole' /\ OneLabel'
  BY DEF IInv, CommitsAreWhole, OneLabel, IsWhole, Labelled
<1>5. QED
  BY <1>1, <1>2, <1>3, <1>4

(* The producer's steps leave the tables alone.                            *)
LEMMA SubmitIInv ==
  ASSUME IInv, NEW p \in Producers, Submit(p)
  PROVE  IInv'
<1> DEFINE new == <<p, tries[p] + 1>>
<1>1. /\ tries \in [Producers -> 0 .. MaxTries] /\ tries[p] \in Nat /\ MaxTries \in Nat
      /\ tries[p] < MaxTries
      /\ tries' = [tries EXCEPT ![p] = tries[p] + 1]
  BY IngestAssumption DEF IInv, TypeOK, Submit
<1>2. new \in Requests /\ new[1] = p /\ new[2] = tries[p] + 1
  BY <1>1 DEF Requests
<1>3. phase[new] = "unsent"
  BY <1>1, <1>2 DEF IInv, PhasesFit
<1>4. /\ phase' = [phase EXCEPT ![new] = "received"]
      /\ outcome' = [outcome EXCEPT ![p] = "waiting"]
      /\ UNCHANGED <<rows, todo, pending, accepted>>
  BY DEF Submit
<1> HIDE DEF new
<1>5. TypeOK'
  BY <1>1, <1>2, <1>4 DEF IInv, TypeOK, Phases, Outcomes
<1>6. StoredOnce' /\ PassedInOrder' /\ PendingIsNew' /\ CommitsAreWhole' /\ OneLabel'
  BY <1>2, <1>3, <1>4, TablesUntouched DEF IInv, TypeOK
<1>7. PhasesFit'
  <2> SUFFICES ASSUME NEW q \in Requests
               PROVE  /\ q[2] > tries'[q[1]] => phase'[q] = "unsent"
                      /\ phase'[q] # "inserting" => todo'[q] = {} /\ pending'[q] = {}
                      /\ phase'[q] = "inserting" => Valid(q) # {}
                      /\ phase'[q] # "stored" => accepted'[q] = Unanswered
    BY DEF PhasesFit
  <2>1. q[1] \in Producers /\ q[2] \in Nat /\ q = <<q[1], q[2]>> /\ tries[q[1]] \in Nat
    BY <1>1 DEF Requests
  <2>2. CASE q = new
    BY <1>1, <1>2, <1>3, <1>4, <2>1, <2>2 DEF IInv, PhasesFit, TypeOK
  <2>3. CASE q # new
    <3>1. phase'[q] = phase[q] /\ todo'[q] = todo[q] /\ pending'[q] = pending[q]
          /\ accepted'[q] = accepted[q]
      BY <1>4, <2>3 DEF IInv, TypeOK
    <3>2. q[2] > tries'[q[1]] => q[2] > tries[q[1]]
      BY <1>1, <2>1
    <3>3. QED
      BY <3>1, <3>2 DEF IInv, PhasesFit
  <2>4. QED
    BY <2>2, <2>3
<1>8. OutcomesFit'
  <2> SUFFICES ASSUME NEW o \in Producers
               PROVE  /\ outcome'[o] # "unsubmitted" => tries'[o] > 0
                      /\ outcome'[o] = "created" => phase'[<<o, tries'[o]>>] = "stored"
    BY DEF OutcomesFit, Current
  <2>1. CASE o = p
    BY <1>1, <1>4, <2>1 DEF IInv, TypeOK
  <2>2. CASE o # p
    <3>1. tries'[o] = tries[o] /\ outcome'[o] = outcome[o] /\ tries[o] \in 0 .. MaxTries
      BY <1>1, <1>4, <2>2 DEF IInv, TypeOK
    <3>2. <<o, tries[o]>> # new
      BY <1>2, <2>2
    <3>3. outcome[o] # "unsubmitted" => tries[o] > 0 /\ <<o, tries[o]>> \in Requests
      BY <1>1, <3>1 DEF IInv, OutcomesFit, Requests
    <3>4. outcome[o] # "unsubmitted" => phase'[<<o, tries[o]>>] = phase[<<o, tries[o]>>]
      BY <1>4, <3>2, <3>3 DEF IInv, TypeOK
    <3>5. QED
      BY <3>1, <3>3, <3>4 DEF IInv, OutcomesFit, Current
  <2>3. QED
    BY <2>1, <2>2
<1>9. QED
  BY <1>5, <1>6, <1>7, <1>8 DEF IInv

LEMMA OutcomeIInv ==
  ASSUME IInv, NEW p \in Producers, GiveUp(p) \/ Hear(p) \/ TimeOut(p)
  PROVE  IInv'
<1>1. /\ UNCHANGED <<rows, phase, todo, pending, accepted, tries>>
      /\ outcome[p] # "unsubmitted"
      /\ \E o \in Outcomes :
            /\ outcome' = [outcome EXCEPT ![p] = o]
            /\ o # "unsubmitted"
            /\ o = "created" => phase[Current(p)] = "stored"
  BY DEF GiveUp, Hear, TimeOut, Outcomes
<1>2. TypeOK'
  BY <1>1 DEF IInv, TypeOK
<1>3. StoredOnce' /\ PassedInOrder' /\ PendingIsNew' /\ CommitsAreWhole' /\ OneLabel'
  BY <1>1, TablesUntouched
<1>4. PhasesFit'
  BY <1>1 DEF IInv, PhasesFit
<1>5. OutcomesFit'
  BY <1>1 DEF IInv, TypeOK, OutcomesFit, Current
<1>6. QED
  BY <1>2, <1>3, <1>4, <1>5 DEF IInv
(* Of what a step of q leaves alone, everything about other requests holds *)
(* on; and a request that was under way, and is not stored now, is no      *)
(* reason for an outcome.                                                  *)
LEMMA OutcomesKept ==
  ASSUME IInv, NEW q \in Requests, NEW f, phase' = [phase EXCEPT ![q] = f],
         phase[q] \in {"received", "inserting"}, UNCHANGED <<tries, outcome>>
  PROVE  OutcomesFit'
<1>1. \A r \in Requests : phase[r] = "stored" => phase'[r] = "stored"
  BY DEF IInv, TypeOK
<1>2. ASSUME NEW o \in Producers, outcome[o] = "created"
      PROVE  Current(o) \in Requests /\ phase[Current(o)] = "stored"
  BY <1>2 DEF IInv, OutcomesFit, TypeOK, Current, Requests
<1>3. Current(q[1])' = Current(q[1]) /\ \A o : Current(o)' = <<o, tries[o]>>
  BY DEF Current
<1>4. QED
  BY <1>1, <1>2, <1>3 DEF IInv, OutcomesFit, Current

LEMMA FilterIInv ==
  ASSUME IInv, NEW q \in Requests, Filter(q)
  PROVE  IInv'
<1>1. /\ phase[q] = "received" /\ todo[q] = {} /\ pending[q] = {}
      /\ UNCHANGED <<rows, pending, accepted, tries, outcome>>
  BY DEF Filter, IInv, PhasesFit
<1>2. \/ /\ Valid(q) = {} /\ phase' = [phase EXCEPT ![q] = "refused"]
         /\ todo' = todo
      \/ /\ Valid(q) # {} /\ phase' = [phase EXCEPT ![q] = "inserting"]
         /\ todo' = [todo EXCEPT ![q] = Valid(q)]
  BY DEF Filter
<1>3. TypeOK'
  <2>1. Valid(q) \subseteq Nat
    BY PositionsAreFinite
  <2>2. phase' \in [Requests -> Phases] /\ todo' \in [Requests -> SUBSET Nat]
    BY <1>2, <2>1 DEF IInv, TypeOK, Phases
  <2>3. \A r \in Requests : todo'[r] \subseteq Valid(r)
    BY <1>2 DEF IInv, TypeOK
  <2>4. QED
    BY <1>1, <2>2, <2>3 DEF IInv, TypeOK
<1>4. OutcomesFit'
  BY <1>1, <1>2, OutcomesKept
<1>5. PhasesFit'
  BY <1>1, <1>2 DEF IInv, TypeOK, PhasesFit
<1>6. CASE Valid(q) = {}
  <2>1. StoredOnce' /\ PassedInOrder' /\ PendingIsNew' /\ CommitsAreWhole' /\ OneLabel'
    BY <1>1, <1>2, <1>6, TablesUntouched DEF IInv, TypeOK
  <2>2. QED
    BY <1>3, <1>4, <1>5, <2>1 DEF IInv
<1>7. CASE Valid(q) # {}
  <2>1. /\ phase'[q] = "inserting" /\ todo'[q] = Valid(q)
        /\ \A r \in Requests \ {q} : phase'[r] = phase[r] /\ todo'[r] = todo[r]
    BY <1>2, <1>7 DEF IInv, TypeOK
  <2>2. StoredOnce'
    BY <1>1 DEF IInv, StoredOnce
  <2>3. PassedInOrder'
    BY <1>1, <2>1 DEF IInv, PassedInOrder, Stored
  <2>4. PendingIsNew'
    BY <1>1, <2>1 DEF IInv, PendingIsNew, FirstOfItsIdentity
  <2>5. CommitsAreWhole' /\ OneLabel'
    BY <1>1, <2>1 DEF IInv, CommitsAreWhole, OneLabel, Labelled, IsWhole
  <2>6. QED
    BY <1>3, <1>4, <1>5, <2>2, <2>3, <2>4, <2>5 DEF IInv
<1>8. QED
  BY <1>6, <1>7

(* A request that fails takes what it inserted with it.                    *)
LEMMA RollBackIInv ==
  ASSUME IInv, NEW q \in Requests, RollBack(q), phase[q] \in {"received", "inserting"}
  PROVE  IInv'
<1>1. /\ phase' = [phase EXCEPT ![q] = "failed"]
      /\ todo' = [todo EXCEPT ![q] = {}]
      /\ pending' = [pending EXCEPT ![q] = {}]
      /\ UNCHANGED <<rows, accepted, tries, outcome>>
  BY DEF RollBack
<1>2. /\ phase'[q] = "failed" /\ todo'[q] = {} /\ pending'[q] = {}
      /\ \A r \in Requests \ {q} :
            phase'[r] = phase[r] /\ todo'[r] = todo[r] /\ pending'[r] = pending[r]
  BY <1>1 DEF IInv, TypeOK
<1>3. TypeOK'
  BY <1>1, <1>2 DEF IInv, TypeOK, Phases
<1>4. OutcomesFit'
  BY <1>1, OutcomesKept
<1>5. PhasesFit'
  BY <1>1, <1>2 DEF IInv, PhasesFit
<1>6. StoredOnce'
  <2>1. (rows \union UNION {pending[r] : r \in Requests})'
          \subseteq rows \union UNION {pending[r] : r \in Requests}
    BY <1>1, <1>2
  <2>2. QED
    BY <2>1 DEF IInv, StoredOnce
<1>7. PassedInOrder'
  BY <1>1, <1>2 DEF IInv, PassedInOrder, Stored
<1>8. PendingIsNew'
  BY <1>1, <1>2 DEF IInv, PendingIsNew, FirstOfItsIdentity
<1>9. CommitsAreWhole' /\ OneLabel'
  BY <1>1, <1>2 DEF IInv, CommitsAreWhole, OneLabel, Labelled, IsWhole
<1>10. QED
  BY <1>3, <1>4, <1>5, <1>6, <1>7, <1>8, <1>9 DEF IInv

(* Two rows of one identity are one row, wherever they are.                *)
LEMMA Unique ==
  ASSUME StoredOnce, NEW x, NEW y, Identity(x) = Identity(y),
         x \in rows \/ \E q \in Requests : x \in pending[q],
         y \in rows \/ \E q \in Requests : y \in pending[q]
  PROVE  x = y
BY DEF StoredOnce
(* A reading is inserted only if it is nowhere else.                       *)
LEMMA InsertIInv ==
  ASSUME IInv, NEW q \in Requests, Insert(q)
  PROVE  IInv'
<1> PICK k \in todo[q] : Reached(q, k) /\ Place(q, k)
  BY DEF Insert
<1> DEFINE new == Row(q, k)
<1>1. /\ phase[q] = "inserting" /\ k \in Valid(q) /\ k \in Nat /\ Valid(q) \subseteq Nat
      /\ \A j \in todo[q] : j \in Nat /\ k <= j
  BY PositionsAreFinite DEF Reached, IInv, TypeOK
<1>2. /\ UNCHANGED <<rows, phase, accepted, tries, outcome>>
      /\ todo' = [todo EXCEPT ![q] = todo[q] \ {k}]
      /\ pending' = [pending EXCEPT ![q] = IF Identity(new) \in IdentitiesOf(Stored(q))
                                          THEN pending[q] ELSE pending[q] \union {new}]
  BY DEF Place
<1>3. \A r \in Requests \ {q} : todo'[r] = todo[r] /\ pending'[r] = pending[r]
  BY <1>2 DEF IInv, TypeOK
<1>4. /\ todo'[q] = todo[q] \ {k}
      /\ pending'[q] = IF Identity(new) \in IdentitiesOf(Stored(q))
                       THEN pending[q] ELSE pending[q] \union {new}
  BY <1>2 DEF IInv, TypeOK
<1>5. /\ new \in ValidRows(q)
      /\ Identity(new) \notin IdentitiesOf(Stored(q)) =>
            \A r \in Requests \ {q} : Identity(new) \notin IdentitiesOf(pending[r])
  <2>1. new \in ValidRows(q)
    BY <1>1 DEF ValidRows
  <2>2. ASSUME NEW r \in Requests \ {q}, Identity(new) \in IdentitiesOf(pending[r]),
               Identity(new) \notin IdentitiesOf(Stored(q))
        PROVE  FALSE
    <3>1. pending[r] # {}
      BY <2>2 DEF IdentitiesOf
    <3>2. WaitsFor(q, r)
      BY <2>2, <3>1 DEF WaitsFor
    <3>3. QED
      BY <3>2 DEF Insert, Blocked
  <2>3. QED
    BY <2>1, <2>2
<1> HIDE DEF new
<1>6. TypeOK'
  <2>1. todo' \in [Requests -> SUBSET Nat] /\ todo'[q] \subseteq Valid(q)
    BY <1>2, <1>4 DEF IInv, TypeOK
  <2>2. DOMAIN pending' = Requests /\ pending'[q] \subseteq ValidRows(q)
    BY <1>2, <1>4, <1>5 DEF IInv, TypeOK
  <2>3. QED
    BY <1>2, <1>3, <2>1, <2>2 DEF IInv, TypeOK
<1>7. PhasesFit'
  BY <1>1, <1>2, <1>3 DEF IInv, PhasesFit
<1>8. OutcomesFit'
  BY <1>2 DEF IInv, OutcomesFit, Current
<1>9. CommitsAreWhole' /\ OneLabel'
  BY <1>2 DEF IInv, CommitsAreWhole, OneLabel, Labelled, IsWhole
<1>10. StoredOnce'
  <2> DEFINE all == rows \union UNION {pending[r] : r \in Requests}
  <2>1. \A x \in all' : x \in all \/ (x = new /\ Identity(new) \notin IdentitiesOf(Stored(q)))
    BY <1>2, <1>3, <1>4
  <2>2. Identity(new) \notin IdentitiesOf(Stored(q)) => \A x \in all : Identity(x) # Identity(new)
    BY <1>5 DEF IdentitiesOf, Stored
  <2>3. \A x, y \in all : Identity(x) = Identity(y) => x = y
    BY DEF IInv, StoredOnce
  <2> HIDE DEF all
  <2>4. \A x, y \in all' : Identity(x) = Identity(y) => x = y
    BY <2>1, <2>2, <2>3
  <2>5. QED
    BY <2>4 DEF StoredOnce, all
<1>11. \A j \in Valid(q) \ todo[q] : j \in Nat /\ j < k
  BY <1>1 DEF IInv, PassedInOrder
<1>12. PassedInOrder'
  <2> SUFFICES ASSUME NEW r \in Requests, phase[r] = "inserting",
                      NEW j \in Valid(r) \ todo'[r]
               PROVE  /\ \A i \in todo'[r] : j < i
                      /\ Identity(Row(r, j)) \in IdentitiesOf(Stored(r)')
    BY <1>2 DEF PassedInOrder
  <2>1. IdentitiesOf(Stored(r)) \subseteq IdentitiesOf(Stored(r)')
    <3>1. Stored(r) \subseteq Stored(r)'
      BY <1>2, <1>3, <1>4 DEF Stored
    <3>2. QED
      BY <3>1 DEF IdentitiesOf
  <2>2. CASE r = q /\ j = k
    <3>1. \A i \in todo'[q] : k < i
      BY <1>1, <1>4
    <3>2. Identity(new) \in IdentitiesOf(Stored(q)')
      <4>1. CASE Identity(new) \in IdentitiesOf(Stored(q))
        BY <2>1, <2>2, <4>1
      <4>2. CASE Identity(new) \notin IdentitiesOf(Stored(q))
        BY <1>4, <4>2 DEF Stored, IdentitiesOf
      <4>3. QED
        BY <4>1, <4>2
    <3>3. QED
      BY <2>2, <3>1, <3>2 DEF new
  <2>3. CASE ~(r = q /\ j = k)
    <3>1. j \in Valid(r) \ todo[r] /\ todo'[r] \subseteq todo[r]
      BY <1>3, <1>4, <2>3
    <3>2. QED
      BY <2>1, <3>1 DEF IInv, PassedInOrder
  <2>4. QED
    BY <2>2, <2>3
<1>13. PendingIsNew'
  <2>1. ASSUME NEW r \in Requests \ {q}, phase[r] = "inserting", NEW x
        PROVE  x \in pending'[r] <=>
                 \E j \in Valid(r) \ todo'[r] :
                   x = Row(r, j) /\ Identity(x) \notin IdentitiesOf(rows) /\ FirstOfItsIdentity(r, j)
    BY <1>3, <2>1 DEF IInv, PendingIsNew
  <2>3. Identity(new) \notin IdentitiesOf(Stored(q)) <=>
             Identity(new) \notin IdentitiesOf(rows) /\ FirstOfItsIdentity(q, k)
    <3>1. ASSUME Identity(new) \notin IdentitiesOf(Stored(q))
          PROVE  Identity(new) \notin IdentitiesOf(rows) /\ FirstOfItsIdentity(q, k)
      <4>1. Identity(new) \notin IdentitiesOf(rows)
        BY <3>1 DEF Stored, IdentitiesOf
      <4>2. ASSUME NEW i \in Valid(q), i < k
            PROVE  Identity(Row(q, i)) # Identity(new)
        <5>1. i \in Nat /\ ~(k <= i)
          BY <1>1, <4>2
        <5>2. i \in Valid(q) \ todo[q]
          BY <1>1, <5>1
        <5>3. QED
          BY <1>1, <3>1, <5>2 DEF IInv, PassedInOrder
      <4>3. QED
        BY <4>1, <4>2 DEF FirstOfItsIdentity, new
    <3>2. ASSUME Identity(new) \in IdentitiesOf(pending[q])
          PROVE  ~FirstOfItsIdentity(q, k)
      <4>1. PICK y \in pending[q] : Identity(y) = Identity(new)
        BY <3>2 DEF IdentitiesOf
      <4>2. PICK i \in Valid(q) \ todo[q] : y = Row(q, i)
        BY <1>1 DEF IInv, PendingIsNew
      <4>3. QED
        BY <1>11, <4>1, <4>2 DEF FirstOfItsIdentity, new
    <3>3. IdentitiesOf(Stored(q)) = IdentitiesOf(rows) \union IdentitiesOf(pending[q])
      BY DEF Stored, IdentitiesOf
    <3>4. QED
      BY <3>1, <3>2, <3>3
  <2>4. ASSUME NEW x
        PROVE  x \in pending'[q] <=>
                 \E j \in Valid(q) \ todo'[q] :
                   x = Row(q, j) /\ Identity(x) \notin IdentitiesOf(rows) /\ FirstOfItsIdentity(q, j)
    <3>1. x \in pending'[q] <=>
            x \in pending[q] \/ (x = new /\ Identity(new) \notin IdentitiesOf(Stored(q)))
      BY <1>4
    <3>2. x \in pending[q] <=>
            \E j \in Valid(q) \ todo[q] :
              x = Row(q, j) /\ Identity(x) \notin IdentitiesOf(rows) /\ FirstOfItsIdentity(q, j)
      BY <1>1 DEF IInv, PendingIsNew
    <3>3. Valid(q) \ todo'[q] = (Valid(q) \ todo[q]) \union {k}
      BY <1>1, <1>4
    <3>4. QED
      BY <2>3, <3>1, <3>2, <3>3 DEF new
  <2>5. QED
    BY <1>2, <2>1, <2>4 DEF PendingIsNew, FirstOfItsIdentity
<1>14. QED
  BY <1>6, <1>7, <1>8, <1>9, <1>10, <1>12, <1>13 DEF IInv
(* When a request has passed its whole batch, it has inserted just what    *)
(* the table lacked.                                                       *)
LEMMA PendingIsTheRest ==
  ASSUME IInv, NEW q \in Requests, phase[q] = "inserting", todo[q] = {}
  PROVE  /\ pending[q] = NewRows(q, rows)
         /\ IdentitiesOf(ValidRows(q)) \subseteq IdentitiesOf(rows \union pending[q])
<1>1. ASSUME NEW x
      PROVE  x \in pending[q] <=> x \in NewRows(q, rows)
  BY DEF IInv, PendingIsNew, FirstOfItsIdentity, NewRows
<1>2. \A j \in Valid(q) : Identity(Row(q, j)) \in IdentitiesOf(rows \union pending[q])
  BY DEF IInv, PassedInOrder, Stored
<1>3. QED
  BY <1>1, <1>2 DEF IdentitiesOf, ValidRows

LEMMA CommitIInv ==
  ASSUME IInv, NEW q \in Requests, Commit(q)
  PROVE  IInv'
<1>1. /\ phase[q] = "inserting" /\ todo[q] = {}
      /\ rows' = rows \union pending[q]
      /\ pending' = [pending EXCEPT ![q] = {}]
      /\ UNCHANGED <<todo, tries, outcome>>
  BY DEF Commit
<1>2. PICK f \in {"stored", "failed"} :
        /\ phase' = [phase EXCEPT ![q] = f]
        /\ IF f = "stored" THEN accepted' = [accepted EXCEPT ![q] = Cardinality(pending[q])]
                           ELSE accepted' = accepted
  BY DEF Commit
<1>3. /\ phase'[q] = f /\ pending'[q] = {}
      /\ \A r \in Requests \ {q} :
            phase'[r] = phase[r] /\ pending'[r] = pending[r] /\ accepted'[r] = accepted[r]
  BY <1>1, <1>2 DEF IInv, TypeOK
<1>4. /\ accepted[q] = Unanswered
      /\ accepted'[q] = IF f = "stored" THEN Cardinality(pending[q]) ELSE Unanswered
  BY <1>1, <1>2 DEF IInv, TypeOK, PhasesFit
<1>5. /\ pending[q] \subseteq ValidRows(q)
      /\ Cardinality(pending[q]) \in Nat
      /\ Cardinality(pending[q]) # 0 => pending[q] # {}
      /\ \A x \in pending[q] : x.batch = q /\ Identity(x) \notin IdentitiesOf(rows)
  <2>1. pending[q] \subseteq ValidRows(q)
    BY DEF IInv, TypeOK
  <2>2. Cardinality(pending[q]) \in Nat
    BY <2>1, RowsAreFinite
  <2>3. \A x \in pending[q] : x.batch = q /\ Identity(x) \notin IdentitiesOf(rows)
    BY <1>1, RowIsLabelled DEF IInv, PendingIsNew
  <2>4. QED
    BY <2>1, <2>2, <2>3, FS_EmptySet
<1>6. IdentitiesOf(rows') = IdentitiesOf(rows) \union IdentitiesOf(pending[q])
  BY <1>1 DEF IdentitiesOf
<1>7. TypeOK'
  <2>1. rows' \subseteq UNION {ValidRows(r) : r \in Requests}
    BY <1>1, <1>5 DEF IInv, TypeOK
  <2>2. phase' \in [Requests -> Phases]
    BY <1>2 DEF IInv, TypeOK, Phases
  <2>3. accepted' \in [Requests -> Nat \union {Unanswered}]
    BY <1>2, <1>5 DEF IInv, TypeOK
  <2>4. DOMAIN pending' = Requests /\ \A r \in Requests : pending'[r] \subseteq ValidRows(r)
    BY <1>1, <1>3 DEF IInv, TypeOK
  <2>5. QED
    BY <1>1, <2>1, <2>2, <2>3, <2>4 DEF IInv, TypeOK
<1>8. StoredOnce'
  <2>1. (rows \union UNION {pending[r] : r \in Requests})'
          \subseteq rows \union UNION {pending[r] : r \in Requests}
    BY <1>1, <1>3
  <2>2. QED
    BY <2>1 DEF IInv, StoredOnce
<1>9. PhasesFit'
  BY <1>1, <1>2, <1>3, <1>4 DEF IInv, PhasesFit
<1>10. OutcomesFit'
  BY <1>1, <1>2, OutcomesKept
<1>11. PassedInOrder'
  <2> SUFFICES ASSUME NEW r \in Requests \ {q}, phase[r] = "inserting",
                      NEW j \in Valid(r) \ todo[r]
               PROVE  /\ \A k \in todo[r] : j < k
                      /\ Identity(Row(r, j)) \in IdentitiesOf(Stored(r)')
    BY <1>1, <1>2, <1>3 DEF PassedInOrder
  <2>1. Stored(r) \subseteq Stored(r)'
    BY <1>1, <1>3 DEF Stored
  <2>2. QED
    BY <2>1 DEF IInv, PassedInOrder, IdentitiesOf
<1>12. PendingIsNew'
  <2> SUFFICES ASSUME NEW r \in Requests \ {q}, phase[r] = "inserting", NEW x
               PROVE  x \in pending[r] <=>
                        \E j \in Valid(r) \ todo[r] :
                          /\ x = Row(r, j)
                          /\ Identity(x) \notin IdentitiesOf(rows')
                          /\ FirstOfItsIdentity(r, j)
    BY <1>1, <1>2, <1>3 DEF PendingIsNew, FirstOfItsIdentity
  <2>1. x \in pending[r] <=>
          \E j \in Valid(r) \ todo[r] :
            /\ x = Row(r, j)
            /\ Identity(x) \notin IdentitiesOf(rows)
            /\ FirstOfItsIdentity(r, j)
    BY DEF IInv, PendingIsNew
  <2>2. ASSUME x \in pending[r]
        PROVE  Identity(x) \notin IdentitiesOf(pending[q])
    <3>1. x.batch = r
      BY <2>1, <2>2, RowIsLabelled
    <3>2. ASSUME NEW y \in pending[q], Identity(y) = Identity(x)
          PROVE  FALSE
      BY <1>5, <2>2, <3>1, <3>2, Unique DEF IInv
    <3>3. QED
      BY <3>2 DEF IdentitiesOf
  <2>3. QED
    BY <1>6, <2>1, <2>2
<1>13. /\ \A r \in Requests \ {q} : Labelled(r)' = Labelled(r)
       /\ Labelled(q)' = Labelled(q) \union pending[q]
  BY <1>1, <1>5 DEF Labelled
<1>14. \A r \in Requests : IsWhole(r) => IsWhole(r)'
  BY <1>6 DEF IsWhole
<1>15. IsWhole(q)'
  BY <1>1, PendingIsTheRest DEF IsWhole
<1>16. CommitsAreWhole'
  <2>1. ASSUME NEW r \in Requests \ {q}
        PROVE  /\ phase'[r] = "stored" => IsWhole(r)'
               /\ Labelled(r)' # {} => IsWhole(r)'
               /\ accepted'[r] \in {0, Unanswered} \/ Labelled(r)' # {}
    BY <1>3, <1>13, <1>14 DEF IInv, CommitsAreWhole
  <2>2. accepted'[q] \in {0, Unanswered} \/ Labelled(q)' # {}
    BY <1>4, <1>5, <1>13
  <2>3. QED
    BY <1>15, <2>1, <2>2 DEF CommitsAreWhole
<1>17. ASSUME NEW r \in Requests \ {q}, r[1] = q[1]
       PROVE  Labelled(q)' = {} \/ Labelled(r)' = {}
  <2>1. CASE Labelled(r) = {}
    BY <1>13, <2>1
  <2>2. CASE Labelled(r) # {}
    <3>1. IdentitiesOf(ValidRows(q)) \subseteq IdentitiesOf(rows)
      BY <1>17, <2>2, SameBatch DEF IInv, CommitsAreWhole, IsWhole
    <3>2. pending[q] = {}
      BY <1>5, <3>1 DEF IdentitiesOf
    <3>3. Labelled(q) = {}
      BY <1>17, <2>2 DEF IInv, OneLabel
    <3>4. QED
      BY <1>13, <3>2, <3>3
  <2>3. QED
    BY <2>1, <2>2
<1>18. OneLabel'
  BY <1>13, <1>17 DEF IInv, OneLabel
<1>19. QED
  BY <1>7, <1>8, <1>9, <1>10, <1>11, <1>12, <1>16, <1>18 DEF IInv

LEMMA UnchangedIInv == IInv /\ UNCHANGED vars => IInv'
<1> SUFFICES ASSUME IInv, UNCHANGED vars PROVE IInv'
  OBVIOUS
<1>1. StoredOnce' /\ PassedInOrder' /\ PendingIsNew' /\ CommitsAreWhole' /\ OneLabel'
  BY TablesUntouched DEF vars
<1>2. TypeOK' /\ PhasesFit' /\ OutcomesFit'
  BY DEF IInv, vars, TypeOK, PhasesFit, OutcomesFit, Current
<1>3. QED
  BY <1>1, <1>2 DEF IInv

(* Only a request that waits, and is inserting then, is in a circle.       *)
LEMMA CirclesAreInserting ==
  ASSUME NEW q \in UNION Circles
  PROVE  phase[q] = "inserting"
BY DEF Circles, Blocked, WaitsFor, Reached

LEMMA IInvInductive == IInv /\ [Next]_vars => IInv'
<1> SUFFICES ASSUME IInv, [Next]_vars PROVE IInv'
  OBVIOUS
<1>1. ASSUME NEW p \in Producers, Submit(p) PROVE IInv'
  BY <1>1, SubmitIInv
<1>2. ASSUME NEW p \in Producers, GiveUp(p) \/ Hear(p) \/ TimeOut(p) PROVE IInv'
  BY <1>2, OutcomeIInv
<1>3. ASSUME NEW q \in Requests, Filter(q) PROVE IInv'
  BY <1>3, FilterIInv
<1>4. ASSUME NEW q \in Requests, Insert(q) PROVE IInv'
  BY <1>4, InsertIInv
<1>5. ASSUME NEW q \in Requests, BreakCircle(q) PROVE IInv'
  BY <1>5, CirclesAreInserting, RollBackIInv DEF BreakCircle
<1>6. ASSUME NEW q \in Requests, Fail(q) PROVE IInv'
  BY <1>6, RollBackIInv DEF Fail
<1>7. ASSUME NEW q \in Requests, Commit(q) PROVE IInv'
  BY <1>7, CommitIInv
<1>8. CASE UNCHANGED vars
  BY <1>8, UnchangedIInv
<1>9. QED
  BY <1>1, <1>2, <1>3, <1>4, <1>5, <1>6, <1>7, <1>8 DEF Next

-----------------------------------------------------------------------------
(* Theorems                                                                *)

(* A request goes through its batch in order, and its open transaction    *)
(* holds just the rows the part behind it adds (create_many).              *)
THEOREM Invariance == Spec => []IInv
BY InitIInv, IInvInductive, PTL DEF Spec

(* Every variable keeps its type, and a request never holds a row that is  *)
(* not of its own batch.                                                   *)
THEOREM TypeCorrect == Spec => []TypeOK
<1>1. IInv => TypeOK
  BY DEF IInv
<1>2. QED
  BY Invariance, <1>1, PTL

(* A reading is stored once, and no two open transactions are about to     *)
(* store it: the row lock on the unique index makes the second one wait    *)
(* (create_many).                                                          *)
THEOREM AlwaysStoredOnce == Spec => []StoredOnce
<1>1. IInv => StoredOnce
  BY DEF IInv
<1>2. QED
  BY Invariance, <1>1, PTL

(* A 201 means that every reading of a known elevator is in the table,     *)
(* those another request stored included (ingest).                         *)
THEOREM ConfirmedIsAlwaysStored == Spec => []ConfirmedIsStored
<1>1. ASSUME IInv, NEW p \in Producers, outcome[p] = "created"
      PROVE  IdentitiesOf(ValidRows(Current(p))) \subseteq IdentitiesOf(rows)
  <2>1. phase[Current(p)] = "stored" /\ tries[p] > 0 /\ tries[p] \in 0 .. MaxTries
    BY <1>1 DEF IInv, OutcomesFit, TypeOK
  <2>2. Current(p) \in Requests
    BY <2>1, IngestAssumption DEF Current, Requests
  <2>3. QED
    BY <1>1, <2>1, <2>2 DEF IInv, CommitsAreWhole, IsWhole
<1>2. IInv => ConfirmedIsStored
  BY <1>1 DEF ConfirmedIsStored
<1>3. QED
  BY Invariance, <1>2, PTL

(* However the tries of a batch overlap, one of them adds all the rows the *)
(* batch ever adds, and every other one that is answered reports none.     *)
THEOREM OneTryAlwaysCounts == Spec => []OneTryCounts
<1>1. ASSUME IInv, NEW q \in Requests, NEW r \in Requests, q # r, q[1] = r[1]
      PROVE  \/ {x \in rows : x.batch = q} = {}
             \/ {x \in rows : x.batch = r} = {} /\ accepted[r] \in {0, Unanswered}
  <2>1. Labelled(q) = {} \/ Labelled(r) = {}
    BY <1>1 DEF IInv, OneLabel
  <2>2. accepted[r] \in {0, Unanswered} \/ Labelled(r) # {}
    BY <1>1 DEF IInv, CommitsAreWhole
  <2>3. QED
    BY <2>1, <2>2 DEF Labelled
<1>2. IInv => OneTryCounts
  BY <1>1 DEF OneTryCounts
<1>3. QED
  BY Invariance, <1>2, PTL

(* A request that waits for another try of its batch is at an earlier      *)
(* reading than the other one: that one is past the reading, and goes      *)
(* through the same readings in the same order.                            *)
LEMMA WaitsBehind ==
  ASSUME IInv, NEW q \in Requests, NEW r \in Requests, q[1] = r[1],
         WaitsFor(r, q), NEW m \in Nat, Reached(q, m)
  PROVE  \E k \in Nat : Reached(r, k) /\ k < m
<1>1. PICK k \in todo[r] :
        /\ Reached(r, k)
        /\ Identity(Row(r, k)) \in IdentitiesOf(pending[q])
        /\ Identity(Row(r, k)) \notin IdentitiesOf(Stored(r))
  BY DEF WaitsFor
<1>2. phase[q] = "inserting" /\ phase[r] = "inserting" /\ m \in todo[q]
  BY <1>1 DEF Reached
<1>3. PICK x \in pending[q] : Identity(x) = Identity(Row(r, k))
  BY <1>1 DEF IdentitiesOf
<1>4. PICK i \in Valid(q) \ todo[q] : x = Row(q, i)
  BY <1>2, <1>3 DEF IInv, PendingIsNew
<1>5. i < m
  BY <1>2, <1>4 DEF IInv, PassedInOrder
<1>6. i \in Valid(r) /\ Identity(Row(r, i)) = Identity(Row(r, k))
  BY <1>3, <1>4, SameBatch
<1>7. i \in todo[r]
  BY <1>1, <1>2, <1>6 DEF IInv, PassedInOrder
<1>8. k <= i /\ k \in Nat /\ i \in Nat
  BY <1>1, <1>7 DEF Reached, IInv, TypeOK
<1>9. QED
  BY <1>1, <1>5, <1>8

(* The tries of one batch never wait for each other in a circle: the one   *)
(* that is at the earliest reading would have to have one behind it.       *)
THEOREM RetriesNeverEverDeadlock == Spec => []RetriesNeverDeadlock
<1>1. ASSUME IInv, NEW circle \in Circles, \A q, r \in circle : q[1] = r[1]
      PROVE  FALSE
  <2> DEFINE Points == {k \in Nat : \E q \in circle : Reached(q, k)}
  <2>1. /\ circle \subseteq Requests /\ circle # {}
        /\ \A q \in circle : /\ \E s \in circle : WaitsFor(q, s)
                             /\ \E s \in circle : WaitsFor(s, q)
    BY DEF Circles, Blocked
  <2>2. PICK q \in circle : TRUE
    BY <2>1
  <2>3. PICK k \in todo[q] : Reached(q, k)
    BY <2>1 DEF WaitsFor
  <2>4. k \in Points
    BY <1>1, <2>1, <2>3 DEF IInv, TypeOK
  <2>5. PICK m \in Points : \A n \in Points : m <= n
    BY <2>4, HasLeast
  <2>6. PICK r \in circle : Reached(r, m)
    OBVIOUS
  <2>7. PICK s \in circle : WaitsFor(s, r)
    BY <2>1
  <2>8. PICK n \in Nat : Reached(s, n) /\ n < m
    BY <1>1, <2>1, <2>6, <2>7, WaitsBehind
  <2>9. m <= n
    BY <2>5, <2>8
  <2>10. QED
    BY <2>8, <2>9
<1>2. IInv => RetriesNeverDeadlock
  BY <1>1 DEF RetriesNeverDeadlock
<1>3. QED
  BY Invariance, <1>2, PTL

(* No step changes or takes away a row that is stored.                     *)
THEOREM FirstReportAlwaysStays == Spec => FirstReportStays
<1>1. [Next]_vars => [rows \subseteq rows']_rows
  BY DEF Next, vars, Submit, GiveUp, Hear, TimeOut, Filter, Insert, Place,
         BreakCircle, RollBack, Fail, Commit
<1>2. QED
  BY <1>1, PTL DEF Spec, FirstReportStays

(* A request that is not answered has labelled nothing, and one that got   *)
(* its 201 reported as many rows as the table holds under its batch_id.    *)
AcceptedFits ==
    \A q \in Requests :
        /\ phase[q] \notin Ended => Labelled(q) = {}
        /\ phase[q] = "stored" => accepted[q] = Cardinality(Labelled(q))

LEMMA AcceptedKept ==
  ASSUME AcceptedFits, UNCHANGED <<rows, accepted>>,
         \A q \in Requests :
            /\ phase'[q] \notin Ended => phase[q] \notin Ended
            /\ phase'[q] = "stored" => phase[q] = "stored"
  PROVE  AcceptedFits'
BY DEF AcceptedFits, Labelled

LEMMA CommitCounts ==
  ASSUME IInv, AcceptedFits, NEW q \in Requests, Commit(q)
  PROVE  AcceptedFits'
<1>1. /\ phase[q] = "inserting" /\ rows' = rows \union pending[q]
      /\ phase' \in [Requests -> Phases]
      /\ \A r \in Requests \ {q} : phase'[r] = phase[r] /\ accepted'[r] = accepted[r]
  BY DEF Commit, IInv, TypeOK, Phases
<1>2. \/ phase'[q] = "failed"
      \/ phase'[q] = "stored" /\ accepted'[q] = Cardinality(pending[q])
  BY DEF Commit, IInv, TypeOK
<1>3. \A x \in pending[q] : x.batch = q
  BY <1>1, RowIsLabelled DEF IInv, PendingIsNew
<1>4. Labelled(q) = {}
  BY <1>1 DEF AcceptedFits, Ended
<1>5. Labelled(q)' = pending[q]
  BY <1>1, <1>3, <1>4 DEF Labelled
<1>6. \A r \in Requests \ {q} : Labelled(r)' = Labelled(r)
  BY <1>1, <1>3 DEF Labelled
<1>7. ASSUME NEW r \in Requests
      PROVE  /\ phase'[r] \notin Ended => Labelled(r)' = {}
             /\ phase'[r] = "stored" => accepted'[r] = Cardinality(Labelled(r)')
  BY <1>1, <1>2, <1>5, <1>6 DEF AcceptedFits, Ended
<1>8. QED
  BY <1>7 DEF AcceptedFits

LEMMA AcceptedInductive == IInv /\ AcceptedFits /\ [Next]_vars => AcceptedFits'
<1> SUFFICES ASSUME IInv, AcceptedFits, [Next]_vars PROVE AcceptedFits'
  OBVIOUS
<1>1. ASSUME NEW p \in Producers, Submit(p) PROVE AcceptedFits'
  <2>1. UNCHANGED <<rows, accepted>> /\ phase' = [phase EXCEPT ![<<p, tries[p] + 1>>] = "received"]
    BY <1>1 DEF Submit
  <2>2. tries[p] \in Nat /\ tries[p] < MaxTries
    BY <1>1, IngestAssumption DEF IInv, TypeOK, Submit
  <2>3. phase[<<p, tries[p] + 1>>] = "unsent"
    BY <2>2, IngestAssumption DEF IInv, PhasesFit, Requests
  <2>4. QED
    BY <2>1, <2>3, AcceptedKept DEF IInv, TypeOK, Ended
<1>2. ASSUME NEW p \in Producers, GiveUp(p) \/ Hear(p) \/ TimeOut(p) PROVE AcceptedFits'
  BY <1>2, AcceptedKept DEF GiveUp, Hear, TimeOut
<1>3. ASSUME NEW q \in Requests, Filter(q) PROVE AcceptedFits'
  BY <1>3, AcceptedKept DEF IInv, TypeOK, Filter, Ended
<1>4. ASSUME NEW q \in Requests, Insert(q) PROVE AcceptedFits'
  BY <1>4, AcceptedKept DEF Insert, Place
<1>5. ASSUME NEW q \in Requests, BreakCircle(q) \/ Fail(q) PROVE AcceptedFits'
  BY <1>5, AcceptedKept DEF IInv, TypeOK, BreakCircle, Fail, RollBack, Ended
<1>6. ASSUME NEW q \in Requests, Commit(q) PROVE AcceptedFits'
  BY <1>6, CommitCounts
<1>7. CASE UNCHANGED vars
  BY <1>7, AcceptedKept DEF vars
<1>8. QED
  BY <1>1, <1>2, <1>3, <1>4, <1>5, <1>6, <1>7 DEF Next

(* The number a 201 reports as accepted stays the number of rows that bear *)
(* its batch_id, whatever other tries and producers store after it.        *)
THEOREM AcceptedAlwaysFits == Spec => []AcceptedFits
<1>1. Init => AcceptedFits
  BY DEF Init, AcceptedFits, Labelled
<1>2. QED
  BY Invariance, <1>1, AcceptedInductive, PTL DEF Spec

-----------------------------------------------------------------------------
(* The refinement                                                          *)

(* ReadingStore reads the rules with the same constants.                   *)
LEMMA SameRules ==
  /\ Store!Requests = Requests
  /\ Store!Unanswered = Unanswered
  /\ \A q : Store!Valid(q) = Valid(q)
  /\ \A q, S : Store!NewRows(q, S) = NewRows(q, S)
  /\ \A S : Store!Cardinality(S) = Cardinality(S)
<1>1. Store!Requests = Requests /\ Store!Unanswered = Unanswered
  BY DEF Store!Requests, Requests, Store!Unanswered, Unanswered
<1>2. \A q : Store!Valid(q) = Valid(q)
  BY Zenon DEF Store!Valid, Valid
<1>3. \A q, k : Store!Row(q, k) = Row(q, k)
  BY Zenon DEF Store!Row, Row
<1>4. \A x : Store!Identity(x) = Identity(x)
  BY Zenon DEF Store!Identity, Identity
<1>5. \A S : Store!IdentitiesOf(S) = IdentitiesOf(S)
  BY <1>4, Zenon DEF Store!IdentitiesOf, IdentitiesOf
<1>6. \A q, S : Store!NewRows(q, S) = NewRows(q, S)
  BY <1>2, <1>3, <1>4, <1>5 DEF Store!NewRows, NewRows
<1>7. \A S : Store!Cardinality(S) = Cardinality(S)
  BY Zenon DEF Store!Cardinality, Cardinality
<1>8. QED
  BY <1>1, <1>2, <1>6, <1>7

(* The commit is where a request takes effect, whole, and what it inserted *)
(* is what the table lacks at that moment.                                 *)
LEMMA CommitIsStore ==
  ASSUME IInv, NEW q \in Requests, Commit(q)
  PROVE  Store!Store(q)
<1>1. /\ phase[q] = "inserting" /\ todo[q] = {}
      /\ rows' = rows \union pending[q]
      /\ \/ accepted' = [accepted EXCEPT ![q] = Cardinality(pending[q])]
         \/ accepted' = accepted
  BY DEF Commit
<1>2. pending[q] = NewRows(q, rows)
  BY <1>1, PendingIsTheRest
<1>3. accepted[q] = Unanswered /\ Valid(q) # {}
  BY <1>1 DEF IInv, PhasesFit
<1>4. QED
  BY <1>1, <1>2, <1>3, SameRules DEF Store!Store

(* Requests that overlap, fail, wait and are sent again look like whole    *)
(* requests one at a time, and what each reports as accepted is what it    *)
(* added to the table.                                                     *)
THEOREM RequestsAreAlwaysAtomic == Spec => RequestsAreAtomic
<1>1. Init => Store!Init
  BY SameRules DEF Init, Store!Init
<1>2. ASSUME IInv, [Next]_vars PROVE [Store!Next]_(Store!vars)
  <2>1. ASSUME NEW q \in Requests, Commit(q) PROVE Store!Next
    BY <1>2, <2>1, CommitIsStore, SameRules DEF Store!Next
  <2>2. ASSUME NEW p \in Producers, Submit(p) \/ GiveUp(p) \/ Hear(p) \/ TimeOut(p)
        PROVE  UNCHANGED Store!vars
    BY <2>2 DEF Submit, GiveUp, Hear, TimeOut, Store!vars
  <2>3. ASSUME NEW q \in Requests,
               Filter(q) \/ Insert(q) \/ BreakCircle(q) \/ Fail(q)
        PROVE  UNCHANGED Store!vars
    BY <2>3 DEF Filter, Insert, Place, BreakCircle, Fail, RollBack, Store!vars
  <2>4. CASE UNCHANGED vars
    BY <2>4 DEF vars, Store!vars
  <2>5. QED
    BY <1>2, <2>1, <2>2, <2>3, <2>4 DEF Next
<1>3. QED
  BY Invariance, <1>1, <1>2, PTL DEF Spec, RequestsAreAtomic, Store!Spec
=============================================================================
