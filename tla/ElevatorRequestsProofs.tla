----------------------- MODULE ElevatorRequestsProofs -----------------------
(***************************************************************************)
(* Proofs about ElevatorRequests, for any number of requests, lifts and    *)
(* connections, and any scores.                                            *)
(*                                                                         *)
(* What a request holds of the pool is told by its phase alone, and the    *)
(* key of its text is fixed when it has read its row.                      *)
(***************************************************************************)
EXTENDS ElevatorRequests, FiniteSetTheorems, TLAPS

Holders == {r \in Requests : phase[r] \in Holding}

(* The pool has what no request holds.                                     *)
PoolIsWhole == free \in Nat /\ free + Cardinality(Holders) = PoolSize

(* A request past its first statement has found its lift, and does what    *)
(* it was asked for.                                                       *)
OnItsWay ==
    \A r \in Requests :
        /\ phase[r] \in {"features", "trend", "service", "generating", "flushed"} =>
             ask[r].lift \in Lifts \/ ask[r].kind = "list"
        /\ phase[r] = "generating" => ask[r].kind = "briefing"

(* A request that has an answer or a text has ended.                       *)
AnsweredAtTheEnd ==
    \A r \in Requests : status[r] # 0 \/ text[r] # NoText => phase[r] = "done"

Answered201IsStored == \A r \in Requests : status[r] = 201 => stored[r]

IInv == /\ TypeOK
        /\ PoolIsWhole
        /\ OnItsWay
        /\ AnsweredAtTheEnd
        /\ CachedTextIsOfItsKey
        /\ Answered201IsStored

-----------------------------------------------------------------------------

(* A step of one request moves at most one connection.                     *)
LEMMA PoolMoves ==
  ASSUME TypeOK, PoolIsWhole, NEW r \in Requests, NEW p,
         phase' = [phase EXCEPT ![r] = p],
         phase[r] \notin Holding /\ p \in Holding => free > 0,
         free' = IF phase[r] \notin Holding /\ p \in Holding THEN free - 1
                 ELSE IF phase[r] \in Holding /\ p \notin Holding THEN free + 1
                 ELSE free
  PROVE  PoolIsWhole' /\ free' \in 0 .. PoolSize
<1>1. IsFiniteSet(Holders) /\ IsFiniteSet(Holders')
  <2>1. Holders \subseteq Requests /\ Holders' \subseteq Requests
    BY DEF Holders
  <2>2. QED
    BY <2>1, RequestsAssumption, FS_Subset
<1>2. Cardinality(Holders) \in Nat /\ Cardinality(Holders') \in Nat /\ PoolSize \in Nat
  BY <1>1, FS_CardinalityType, RequestsAssumption
<1>3. CASE phase[r] \notin Holding /\ p \in Holding
  <2>1. r \notin Holders /\ Holders' = Holders \union {r}
    BY <1>3 DEF Holders, TypeOK
  <2>2. Cardinality(Holders') = Cardinality(Holders) + 1
    BY <1>1, <2>1, FS_AddElement
  <2>3. QED
    BY <1>2, <1>3, <2>2 DEF PoolIsWhole
<1>4. CASE phase[r] \in Holding /\ p \notin Holding
  <2>1. r \in Holders /\ Holders' = Holders \ {r}
    BY <1>4 DEF Holders, TypeOK
  <2>2. Cardinality(Holders') = Cardinality(Holders) - 1
    BY <1>1, <2>1, FS_RemoveElement
  <2>3. QED
    BY <1>2, <1>4, <2>2 DEF PoolIsWhole
<1>5. CASE phase[r] \in Holding <=> p \in Holding
  <2>1. Holders' = Holders
    BY <1>5 DEF Holders, TypeOK
  <2>2. QED
    BY <1>2, <1>5, <2>1 DEF PoolIsWhole
<1>6. QED
  BY <1>3, <1>4, <1>5

(* A request that ends gives its connection back, if it has one.           *)
LEMMA EndReleases ==
  ASSUME TypeOK, PoolIsWhole, NEW r \in Requests, NEW code, End(r, code)
  PROVE  PoolIsWhole' /\ free' \in 0 .. PoolSize
BY PoolMoves, "done" \notin Holding DEF End, Holding

(* While phase moves on, texts, the cache and what was read stay right.    *)
LEMMA TextsUntouched ==
  ASSUME IInv, UNCHANGED <<cache, ask, loaded, text>>
  PROVE  CachedTextIsOfItsKey'
BY DEF IInv, CachedTextIsOfItsKey, CacheKey

(* The key of a briefing past its row is one of the cache's.               *)
LEMMA KeyOfCache ==
  ASSUME IInv, NEW r \in Requests, ask[r].kind = "briefing",
         phase[r] \in {"features", "trend", "service", "generating", "flushed"}
  PROVE  /\ ask[r].lift \in Lifts
         /\ loaded[r].row \in Versions
         /\ ScoreOf[ask[r].lift][loaded[r].row] \in Scores
         /\ CacheKey(r) \in Lifts \X Scores
<1>1. ask[r].lift \in Lifts
  BY DEF IInv, OnItsWay
<1>2. loaded[r].row \in Versions
  BY DEF IInv, TypeOK, Parts
<1>3. ScoreOf[ask[r].lift][loaded[r].row] \in Scores
  BY <1>1, <1>2 DEF Scores
<1>4. QED
  BY <1>1, <1>2, <1>3 DEF CacheKey

(* The initial states satisfy the invariant.                               *)
LEMMA InitIInv == Init => IInv
<1> SUFFICES ASSUME Init PROVE IInv
  OBVIOUS
<1>1. TypeOK
  BY RequestsAssumption DEF Init, TypeOK, Versions, Parts, Nothing
<1>2. PoolIsWhole
  <2>1. Holders = {}
    BY DEF Init, Holders, Holding
  <2>2. Cardinality(Holders) = 0
    BY <2>1, FS_EmptySet
  <2>3. QED
    BY <2>2, RequestsAssumption DEF Init, PoolIsWhole
<1>3. /\ OnItsWay /\ AnsweredAtTheEnd /\ Answered201IsStored
  BY DEF Init, OnItsWay, AnsweredAtTheEnd,
     Answered201IsStored
<1>4. CachedTextIsOfItsKey
  BY DEF Init, CachedTextIsOfItsKey
<1>5. QED
  BY <1>1, <1>2, <1>3, <1>4 DEF IInv

(* A briefing that is answered with a text of its lift and score, or not,  *)
(* beside a cache that is right.                                           *)
LEMMA AnswerWithIInv ==
  ASSUME IInv, NEW r \in Requests, NEW told \in Texts, AnswerWith(r, told),
         UNCHANGED <<version, ask, loaded, stored>>,
         told.lift = ask[r].lift,
         ScoreOf[told.lift][told.facts.row] = ScoreOf[ask[r].lift][loaded[r].row],
         cache' \in [Lifts \X Scores -> Texts \union {NoText}],
         \A l \in Lifts, s \in Scores :
           cache'[<<l, s>>] # NoText =>
             /\ cache'[<<l, s>>].by = "model"
             /\ cache'[<<l, s>>].lift = l
             /\ ScoreOf[l][cache'[<<l, s>>].facts.row] = s
  PROVE  IInv'
<1> USE DEF IInv
<1>1. PICK code \in {200, 500} : End(r, code)
  BY DEF AnswerWith
<1>2. /\ text' \in [Requests -> Texts \union {NoText}]
      /\ text'[r] = told \/ text'[r] = text[r]
      /\ \A q \in Requests : q # r => text'[q] = text[q]
  BY DEF AnswerWith, TypeOK
<1>3. PoolIsWhole' /\ free' \in 0 .. PoolSize
  BY <1>1, EndReleases
<1>4. TypeOK'
  BY <1>1, <1>2, <1>3 DEF End, TypeOK
<1>5. OnItsWay' /\ AnsweredAtTheEnd'
  BY <1>1, <1>2 DEF End, TypeOK, OnItsWay, AnsweredAtTheEnd
<1>6. CachedTextIsOfItsKey'
  <2>1. ASSUME NEW q \in Requests, text'[q] # NoText
        PROVE  /\ text'[q].lift = ask[q].lift
               /\ ScoreOf[text'[q].lift][text'[q].facts.row] = ScoreOf[ask[q].lift][loaded[q].row]
    <3>1. CASE text'[q] = text[q]
      BY <2>1, <3>1 DEF CachedTextIsOfItsKey
    <3>2. CASE q = r /\ text'[r] = told
      BY <3>2
    <3>3. QED
      BY <1>2, <3>1, <3>2
  <2>2. QED
    BY <2>1 DEF CachedTextIsOfItsKey
<1>7. Answered201IsStored'
  BY <1>1 DEF End, TypeOK, Answered201IsStored
<1>8. QED
  BY <1>3, <1>4, <1>5, <1>6, <1>7

(* Every step keeps the invariant.                                         *)
LEMMA IInvInductive == IInv /\ [Next]_vars => IInv'
<1> SUFFICES ASSUME IInv, [Next]_vars PROVE IInv'
  OBVIOUS
<1> USE DEF IInv
<1>1. CASE Run
  <2>1. TypeOK'
    BY <1>1, RequestsAssumption DEF Run, TypeOK, Versions
  <2>2. PoolIsWhole'
    BY <1>1 DEF Run, PoolIsWhole, Holders
  <2>3. OnItsWay' /\ AnsweredAtTheEnd' /\ Answered201IsStored'
    BY <1>1 DEF Run, OnItsWay, AnsweredAtTheEnd, Answered201IsStored
  <2>4. CachedTextIsOfItsKey'
    BY <1>1, TextsUntouched DEF Run
  <2>5. QED
    BY <2>1, <2>2, <2>3, <2>4
<1>2. ASSUME NEW r \in Requests, Connect(r) PROVE IInv'
  <2>1. PoolIsWhole' /\ free' \in 0 .. PoolSize
    BY <1>2, PoolMoves DEF Connect, Holding
  <2>2. TypeOK'
    BY <1>2, <2>1 DEF Connect, End, TypeOK
  <2>3. OnItsWay' /\ AnsweredAtTheEnd'
    BY <1>2 DEF Connect, End, TypeOK, OnItsWay, AnsweredAtTheEnd, Holding
  <2>4. CachedTextIsOfItsKey'
    BY <1>2, TextsUntouched DEF Connect, End
  <2>5. Answered201IsStored'
    BY <1>2 DEF Connect, End, TypeOK, AnsweredAtTheEnd, Answered201IsStored, Holding, Facts
  <2>6. QED
    BY <2>1, <2>2, <2>3, <2>4, <2>5
<1>3. ASSUME NEW r \in Requests, Fail(r) PROVE IInv'
  <2>1. PoolIsWhole' /\ free' \in 0 .. PoolSize
    BY <1>3, EndReleases DEF Fail
  <2>2. TypeOK'
    BY <1>3, <2>1 DEF Fail, End, TypeOK
  <2>3. OnItsWay' /\ AnsweredAtTheEnd'
    BY <1>3 DEF Fail, End, TypeOK, OnItsWay, AnsweredAtTheEnd, Holding
  <2>4. CachedTextIsOfItsKey'
    BY <1>3, TextsUntouched DEF Fail, End
  <2>5. Answered201IsStored'
    BY <1>3 DEF Fail, End, TypeOK, AnsweredAtTheEnd, Answered201IsStored, Holding, Facts
  <2>6. QED
    BY <2>1, <2>2, <2>3, <2>4, <2>5
<1>4. ASSUME NEW r \in Requests, Read(r) PROVE IInv'
  <2>1. PoolIsWhole' /\ free' \in 0 .. PoolSize
    <3>1. \E p \in {"features", "trend", "service"} : phase' = [phase EXCEPT ![r] = p]
      BY <1>4 DEF Read
    <3>2. phase[r] \in Holding /\ free' = free
      BY <1>4 DEF Read, Holding
    <3>3. QED
      BY <3>1, <3>2, PoolMoves DEF Holding
  <2>2. loaded' \in [Requests -> Parts]
    <3>1. loaded[r] \in Parts /\ version \in Versions
      BY DEF TypeOK
    <3>2. loaded' = [loaded EXCEPT ![r] = loaded'[r]] /\ loaded'[r] \in Parts
      BY <1>4, <3>1 DEF Read, TypeOK, Parts
    <3>3. QED
      BY <3>2 DEF TypeOK
  <2>3. TypeOK'
    BY <1>4, <2>1, <2>2 DEF Read, TypeOK
  <2>4. OnItsWay' /\ AnsweredAtTheEnd'
    BY <1>4 DEF Read, TypeOK, OnItsWay, AnsweredAtTheEnd
  <2>5. text[r] = NoText /\ status[r] = 0
    BY <1>4 DEF Read, AnsweredAtTheEnd
  <2>6. \A q \in Requests : q # r => loaded'[q] = loaded[q]
    BY <1>4 DEF Read, TypeOK
  <2>7. CachedTextIsOfItsKey'
    BY <1>4, <2>5, <2>6 DEF Read, CachedTextIsOfItsKey
  <2>8. Answered201IsStored'
    BY <1>4, <2>5, <2>6 DEF Read, Answered201IsStored
  <2>9. QED
    BY <2>1, <2>3, <2>4, <2>7, <2>8
<1>5. ASSUME NEW r \in Requests, NotFound(r) PROVE IInv'
  <2>1. PoolIsWhole' /\ free' \in 0 .. PoolSize
    BY <1>5, EndReleases DEF NotFound
  <2>2. TypeOK'
    BY <1>5, <2>1 DEF NotFound, End, TypeOK
  <2>3. OnItsWay' /\ AnsweredAtTheEnd'
    BY <1>5 DEF NotFound, End, TypeOK, OnItsWay, AnsweredAtTheEnd, Holding
  <2>4. CachedTextIsOfItsKey'
    BY <1>5, TextsUntouched DEF NotFound, End
  <2>5. Answered201IsStored'
    BY <1>5 DEF NotFound, End, TypeOK, AnsweredAtTheEnd, Answered201IsStored, Holding, Facts
  <2>6. QED
    BY <2>1, <2>2, <2>3, <2>4, <2>5
<1>6. ASSUME NEW r \in Requests, Show(r) PROVE IInv'
  <2>1. PoolIsWhole' /\ free' \in 0 .. PoolSize
    BY <1>6, EndReleases DEF Show
  <2>2. TypeOK'
    BY <1>6, <2>1 DEF Show, End, TypeOK
  <2>3. OnItsWay' /\ AnsweredAtTheEnd'
    BY <1>6 DEF Show, End, TypeOK, OnItsWay, AnsweredAtTheEnd, Holding
  <2>4. CachedTextIsOfItsKey'
    BY <1>6, TextsUntouched DEF Show, End
  <2>5. Answered201IsStored'
    BY <1>6 DEF Show, End, TypeOK, AnsweredAtTheEnd, Answered201IsStored, Holding, Facts
  <2>6. QED
    BY <2>1, <2>2, <2>3, <2>4, <2>5
<1>7. ASSUME NEW r \in Requests, UseCache(r) PROVE IInv'
  <2> DEFINE told == cache[CacheKey(r)]
  <2>1. /\ ask[r].lift \in Lifts /\ ScoreOf[ask[r].lift][loaded[r].row] \in Scores
        /\ told = cache[<<ask[r].lift, ScoreOf[ask[r].lift][loaded[r].row]>>]
        /\ told \in Texts
    BY <1>7, KeyOfCache DEF UseCache, CacheKey, TypeOK
  <2>2. told.lift = ask[r].lift /\ ScoreOf[told.lift][told.facts.row] = ScoreOf[ask[r].lift][loaded[r].row]
    <3>1. PICK l \in Lifts, sc \in Scores :
             l = ask[r].lift /\ sc = ScoreOf[ask[r].lift][loaded[r].row]
      BY <2>1
    <3>2. told = cache[<<l, sc>>] /\ cache[<<l, sc>>] # NoText
      BY <1>7, <2>1, <3>1 DEF UseCache, CacheKey
    <3>3. cache[<<l, sc>>].lift = l /\ ScoreOf[l][cache[<<l, sc>>].facts.row] = sc
      BY <3>2 DEF CachedTextIsOfItsKey
    <3>4. told.lift = l /\ ScoreOf[l][told.facts.row] = sc
      BY <3>2, <3>3
    <3>5. QED
      BY <3>1, <3>4
  <2>3. AnswerWith(r, told) /\ UNCHANGED <<version, cache, ask, loaded, stored>>
    BY <1>7 DEF UseCache
  <2> HIDE DEF told
  <2>4. /\ cache' \in [Lifts \X Scores -> Texts \union {NoText}]
        /\ \A l \in Lifts, s \in Scores :
             cache'[<<l, s>>] # NoText =>
               /\ cache'[<<l, s>>].by = "model"
               /\ cache'[<<l, s>>].lift = l
               /\ ScoreOf[l][cache'[<<l, s>>].facts.row] = s
    BY <2>3 DEF TypeOK, CachedTextIsOfItsKey
  <2>5. QED
    BY <2>1, <2>2, <2>3, <2>4, AnswerWithIInv
<1>8. ASSUME NEW r \in Requests, AskModel(r) PROVE IInv'
  <2>1. PoolIsWhole' /\ free' \in 0 .. PoolSize
    BY <1>8, PoolMoves DEF AskModel, Holding
  <2>2. TypeOK'
    BY <1>8, <2>1 DEF AskModel, End, TypeOK
  <2>3. OnItsWay' /\ AnsweredAtTheEnd'
    BY <1>8 DEF AskModel, End, TypeOK, OnItsWay, AnsweredAtTheEnd, Holding
  <2>4. CachedTextIsOfItsKey'
    BY <1>8, TextsUntouched DEF AskModel, End
  <2>5. Answered201IsStored'
    BY <1>8 DEF AskModel, End, TypeOK, AnsweredAtTheEnd, Answered201IsStored, Holding, Facts
  <2>6. QED
    BY <2>1, <2>2, <2>3, <2>4, <2>5
<1>9. ASSUME NEW r \in Requests, ModelAnswers(r) PROVE IInv'
  <2> DEFINE key == <<ask[r].lift, ScoreOf[ask[r].lift][loaded[r].row]>>
             new == Facts(r, "model")
  <2>1. ask[r].lift \in Lifts /\ key \in Lifts \X Scores
    BY <1>9, KeyOfCache DEF ModelAnswers, OnItsWay
  <2>2. new \in Texts /\ new.lift = ask[r].lift /\ new.by = "model" /\ new.facts = loaded[r]
    BY <2>1 DEF Facts, Texts, TypeOK
  <2>3. /\ cache' = [cache EXCEPT ![key] = new]
        /\ AnswerWith(r, new) /\ UNCHANGED <<version, ask, loaded, stored>>
    BY <1>9 DEF ModelAnswers, CacheKey
  <2> HIDE DEF new
  <2>4. cache' \in [Lifts \X Scores -> Texts \union {NoText}]
    BY <2>1, <2>2, <2>3 DEF TypeOK
  <2>5. ASSUME NEW k \in Lifts \X Scores
        PROVE  IF k = key THEN cache'[k] = new ELSE cache'[k] = cache[k]
    BY <2>3 DEF TypeOK
  <2>6. ASSUME NEW l \in Lifts, NEW s \in Scores, cache'[<<l, s>>] # NoText
        PROVE  /\ cache'[<<l, s>>].by = "model"
               /\ cache'[<<l, s>>].lift = l
               /\ ScoreOf[l][cache'[<<l, s>>].facts.row] = s
    <3>1. CASE <<l, s>> = key
      BY <2>2, <2>5, <3>1
    <3>2. CASE <<l, s>> # key
      BY <2>5, <2>6, <3>2 DEF CachedTextIsOfItsKey
    <3>3. QED
      BY <3>1, <3>2
  <2>7. QED
    BY <2>2, <2>3, <2>4, <2>6, AnswerWithIInv
<1>10. ASSUME NEW r \in Requests, ModelFails(r) PROVE IInv'
  <2> DEFINE new == Facts(r, "fallback")
  <2>1. ask[r].lift \in Lifts
    BY <1>10, KeyOfCache DEF ModelFails, OnItsWay
  <2>2. new \in Texts /\ new.lift = ask[r].lift /\ new.facts = loaded[r]
    BY <2>1 DEF Facts, Texts, TypeOK
  <2>3. AnswerWith(r, new) /\ UNCHANGED <<version, cache, ask, loaded, stored>>
    BY <1>10 DEF ModelFails
  <2> HIDE DEF new
  <2>4. /\ cache' \in [Lifts \X Scores -> Texts \union {NoText}]
        /\ \A l \in Lifts, s \in Scores :
             cache'[<<l, s>>] # NoText =>
               /\ cache'[<<l, s>>].by = "model"
               /\ cache'[<<l, s>>].lift = l
               /\ ScoreOf[l][cache'[<<l, s>>].facts.row] = s
    BY <2>3 DEF TypeOK, CachedTextIsOfItsKey
  <2>5. QED
    BY <2>2, <2>3, <2>4, AnswerWithIInv
<1>11. ASSUME NEW r \in Requests, Flush(r) PROVE IInv'
  <2>1. PoolIsWhole' /\ free' \in 0 .. PoolSize
    BY <1>11, PoolMoves DEF Flush, Holding
  <2>2. TypeOK'
    BY <1>11, <2>1 DEF Flush, End, TypeOK
  <2>3. OnItsWay' /\ AnsweredAtTheEnd'
    BY <1>11 DEF Flush, End, TypeOK, OnItsWay, AnsweredAtTheEnd, Holding
  <2>4. CachedTextIsOfItsKey'
    BY <1>11, TextsUntouched DEF Flush, End
  <2>5. Answered201IsStored'
    BY <1>11 DEF Flush, End, TypeOK, AnsweredAtTheEnd, Answered201IsStored, Holding, Facts
  <2>6. QED
    BY <2>1, <2>2, <2>3, <2>4, <2>5
<1>12. ASSUME NEW r \in Requests, CommitReport(r) PROVE IInv'
  <2>1. PoolIsWhole' /\ free' \in 0 .. PoolSize
    BY <1>12, EndReleases DEF CommitReport
  <2>2. TypeOK'
    BY <1>12, <2>1 DEF CommitReport, End, TypeOK
  <2>3. OnItsWay' /\ AnsweredAtTheEnd'
    BY <1>12 DEF CommitReport, End, TypeOK, OnItsWay, AnsweredAtTheEnd, Holding
  <2>4. CachedTextIsOfItsKey'
    BY <1>12, TextsUntouched DEF CommitReport, End
  <2>5. Answered201IsStored'
    BY <1>12 DEF CommitReport, End, TypeOK, AnsweredAtTheEnd, Answered201IsStored, Holding, Facts
  <2>6. QED
    BY <2>1, <2>2, <2>3, <2>4, <2>5
<1>13. CASE UNCHANGED vars
  <2>1. TypeOK' /\ PoolIsWhole'
    BY <1>13 DEF vars, TypeOK, PoolIsWhole, Holders
  <2>2. OnItsWay' /\ AnsweredAtTheEnd'
    BY <1>13 DEF vars, OnItsWay, AnsweredAtTheEnd
  <2>3. CachedTextIsOfItsKey'
    BY <1>13, TextsUntouched DEF vars
  <2>4. Answered201IsStored'
    BY <1>13 DEF vars, Answered201IsStored
  <2>5. QED
    BY <2>1, <2>2, <2>3, <2>4
<1>14. QED
  BY <1>1, <1>2, <1>3, <1>4, <1>5, <1>6, <1>7, <1>8, <1>9, <1>10, <1>11, <1>12, <1>13
     DEF Next, Step
-----------------------------------------------------------------------------

(* The invariant holds in every state of every behaviour of the requests.  *)
THEOREM Invariance == Spec => []IInv
BY InitIInv, IInvInductive, PTL DEF Spec

(* Every variable keeps to its type.                                       *)
THEOREM TypeCorrect == Spec => []TypeOK
<1>1. IInv => TypeOK
  BY DEF IInv
<1>2. QED
  BY <1>1, Invariance, PTL

(* A cached text is the model's, of the lift and the score it is kept      *)
(* under, and a request is given a text of the score it loaded, however    *)
(* many requests write one key and runs commit while the model writes.     *)
THEOREM CachedTextAlwaysOfItsKey == Spec => []CachedTextIsOfItsKey
<1>1. IInv => CachedTextIsOfItsKey
  BY DEF IInv
<1>2. QED
  BY <1>1, Invariance, PTL

(* The pool has every connection that no request holds, and an accepted    *)
(* report is stored.                                                       *)
THEOREM NothingIsEverKeptOrLost == Spec => []NothingIsKeptOrLost
<1>1. IInv => NothingIsKeptOrLost
  BY DEF IInv, PoolIsWhole, Holders, Answered201IsStored, NothingIsKeptOrLost
<1>2. QED
  BY <1>1, Invariance, PTL
=============================================================================
