----------------------- MODULE SkillRetrievalProofs -----------------------
(***************************************************************************)
(* What the retrieval returns, for every query, registry and text: the     *)
(* loops of skill_registry.go compute the best matches.                    *)
(***************************************************************************)
EXTENDS SkillRetrieval, Induction, FiniteSetTheorems, SequenceTheorems

-----------------------------------------------------------------------------
\* Scores

\* What a token adds to the weight is a number.
LEMMA WeightsType ==
  ASSUME NEW s \in Skills, NEW token \in Tokens
  PROVE  Weights(token, s) \subseteq Nat
<1>1. Text[s] \in Seq(Tokens) /\ LogWeight \in Seq(Nat)
  BY RetrievalAssumption
<1>2. DOMAIN Text[s] = 1..Len(Text[s]) /\ Len(Text[s]) \in Nat
  BY <1>1, LenProperties
<1>3. ASSUME NEW t \in Tokens, {i \in DOMAIN Text[s] : Text[s][i] = t} # {}
      PROVE  LogWeight[Frequency(t, s)] \in Nat
  <2> DEFINE P == {i \in DOMAIN Text[s] : Text[s][i] = t}
  <2>1. IsFiniteSet(P)
    <3>1. IsFiniteSet(DOMAIN Text[s])
      BY <1>2, FS_Interval
    <3>2. P \in SUBSET (DOMAIN Text[s])
      OBVIOUS
    <3> HIDE DEF P
    <3> QED BY <3>1, <3>2, FS_Subset
  <2>2. Cardinality(P) \in Nat /\ Cardinality(P) # 0
    BY <1>3, <2>1, FS_CardinalityType, FS_EmptySet
  <2>3. Frequency(t, s) \in 1..Len(LogWeight)
    BY <1>1, <2>2, RetrievalAssumption, LenProperties DEF Frequency
  <2> QED BY <1>1, <2>3, ElementOfSeq
<1>4. CASE Frequency(token, s) > 0
  <2>1. {i \in DOMAIN Text[s] : Text[s][i] = token} # {}
    BY <1>4, FS_EmptySet DEF Frequency
  <2>2. LogWeight[Frequency(token, s)] \in Nat
    BY <1>3, <2>1
  <2> QED BY <1>4, <2>2 DEF Weights
<1>5. CASE ~ (Frequency(token, s) > 0)
  <2>1. ASSUME NEW t \in ToSet(Text[s]) PROVE LogWeight[Frequency(t, s)] \in Nat
    <3>1. PICK i \in DOMAIN Text[s] : Text[s][i] = t
      BY DEF ToSet
    <3>2. t \in Tokens
      BY <1>1, <1>2, <3>1, ElementOfSeq
    <3> QED BY <1>3, <3>1, <3>2
  <2> QED BY <1>5, <2>1 DEF Weights
<1> QED BY <1>4, <1>5

\* Adding numbers to numbers gives numbers.
LEMMA AddTokenType ==
  ASSUME NEW points \in SUBSET Nat, NEW weights \in SUBSET Nat
  PROVE  AddToken(points, weights) \in SUBSET Nat
<1>1. \A p \in points, w \in weights : p + 6000 + 2 * w \in Nat
  OBVIOUS
<1> QED BY <1>1 DEF AddToken

\* The rounds of the loop over the tokens of the query.
Scoring(query, s) ==
  [i \in 1..Len(query) |->
     [points \in SUBSET Nat |-> AddToken(points, Weights(query[i], s))]]

\* Scores are numbers, so that two skills can always be compared.
LEMMA PointsType ==
  ASSUME NEW query \in Seq(Tokens), NEW s \in Skills
  PROVE  PossiblePoints(query, s) \subseteq Nat
<1> DEFINE n == Len(query)
           Equation(f) == f = [i \in 0..n |->
             IF i = 0 THEN {0} ELSE AddToken(f[i - 1], Weights(query[i], s))]
           after == CHOOSE f : Equation(f)
<1>1. n \in Nat /\ \A i \in 1..n : Weights(query[i], s) \in SUBSET Nat
  BY LenProperties, ElementOfSeq, WeightsType
<1>2. Scoring(query, s) \in [1..n -> [SUBSET Nat -> SUBSET Nat]]
  BY <1>1, AddTokenType DEF Scoring
<1>3. PICK run \in [0..n -> SUBSET Nat] : IsRun(run, {0}, Scoring(query, s), n)
  <2>1. {0} \in SUBSET Nat
    OBVIOUS
  <2> HIDE DEF n
  <2> QED BY <1>1, <1>2, <2>1, RunExists
<1>4. Equation(run)
  <2>1. ASSUME NEW i \in 1..n
        PROVE  run[i] = AddToken(run[i - 1], Weights(query[i], s))
    <3>1. run[i - 1] \in SUBSET Nat
      BY <1>1
    <3>2. run[i] = Scoring(query, s)[i][run[i - 1]]
      BY <1>3 DEF IsRun
    <3> QED BY <3>1, <3>2 DEF Scoring
  <2>2. run[0] = {0}
    BY <1>3 DEF IsRun
  <2> QED BY <1>1, <2>1, <2>2
<1>5. Equation(after)
  <2> HIDE DEF Equation
  <2> QED BY <1>4
<1>6. PossiblePoints(query, s) = after[n]
  BY DEF PossiblePoints
<1> HIDE DEF after, n
<1>7. /\ after[0] = {0}
      /\ \A i \in 1..n : after[i] = AddToken(after[i - 1], Weights(query[i], s))
  <2>1. after[0] = {0}
    BY <1>1, <1>5
  <2>2. ASSUME NEW i \in 1..n
        PROVE  after[i] = AddToken(after[i - 1], Weights(query[i], s))
    <3>1. i \in 0..n /\ i # 0
      BY <1>1
    <3> QED BY <1>5, <3>1
  <2> QED BY <2>1, <2>2
<1>8. IsLoop(after, SUBSET Nat, {0}, Scoring(query, s), n)
  BY <1>1, <1>7 DEF IsLoop, Scoring, n
<1>9. \A i \in 0..n : after[i] = run[i]
  BY <1>1, <1>2, <1>3, <1>8, LoopIsRun
<1> QED BY <1>1, <1>3, <1>6, <1>9

-----------------------------------------------------------------------------
\* Sorting

Results == [skill : Skills, points : Nat]

Found(results) == {results[i] : i \in 1..Len(results)}

\* No skill occurs twice.
NoneTwice(results) ==
  \A i, j \in 1..Len(results) : i < j => results[i].skill # results[j].skill

\* Where a round of the insertion sort stops.
StopsAt(n, sorted, x) ==
  /\ n = 0 \/ sorted[n].points >= x.points
  /\ \A i \in n + 1..Len(sorted) : sorted[i].points < x.points

\* The search for the place of a result always ends: the result is inserted
\* after the last one that is not smaller.
LEMMA InsertPlace ==
  ASSUME NEW sorted \in Seq(Results), NEW x \in Results
  PROVE  \E n \in 0..Len(sorted) :
           /\ StopsAt(n, sorted, x)
           /\ InsertByScore(sorted, x) =
                SubSeq(sorted, 1, n) \o <<x>> \o SubSeq(sorted, n + 1, Len(sorted))
<1>1. Len(sorted) \in Nat /\ x.points \in Nat
  BY LenProperties DEF Results
<1>2. \A i \in 1..Len(sorted) : sorted[i].points \in Nat
  <2>1. \A i \in 1..Len(sorted) : sorted[i] \in Results
    BY ElementOfSeq
  <2> QED BY <2>1 DEF Results
<1>3. \E n \in 0..Len(sorted) : StopsAt(n, sorted, x)
  <2> DEFINE T == {n \in 0..Len(sorted) :
                     \A i \in n + 1..Len(sorted) : sorted[i].points < x.points}
  <2>1. Len(sorted) \in T
    BY <1>1
  <2>2. PICK n \in T : \A m \in T : n <= m
    <3>1. T \in SUBSET Nat /\ T # {}
      BY <1>1, <2>1
    <3> HIDE DEF T
    <3> QED BY <3>1, LeastNat
  <2>3. CASE n = 0
    BY <2>2, <2>3, <1>1 DEF StopsAt
  <2>4. CASE n # 0 /\ sorted[n].points < x.points
    <3>1. n - 1 \in 0..Len(sorted) /\ n \in 1..Len(sorted)
      BY <2>4, <1>1
    <3>2. ASSUME NEW i \in (n - 1) + 1..Len(sorted)
          PROVE  sorted[i].points < x.points
      <4>1. i = n \/ i \in n + 1..Len(sorted)
        BY <1>1, <3>1
      <4> QED BY <2>4, <4>1
    <3>3. n - 1 \in T
      BY <3>1, <3>2
    <3> QED BY <2>2, <3>1, <3>3
  <2>5. CASE n # 0 /\ ~ (sorted[n].points < x.points)
    <3>1. n \in 1..Len(sorted)
      BY <2>5, <1>1
    <3>2. sorted[n].points >= x.points
      BY <1>1, <1>2, <2>5, <3>1
    <3> QED BY <3>2 DEF StopsAt
  <2> QED BY <2>3, <2>4, <2>5
<1> DEFINE stop == CHOOSE n \in 0..Len(sorted) : StopsAt(n, sorted, x)
<1>4. stop \in 0..Len(sorted) /\ StopsAt(stop, sorted, x)
  BY <1>3
<1>5. InsertByScore(sorted, x) =
        SubSeq(sorted, 1, stop) \o <<x>> \o SubSeq(sorted, stop + 1, Len(sorted))
  BY DEF InsertByScore, StopsAt
<1> HIDE DEF stop
<1> QED BY <1>4, <1>5

\* What the round returns, element by element.
LEMMA InsertElements ==
  ASSUME NEW sorted \in Seq(Results), NEW x \in Results
  PROVE  /\ InsertByScore(sorted, x) \in Seq(Results)
         /\ Len(InsertByScore(sorted, x)) = Len(sorted) + 1
         /\ \E n \in 0..Len(sorted) :
              /\ StopsAt(n, sorted, x)
              /\ \A i \in 1..Len(sorted) + 1 :
                   InsertByScore(sorted, x)[i] =
                     IF i <= n THEN sorted[i]
                     ELSE IF i = n + 1 THEN x ELSE sorted[i - 1]
<1>1. Len(sorted) \in Nat /\ \A i \in 1..Len(sorted) : sorted[i] \in Results
  BY LenProperties, ElementOfSeq
<1>2. PICK n \in 0..Len(sorted) :
        /\ StopsAt(n, sorted, x)
        /\ InsertByScore(sorted, x) =
             SubSeq(sorted, 1, n) \o <<x>> \o SubSeq(sorted, n + 1, Len(sorted))
  BY InsertPlace
<1> DEFINE left == SubSeq(sorted, 1, n)
           right == SubSeq(sorted, n + 1, Len(sorted))
           rest == <<x>> \o right
<1>3. /\ left \in Seq(Results)
      /\ Len(left) = n
      /\ \A i \in 1..n : left[i] = sorted[i]
  <2>1. \A i \in 1..n : sorted[i] \in Results
    BY <1>1
  <2>2. /\ left \in Seq(Results)
        /\ Len(left) = IF 1 <= n THEN n - 1 + 1 ELSE 0
        /\ \A i \in 1..(n - 1 + 1) : left[i] = sorted[1 + i - 1]
    BY <2>1, SubSeqProperties
  <2> QED BY <1>1, <2>2
<1>4. /\ right \in Seq(Results)
      /\ Len(right) = Len(sorted) - n
      /\ \A i \in 1..(Len(sorted) - n) : right[i] = sorted[n + i]
  <2>1. \A i \in n + 1..Len(sorted) : sorted[i] \in Results
    BY <1>1
  <2>2. /\ right \in Seq(Results)
        /\ Len(right) = IF n + 1 <= Len(sorted) THEN Len(sorted) - (n + 1) + 1 ELSE 0
        /\ \A i \in 1..(Len(sorted) - (n + 1) + 1) : right[i] = sorted[n + 1 + i - 1]
    BY <1>1, <2>1, SubSeqProperties
  <2> QED BY <1>1, <2>2
<1>5. <<x>> \in Seq(Results) /\ Len(<<x>>) = 1 /\ <<x>>[1] = x
  OBVIOUS
<1> HIDE DEF left, right
<1>6. /\ rest \in Seq(Results)
      /\ Len(rest) = Len(sorted) - n + 1
      /\ \A i \in 1..(Len(sorted) - n + 1) :
           rest[i] = IF i = 1 THEN x ELSE right[i - 1]
  <2>1. /\ rest \in Seq(Results)
        /\ Len(rest) = 1 + Len(right)
        /\ \A i \in 1..(1 + Len(right)) :
             rest[i] = IF i <= 1 THEN <<x>>[i] ELSE right[i - 1]
    BY <1>4, <1>5, ConcatProperties
  <2> QED BY <1>1, <1>4, <1>5, <2>1
<1>7. InsertByScore(sorted, x) = left \o rest
  <2>1. (left \o <<x>>) \o right = left \o (<<x>> \o right)
    BY <1>3, <1>4, <1>5, ConcatAssociative
  <2> QED BY <1>2, <2>1 DEF left, right
<1> HIDE DEF rest
<1>8. /\ left \o rest \in Seq(Results)
      /\ Len(left \o rest) = n + Len(rest)
      /\ \A i \in 1..(n + Len(rest)) :
           (left \o rest)[i] = IF i <= n THEN left[i] ELSE rest[i - n]
  BY <1>3, <1>6, ConcatProperties
<1>9. Len(left \o rest) = Len(sorted) + 1
  BY <1>1, <1>6, <1>8
<1>10. ASSUME NEW i \in 1..Len(sorted) + 1
       PROVE  (left \o rest)[i] = IF i <= n THEN sorted[i]
                                  ELSE IF i = n + 1 THEN x ELSE sorted[i - 1]
  <2>1. i \in 1..(n + Len(rest))
    BY <1>1, <1>6
  <2>2. CASE i <= n
    BY <1>3, <1>8, <2>1, <2>2
  <2>3. CASE i = n + 1
    <3>1. i - n = 1 /\ 1 \in 1..(Len(sorted) - n + 1)
      BY <1>1, <2>3
    <3> QED BY <1>1, <1>6, <1>8, <2>1, <2>3, <3>1
  <2>4. CASE i > n + 1
    <3>1. /\ i - n \in 1..(Len(sorted) - n + 1) /\ i - n # 1
          /\ i - n - 1 \in 1..(Len(sorted) - n) /\ n + (i - n - 1) = i - 1
      BY <1>1, <2>4
    <3>2. rest[i - n] = sorted[i - 1]
      BY <1>4, <1>6, <3>1
    <3> QED BY <1>1, <1>8, <2>1, <2>4, <3>2
  <2>5. i <= n \/ i = n + 1 \/ i > n + 1
    BY <1>1
  <2> QED BY <2>2, <2>3, <2>4, <2>5
<1> QED BY <1>2, <1>7, <1>8, <1>9, <1>10

\* A round inserts the result and keeps the order.
LEMMA InsertKeepsOrder ==
  ASSUME NEW sorted \in Seq(Results), NEW x \in Results, BestFirst(sorted),
         \A i \in 1..Len(sorted) : sorted[i].skill # x.skill
  PROVE  /\ BestFirst(InsertByScore(sorted, x))
         /\ Found(InsertByScore(sorted, x)) = Found(sorted) \cup {x}
<1> DEFINE new == InsertByScore(sorted, x)
           N == Len(sorted)
<1>1. /\ N \in Nat /\ DOMAIN sorted = 1..N
      /\ \A i \in 1..N : sorted[i].points \in Nat
      /\ x.points \in Nat
  <2>1. \A i \in 1..N : sorted[i] \in Results
    BY ElementOfSeq
  <2> QED BY <2>1, LenProperties DEF Results
<1>2. Len(new) = N + 1 /\ DOMAIN new = 1..(N + 1)
  BY <1>1, InsertElements, LenProperties
<1>3. PICK n \in 0..N :
        /\ StopsAt(n, sorted, x)
        /\ \A i \in 1..N + 1 :
             new[i] = IF i <= n THEN sorted[i]
                      ELSE IF i = n + 1 THEN x ELSE sorted[i - 1]
  BY InsertElements
<1>4. \A i, j \in 1..N : i < j => /\ sorted[i].skill # sorted[j].skill
                                  /\ sorted[i].points >= sorted[j].points
  BY <1>1 DEF BestFirst
<1> HIDE DEF new, N
<1>5. \A i \in 1..n : sorted[i].points >= x.points
  <2> SUFFICES ASSUME NEW i \in 1..n PROVE sorted[i].points >= x.points
    OBVIOUS
  <2>1. n \in 1..N /\ i \in 1..N /\ sorted[n].points >= x.points
    BY <1>1, <1>3 DEF StopsAt
  <2>2. i = n \/ sorted[i].points >= sorted[n].points
    BY <1>4, <2>1
  <2> QED BY <1>1, <2>1, <2>2
<1>6. \A i \in n + 1..N : sorted[i].points < x.points
  BY <1>3 DEF StopsAt, N
<1>7. ASSUME NEW i \in 1..N + 1, NEW j \in 1..N + 1, i < j
      PROVE  new[i].skill # new[j].skill /\ new[i].points >= new[j].points
  <2>1. CASE j <= n
    <3>1. i \in 1..N /\ j \in 1..N /\ new[i] = sorted[i] /\ new[j] = sorted[j]
      BY <1>1, <1>3, <1>7, <2>1
    <3> QED BY <1>4, <1>7, <3>1
  <2>2. CASE j = n + 1
    <3>1. i \in 1..n /\ i \in 1..N /\ new[i] = sorted[i] /\ new[j] = x
      BY <1>1, <1>3, <1>7, <2>2
    <3> QED BY <1>5, <3>1 DEF N
  <2>3. CASE j > n + 1 /\ i <= n
    <3>1. /\ i \in 1..N /\ j - 1 \in 1..N /\ i < j - 1
          /\ new[i] = sorted[i] /\ new[j] = sorted[j - 1]
      BY <1>1, <1>3, <1>7, <2>3
    <3> QED BY <1>4, <3>1
  <2>4. CASE j > n + 1 /\ i = n + 1
    <3>1. /\ j - 1 \in n + 1..N /\ j - 1 \in 1..N
          /\ new[i] = x /\ new[j] = sorted[j - 1]
      BY <1>1, <1>3, <1>7, <2>4
    <3>2. sorted[j - 1].skill # x.skill
      BY <3>1 DEF N
    <3>3. sorted[j - 1].points < x.points
      BY <1>6, <3>1
    <3> QED BY <1>1, <3>1, <3>2, <3>3
  <2>5. CASE j > n + 1 /\ i > n + 1
    <3>1. /\ i - 1 \in 1..N /\ j - 1 \in 1..N /\ i - 1 < j - 1
          /\ new[i] = sorted[i - 1] /\ new[j] = sorted[j - 1]
      BY <1>1, <1>3, <1>7, <2>5
    <3> QED BY <1>4, <3>1
  <2> QED BY <1>1, <2>1, <2>2, <2>3, <2>4, <2>5
<1>8. BestFirst(new)
  BY <1>2, <1>7 DEF BestFirst
<1>9. ASSUME NEW i \in 1..N + 1
      PROVE  new[i] \in Found(sorted) \cup {x}
  <2>1. new[i] = x \/ (i \in 1..N /\ new[i] = sorted[i])
        \/ (i - 1 \in 1..N /\ new[i] = sorted[i - 1])
    BY <1>1, <1>3
  <2> QED BY <2>1 DEF Found, N
<1>10. ASSUME NEW i \in 1..N
       PROVE  \E j \in 1..N + 1 : new[j] = sorted[i]
  <2>1. CASE i <= n
    BY <1>1, <1>3, <2>1
  <2>2. CASE i > n
    <3>1. /\ i + 1 \in 1..N + 1 /\ ~ (i + 1 <= n) /\ i + 1 # n + 1
          /\ (i + 1) - 1 = i
      BY <1>1, <2>2
    <3> QED BY <1>3, <3>1
  <2> QED BY <1>1, <2>1, <2>2
<1>11. n + 1 \in 1..N + 1 /\ new[n + 1] = x
  BY <1>1, <1>3
<1>12. Found(new) = Found(sorted) \cup {x}
  <2>1. Found(new) = {new[i] : i \in 1..N + 1}
    BY <1>2 DEF Found
  <2>2. Found(sorted) = {sorted[i] : i \in 1..N}
    BY DEF Found, N
  <2> QED BY <1>9, <1>10, <1>11, <2>1, <2>2
<1> QED BY <1>8, <1>12 DEF new

\* The rounds of the insertion sort.
Sorting(results) ==
  [i \in 1..Len(results) |->
     [sorted \in Seq(Results) |-> InsertByScore(sorted, results[i])]]

\* sortRetrievalResults orders the results and keeps them all.
LEMMA SortProperties ==
  ASSUME NEW results \in Seq(Results), NoneTwice(results)
  PROVE  /\ SortResults(results) \in Seq(Results)
         /\ Len(SortResults(results)) = Len(results)
         /\ BestFirst(SortResults(results))
         /\ Found(SortResults(results)) = Found(results)
<1> DEFINE n == Len(results)
           Equation(f) == f = [i \in 0..n |->
             IF i = 0 THEN <<>> ELSE InsertByScore(f[i - 1], results[i])]
           sorted == CHOOSE f : Equation(f)
<1>1. n \in Nat /\ \A i \in 1..n : results[i] \in Results
  BY LenProperties, ElementOfSeq
<1>2. Sorting(results) \in [1..n -> [Seq(Results) -> Seq(Results)]]
  BY <1>1, InsertElements DEF Sorting
<1>3. PICK run \in [0..n -> Seq(Results)] : IsRun(run, <<>>, Sorting(results), n)
  <2>1. <<>> \in Seq(Results)
    OBVIOUS
  <2> HIDE DEF n
  <2> QED BY <1>1, <1>2, <2>1, RunExists
<1>4. Equation(run)
  <2>1. ASSUME NEW i \in 1..n
        PROVE  run[i] = InsertByScore(run[i - 1], results[i])
    <3>1. run[i - 1] \in Seq(Results)
      BY <1>1
    <3>2. run[i] = Sorting(results)[i][run[i - 1]]
      BY <1>3 DEF IsRun
    <3> QED BY <3>1, <3>2 DEF Sorting
  <2>2. run[0] = <<>>
    BY <1>3 DEF IsRun
  <2> QED BY <1>1, <2>1, <2>2
<1>5. Equation(sorted)
  <2> HIDE DEF Equation
  <2> QED BY <1>4
<1>6. SortResults(results) = sorted[n]
  BY DEF SortResults
<1> HIDE DEF sorted, n
<1>7. /\ sorted[0] = <<>>
      /\ \A i \in 1..n : sorted[i] = InsertByScore(sorted[i - 1], results[i])
  <2>1. sorted[0] = <<>>
    BY <1>1, <1>5
  <2>2. ASSUME NEW i \in 1..n
        PROVE  sorted[i] = InsertByScore(sorted[i - 1], results[i])
    <3>1. i \in 0..n /\ i # 0
      BY <1>1
    <3> QED BY <1>5, <3>1
  <2> QED BY <2>1, <2>2
<1>8. IsLoop(sorted, Seq(Results), <<>>, Sorting(results), n)
  BY <1>1, <1>7 DEF IsLoop, Sorting, n
<1>9. <<>> \in Seq(Results)
  OBVIOUS
<1> DEFINE First(i) == {results[j] : j \in 1..i}
           Inv == [i \in 0..n |->
                     {z \in Seq(Results) : /\ Len(z) = i
                                           /\ BestFirst(z)
                                           /\ Found(z) = First(i)}]
<1>10. <<>> \in Inv[0]
  <2>1. <<>> \in Seq(Results) /\ Len(<<>>) = 0 /\ DOMAIN <<>> = {}
    OBVIOUS
  <2>2. BestFirst(<<>>)
    BY <2>1 DEF BestFirst
  <2>3. Found(<<>>) = {} /\ First(0) = {}
    BY <2>1 DEF Found
  <2> QED BY <1>1, <2>1, <2>2, <2>3
<1>11. ASSUME NEW i \in 1..n, NEW z \in Seq(Results), z \in Inv[i - 1]
       PROVE  Sorting(results)[i][z] \in Inv[i]
  <2>1. i - 1 \in 0..n /\ i \in 0..n /\ results[i] \in Results
    BY <1>1
  <2>2. Len(z) = i - 1 /\ BestFirst(z) /\ Found(z) = First(i - 1)
    BY <1>11, <2>1
  <2>3. ASSUME NEW k \in 1..Len(z) PROVE z[k].skill # results[i].skill
    <3>1. z[k] \in First(i - 1)
      BY <2>2 DEF Found
    <3>2. PICK j \in 1..(i - 1) : z[k] = results[j]
      BY <3>1
    <3>3. j \in 1..n /\ j < i
      BY <1>1
    <3> QED BY <3>2, <3>3 DEF NoneTwice, n
  <2>4. /\ InsertByScore(z, results[i]) \in Seq(Results)
        /\ Len(InsertByScore(z, results[i])) = i
        /\ BestFirst(InsertByScore(z, results[i]))
        /\ Found(InsertByScore(z, results[i])) = First(i - 1) \cup {results[i]}
    <3>1. /\ InsertByScore(z, results[i]) \in Seq(Results)
          /\ Len(InsertByScore(z, results[i])) = Len(z) + 1
      BY <2>1, InsertElements
    <3>2. /\ BestFirst(InsertByScore(z, results[i]))
          /\ Found(InsertByScore(z, results[i])) = Found(z) \cup {results[i]}
      BY <2>1, <2>2, <2>3, InsertKeepsOrder
    <3> HIDE DEF First, Inv
    <3> QED BY <2>2, <3>1, <3>2
  <2>5. First(i) = First(i - 1) \cup {results[i]}
    <3>1. \A j : j \in 1..i <=> j \in 1..(i - 1) \/ j = i
      BY <1>1
    <3> QED BY <3>1
  <2>6. Sorting(results)[i][z] = InsertByScore(z, results[i])
    BY DEF Sorting, n
  <2> QED BY <2>1, <2>4, <2>5, <2>6
<1>12. sorted[n] \in Inv[n]
  <2>1. IsInductive(Inv, Seq(Results), <<>>, Sorting(results), n)
    BY <1>10, <1>11 DEF IsInductive
  <2>2. IsBody(Sorting(results), Seq(Results), n)
    BY <1>2 DEF IsBody
  <2> HIDE DEF Inv
  <2>3. EachIn(sorted, Inv, n)
    BY <1>1, <1>8, <1>9, <2>1, <2>2, LoopRule
  <2> QED BY <1>1, <2>3 DEF EachIn
<1>13. First(n) = Found(results)
  BY DEF Found, n
<1>14. /\ sorted[n] \in Seq(Results) /\ Len(sorted[n]) = n
       /\ BestFirst(sorted[n]) /\ Found(sorted[n]) = First(n)
  BY <1>1, <1>12
<1> HIDE DEF First
<1> QED BY <1>6, <1>13, <1>14 DEF n

-----------------------------------------------------------------------------
\* The threshold and the cut

\* The rounds of the loop over the index.
Selecting(scored, query) ==
  [i \in 1..Len(scored) |->
     [kept \in Seq(Results) |->
        IF scored[i].points >= Enough(query) THEN Append(kept, scored[i]) ELSE kept]]

\* Appending a result whose skill is not there adds it and repeats no skill.
LEMMA AppendResult ==
  ASSUME NEW kept \in Seq(Results), NEW x \in Results, NoneTwice(kept),
         \A i \in 1..Len(kept) : kept[i].skill # x.skill
  PROVE  /\ Append(kept, x) \in Seq(Results)
         /\ NoneTwice(Append(kept, x))
         /\ Found(Append(kept, x)) = Found(kept) \cup {x}
<1> DEFINE N == Len(kept)
           new == Append(kept, x)
<1>1. N \in Nat
  BY LenProperties
<1>2. /\ new \in Seq(Results) /\ Len(new) = N + 1 /\ new[N + 1] = x
      /\ \A i \in 1..N : new[i] = kept[i]
  OBVIOUS
<1> HIDE DEF new
<1>3. ASSUME NEW i \in 1..N + 1, NEW j \in 1..N + 1, i < j
      PROVE  new[i].skill # new[j].skill
  <2>1. i \in 1..N /\ (j \in 1..N \/ j = N + 1)
    BY <1>1, <1>3
  <2> QED BY <1>2, <1>3, <2>1 DEF NoneTwice
<1>4. NoneTwice(new)
  BY <1>2, <1>3 DEF NoneTwice
<1>5. Found(new) = Found(kept) \cup {x}
  <2>1. \A i : i \in 1..N + 1 <=> i \in 1..N \/ i = N + 1
    BY <1>1
  <2> HIDE DEF N
  <2>2. Found(new) = {new[i] : i \in 1..N + 1} /\ Found(kept) = {kept[i] : i \in 1..N}
    BY <1>2 DEF Found, N
  <2> QED BY <1>2, <2>1, <2>2
<1> QED BY <1>2, <1>4, <1>5 DEF new

\* The loop over the index keeps what reaches the threshold, and nothing else.
LEMMA ThresholdProperties ==
  ASSUME NEW scored \in Seq(Results), NEW query, NoneTwice(scored)
  PROVE  /\ AboveThreshold(scored, query) \in Seq(Results)
         /\ NoneTwice(AboveThreshold(scored, query))
         /\ Found(AboveThreshold(scored, query)) =
              {x \in Found(scored) : x.points >= Enough(query)}
<1> DEFINE n == Len(scored)
           Equation(f) == f = [i \in 0..n |->
             IF i = 0 THEN <<>>
             ELSE IF scored[i].points >= Enough(query) THEN Append(f[i - 1], scored[i])
             ELSE f[i - 1]]
           kept == CHOOSE f : Equation(f)
<1>1. n \in Nat /\ \A i \in 1..n : scored[i] \in Results
  BY LenProperties, ElementOfSeq
<1>2. Selecting(scored, query) \in [1..n -> [Seq(Results) -> Seq(Results)]]
  <2>1. \A i \in 1..n, z \in Seq(Results) : Append(z, scored[i]) \in Seq(Results)
    BY <1>1
  <2> QED BY <2>1 DEF Selecting
<1>3. PICK run \in [0..n -> Seq(Results)] : IsRun(run, <<>>, Selecting(scored, query), n)
  <2>1. <<>> \in Seq(Results)
    OBVIOUS
  <2> HIDE DEF n
  <2> QED BY <1>1, <1>2, <2>1, RunExists
<1>4. Equation(run)
  <2>1. ASSUME NEW i \in 1..n
        PROVE  run[i] = IF scored[i].points >= Enough(query)
                        THEN Append(run[i - 1], scored[i]) ELSE run[i - 1]
    <3>1. run[i - 1] \in Seq(Results)
      BY <1>1
    <3>2. run[i] = Selecting(scored, query)[i][run[i - 1]]
      BY <1>3 DEF IsRun
    <3> QED BY <3>1, <3>2 DEF Selecting, n
  <2>2. run[0] = <<>>
    BY <1>3 DEF IsRun
  <2>3. ASSUME NEW i \in 0..n
        PROVE  run[i] = IF i = 0 THEN <<>>
                        ELSE IF scored[i].points >= Enough(query)
                             THEN Append(run[i - 1], scored[i]) ELSE run[i - 1]
    <3>1. i = 0 \/ (i # 0 /\ i \in 1..n)
      BY <1>1
    <3> QED BY <2>1, <2>2, <3>1
  <2>4. DOMAIN run = 0..n /\ run = [i \in DOMAIN run |-> run[i]]
    OBVIOUS
  <2> HIDE DEF n
  <2> QED BY <2>3, <2>4, Zenon
<1>5. Equation(kept)
  <2> HIDE DEF Equation
  <2> QED BY <1>4
<1>6. AboveThreshold(scored, query) = kept[n]
  BY DEF AboveThreshold
<1> HIDE DEF kept, n
<1>7. /\ kept[0] = <<>>
      /\ \A i \in 1..n : kept[i] = IF scored[i].points >= Enough(query)
                                   THEN Append(kept[i - 1], scored[i]) ELSE kept[i - 1]
  <2>1. kept[0] = <<>>
    BY <1>1, <1>5
  <2>2. ASSUME NEW i \in 1..n
        PROVE  kept[i] = IF scored[i].points >= Enough(query)
                         THEN Append(kept[i - 1], scored[i]) ELSE kept[i - 1]
    <3>1. i \in 0..n /\ i # 0
      BY <1>1
    <3> QED BY <1>5, <3>1
  <2> QED BY <2>1, <2>2
<1>8. IsLoop(kept, Seq(Results), <<>>, Selecting(scored, query), n)
  BY <1>1, <1>7 DEF IsLoop, Selecting, n
<1>9. <<>> \in Seq(Results)
  OBVIOUS
<1> DEFINE First(i) == {x \in {scored[j] : j \in 1..i} : x.points >= Enough(query)}
           Inv == [i \in 0..n |->
                     {z \in Seq(Results) : NoneTwice(z) /\ Found(z) = First(i)}]
<1>10. <<>> \in Inv[0]
  <2>1. <<>> \in Seq(Results) /\ Len(<<>>) = 0
    OBVIOUS
  <2>2. NoneTwice(<<>>) /\ Found(<<>>) = {} /\ First(0) = {}
    BY <2>1 DEF NoneTwice, Found
  <2> QED BY <1>1, <2>1, <2>2
<1>11. ASSUME NEW i \in 1..n, NEW z \in Seq(Results), z \in Inv[i - 1]
       PROVE  Selecting(scored, query)[i][z] \in Inv[i]
  <2>1. i - 1 \in 0..n /\ i \in 0..n /\ scored[i] \in Results
    BY <1>1
  <2>2. NoneTwice(z) /\ Found(z) = First(i - 1)
    BY <1>11, <2>1
  <2>3. \A j : j \in 1..i <=> j \in 1..(i - 1) \/ j = i
    BY <1>1
  <2>4. CASE scored[i].points >= Enough(query)
    <3>1. Selecting(scored, query)[i][z] = Append(z, scored[i])
      BY <2>4 DEF Selecting, n
    <3>2. ASSUME NEW k \in 1..Len(z) PROVE z[k].skill # scored[i].skill
      <4>1. z[k] \in First(i - 1)
        BY <2>2 DEF Found
      <4>2. PICK j \in 1..(i - 1) : z[k] = scored[j]
        BY <4>1
      <4>3. j \in 1..n /\ j < i
        BY <1>1
      <4> QED BY <4>2, <4>3 DEF NoneTwice, n
    <3>3. /\ Append(z, scored[i]) \in Seq(Results)
          /\ NoneTwice(Append(z, scored[i]))
          /\ Found(Append(z, scored[i])) = First(i - 1) \cup {scored[i]}
      <4> HIDE DEF First, Inv
      <4> QED BY <2>1, <2>2, <3>2, AppendResult
    <3>4. First(i) = First(i - 1) \cup {scored[i]}
      BY <2>3, <2>4
    <3> QED BY <2>1, <3>1, <3>3, <3>4
  <2>5. CASE ~ (scored[i].points >= Enough(query))
    <3>1. Selecting(scored, query)[i][z] = z
      BY <2>5 DEF Selecting, n
    <3>2. First(i) = First(i - 1)
      BY <2>3, <2>5
    <3> QED BY <2>1, <2>2, <3>1, <3>2
  <2> QED BY <2>4, <2>5
<1>12. kept[n] \in Inv[n]
  <2>1. IsInductive(Inv, Seq(Results), <<>>, Selecting(scored, query), n)
    BY <1>10, <1>11 DEF IsInductive
  <2>2. IsBody(Selecting(scored, query), Seq(Results), n)
    BY <1>2 DEF IsBody
  <2> HIDE DEF Inv
  <2>3. EachIn(kept, Inv, n)
    BY <1>1, <1>8, <1>9, <2>1, <2>2, LoopRule
  <2> QED BY <1>1, <2>3 DEF EachIn
<1>13. First(n) = {x \in Found(scored) : x.points >= Enough(query)}
  BY DEF Found, n
<1>14. /\ kept[n] \in Seq(Results)
       /\ NoneTwice(kept[n]) /\ Found(kept[n]) = First(n)
  BY <1>1, <1>12
<1> HIDE DEF First
<1> QED BY <1>6, <1>13, <1>14

\* The cut keeps the front of the list, all of it when it is short enough.
LEMMA CutProperties ==
  ASSUME NEW results \in Seq(Results)
  PROVE  LET m == Cut(results)
         IN  /\ m \in Seq(Results)
             /\ Len(m) <= MaxResults
             /\ Len(m) <= Len(results)
             /\ Len(m) < Len(results) => Len(m) = MaxResults
             /\ \A i \in 1..Len(m) : m[i] = results[i]
<1> DEFINE k == IF Len(results) > MaxResults THEN MaxResults ELSE Len(results)
<1>1. Len(results) \in Nat /\ MaxResults \in Nat \ {0}
  BY LenProperties, RetrievalAssumption
<1>2. k \in Nat /\ k <= Len(results)
  BY <1>1
<1>3. Cut(results) = SubSeq(results, 1, k)
  BY DEF Cut
<1>4. /\ SubSeq(results, 1, k) \in Seq(Results)
      /\ Len(SubSeq(results, 1, k)) = k
      /\ \A i \in 1..k : SubSeq(results, 1, k)[i] = results[i]
  <2>1. \A i \in 1..k : results[i] \in Results
    BY <1>1, <1>2, ElementOfSeq
  <2> HIDE DEF k
  <2>2. /\ SubSeq(results, 1, k) \in Seq(Results)
        /\ Len(SubSeq(results, 1, k)) = IF 1 <= k THEN k - 1 + 1 ELSE 0
        /\ \A i \in 1..(k - 1 + 1) : SubSeq(results, 1, k)[i] = results[1 + i - 1]
    BY <1>2, <2>1, SubSeqProperties
  <2> QED BY <1>2, <2>2
<1> QED BY <1>1, <1>3, <1>4

-----------------------------------------------------------------------------
\* The index

\* An order of the registry lists every skill once.
LEMMA IndexIsComplete ==
  ASSUME NEW skills \in SUBSET Skills, NEW index \in SetToSeqs(skills)
  PROVE  \E n \in Nat :
           /\ index \in [1..n -> skills]
           /\ \A i, j \in 1..n : i # j => index[i] # index[j]
           /\ \A s \in skills : \E i \in 1..n : index[i] = s
<1> DEFINE n == Cardinality(skills)
<1>1. IsFiniteSet(skills) /\ n \in Nat
  BY RetrievalAssumption, FS_Subset, FS_CardinalityType
<1>2. index \in [1..n -> skills] /\ \A i, j \in 1..n : i # j => index[i] # index[j]
  BY DEF SetToSeqs
<1> HIDE DEF n
<1>3. index \in Injection(1..n, skills)
  BY <1>2 DEF Injection, IsInjective
<1>4. Cardinality(1..n) = Cardinality(skills)
  BY <1>1, FS_Interval DEF n
<1>5. index \in Surjection(1..n, skills)
  BY <1>1, <1>3, <1>4, FS_Injection
<1>6. \A s \in skills : \E i \in 1..n : index[i] = s
  BY <1>5 DEF Surjection
<1> QED BY <1>1, <1>2, <1>6

\* The scored index holds every skill once, with its score.
LEMMA ScoredProperties ==
  ASSUME NEW skills \in SUBSET Skills, NEW index \in SetToSeqs(skills),
         NEW f \in [skills -> Nat]
  PROVE  /\ Scored(index, f) \in Seq(Results)
         /\ NoneTwice(Scored(index, f))
         /\ Found(Scored(index, f)) = {[skill |-> s, points |-> f[s]] : s \in skills}
<1>1. PICK n \in Nat :
        /\ index \in [1..n -> skills]
        /\ \A i, j \in 1..n : i # j => index[i] # index[j]
        /\ \A s \in skills : \E i \in 1..n : index[i] = s
  BY IndexIsComplete
<1> DEFINE scored == Scored(index, f)
<1>2. scored = [i \in 1..n |-> [skill |-> index[i], points |-> f[index[i]]]]
  BY <1>1 DEF Scored
<1>3. \A i \in 1..n : scored[i] \in Results
  BY <1>1, <1>2 DEF Results
<1>4. scored \in [1..n -> Results]
  BY <1>2, <1>3
<1>5. scored \in Seq(Results) /\ Len(scored) = n
  BY <1>1, <1>4
<1> HIDE DEF scored
<1>6. NoneTwice(scored)
  <2>1. \A i \in 1..n : scored[i].skill = index[i]
    BY <1>2
  <2> QED BY <1>1, <1>5, <2>1 DEF NoneTwice
<1>7. Found(scored) = {[skill |-> s, points |-> f[s]] : s \in skills}
  <2> DEFINE x(s) == [skill |-> s, points |-> f[s]]
  <2>1. \A i \in 1..n : index[i] \in skills
    BY <1>1
  <2>2. \A i \in 1..n : scored[i] = x(index[i])
    BY <1>2
  <2> HIDE DEF x
  <2>3. Found(scored) = {x(s) : s \in skills}
    <3>1. Found(scored) = {scored[i] : i \in 1..n}
      BY <1>5 DEF Found
    <3>2. ASSUME NEW i \in 1..n PROVE scored[i] \in {x(s) : s \in skills}
      BY <2>1, <2>2
    <3>3. ASSUME NEW s \in skills PROVE \E i \in 1..n : scored[i] = x(s)
      <4>1. PICK i \in 1..n : index[i] = s
        BY <1>1
      <4>2. scored[i] = x(s)
        BY <2>2, <4>1
      <4> QED BY <4>2
    <3> QED BY <3>1, <3>2, <3>3
  <2> QED BY <2>3 DEF x
<1> QED BY <1>5, <1>6, <1>7 DEF scored

-----------------------------------------------------------------------------
\* The retrieval

\* What RetrieveSkills returns is the best matches, whatever the order of the
\* index and whichever overlapping tokens the scores were computed with: no
\* skill twice, each one registered and above the threshold, best first, and
\* no skill left out that had to be in the list.
THEOREM RetrievalIsBest ==
  ASSUME NEW query \in Seq(Tokens), NEW skills \in SUBSET Skills,
         NEW results \in Retrievals(query, skills)
  PROVE  results \in Seq(Results) /\ IsBestMatches(results, query, skills)
<1>1. CASE query = <<>>
  BY <1>1 DEF Retrievals, IsBestMatches
<1>2. CASE query # <<>>
  <2>1. PICK index \in SetToSeqs(skills), f \in Scorings(query, skills) :
          results = Cut(SortResults(AboveThreshold(Scored(index, f), query)))
    BY <1>2 DEF Retrievals
  <2> DEFINE scored == Scored(index, f)
             kept == AboveThreshold(scored, query)
             sorted == SortResults(kept)
  <2>2. f \in [skills -> Nat] /\ \A s \in skills : f[s] \in PossiblePoints(query, s)
    BY PointsType DEF Scorings
  <2>3. /\ scored \in Seq(Results) /\ NoneTwice(scored)
        /\ Found(scored) = {[skill |-> s, points |-> f[s]] : s \in skills}
    BY <2>2, ScoredProperties
  <2> HIDE DEF scored
  <2>4. /\ kept \in Seq(Results) /\ NoneTwice(kept)
        /\ Found(kept) = {x \in Found(scored) : x.points >= Enough(query)}
    BY <2>3, ThresholdProperties
  <2> HIDE DEF kept
  <2>5. /\ sorted \in Seq(Results) /\ BestFirst(sorted) /\ Found(sorted) = Found(kept)
    BY <2>4, SortProperties
  <2>6. results = Cut(sorted)
    BY <2>1 DEF scored, kept
  <2> HIDE DEF sorted
  <2>7. /\ results \in Seq(Results)
        /\ Len(results) <= MaxResults
        /\ Len(results) <= Len(sorted)
        /\ Len(results) < Len(sorted) => Len(results) = MaxResults
        /\ \A i \in 1..Len(results) : results[i] = sorted[i]
    BY <2>5, <2>6, CutProperties
  <2> DEFINE N == Len(results)
             M == Len(sorted)
  <2>8. /\ N \in Nat /\ DOMAIN results = 1..N
        /\ M \in Nat /\ DOMAIN sorted = 1..M
        /\ Enough(query) \in Nat /\ MaxResults \in Nat \ {0}
    <3>1. Threshold \in Nat /\ Len(query) \in Nat
      BY RetrievalAssumption, LenProperties
    <3>2. Enough(query) \in Nat
      BY <3>1 DEF Enough
    <3> QED BY <2>5, <2>7, <3>2, RetrievalAssumption, LenProperties
  <2>9. /\ N <= MaxResults /\ N <= M /\ (N < M => N = MaxResults)
        /\ \A i \in 1..N : results[i] = sorted[i]
        /\ \A i \in 1..M : sorted[i] \in Found(sorted)
    BY <2>7 DEF Found
  <2>10. \A i, j \in 1..M : i < j => /\ sorted[i].skill # sorted[j].skill
                                     /\ sorted[i].points >= sorted[j].points
    BY <2>5, <2>8 DEF BestFirst
  <2> HIDE DEF N, M
  <2>11. BestFirst(results)
    <3> SUFFICES ASSUME NEW i \in 1..N, NEW j \in 1..N, i < j
                 PROVE  /\ results[i].skill # results[j].skill
                        /\ results[i].points >= results[j].points
      BY <2>8 DEF BestFirst
    <3>1. i \in 1..M /\ j \in 1..M
      BY <2>8, <2>9
    <3> QED BY <2>9, <2>10, <3>1
  <2>12. ASSUME NEW i \in DOMAIN results PROVE IsEarned(results[i], query, skills)
    <3>1. results[i] \in Found(sorted)
      <4>1. i \in 1..N /\ i \in 1..M
        BY <2>8, <2>9
      <4> QED BY <2>9, <4>1
    <3>2. results[i] \in Found(scored) /\ results[i].points >= Enough(query)
      BY <2>4, <2>5, <3>1
    <3>3. PICK s \in skills : results[i] = [skill |-> s, points |-> f[s]]
      BY <2>3, <3>2
    <3> QED BY <2>2, <3>2, <3>3 DEF IsEarned
  <2>13. ASSUME NEW s \in skills \ {results[i].skill : i \in DOMAIN results}
         PROVE  IsOutdone(s, results, query)
    <3>1. f[s] \in PossiblePoints(query, s) /\ f[s] \in Nat
      BY <2>2
    <3>2. CASE f[s] < Enough(query)
      BY <3>1, <3>2 DEF IsOutdone
    <3>3. CASE f[s] >= Enough(query)
      <4> DEFINE x == [skill |-> s, points |-> f[s]]
      <4>1. x \in Found(sorted)
        BY <2>3, <2>4, <2>5, <3>3
      <4>2. PICK j \in 1..M : x = sorted[j]
        BY <4>1 DEF Found, M
      <4>3. ~ (j \in 1..N)
        <5> SUFFICES ASSUME j \in 1..N PROVE FALSE
          OBVIOUS
        <5>1. results[j].skill = s
          BY <2>9, <4>2
        <5>2. j \in DOMAIN results
          BY <2>8
        <5> QED BY <5>1, <5>2
      <4>4. N = MaxResults /\ MaxResults \in 1..N /\ MaxResults \in 1..M /\ MaxResults < j
        <5>1. N < j /\ N < M
          BY <2>8, <4>3
        <5> QED BY <2>8, <2>9, <5>1
      <4>5. sorted[MaxResults].points >= f[s]
        BY <2>10, <4>2, <4>4
      <4>6. results[MaxResults] = sorted[MaxResults] /\ sorted[MaxResults] \in Results
        BY <2>5, <2>9, <4>4, ElementOfSeq DEF M
      <4>7. f[s] <= results[MaxResults].points
        BY <3>1, <4>5, <4>6 DEF Results
      <4> QED BY <3>1, <4>4, <4>7 DEF IsOutdone, N
    <3> QED BY <2>8, <3>1, <3>2, <3>3
  <2> QED BY <1>2, <2>7, <2>11, <2>12, <2>13 DEF IsBestMatches
<1> QED BY <1>1, <1>2
=============================================================================
