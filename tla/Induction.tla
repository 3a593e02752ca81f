----------------------------- MODULE Induction -----------------------------
(***************************************************************************)
(* What a loop computes, for every number of rounds: induction over the    *)
(* naturals and the recursive functions with which the modules write the   *)
(* loops of the code.  Nothing here is about this system.                  *)
(*                                                                         *)
(* The statements take sets and functions, so that first-order provers can *)
(* use them: an induction hypothesis is a set of naturals, a loop body a   *)
(* function from the round and the state to the next state.                *)
(***************************************************************************)
EXTENDS Integers, Sequences, WellFoundedInduction, TLAPS

\* A set of naturals that is not empty has a least element.
LEMMA LeastNat ==
  ASSUME NEW T \in SUBSET Nat, T # {}
  PROVE  \E n \in T : \A m \in T : n <= m
<1>1. \E n \in T : \A m \in T : ~ (<<m, n>> \in OpToRel(<, Nat))
  BY NatLessThanWellFounded, WFMin
<1>2. \A m, n \in Nat : ~ (<<m, n>> \in OpToRel(<, Nat)) => n <= m
  BY DEF OpToRel
<1> QED BY <1>1, <1>2

\* Induction: a set that holds 0, and the successor of whatever it holds,
\* holds every natural number.
THEOREM SetInduction ==
  ASSUME NEW P \in SUBSET Nat, 0 \in P, \A n \in P : n + 1 \in P
  PROVE  P = Nat
<1> SUFFICES ASSUME Nat \ P # {} PROVE FALSE
  OBVIOUS
<1>1. PICK n \in Nat \ P : \A m \in Nat \ P : n <= m
  BY LeastNat
<1>2. n - 1 \in P
  BY <1>1
<1> QED BY <1>1, <1>2

-----------------------------------------------------------------------------
\* Loops

\* run holds the states of a loop that starts in start and whose i-th round
\* takes a state x to body[i][x].
IsRun(run, start, body, rounds) ==
  /\ run[0] = start
  /\ \A i \in 1..rounds : run[i] = body[i][run[i - 1]]

\* A loop has a run, whose states have the type its body keeps.
THEOREM RunExists ==
  ASSUME NEW S, NEW start \in S, NEW rounds \in Nat,
         NEW body \in [1..rounds -> [S -> S]]
  PROVE  \E run \in [0..rounds -> S] : IsRun(run, start, body, rounds)
<1> DEFINE P == {n \in Nat : n <= rounds =>
                   \E run \in [0..n -> S] : IsRun(run, start, body, n)}
<1>1. 0 \in P
  <2>1. IsRun([i \in 0..0 |-> start], start, body, 0)
    BY DEF IsRun
  <2> QED BY <2>1
<1>2. ASSUME NEW n \in P PROVE n + 1 \in P
  <2> SUFFICES ASSUME n + 1 <= rounds
               PROVE  \E run \in [0..(n + 1) -> S] : IsRun(run, start, body, n + 1)
    OBVIOUS
  <2>1. PICK run \in [0..n -> S] : IsRun(run, start, body, n)
    OBVIOUS
  <2> DEFINE longer == [i \in 0..(n + 1) |->
                          IF i <= n THEN run[i] ELSE body[n + 1][run[n]]]
  <2>2. longer \in [0..(n + 1) -> S]
    BY <2>1
  <2>3. longer[0] = start
    BY <2>1 DEF IsRun
  <2>4. ASSUME NEW i \in 1..(n + 1) PROVE longer[i] = body[i][longer[i - 1]]
    <3>1. CASE i <= n
      <4>1. i \in 1..n /\ i - 1 \in 0..n /\ i \in 0..n
        BY <3>1
      <4>2. longer[i] = run[i] /\ longer[i - 1] = run[i - 1]
        BY <4>1
      <4> QED BY <2>1, <4>1, <4>2 DEF IsRun
    <3>2. CASE i = n + 1
      <4>1. longer[i] = body[n + 1][run[n]] /\ longer[i - 1] = run[n]
        BY <3>2
      <4> QED BY <4>1, <3>2
    <3> QED BY <3>1, <3>2
  <2>5. IsRun(longer, start, body, n + 1)
    BY <2>3, <2>4 DEF IsRun
  <2> QED BY <2>2, <2>5
<1>3. P = Nat
  <2> HIDE DEF P
  <2> QED BY <1>1, <1>2, SetInduction DEF P
<1>4. rounds \in P
  <2> HIDE DEF P
  <2> QED BY <1>3
<1> QED BY <1>4

\* Two loops that start alike and whose first rounds do the same are in the
\* same state after those rounds.
THEOREM RunsAgree ==
  ASSUME NEW start, NEW rounds \in Nat, NEW run, NEW other, NEW body, NEW more,
         IsRun(run, start, body, rounds), IsRun(other, start, more, rounds),
         \A i \in 1..rounds : body[i] = more[i]
  PROVE  \A i \in 0..rounds : run[i] = other[i]
<1> DEFINE P == {n \in Nat : n <= rounds => run[n] = other[n]}
<1>1. 0 \in P
  BY DEF IsRun
<1>2. ASSUME NEW n \in P PROVE n + 1 \in P
  <2> SUFFICES ASSUME n + 1 <= rounds PROVE run[n + 1] = other[n + 1]
    OBVIOUS
  <2>1. n + 1 \in 1..rounds /\ (n + 1) - 1 = n /\ run[n] = other[n]
    OBVIOUS
  <2>2. run[n + 1] = body[n + 1][run[n]] /\ other[n + 1] = more[n + 1][other[n]]
    BY <2>1 DEF IsRun
  <2> QED BY <2>1, <2>2
<1>3. P = Nat
  <2> HIDE DEF P
  <2> QED BY <1>1, <1>2, SetInduction DEF P
<1>4. \A i \in 0..rounds : i \in P
  <2> HIDE DEF P
  <2> QED BY <1>3
<1> QED BY <1>4

\* loop makes the rounds of body as long as it stays in S, which is what can be
\* said of
\*   loop[i \in 0..rounds] == IF i = 0 THEN start ELSE ... loop[i - 1] ...
\* before the type of its values is known.
IsLoop(loop, S, start, body, rounds) ==
  /\ loop[0] = start
  /\ \A i \in 1..rounds : loop[i - 1] \in S => loop[i] = body[i][loop[i - 1]]

\* Such a recursive function is the run of its loop.
THEOREM LoopIsRun ==
  ASSUME NEW S, NEW start, NEW body, NEW run, NEW loop, NEW rounds \in Nat,
         body \in [1..rounds -> [S -> S]], run \in [0..rounds -> S],
         IsRun(run, start, body, rounds), IsLoop(loop, S, start, body, rounds)
  PROVE  \A i \in 0..rounds : loop[i] = run[i]
<1> DEFINE P == {n \in Nat : n <= rounds => loop[n] = run[n]}
<1>1. 0 \in P
  BY DEF IsRun, IsLoop
<1>2. ASSUME NEW n \in P PROVE n + 1 \in P
  <2> SUFFICES ASSUME n + 1 <= rounds PROVE loop[n + 1] = run[n + 1]
    OBVIOUS
  <2>1. n + 1 \in 1..rounds /\ (n + 1) - 1 = n /\ loop[n] = run[n] /\ run[n] \in S
    OBVIOUS
  <2>2. loop[n + 1] = body[n + 1][loop[n]]
    BY <2>1 DEF IsLoop
  <2>3. run[n + 1] = body[n + 1][run[n]]
    BY <2>1 DEF IsRun
  <2> QED BY <2>1, <2>2, <2>3
<1>3. P = Nat
  <2> HIDE DEF P
  <2> QED BY <1>1, <1>2, SetInduction DEF P
<1>4. \A i \in 0..rounds : i \in P
  <2> HIDE DEF P
  <2> QED BY <1>3
<1> QED BY <1>4

\* The rule for loops: what holds at the start, and after a round whenever it
\* held before, holds after every round.  Inv[i] is the set of the states that
\* are right after i rounds.
THEOREM LoopInvariant ==
  ASSUME NEW S, NEW start, NEW body, NEW run, NEW Inv, NEW rounds \in Nat,
         run \in [0..rounds -> S], IsRun(run, start, body, rounds), start \in Inv[0],
         \A i \in 1..rounds : \A x \in S : x \in Inv[i - 1] => body[i][x] \in Inv[i]
  PROVE  \A i \in 0..rounds : run[i] \in Inv[i]
<1> DEFINE P == {n \in Nat : n <= rounds => run[n] \in Inv[n]}
<1>1. 0 \in P
  BY DEF IsRun
<1>2. ASSUME NEW n \in P PROVE n + 1 \in P
  <2> SUFFICES ASSUME n + 1 <= rounds PROVE run[n + 1] \in Inv[n + 1]
    OBVIOUS
  <2>1. n + 1 \in 1..rounds /\ (n + 1) - 1 = n /\ run[n] \in Inv[n] /\ run[n] \in S
    OBVIOUS
  <2>2. body[n + 1][run[n]] \in Inv[n + 1]
    BY <2>1
  <2>3. run[n + 1] = body[n + 1][run[n]]
    BY <2>1 DEF IsRun
  <2> QED BY <2>2, <2>3
<1>3. P = Nat
  <2> HIDE DEF P
  <2> QED BY <1>1, <1>2, SetInduction DEF P
<1>4. \A i \in 0..rounds : i \in P
  <2> HIDE DEF P
  <2> QED BY <1>3
<1> QED BY <1>4

\* The same rule for a recursive function, with its hypotheses named: what is
\* matched by name is found by every prover, whatever the states are.
IsBody(body, S, rounds) == body \in [1..rounds -> [S -> S]]

IsInductive(Inv, S, start, body, rounds) ==
  /\ start \in Inv[0]
  /\ \A i \in 1..rounds : \A x \in S : x \in Inv[i - 1] => body[i][x] \in Inv[i]

EachIn(loop, Inv, rounds) == \A i \in 0..rounds : loop[i] \in Inv[i]

\* A recursive function that makes the rounds of a loop is in the states that
\* the loop's inductive invariant allows.
THEOREM LoopRule ==
  ASSUME NEW S, NEW start \in S, NEW body, NEW loop, NEW Inv, NEW rounds \in Nat,
         IsBody(body, S, rounds), IsLoop(loop, S, start, body, rounds),
         IsInductive(Inv, S, start, body, rounds)
  PROVE  EachIn(loop, Inv, rounds)
<1>1. PICK run \in [0..rounds -> S] : IsRun(run, start, body, rounds)
  BY RunExists DEF IsBody
<1>2. \A i \in 0..rounds : loop[i] = run[i]
  BY <1>1, LoopIsRun DEF IsBody
<1>3. \A i \in 0..rounds : run[i] \in Inv[i]
  BY <1>1, LoopInvariant DEF IsInductive
<1> QED BY <1>2, <1>3 DEF EachIn
=============================================================================
