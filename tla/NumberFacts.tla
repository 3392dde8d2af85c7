----------------------------- MODULE NumberFacts -----------------------------
(* Lemmas about integers that the proofs about several components need.        *)
EXTENDS Integers, WellFoundedInduction, TLAPS

\* Any set of naturals that is not empty has a least element.
LEMMA LeastNatural ==
  ASSUME NEW T \in SUBSET Nat, T # {}
  PROVE  \E x \in T : \A y \in T : x =< y
<1> DEFINE R == OpToRel(<, Nat)
<1>1. IsWellFoundedOn(R, Nat)
  BY NatLessThanWellFounded
<1>2. \A x, y \in Nat : <<x, y>> \in R <=> x < y
  BY DEF OpToRel
<1> HIDE DEF R
<1>3. PICK x \in T : \A y \in T : ~(<<y, x>> \in R)
  BY <1>1, WFMin
<1>4. \A y \in T : x \in Nat /\ y \in Nat /\ ~(y < x)
  BY <1>2, <1>3
<1> QED
  BY <1>4

\* Any set of naturals below a bound that is not empty has a greatest element.
LEMMA GreatestNatural ==
  ASSUME NEW m \in Nat, NEW T \in SUBSET (0 .. m), T # {}
  PROVE  \E x \in T : \A y \in T : y =< x
<1> DEFINE S == {m - y : y \in T}
<1>1. S \in SUBSET Nat /\ S # {}
  <2>1. \A y \in T : m - y \in Nat
    OBVIOUS
  <2>2. S \subseteq Nat
    BY <2>1
  <2>3. PICK y \in T : TRUE
    OBVIOUS
  <2>4. m - y \in S
    OBVIOUS
  <2> QED
    BY <2>2, <2>4
<1>2. PICK s \in S : \A r \in S : s =< r
  BY <1>1, LeastNatural
<1>3. PICK x \in T : s = m - x
  BY <1>2
<1>4. ASSUME NEW y \in T PROVE y =< x
  <2>1. m - y \in S
    OBVIOUS
  <2>2. m - x =< m - y /\ x \in 0 .. m /\ y \in 0 .. m
    BY <1>2, <1>3, <2>1
  <2> QED
    BY <2>2
<1> QED
  BY <1>4

\* Quotient and remainder.
LEMMA DivMod ==
  ASSUME NEW a \in Int, NEW b \in Nat \ {0}
  PROVE  /\ a % b \in 0 .. b - 1 /\ a \div b \in Int
         /\ a = b * (a \div b) + (a % b)
OBVIOUS

\* The quotient of a natural is one.
LEMMA DivNatural ==
  ASSUME NEW a \in Nat, NEW b \in Nat \ {0}
  PROVE  a \div b \in Nat
OBVIOUS

\* What is in the range already is its own remainder.
LEMMA ModSmall ==
  ASSUME NEW b \in Nat \ {0}, NEW a \in 0 .. b - 1
  PROVE  a % b = a
OBVIOUS

\* What is just below the range is taken into it.
LEMMA ModBelow ==
  ASSUME NEW b \in Nat \ {0}, NEW a \in -b .. -1
  PROVE  a % b = a + b
<1>1. a + b \in 0 .. b - 1 /\ a = b * (-1) + (a + b)
  OBVIOUS
<1>2. a % b \in 0 .. b - 1 /\ a \div b \in Int /\ a = b * (a \div b) + (a % b)
  BY DivMod
<1>3. CASE a \div b >= 0
  <2>1. b * (a \div b) >= 0
    BY <1>2, <1>3
  <2> QED
    BY <1>2, <2>1
<1>4. CASE a \div b =< -2
  <2>1. b * (a \div b) =< b * (-2)
    BY <1>2, <1>4
  <2> QED
    BY <1>2, <2>1
<1> QED
  BY <1>1, <1>2, <1>3, <1>4

\* A product of naturals is one, and products distribute over sums.
LEMMA Products ==
  ASSUME NEW a \in Nat, NEW b \in Nat, NEW c \in Nat
  PROVE  /\ a * b \in Nat
         /\ (a + b) * c = a * c + b * c
OBVIOUS

-----------------------------------------------------------------------------
(* Loops: recursive functions over a range, and induction along them *)

\* Induction: a set that holds the start, and with each number the next one, holds all.
LEMMA Induction ==
  ASSUME NEW n \in Nat, NEW T \in SUBSET (0 .. n), 0 \in T,
         \A k \in 1 .. n : k - 1 \in T => k \in T
  PROVE  T = 0 .. n
<1> SUFFICES ASSUME NEW m \in 0 .. n, m \notin T PROVE FALSE
  OBVIOUS
<1> DEFINE S == (0 .. n) \ T
<1>1. (\A k \in S : k \in Nat) /\ m \in S
  OBVIOUS
<1>2. PICK x \in S : \A y \in S : x =< y
  <2> HIDE DEF S
  <2> QED
    BY <1>1, LeastNatural
<1>3. x \in 1 .. n /\ x - 1 \in 0 .. n /\ x - 1 < x
  OBVIOUS
<1>4. x - 1 \in T
  BY <1>2, <1>3
<1> QED
  BY <1>3, <1>4

\* f gives the states of a loop that applies Step[k] in its k-th turn.
Runs(f, m, S, start, Step) ==
  /\ f \in [0 .. m -> S] /\ f[0] = start
  /\ \A k \in 1 .. m : f[k] = Step[k][f[k - 1]]

\* It has a state after each turn.
LEMMA LoopExists ==
  ASSUME NEW n \in Nat, NEW S, NEW start \in S, NEW Step \in [1 .. n -> [S -> S]]
  PROVE  \E at : Runs(at, n, S, start, Step)
<1> DEFINE T == {m \in 0 .. n : \E f : Runs(f, m, S, start, Step)}
<1>1. 0 \in T
  <2>1. Runs([k \in 0 .. 0 |-> start], 0, S, start, Step)
    BY DEF Runs
  <2>2. \E f : Runs(f, 0, S, start, Step)
    BY <2>1
  <2> QED
    BY <2>2
<1>2. ASSUME NEW m \in 1 .. n, m - 1 \in T PROVE m \in T
  <2>0. PICK f : Runs(f, m - 1, S, start, Step)
    BY <1>2
  <2>1. /\ f \in [0 .. m - 1 -> S] /\ f[0] = start
        /\ \A k \in 1 .. m - 1 : f[k] = Step[k][f[k - 1]]
    BY <2>0 DEF Runs
  <2> DEFINE g == [k \in 0 .. m |-> IF k = m THEN Step[m][f[m - 1]] ELSE f[k]]
  <2>2. m - 1 \in Nat /\ m # 0 /\ \A k \in 0 .. m : k # m => k \in 0 .. m - 1
    OBVIOUS
  <2>3. Step[m] \in [S -> S] /\ f[m - 1] \in S
    BY <2>1, <2>2
  <2>4. g \in [0 .. m -> S]
    BY <2>1, <2>2, <2>3
  <2>5. g[0] = start
    BY <2>1, <2>2
  <2>6. ASSUME NEW k \in 1 .. m PROVE g[k] = Step[k][g[k - 1]]
    <3>1. k - 1 \in 0 .. m /\ k - 1 # m /\ k \in 0 .. m
      OBVIOUS
    <3>2. g[k - 1] = f[k - 1]
      BY <3>1
    <3>3. CASE k = m
      BY <3>1, <3>2, <3>3
    <3>4. CASE k # m
      <4>1. k \in 1 .. m - 1
        BY <3>4
      <4> QED
        BY <2>1, <3>1, <3>2, <3>4, <4>1
    <3> QED
      BY <3>3, <3>4
  <2>7. \E h : Runs(h, m, S, start, Step)
    <3>1. Runs(g, m, S, start, Step)
      BY <2>4, <2>5, <2>6 DEF Runs
    <3> HIDE DEF g
    <3> QED
      BY <3>1
  <2> QED
    BY <2>7
<1> HIDE DEF T
<1>3. T = 0 .. n
  BY <1>1, <1>2, Induction DEF T
<1>4. n \in T
  BY <1>3
<1> QED
  BY <1>4 DEF T

\* What such a loop is made of, turn by turn.
LEMMA RunsFacts ==
  ASSUME NEW n \in Nat, NEW S, NEW start, NEW Step, NEW f, Runs(f, n, S, start, Step)
  PROVE  /\ f = [k \in 0 .. n |-> f[k]] /\ f[0] = start
         /\ \A k \in 0 .. n : f[k] \in S /\ (k = 0 \/ k \in 1 .. n)
         /\ \A k \in 1 .. n : f[k] = Step[k][f[k - 1]] /\ f[k - 1] \in S /\ k - 1 \in 0 .. n
<1>1. \A k \in 1 .. n : k - 1 \in 0 .. n
  OBVIOUS
<1>2. \A k \in 0 .. n : k = 0 \/ k \in 1 .. n
  OBVIOUS
<1> QED
  BY <1>1, <1>2 DEF Runs

\* The same for a loop that begins behind n and goes back to 1.
RunsBack(f, n, S, start, Step) ==
  /\ f \in [1 .. n + 1 -> S] /\ f[n + 1] = start
  /\ \A k \in 1 .. n : f[k] = Step[k][f[k + 1]]

\* Such a loop has a state after each turn.
LEMMA LoopBackExists ==
  ASSUME NEW n \in Nat, NEW S, NEW start \in S, NEW Step \in [1 .. n -> [S -> S]]
  PROVE  \E at : RunsBack(at, n, S, start, Step)
<1> DEFINE Back == [k \in 1 .. n |-> Step[n + 1 - k]]
<1>1. Back \in [1 .. n -> [S -> S]]
  <2>1. ASSUME NEW k \in 1 .. n PROVE n + 1 - k \in 1 .. n
    OBVIOUS
  <2> QED
    BY <2>1
<1>2. PICK f : /\ f \in [0 .. n -> S] /\ f[0] = start
               /\ \A k \in 1 .. n : f[k] = Back[k][f[k - 1]]
  <2> HIDE DEF Back
  <2>1. \E h : Runs(h, n, S, start, Back)
    BY <1>1, LoopExists
  <2> QED
    BY <2>1 DEF Runs
<1> DEFINE g == [k \in 1 .. n + 1 |-> f[n + 1 - k]]
<1>3. g \in [1 .. n + 1 -> S] /\ g[n + 1] = start
  <2>1. (\A k \in 1 .. n + 1 : n + 1 - k \in 0 .. n) /\ n + 1 - (n + 1) = 0 /\ n + 1 \in 1 .. n + 1
    OBVIOUS
  <2> QED
    BY <1>2, <2>1
<1>4. ASSUME NEW k \in 1 .. n PROVE g[k] = Step[k][g[k + 1]]
  <2>1. /\ n + 1 - k \in 1 .. n /\ n + 1 - (n + 1 - k) = k /\ n + 1 - (k + 1) = n + 1 - k - 1
        /\ k \in 1 .. n + 1 /\ k + 1 \in 1 .. n + 1
    OBVIOUS
  <2>2. f[n + 1 - k] = Back[n + 1 - k][f[n + 1 - k - 1]]
    BY <1>2, <2>1
  <2>3. Back[n + 1 - k] = Step[k]
    BY <2>1
  <2>4. g[k] = f[n + 1 - k] /\ g[k + 1] = f[n + 1 - k - 1]
    BY <2>1
  <2> QED
    BY <2>2, <2>3, <2>4
<1>5. RunsBack(g, n, S, start, Step)
  BY <1>3, <1>4 DEF RunsBack
<1> QED
  BY <1>5

=============================================================================
