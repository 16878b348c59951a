------------------------------ MODULE DataLemmas ------------------------------
(***************************************************************************)
(* Facts about the data the modules are built from, each proved once: the  *)
(* induction principles, fixed-point arithmetic with its powers, sums over *)
(* finite sets of borrowers, and sequences.  The induction theorems of the *)
(* library take an operator as a parameter; here a property to be proved   *)
(* by induction is the set of the naturals that have it, so that every     *)
(* lemma is first-order.                                                   *)
(***************************************************************************)
EXTENDS Integers, FiniteSets, SequencesExt, FiniteSetTheorems,
        WellFoundedInduction, SequenceTheorems, TLAPS

------------------------------------------------------------------------------
(* Induction. *)

(* A non-empty set of naturals has a least element. *)
LEMMA LeastNatural ==
  ASSUME NEW T, T \subseteq Nat, T # {}
  PROVE  \E x \in T : \A y \in T : x <= y
<1> DEFINE R == {ss \in Nat \X Nat : ss[1] < ss[2]}
<1>1. IsWellFoundedOn(R, Nat)
  BY NatLessThanWellFounded DEF OpToRel
<1>2. PICK x \in T : \A y \in T : <<y, x>> \notin R
  <2> HIDE DEF R
  <2> QED BY <1>1, WFMin
<1>3. \A y \in T : ~(y < x)
  BY <1>2
<1> QED BY <1>3

(* A set that contains zero and the successor of each natural it contains  *)
(* contains all of them.                                                   *)
LEMMA SetInduction ==
  ASSUME NEW T, 0 \in T, \A n \in Nat : n \in T => n + 1 \in T
  PROVE  \A n \in Nat : n \in T
<1> SUFFICES ASSUME ~(Nat \subseteq T) PROVE FALSE
  OBVIOUS
<1> DEFINE U == Nat \ T
<1>1. U \subseteq Nat /\ U # {}
  OBVIOUS
<1>2. PICK x \in U : \A y \in U : x <= y
  <2> HIDE DEF U
  <2> QED BY <1>1, LeastNatural
<1>3. x # 0
  OBVIOUS
<1>4. x - 1 \in Nat /\ x - 1 \notin U
  BY <1>2, <1>3
<1> QED BY <1>4

(* Induction from all smaller naturals. *)
LEMMA StrongInduction ==
  ASSUME NEW T, \A n \in Nat : (\A m \in 0..(n - 1) : m \in T) => n \in T
  PROVE  \A n \in Nat : n \in T
<1> DEFINE U == Nat \ T
<1> SUFFICES ASSUME U # {} PROVE FALSE
  OBVIOUS
<1>1. PICK n \in U : \A y \in U : n <= y
  <2>1. U \subseteq Nat
    OBVIOUS
  <2> HIDE DEF U
  <2> QED BY <2>1, LeastNatural
<1>2. \A m \in 0..(n - 1) : m \in T
  BY <1>1
<1> QED BY <1>1, <1>2

(* Induction over the positions of a loop that runs from 0 to n. *)
LEMMA LoopInduction ==
  ASSUME NEW n \in Nat, NEW T, 0 \in T, \A i \in 1..n : i - 1 \in T => i \in T
  PROVE  \A i \in 0..n : i \in T
<1> DEFINE U == T \cup {i \in Nat : i > n}
<1>1. 0 \in U
  OBVIOUS
<1>2. ASSUME NEW i \in Nat, i \in U PROVE i + 1 \in U
  <2>1. CASE i + 1 > n
    BY <2>1
  <2>2. CASE i + 1 <= n
    <3>1. i \in T /\ i + 1 \in 1..n /\ (i + 1) - 1 = i
      BY <2>2, <1>2
    <3> QED BY <3>1
  <2> QED BY <2>1, <2>2
<1>3. \A i \in Nat : i \in U
  <2> HIDE DEF U
  <2> QED BY <1>1, <1>2, SetInduction
<1> QED BY <1>3

(* Induction over a finite set, one element added at a time. *)
LEMMA FiniteInduction ==
  ASSUME NEW S, IsFiniteSet(S), NEW P, {} \in P,
         \A s \in SUBSET S : \A x \in S \ s : s \in P => s \cup {x} \in P
  PROVE  S \in P
<1> DEFINE T == {n \in Nat : \A s \in SUBSET S : Cardinality(s) = n => s \in P}
<1>1. \A s \in SUBSET S : IsFiniteSet(s) /\ Cardinality(s) \in Nat
  BY FS_Subset, FS_CardinalityType
<1>2. 0 \in T
  BY <1>1, FS_EmptySet
<1>3. ASSUME NEW n \in Nat, n \in T PROVE n + 1 \in T
  <2> SUFFICES ASSUME NEW s \in SUBSET S, Cardinality(s) = n + 1 PROVE s \in P
    OBVIOUS
  <2>1. IsFiniteSet(s) /\ s # {}
    BY <1>1, FS_EmptySet
  <2>2. PICK x \in s : TRUE
    BY <2>1
  <2>3. Cardinality(s \ {x}) = Cardinality(s) - 1
    BY <2>1, FS_RemoveElement
  <2>4. s \ {x} \in P
    BY <2>3, <1>3
  <2>5. (s \ {x}) \cup {x} = s /\ x \in S \ (s \ {x})
    OBVIOUS
  <2>6. (s \ {x}) \cup {x} \in P
    BY <2>4, <2>5
  <2> QED BY <2>5, <2>6
<1>4. \A n \in Nat : n \in T
  <2> HIDE DEF T
  <2> QED BY <1>2, <1>3, SetInduction
<1> QED BY <1>1, <1>4

------------------------------------------------------------------------------
(* Arithmetic. *)

(* Products and floor quotients of amounts are amounts. *)
LEMMA NatProduct == \A x, y \in Nat : x * y \in Nat
  OBVIOUS

(* Floor quotients and remainders of amounts are amounts.                  *)
LEMMA NatQuotient == \A x \in Nat, y \in Nat \ {0} : x \div y \in Nat /\ x % y \in Nat
  OBVIOUS

(* The floor quotient bounds what it divides. *)
LEMMA FloorQuotient ==
  \A x \in Nat, y \in Nat \ {0} : (x \div y) * y <= x /\ x < (x \div y) * y + y
  OBVIOUS

(* A quotient is at least q exactly when q times the divisor fits. *)
LEMMA QuotientAtLeast ==
  \A x \in Nat, y \in Nat \ {0}, q \in Int : q * y <= x => q <= x \div y
  OBVIOUS

(* The same, with the divisor in front.                                    *)
LEMMA DivisionBounds ==
  ASSUME NEW x \in Nat, NEW d \in Nat \ {0}
  PROVE  /\ x \div d \in Nat
         /\ d * (x \div d) <= x
         /\ x < d * (x \div d) + d
<1>1. x \div d \in Int /\ x % d \in 0..(d-1) /\ x = d * (x \div d) + (x % d)
  BY SMT
<1>2. x \div d >= 0
  BY SMT
<1> QED BY <1>1, <1>2

(* A larger dividend has no smaller quotient.                              *)
LEMMA QuotientGrows ==
  ASSUME NEW x \in Nat, NEW y \in Nat, x <= y, NEW d \in Nat \ {0}
  PROVE  x \div d <= y \div d
<1> DEFINE p == x \div d
           q == y \div d
<1>1. p \in Nat /\ q \in Nat /\ d * p <= x /\ y < d * q + d
  BY DivisionBounds
<1> HIDE DEF p, q
<1>2. d * p < d * (q + 1)
  <2>1. d * (q + 1) = d * q + d
    BY <1>1
  <2> QED BY <1>1, <2>1
<1>3. p < q + 1
  <2> SUFFICES ASSUME p >= q + 1 PROVE FALSE
    BY <1>1
  <2>1. d * p >= d * (q + 1)
    BY <1>1
  <2> QED BY <1>1, <1>2, <2>1
<1> QED BY <1>1, <1>3 DEF p, q


(* A product of two decimals of precision D, rounded half up.              *)
Rounded(D, x, y) == (x * y + D \div 2) \div D

(* The product of two decimals is a natural number.                        *)
LEMMA RoundedNat ==
  ASSUME NEW D \in Nat \ {0}, NEW x \in Nat, NEW y \in Nat
  PROVE  Rounded(D, x, y) \in Nat
<1> DEFINE half == D \div 2
<1>1. half \in Nat
  BY DivisionBounds
<1>2. x * y \in Nat
  OBVIOUS
<1> HIDE DEF half
<1>3. x * y + half \in Nat
  BY <1>1, <1>2
<1>4. (x * y + half) \div D \in Nat
  BY <1>3, DivisionBounds
<1> QED BY <1>4 DEF Rounded, half

(* It grows with both factors.                                             *)
LEMMA RoundedGrows ==
  ASSUME NEW D \in Nat \ {0}, NEW x \in Nat, NEW y \in Nat,
         NEW u \in Nat, NEW v \in Nat, x <= u, y <= v
  PROVE  Rounded(D, x, y) <= Rounded(D, u, v)
<1> DEFINE half == D \div 2
<1>1. half \in Nat
  BY DivisionBounds
<1>2. x * y <= u * v /\ x * y \in Nat /\ u * v \in Nat
  <2>1. x * y <= u * y
    OBVIOUS
  <2>2. u * y <= u * v
    OBVIOUS
  <2>3. x * y \in Nat /\ u * y \in Nat /\ u * v \in Nat
    OBVIOUS
  <2> QED BY <2>1, <2>2, <2>3
<1> HIDE DEF half
<1>3. /\ x * y + half \in Nat /\ u * v + half \in Nat
      /\ x * y + half <= u * v + half
  BY <1>1, <1>2
<1>4. (x * y + half) \div D <= (u * v + half) \div D
  BY <1>3, QuotientGrows
<1> QED BY <1>4 DEF Rounded, half

(* One is neutral.                                                         *)
LEMMA RoundedOne ==
  ASSUME NEW D \in Nat \ {0}, NEW x \in Nat
  PROVE  Rounded(D, x, D) = x /\ Rounded(D, D, x) = x
<1> DEFINE half == D \div 2
           q == (D * x + half) \div D
<1>2. half \in Nat /\ 2 * half <= D
  BY DivisionBounds
<1> HIDE DEF half
<1>3. D * x \in Nat /\ D * x + half \in Nat
  BY <1>2
<1>4. q \in Nat /\ D * q <= D * x + half /\ D * x + half < D * q + D
  BY <1>3, DivisionBounds
<1> HIDE DEF q
<1>5. D * q < D * (x + 1) /\ D * x < D * (q + 1)
  <2>1. D * (x + 1) = D * x + D /\ D * (q + 1) = D * q + D
    BY <1>4
  <2>2. half < D
    BY <1>2
  <2>3. D * q \in Nat
    BY <1>4
  <2> QED BY <1>2, <1>3, <1>4, <2>1, <2>2, <2>3
<1>6. q < x + 1
  <2> SUFFICES ASSUME q >= x + 1 PROVE FALSE
    BY <1>4
  <2>1. D * q >= D * (x + 1)
    BY <1>4
  <2> QED BY <1>4, <1>5, <2>1
<1>7. x < q + 1
  <2> SUFFICES ASSUME x >= q + 1 PROVE FALSE
    BY <1>4
  <2>1. D * x >= D * (q + 1)
    BY <1>4
  <2> QED BY <1>4, <1>5, <2>1
<1>8. q = x
  BY <1>4, <1>6, <1>7
<1>9. D * x = x * D
  OBVIOUS
<1>10. (x * D + half) \div D = x /\ (D * x + half) \div D = x
  BY <1>8, <1>9 DEF q
<1> QED BY <1>10 DEF Rounded, half

(* A factor up to one makes no decimal larger.                             *)
LEMMA RoundedShrinks ==
  ASSUME NEW D \in Nat \ {0}, NEW x \in Nat, NEW y \in Nat, x <= D
  PROVE  Rounded(D, x, y) \in 0..y
<1>1. Rounded(D, x, y) <= Rounded(D, D, y)
  BY RoundedGrows
<1> QED BY <1>1, RoundedOne, RoundedNat

------------------------------------------------------------------------------
(* Powers by squaring: the loop of _decPow.  The functions map an exponent *)
(* n, a factor x and an accumulator y to what is left of the loop.         *)

(* One turn of the loop, the rest being left to the function g.            *)
LoopTurn(D, g, x, y, n) ==
  IF n <= 1 THEN Rounded(D, x, y)
  ELSE IF n % 2 = 0 THEN g[n \div 2][Rounded(D, x, x)][y]
  ELSE g[(n - 1) \div 2][Rounded(D, x, x)][Rounded(D, x, y)]

(* A function that is the loop for all exponents up to k.                  *)
LoopUpTo(D, g, k) ==
  \A x \in Nat, y \in Nat, n \in 0..k : g[n][x][y] = LoopTurn(D, g, x, y, n)

(* half of an exponent above one is a smaller exponent, and not zero.      *)
LEMMA Halves ==
  ASSUME NEW D \in Nat \ {0}, NEW n \in Nat, n > 1
  PROVE  /\ n % 2 = 0 => n \div 2 \in 1..(n - 1) /\ n = 2 * (n \div 2)
         /\ n % 2 # 0 => (n - 1) \div 2 \in 1..(n - 1) /\ n = 2 * ((n - 1) \div 2) + 1
BY SMT

(* The two functions agree on all exponents below n.                       *)
AgreeBelow(g, h, n) ==
  \A u \in Nat, v \in Nat, m \in 0..(n - 1) : g[m][u][v] = h[m][u][v]

(* A turn asks only for smaller exponents.                                 *)
LEMMA TurnDependsOnSmaller ==
  ASSUME NEW D \in Nat \ {0}, NEW g, NEW h, NEW x \in Nat, NEW y \in Nat, NEW n \in Nat,
         AgreeBelow(g, h, n)
  PROVE  LoopTurn(D, g, x, y, n) = LoopTurn(D, h, x, y, n)
<1>1. CASE n <= 1
  BY <1>1 DEF LoopTurn
<1>2. CASE n > 1
  <2>1. Rounded(D, x, x) \in Nat /\ Rounded(D, x, y) \in Nat
    BY RoundedNat
  <2>2. CASE n % 2 = 0
    <3>1. n \div 2 \in 0..(n - 1)
      BY <1>2, <2>2, Halves
    <3>2. g[n \div 2][Rounded(D, x, x)][y] = h[n \div 2][Rounded(D, x, x)][y]
      BY <2>1, <3>1 DEF AgreeBelow
    <3> QED BY <1>2, <2>2, <3>2 DEF LoopTurn
  <2>3. CASE n % 2 # 0
    <3>1. (n - 1) \div 2 \in 0..(n - 1)
      BY <1>2, <2>3, Halves
    <3>2. g[(n - 1) \div 2][Rounded(D, x, x)][Rounded(D, x, y)]
            = h[(n - 1) \div 2][Rounded(D, x, x)][Rounded(D, x, y)]
      BY <2>1, <3>1 DEF AgreeBelow
    <3> QED BY <1>2, <2>3, <3>2 DEF LoopTurn
  <2> QED BY <2>2, <2>3
<1> QED BY <1>1, <1>2

(* So there is only one such function,                                     *)
LEMMA LoopIsUnique ==
  ASSUME NEW D \in Nat \ {0}, NEW k \in Nat, NEW g, LoopUpTo(D, g, k),
         NEW h, LoopUpTo(D, h, k)
  PROVE  \A x \in Nat, y \in Nat, n \in 0..k : g[n][x][y] = h[n][x][y]
<1> DEFINE T == {n \in Nat : n <= k => \A x \in Nat, y \in Nat : g[n][x][y] = h[n][x][y]}
<1>1. ASSUME NEW n \in Nat, \A m \in 0..(n - 1) : m \in T
      PROVE  n \in T
  <2> SUFFICES ASSUME n <= k, NEW x \in Nat, NEW y \in Nat PROVE g[n][x][y] = h[n][x][y]
    OBVIOUS
  <2>1. AgreeBelow(g, h, n)
    BY <1>1 DEF AgreeBelow
  <2>2. LoopTurn(D, g, x, y, n) = LoopTurn(D, h, x, y, n)
    BY <2>1, TurnDependsOnSmaller
  <2>3. n \in 0..k
    OBVIOUS
  <2> QED BY <2>2, <2>3 DEF LoopUpTo
<1>2. \A n \in Nat : n \in T
  <2> HIDE DEF T
  <2> QED BY <1>1, StrongInduction
<1> QED BY <1>2

(* and there is one up to every exponent.                                  *)
LEMMA LoopExistsUpTo ==
  ASSUME NEW D \in Nat \ {0}
  PROVE  \A k \in Nat : \E g : LoopUpTo(D, g, k)
<1> DEFINE T == {k \in Nat : \E g : LoopUpTo(D, g, k)}
<1>1. 0 \in T
  <2> DEFINE g == [n \in Nat |-> [x \in Nat |-> [y \in Nat |-> Rounded(D, x, y)]]]
  <2>1. LoopUpTo(D, g, 0)
    BY DEF LoopUpTo, LoopTurn
  <2> QED BY <2>1
<1>2. ASSUME NEW k \in Nat, k \in T PROVE k + 1 \in T
  <2>1. PICK h : LoopUpTo(D, h, k)
    BY <1>2
  <2> DEFINE g == [n \in Nat |-> [x \in Nat |-> [y \in Nat |-> LoopTurn(D, h, x, y, n)]]]
  <2>2. ASSUME NEW x \in Nat, NEW y \in Nat, NEW n \in 0..k PROVE g[n][x][y] = h[n][x][y]
    BY <2>1 DEF LoopUpTo
  <2>3. \A x \in Nat, y \in Nat, n \in Nat : g[n][x][y] = LoopTurn(D, h, x, y, n)
    OBVIOUS
  <2> HIDE DEF g
  <2>4. ASSUME NEW x \in Nat, NEW y \in Nat, NEW n \in 0..(k + 1)
        PROVE  g[n][x][y] = LoopTurn(D, g, x, y, n)
    <3>1. AgreeBelow(g, h, n) /\ n \in Nat
      BY <2>2 DEF AgreeBelow
    <3>2. LoopTurn(D, g, x, y, n) = LoopTurn(D, h, x, y, n)
      BY <3>1, TurnDependsOnSmaller
    <3> QED BY <2>3, <3>2
  <2>5. LoopUpTo(D, g, k + 1)
    BY <2>4 DEF LoopUpTo
  <2> QED BY <2>5
<1>3. \A k \in Nat : k \in T
  <2> HIDE DEF T
  <2> QED BY <1>1, <1>2, SetInduction
<1> QED BY <1>3

(* The equation that defines it.                                           *)
IsSquaring(D, f) ==
  f = [n \in Nat |-> [x \in Nat |-> [y \in Nat |->
         IF n <= 1 THEN Rounded(D, x, y)
         ELSE IF n % 2 = 0 THEN f[n \div 2][Rounded(D, x, x)][y]
         ELSE f[(n - 1) \div 2][Rounded(D, x, x)][Rounded(D, x, y)]]]]

(* Such a function exists: at n, take the one up to n.                     *)
LEMMA SquaringExists == ASSUME NEW D \in Nat \ {0} PROVE \E f : IsSquaring(D, f)
<1> DEFINE G(k) == CHOOSE g : LoopUpTo(D, g, k)
           f == [n \in Nat |-> [x \in Nat |-> [y \in Nat |-> G(n)[n][x][y]]]]
<1>1. \A k \in Nat : LoopUpTo(D, G(k), k)
  BY LoopExistsUpTo
<1>2. \A x \in Nat, y \in Nat, n \in Nat : f[n][x][y] = G(n)[n][x][y]
  OBVIOUS
<1>3. f = [n \in Nat |-> [x \in Nat |-> [y \in Nat |-> f[n][x][y]]]]
  OBVIOUS
<1> HIDE DEF G, f
<1>4. ASSUME NEW x \in Nat, NEW y \in Nat, NEW n \in Nat
      PROVE  f[n][x][y] = LoopTurn(D, f, x, y, n)
  <2>1. ASSUME NEW u \in Nat, NEW v \in Nat, NEW m \in 0..(n - 1)
        PROVE  f[m][u][v] = G(n)[m][u][v]
    <3>1. m \in Nat /\ m \in 0..m /\ LoopUpTo(D, G(m), m)
      BY <1>1
    <3>2. LoopUpTo(D, G(n), m)
      BY <1>1 DEF LoopUpTo
    <3>3. G(m)[m][u][v] = G(n)[m][u][v]
      BY <3>1, <3>2, LoopIsUnique
    <3> QED BY <1>2, <3>1, <3>3
  <2>2. AgreeBelow(f, G(n), n)
    BY <2>1 DEF AgreeBelow
  <2>4. LoopTurn(D, f, x, y, n) = LoopTurn(D, G(n), x, y, n)
    BY <2>2, TurnDependsOnSmaller
  <2>3. G(n)[n][x][y] = LoopTurn(D, G(n), x, y, n)
    <3>1. LoopUpTo(D, G(n), n) /\ n \in 0..n
      BY <1>1
    <3> QED BY <3>1 DEF LoopUpTo
  <2> QED BY <1>2, <2>3, <2>4
<1>5. f = [n \in Nat |-> [x \in Nat |-> [y \in Nat |-> LoopTurn(D, f, x, y, n)]]]
  <2> DEFINE h == [n \in Nat |-> [x \in Nat |-> [y \in Nat |-> LoopTurn(D, f, x, y, n)]]]
  <2>1. ASSUME NEW n \in Nat, NEW x \in Nat
        PROVE  [y \in Nat |-> f[n][x][y]] = [y \in Nat |-> LoopTurn(D, f, x, y, n)]
    BY <1>4
  <2>2. ASSUME NEW n \in Nat
        PROVE  [x \in Nat |-> [y \in Nat |-> f[n][x][y]]]
                 = [x \in Nat |-> [y \in Nat |-> LoopTurn(D, f, x, y, n)]]
    BY <2>1, Zenon
  <2>3. [n \in Nat |-> [x \in Nat |-> [y \in Nat |-> f[n][x][y]]]] = h
    BY <2>2, Zenon
  <2> QED BY <1>3, <2>3, Zenon
<1>6. IsSquaring(D, f)
  BY <1>5, Zenon DEF IsSquaring, LoopTurn
<1> QED BY <1>6

(* It takes the turns of the loop.                                         *)
LEMMA SquaringSteps ==
  ASSUME NEW D \in Nat \ {0}, NEW f, IsSquaring(D, f),
         NEW x \in Nat, NEW y \in Nat, NEW n \in Nat
  PROVE  f[n][x][y] = LoopTurn(D, f, x, y, n)
<1> DEFINE h == [m \in Nat |-> [u \in Nat |-> [v \in Nat |-> LoopTurn(D, f, u, v, m)]]]
<1>1. f = h
  BY Zenon DEF IsSquaring, LoopTurn
<1>2. h[n][x][y] = LoopTurn(D, f, x, y, n)
  OBVIOUS
<1> HIDE DEF h
<1> QED BY <1>1, <1>2, Zenon

(* The loop returns a decimal, which grows with the accumulator. *)
LEMMA SquaringRange ==
  ASSUME NEW D \in Nat \ {0}, NEW f, IsSquaring(D, f), NEW z \in Nat, z <= D
  PROVE  \A n \in Nat, x \in 0..z, y \in 0..D :
           /\ f[n][x][y] \in Nat
           /\ f[n][x][y] <= Rounded(D, z, y)
<1> DEFINE T == {n \in Nat : \A x \in 0..z, y \in 0..D :
              /\ f[n][x][y] \in Nat
              /\ f[n][x][y] <= Rounded(D, z, y)}
<1>2. ASSUME NEW n \in Nat, \A m \in 0..(n - 1) : m \in T
      PROVE  n \in T
  <2> SUFFICES ASSUME NEW x \in 0..z, NEW y \in 0..D
               PROVE  /\ f[n][x][y] \in Nat
                 /\ f[n][x][y] <= Rounded(D, z, y)
    OBVIOUS
  <2>1. x \in Nat /\ y \in Nat /\ x <= z /\ x <= D /\ y <= D
    OBVIOUS
  <2>2. f[n][x][y] = LoopTurn(D, f, x, y, n)
    BY <2>1, SquaringSteps
  <2>3. /\ Rounded(D, x, x) \in 0..z /\ Rounded(D, x, y) \in 0..D /\ Rounded(D, x, y) <= y
    <3>1. Rounded(D, x, x) \in 0..x /\ Rounded(D, x, y) \in 0..y
      BY <2>1, RoundedShrinks
    <3> QED BY <2>1, <3>1
  <2>4. /\ Rounded(D, x, y) <= Rounded(D, z, y) /\ Rounded(D, x, y) \in Nat
        /\ Rounded(D, z, y) \in Nat
    <3>1. Rounded(D, x, y) <= Rounded(D, z, y)
      BY <2>1, RoundedGrows
    <3>2. Rounded(D, x, y) \in Nat /\ Rounded(D, z, y) \in Nat
      BY <2>1, RoundedNat
    <3> QED BY <3>1, <3>2
  <2>5. CASE n <= 1
    BY <2>2, <2>4, <2>5 DEF LoopTurn
  <2>6. CASE n > 1 /\ n % 2 = 0
    <3>1. n \div 2 \in T
      BY <2>6, <1>2, Halves
    <3> QED BY <2>2, <2>3, <2>6, <3>1 DEF LoopTurn
  <2>7. CASE n > 1 /\ n % 2 # 0
    <3>1. (n - 1) \div 2 \in T
      <4>1. (n - 1) \div 2 \in 0..(n - 1)
        BY <2>7, Halves
      <4> HIDE DEF T
      <4> QED BY <1>2, <4>1
    <3>2. /\ Rounded(D, z, Rounded(D, x, y)) <= Rounded(D, z, y)
          /\ Rounded(D, z, Rounded(D, x, y)) \in Nat
      BY <2>1, <2>3, <2>4, RoundedGrows, RoundedNat
    <3>3. /\ f[(n - 1) \div 2][Rounded(D, x, x)][Rounded(D, x, y)] \in Nat
          /\ f[(n - 1) \div 2][Rounded(D, x, x)][Rounded(D, x, y)]
               <= Rounded(D, z, Rounded(D, x, y))
      BY <2>3, <3>1
    <3>4. f[n][x][y] = f[(n - 1) \div 2][Rounded(D, x, x)][Rounded(D, x, y)]
      BY <2>2, <2>7 DEF LoopTurn
    <3> QED BY <2>4, <3>2, <3>3, <3>4
  <2> QED BY <2>5, <2>6, <2>7
<1>3. \A n \in Nat : n \in T
  <2> HIDE DEF T
  <2> QED BY <1>2, StrongInduction
<1> QED BY <1>3

(* A larger accumulator gives a larger result.                             *)
LEMMA SquaringGrows ==
  ASSUME NEW D \in Nat \ {0}, NEW f, IsSquaring(D, f)
  PROVE  \A n \in Nat, x \in 0..D, y \in 0..D, v \in 0..D :
           y <= v => f[n][x][y] <= f[n][x][v]
<1> DEFINE T == {n \in Nat : \A x \in 0..D, y \in 0..D, v \in 0..D :
                   y <= v => f[n][x][y] <= f[n][x][v]}
<1>2. ASSUME NEW n \in Nat, \A m \in 0..(n - 1) : m \in T
      PROVE  n \in T
  <2> SUFFICES ASSUME NEW x \in 0..D, NEW y \in 0..D, NEW v \in 0..D, y <= v
               PROVE  f[n][x][y] <= f[n][x][v]
    OBVIOUS
  <2>1. x \in Nat /\ y \in Nat /\ v \in Nat /\ x <= D /\ y <= D /\ v <= D
    OBVIOUS
  <2>2. /\ f[n][x][y] = LoopTurn(D, f, x, y, n)
        /\ f[n][x][v] = LoopTurn(D, f, x, v, n)
    BY <2>1, SquaringSteps
  <2>3. Rounded(D, x, x) \in 0..D /\ Rounded(D, x, y) \in 0..D /\ Rounded(D, x, v) \in 0..D
    <3>1. Rounded(D, x, x) \in 0..x /\ Rounded(D, x, y) \in 0..y /\ Rounded(D, x, v) \in 0..v
      BY <2>1, RoundedShrinks
    <3> QED BY <2>1, <3>1
  <2>4. Rounded(D, x, y) <= Rounded(D, x, v)
    BY <2>1, RoundedGrows
  <2>5. CASE n <= 1
    BY <2>2, <2>4, <2>5 DEF LoopTurn
  <2>6. CASE n > 1 /\ n % 2 = 0
    <3>1. n \div 2 \in T
      BY <2>6, <1>2, Halves
    <3>2. f[n \div 2][Rounded(D, x, x)][y] <= f[n \div 2][Rounded(D, x, x)][v]
      BY <2>3, <3>1
    <3> QED BY <2>2, <2>6, <3>2 DEF LoopTurn
  <2>7. CASE n > 1 /\ n % 2 # 0
    <3>1. (n - 1) \div 2 \in T
      BY <2>7, <1>2, Halves
    <3>2. f[(n - 1) \div 2][Rounded(D, x, x)][Rounded(D, x, y)]
            <= f[(n - 1) \div 2][Rounded(D, x, x)][Rounded(D, x, v)]
      BY <2>3, <2>4, <3>1
    <3> QED BY <2>2, <2>7, <3>2 DEF LoopTurn
  <2> QED BY <2>5, <2>6, <2>7
<1>3. \A n \in Nat : n \in T
  <2> HIDE DEF T
  <2> QED BY <1>2, StrongInduction
<1> QED BY <1>3

(* One more power never makes the result larger.  In binary, n ends with   *)
(* as many ones as n + 1 ends with zeros.  For these digits the loop       *)
(* multiplies the accumulator of n by every square, while that of n + 1    *)
(* stays one; but the product w of the squares so far never falls below    *)
(* the next square, since each square is the product of the last one with  *)
(* itself and w that of the last one with at least itself.  The next digit *)
(* gives n + 1 that square for its accumulator; all others are the same.   *)
LEMMA OneMoreTurn ==
  ASSUME NEW D \in Nat \ {0}, NEW f, IsSquaring(D, f)
  PROVE  \A n \in Nat, z \in 0..D, w \in 0..D :
           n >= 1 /\ z <= w => f[n + 1][z][D] <= f[n][z][w]
<1> DEFINE T == {n \in Nat : \A z \in 0..D, w \in 0..D :
                          n >= 1 /\ z <= w => f[n + 1][z][D] <= f[n][z][w]}
<1>1. D \in Nat /\ D \in 0..D
  OBVIOUS
<1>2. ASSUME NEW n \in Nat, \A m \in 0..(n - 1) : m \in T
      PROVE  n \in T
  <2> SUFFICES ASSUME NEW z \in 0..D, NEW w \in 0..D, n >= 1, z <= w
               PROVE  f[n + 1][z][D] <= f[n][z][w]
    OBVIOUS
  <2> DEFINE zz == Rounded(D, z, z)
             zw == Rounded(D, z, w)
  <2>1. z \in Nat /\ w \in Nat /\ z <= D /\ w <= D
    BY <1>1
  <2>2. /\ f[n + 1][z][D] = LoopTurn(D, f, z, D, n + 1)
        /\ f[n][z][w] = LoopTurn(D, f, z, w, n)
    BY <2>1, <1>1, SquaringSteps
  <2>3. zz \in 0..D /\ zw \in 0..D
    BY <2>1, <1>1, RoundedNat, RoundedShrinks
  <2>4. zz <= zw
    BY <2>1, RoundedGrows
  <2>5. Rounded(D, z, D) = z /\ Rounded(D, zz, D) = zz
    BY <2>1, <2>3, RoundedOne
  <2>6. CASE n = 1
    <3>1. f[n][z][w] = zw
      BY <2>2, <2>6 DEF LoopTurn
    <3>2. f[n + 1][z][D] = f[1][zz][D]
      BY <2>2, <2>6 DEF LoopTurn
    <3>3. f[1][zz][D] = LoopTurn(D, f, zz, D, 1)
      BY <2>3, <1>1, SquaringSteps
    <3>4. LoopTurn(D, f, zz, D, 1) = zz
      BY <2>5 DEF LoopTurn
    <3> QED BY <2>4, <3>1, <3>2, <3>3, <3>4
  <2>7. CASE n > 1 /\ n % 2 = 0
    <3>1. (n + 1) % 2 # 0 /\ (n + 1) - 1 = n
      BY <2>7
    <3>2. f[n + 1][z][D] = f[n \div 2][zz][z]
      BY <2>2, <2>5, <2>7, <3>1 DEF LoopTurn
    <3>3. f[n][z][w] = f[n \div 2][zz][w]
      BY <2>2, <2>7 DEF LoopTurn
    <3>4. n \div 2 \in Nat
      BY <2>7, Halves
    <3> HIDE DEF zz
    <3>5. f[n \div 2][zz][z] <= f[n \div 2][zz][w]
      BY <2>3, <3>4, SquaringGrows
    <3> QED BY <3>2, <3>3, <3>5
  <2>8. CASE n > 1 /\ n % 2 # 0
    <3> DEFINE k == (n - 1) \div 2
    <3>1. k \in 1..(n - 1) /\ n = 2 * k + 1
      BY <2>8, Halves
    <3>2. (n + 1) % 2 = 0 /\ (n + 1) \div 2 = k + 1
      BY <3>1
    <3>3. f[n][z][w] = f[k][zz][zw]
      BY <2>2, <2>8 DEF LoopTurn
    <3>4. f[n + 1][z][D] = f[k + 1][zz][D]
      BY <2>2, <2>8, <3>2 DEF LoopTurn
    <3>5. k \in T
      BY <1>2, <3>1
    <3> HIDE DEF k, zz, zw
    <3>6. f[k + 1][zz][D] <= f[k][zz][zw]
      BY <2>3, <2>4, <3>1, <3>5
    <3> QED BY <3>3, <3>4, <3>6
  <2> QED BY <2>6, <2>7, <2>8
<1>3. \A n \in Nat : n \in T
  <2> HIDE DEF T
  <2> QED BY <1>2, StrongInduction
<1> QED BY <1>3

(* What _decPow makes of it: no more turns than the cap, and one for the    *)
(* exponent zero.                                                          *)
CappedPower(D, f, cap, x, n) ==
  LET m == IF n < cap THEN n ELSE cap
  IN  IF m = 0 THEN D ELSE f[m][x][D]

(* For a factor of at most one it is a decimal, at most the factor itself  *)
(* from the first turn on, and never more for one turn more.               *)
LEMMA CappedPowerFacts ==
  ASSUME NEW D \in Nat \ {0}, NEW f, IsSquaring(D, f), NEW cap \in Nat,
         NEW x \in 0..D, NEW n \in Nat
  PROVE  /\ CappedPower(D, f, cap, x, n) \in 0..D
         /\ n >= 1 /\ cap >= 1 => CappedPower(D, f, cap, x, n) <= x
         /\ CappedPower(D, f, cap, x, n + 1) <= CappedPower(D, f, cap, x, n)
<1> DEFINE m == IF n < cap THEN n ELSE cap
           p(k) == CappedPower(D, f, cap, x, k)
<1>1. x \in Nat /\ x <= D /\ D \in 0..D /\ m \in Nat
  OBVIOUS
<1>2. Rounded(D, x, D) = x
  BY <1>1, RoundedOne
<1>3. \A k \in Nat : f[k][x][D] \in Nat /\ f[k][x][D] <= x
  BY <1>1, <1>2, SquaringRange
<1>4. p(n) = IF m = 0 THEN D ELSE f[m][x][D]
  BY DEF CappedPower
<1>5. p(n) \in 0..D
  BY <1>1, <1>3, <1>4
<1>6. n >= 1 /\ cap >= 1 => p(n) <= x
  BY <1>1, <1>3, <1>4
<1>7. p(n + 1) <= p(n)
  <2>1. CASE n >= cap
    <3>1. p(n + 1) = p(n)
      BY <2>1 DEF CappedPower
    <3> QED BY <1>5, <3>1
  <2>2. CASE n < cap
    <3>1. m = n /\ p(n + 1) = f[n + 1][x][D]
      BY <2>2 DEF CappedPower
    <3>2. CASE n = 0
      BY <1>1, <1>3, <1>4, <3>1, <3>2
    <3>3. CASE n >= 1
      <4>1. f[n + 1][x][D] <= f[n][x][D]
        BY <1>1, <3>3, OneMoreTurn
      <4> QED BY <1>4, <3>1, <3>3, <4>1
    <3> QED BY <3>2, <3>3
  <2> QED BY <2>1, <2>2
<1> QED BY <1>5, <1>6, <1>7

(* So for any number of turns more.                                        *)
LEMMA CappedPowerFalls ==
  ASSUME NEW D \in Nat \ {0}, NEW f, IsSquaring(D, f), NEW cap \in Nat,
         NEW x \in 0..D, NEW m \in Nat, NEW n \in Nat, m <= n
  PROVE  CappedPower(D, f, cap, x, n) <= CappedPower(D, f, cap, x, m)
<1> DEFINE p(k) == CappedPower(D, f, cap, x, k)
           T == {k \in Nat : p(m + k) <= p(m)}
<1>1. ASSUME NEW k \in Nat PROVE p(k) \in Int /\ p(k + 1) <= p(k)
  <2>1. p(k) \in 0..D /\ p(k + 1) <= p(k)
    BY CappedPowerFacts
  <2> QED BY <2>1
<1> HIDE DEF p
<1>2. 0 \in T
  BY <1>1
<1>3. ASSUME NEW k \in Nat, k \in T PROVE k + 1 \in T
  <2>1. m + k \in Nat /\ (m + k) + 1 = m + (k + 1)
    OBVIOUS
  <2>2. p((m + k) + 1) <= p(m + k)
    BY <1>1, <2>1
  <2> QED BY <1>1, <1>3, <2>1, <2>2
<1>4. \A k \in Nat : k \in T
  <2> HIDE DEF T
  <2> QED BY <1>2, <1>3, SetInduction
<1>5. n - m \in T /\ m + (n - m) = n
  BY <1>4
<1> QED BY <1>5 DEF p

------------------------------------------------------------------------------
(* Sums.  SumFunctionOnSet(f, S) is the value at S of a function on the    *)
(* subsets of S that satisfies the equation below.                         *)

SumIs(h, f, S) ==
  h = [s \in SUBSET S |-> IF s = {} THEN 0
         ELSE f[CHOOSE x \in s : TRUE] + h[s \ {CHOOSE x \in s : TRUE}]]

(* The sum over a set is the value its loop ends with: SumFunctionOnSet *)
(* opened down to the CHOOSE of its fold.                               *)
LEMMA SumIsChosen ==
  ASSUME NEW f, NEW S
  PROVE  SumFunctionOnSet(f, S) = (CHOOSE h : SumIs(h, f, S))[S]
BY Zenon DEF SumFunctionOnSet, FoldFunctionOnSet, MapThenFoldSet, SumIs

(* Two such functions agree where both are defined. *)
LEMMA SumIsUnique ==
  ASSUME NEW f, NEW S, NEW T, IsFiniteSet(S), S \subseteq T,
         NEW g, SumIs(g, f, S), NEW h, SumIs(h, f, T)
  PROVE  g[S] = h[S]
<1> DEFINE P == {n \in Nat : \A s \in SUBSET S : Cardinality(s) = n => g[s] = h[s]}
<1>1. \A s \in SUBSET S : IsFiniteSet(s) /\ Cardinality(s) \in Nat
  BY FS_Subset, FS_CardinalityType
<1>2. 0 \in P
  <2> SUFFICES ASSUME NEW s \in SUBSET S, Cardinality(s) = 0 PROVE g[s] = h[s]
    OBVIOUS
  <2>1. s = {}
    BY <1>1, FS_EmptySet
  <2> QED BY <2>1 DEF SumIs
<1>3. ASSUME NEW n \in Nat, n \in P PROVE n + 1 \in P
  <2> SUFFICES ASSUME NEW s \in SUBSET S, Cardinality(s) = n + 1 PROVE g[s] = h[s]
    OBVIOUS
  <2> DEFINE x == CHOOSE x \in s : TRUE
  <2>1. s # {}
    BY FS_EmptySet, <1>1
  <2>2. x \in s
    BY <2>1
  <2>3. Cardinality(s \ {x}) = n
    <3>1. IsFiniteSet(s)
      BY <1>1
    <3> HIDE DEF x
    <3>2. Cardinality(s \ {x}) = Cardinality(s) - 1
      BY <2>2, <3>1, FS_RemoveElement
    <3> QED BY <3>2
  <2>4. g[s \ {x}] = h[s \ {x}]
    BY <2>3, <1>3
  <2>5. g[s] = f[x] + g[s \ {x}] /\ h[s] = f[x] + h[s \ {x}]
    BY <2>1 DEF SumIs
  <2> QED BY <2>4, <2>5
<1>4. \A n \in Nat : n \in P
  <2> HIDE DEF P
  <2> QED BY <1>2, <1>3, SetInduction
<1> QED BY <1>1, <1>4

(* On a finite set there is one. *)
LEMMA SumIsDefined ==
  ASSUME NEW f, NEW S, IsFiniteSet(S)
  PROVE  \E h : SumIs(h, f, S)
<1> DEFINE P == {n \in Nat : \A s : IsFiniteSet(s) /\ Cardinality(s) <= n
                                      => \E h : SumIs(h, f, s)}
<1>1. 0 \in P
  <2> SUFFICES ASSUME NEW s, IsFiniteSet(s), Cardinality(s) <= 0
               PROVE  \E h : SumIs(h, f, s)
    OBVIOUS
  <2>1. s = {}
    BY FS_EmptySet, FS_CardinalityType
  <2>2. SumIs([t \in SUBSET s |-> 0], f, s)
    BY <2>1 DEF SumIs
  <2> QED BY <2>2
<1>2. ASSUME NEW n \in Nat, n \in P PROVE n + 1 \in P
  <2> SUFFICES ASSUME NEW s, IsFiniteSet(s), Cardinality(s) <= n + 1
               PROVE  \E h : SumIs(h, f, s)
    OBVIOUS
  <2> DEFINE Some(t) == CHOOSE x \in t : TRUE
             Part(t) == CHOOSE h : SumIs(h, f, t)
             all == [t \in SUBSET s |-> IF t = {} THEN 0
                       ELSE f[Some(t)] + Part(t \ {Some(t)})[t \ {Some(t)}]]
  <2>1. \A t \in SUBSET s : IsFiniteSet(t)
    BY FS_Subset
  <2>2. \A t \in SUBSET s : t # {} => Some(t) \in t
    OBVIOUS
  <2>3. ASSUME NEW t \in SUBSET s, t # s PROVE SumIs(Part(t), f, t)
    <3>1. IsFiniteSet(t) /\ Cardinality(t) <= n
      <4>1. IsFiniteSet(t) /\ Cardinality(t) \in Nat /\ Cardinality(t) <= n + 1
        BY FS_Subset, FS_CardinalityType
      <4>2. Cardinality(t) # Cardinality(s)
        BY <2>3, FS_Subset
      <4>3. Cardinality(t) <= Cardinality(s) /\ Cardinality(s) \in Nat
        BY FS_Subset, FS_CardinalityType
      <4> QED BY <4>1, <4>2, <4>3
    <3>2. \E h : SumIs(h, f, t)
      BY <3>1, <1>2, FS_CardinalityType
    <3> QED BY <3>2
  <2>4. ASSUME NEW t \in SUBSET s, t # {}
        PROVE  Part(t \ {Some(t)})[t \ {Some(t)}] = all[t \ {Some(t)}]
    <3> DEFINE u == t \ {Some(t)}
               v == u \ {Some(u)}
    <3>1. u \in SUBSET s /\ u # s /\ SumIs(Part(u), f, u)
      BY <2>2, <2>3, <2>4
    <3>2. CASE u = {}
      <4>1. Part(u)[u] = 0
        BY <3>1, <3>2 DEF SumIs
      <4> QED BY <4>1, <3>2
    <3>3. CASE u # {}
      <4>1. v \in SUBSET s /\ v # s /\ v \subseteq u /\ SumIs(Part(v), f, v) /\ IsFiniteSet(v)
        BY <3>1, <3>3, <2>1, <2>2, <2>3
      <4>2. Part(u)[u] = f[Some(u)] + Part(u)[v]
        <5> HIDE DEF Part
        <5> QED BY <3>1, <3>3 DEF SumIs
      <4>3. Part(u)[v] = Part(v)[v]
        <5> HIDE DEF Part, v, u
        <5> QED BY <3>1, <4>1, SumIsUnique
      <4>4. all[u] = f[Some(u)] + Part(v)[v]
        <5> HIDE DEF Part
        <5> QED BY <3>1, <3>3
      <4> QED
        BY <4>2, <4>3, <4>4
    <3> QED BY <3>2, <3>3
  <2>5. SumIs(all, f, s)
    <3>1. ASSUME NEW t \in SUBSET s
          PROVE  all[t] = IF t = {} THEN 0 ELSE f[Some(t)] + all[t \ {Some(t)}]
      <4>1. CASE t = {}
        BY <4>1
      <4>2. CASE t # {}
        <5>1. all[t] = f[Some(t)] + Part(t \ {Some(t)})[t \ {Some(t)}]
          <6> HIDE DEF Part
          <6> QED BY <4>2
        <5>2. Part(t \ {Some(t)})[t \ {Some(t)}] = all[t \ {Some(t)}]
          BY <4>2, <2>4
        <5> HIDE DEF all, Part
        <5> QED BY <4>2, <5>1, <5>2
      <4> QED BY <4>1, <4>2
    <3>2. all = [t \in SUBSET s |-> all[t]]
      OBVIOUS
    <3> HIDE DEF all
    <3> QED BY <3>1, <3>2 DEF SumIs
  <2> QED BY <2>5
<1>3. \A n \in Nat : n \in P
  <2> HIDE DEF P
  <2> QED BY <1>1, <1>2, SetInduction
<1> QED BY <1>3, FS_CardinalityType

(* The sum over no element is zero. *)
LEMMA SumEmpty == ASSUME NEW f PROVE SumFunctionOnSet(f, {}) = 0
<1>1. ASSUME NEW h, SumIs(h, f, {}) PROVE h[{}] = 0
  <2>1. {} \in SUBSET {}
    OBVIOUS
  <2> QED BY <1>1, <2>1, Zenon DEF SumIs
<1>2. \E h : SumIs(h, f, {})
  BY SumIsDefined, FS_EmptySet
<1>3. (CHOOSE h : SumIs(h, f, {}))[{}] = 0
  BY <1>1, <1>2
<1> QED BY <1>3, SumIsChosen

(* The equation of a sum over a non-empty set. *)
LEMMA SumStep ==
  ASSUME NEW f, NEW S, IsFiniteSet(S), S # {}
  PROVE  \E x \in S : SumFunctionOnSet(f, S) = f[x] + SumFunctionOnSet(f, S \ {x})
<1> DEFINE x == CHOOSE x \in S : TRUE
           R == S \ {x}
           g == CHOOSE h : SumIs(h, f, S)
           k == CHOOSE h : SumIs(h, f, R)
<1>1. x \in S
  OBVIOUS
<1>2. IsFiniteSet(R)
  BY FS_Subset
<1>3. SumIs(g, f, S)
  BY SumIsDefined
<1>4. SumIs(k, f, R)
  <2>1. \E h : SumIs(h, f, R)
    <3> HIDE DEF R
    <3> QED BY <1>2, SumIsDefined
  <2> HIDE DEF R
  <2> QED BY <2>1
<1>5. k[R] = g[R]
  <2>1. R \subseteq S
    OBVIOUS
  <2> HIDE DEF R, g, k
  <2> QED BY <1>2, <1>3, <1>4, <2>1, SumIsUnique
<1>6. g[S] = f[x] + g[R]
  <2> HIDE DEF g
  <2> QED BY <1>3 DEF SumIs
<1>7. SumFunctionOnSet(f, S) = g[S] /\ SumFunctionOnSet(f, R) = k[R]
  BY SumIsChosen
<1>8. SumFunctionOnSet(f, S) = f[x] + SumFunctionOnSet(f, R)
  BY <1>5, <1>6, <1>7
<1> QED BY <1>1, <1>8

(* A sum of integers over a finite set is an integer. *)
LEMMA SumInt ==
  ASSUME NEW f, NEW S, IsFiniteSet(S), \A x \in S : f[x] \in Int
  PROVE  SumFunctionOnSet(f, S) \in Int
<1> DEFINE P == {n \in Nat : \A s \in SUBSET S :
                   Cardinality(s) = n => SumFunctionOnSet(f, s) \in Int}
<1>1. \A s \in SUBSET S : IsFiniteSet(s) /\ Cardinality(s) \in Nat
  BY FS_Subset, FS_CardinalityType
<1>2. 0 \in P
  BY <1>1, FS_EmptySet, SumEmpty
<1>3. ASSUME NEW n \in Nat, n \in P PROVE n + 1 \in P
  <2> SUFFICES ASSUME NEW s \in SUBSET S, Cardinality(s) = n + 1
               PROVE  SumFunctionOnSet(f, s) \in Int
    OBVIOUS
  <2>1. IsFiniteSet(s) /\ s # {}
    BY <1>1, FS_EmptySet
  <2>2. PICK x \in s : SumFunctionOnSet(f, s) = f[x] + SumFunctionOnSet(f, s \ {x})
    BY <2>1, SumStep
  <2>3. Cardinality(s \ {x}) = Cardinality(s) - 1
    BY <2>1, FS_RemoveElement
  <2>4. SumFunctionOnSet(f, s \ {x}) \in Int
    BY <2>3, <1>3
  <2> QED BY <2>2, <2>4
<1>4. \A n \in Nat : n \in P
  <2> HIDE DEF P
  <2> QED BY <1>2, <1>3, SetInduction
<1> QED BY <1>1, <1>4

(* Whichever element is taken first. *)
LEMMA SumRemove ==
  ASSUME NEW f, NEW S, IsFiniteSet(S), \A x \in S : f[x] \in Int, NEW x \in S
  PROVE  SumFunctionOnSet(f, S) = f[x] + SumFunctionOnSet(f, S \ {x})
<1> DEFINE P == {n \in Nat : \A s \in SUBSET S : Cardinality(s) = n =>
                   \A y \in s : SumFunctionOnSet(f, s) = f[y] + SumFunctionOnSet(f, s \ {y})}
<1>1. \A s \in SUBSET S : IsFiniteSet(s) /\ Cardinality(s) \in Nat
  BY FS_Subset, FS_CardinalityType
<1>2. 0 \in P
  BY <1>1, FS_EmptySet
<1>3. ASSUME NEW n \in Nat, n \in P PROVE n + 1 \in P
  <2> SUFFICES ASSUME NEW s \in SUBSET S, Cardinality(s) = n + 1, NEW y \in s
               PROVE  SumFunctionOnSet(f, s) = f[y] + SumFunctionOnSet(f, s \ {y})
    OBVIOUS
  <2>1. IsFiniteSet(s) /\ s # {}
    BY <1>1, FS_EmptySet
  <2>2. PICK z \in s : SumFunctionOnSet(f, s) = f[z] + SumFunctionOnSet(f, s \ {z})
    BY <2>1, SumStep
  <2>3. CASE z = y
    BY <2>2, <2>3
  <2>4. CASE z # y
    <3>1. Cardinality(s \ {z}) = n /\ Cardinality(s \ {y}) = n
      <4>1. Cardinality(s \ {z}) = Cardinality(s) - 1
        BY <2>1, FS_RemoveElement
      <4>2. Cardinality(s \ {y}) = Cardinality(s) - 1
        BY <2>1, FS_RemoveElement
      <4> QED BY <4>1, <4>2
    <3>2. y \in s \ {z} /\ z \in s \ {y}
      BY <2>4
    <3>3. SumFunctionOnSet(f, s \ {z}) = f[y] + SumFunctionOnSet(f, (s \ {z}) \ {y})
      BY <3>1, <3>2, <1>3
    <3>4. SumFunctionOnSet(f, s \ {y}) = f[z] + SumFunctionOnSet(f, (s \ {y}) \ {z})
      BY <3>1, <3>2, <1>3
    <3>5. (s \ {z}) \ {y} = (s \ {y}) \ {z}
      OBVIOUS
    <3>6. SumFunctionOnSet(f, (s \ {y}) \ {z}) \in Int
      <4>1. IsFiniteSet((s \ {y}) \ {z})
        BY <2>1, FS_Subset
      <4> QED BY <4>1, SumInt
    <3>7. f[y] \in Int /\ f[z] \in Int
      OBVIOUS
    <3>8. SumFunctionOnSet(f, s) = f[z] + (f[y] + SumFunctionOnSet(f, (s \ {y}) \ {z}))
      BY <2>2, <3>3, <3>5
    <3> QED BY <3>4, <3>6, <3>7, <3>8
  <2> QED BY <2>3, <2>4
<1>4. \A n \in Nat : n \in P
  <2> HIDE DEF P
  <2> QED BY <1>2, <1>3, SetInduction
<1> QED BY <1>1, <1>4

(* One more element adds its term to the sum. *)
LEMMA SumAdd ==
  ASSUME NEW f, NEW S, IsFiniteSet(S), NEW x, x \notin S, f[x] \in Int,
         \A y \in S : f[y] \in Int
  PROVE  SumFunctionOnSet(f, S \cup {x}) = f[x] + SumFunctionOnSet(f, S)
<1>1. IsFiniteSet(S \cup {x}) /\ (S \cup {x}) \ {x} = S
  BY FS_AddElement
<1>2. \A y \in S \cup {x} : f[y] \in Int
  OBVIOUS
<1> QED BY <1>1, <1>2, SumRemove

(* Sums over the same set compare like their terms. *)
LEMMA SumMonotone ==
  ASSUME NEW f, NEW g, NEW S, IsFiniteSet(S),
         \A x \in S : f[x] \in Int /\ g[x] \in Int /\ f[x] <= g[x]
  PROVE  SumFunctionOnSet(f, S) <= SumFunctionOnSet(g, S)
<1> DEFINE P == {s \in SUBSET S : SumFunctionOnSet(f, s) <= SumFunctionOnSet(g, s)}
<1>1. {} \in P
  BY SumEmpty
<1>2. ASSUME NEW s \in SUBSET S, NEW x \in S \ s, s \in P PROVE s \cup {x} \in P
  <2>1. IsFiniteSet(s)
    BY FS_Subset
  <2>2. SumFunctionOnSet(f, s) \in Int /\ SumFunctionOnSet(g, s) \in Int
    BY <2>1, SumInt
  <2>3. SumFunctionOnSet(f, s \cup {x}) = f[x] + SumFunctionOnSet(f, s)
    BY <2>1, SumAdd
  <2>4. SumFunctionOnSet(g, s \cup {x}) = g[x] + SumFunctionOnSet(g, s)
    BY <2>1, SumAdd
  <2> QED BY <1>2, <2>2, <2>3, <2>4
<1>3. S \in P
  <2> HIDE DEF P
  <2> QED BY <1>1, <1>2, FiniteInduction
<1> QED BY <1>3

(* The sums of equal terms are equal. *)
LEMMA SumEqual ==
  ASSUME NEW f, NEW g, NEW S, IsFiniteSet(S),
         \A x \in S : f[x] \in Int /\ g[x] = f[x]
  PROVE  SumFunctionOnSet(g, S) = SumFunctionOnSet(f, S)
<1>1. SumFunctionOnSet(f, S) <= SumFunctionOnSet(g, S)
  BY SumMonotone
<1>2. SumFunctionOnSet(g, S) <= SumFunctionOnSet(f, S)
  BY SumMonotone
<1>3. SumFunctionOnSet(f, S) \in Int /\ SumFunctionOnSet(g, S) \in Int
  BY SumInt
<1> QED BY <1>1, <1>2, <1>3

(* A sum of equal terms. *)
LEMMA SumConstant ==
  ASSUME NEW f, NEW S, IsFiniteSet(S), NEW c \in Int, \A x \in S : f[x] = c
  PROVE  SumFunctionOnSet(f, S) = Cardinality(S) * c
<1> DEFINE P == {s \in SUBSET S : SumFunctionOnSet(f, s) = Cardinality(s) * c}
<1>1. {} \in P
  BY SumEmpty, FS_EmptySet
<1>2. ASSUME NEW s \in SUBSET S, NEW x \in S \ s, s \in P PROVE s \cup {x} \in P
  <2>1. IsFiniteSet(s) /\ Cardinality(s) \in Nat
    BY FS_Subset, FS_CardinalityType
  <2>2. Cardinality(s \cup {x}) = Cardinality(s) + 1
    BY <2>1, FS_AddElement
  <2>3. SumFunctionOnSet(f, s \cup {x}) = f[x] + SumFunctionOnSet(f, s)
    BY <2>1, SumAdd
  <2>4. SumFunctionOnSet(f, s \cup {x}) = c + Cardinality(s) * c
    BY <1>2, <2>3
  <2>5. (Cardinality(s) + 1) * c = c + Cardinality(s) * c
    BY <2>1
  <2> QED BY <2>2, <2>4, <2>5
<1>3. S \in P
  <2> HIDE DEF P
  <2> QED BY <1>1, <1>2, FiniteInduction
<1> QED BY <1>3

(* A sum of natural numbers is a natural number. *)
LEMMA SumNat ==
  ASSUME NEW f, NEW S, IsFiniteSet(S), \A x \in S : f[x] \in Nat
  PROVE  SumFunctionOnSet(f, S) \in Nat
<1> DEFINE z == [x \in S |-> 0]
<1>1. SumFunctionOnSet(z, S) = Cardinality(S) * 0 /\ Cardinality(S) \in Nat
  BY SumConstant, FS_CardinalityType
<1>2. SumFunctionOnSet(z, S) <= SumFunctionOnSet(f, S)
  BY SumMonotone
<1>3. SumFunctionOnSet(f, S) \in Int
  BY SumInt
<1> HIDE DEF z
<1> QED BY <1>1, <1>2, <1>3

(* The sum of a termwise sum. *)
LEMMA SumPlus ==
  ASSUME NEW f, NEW g, NEW h, NEW S, IsFiniteSet(S),
         \A x \in S : f[x] \in Int /\ g[x] \in Int /\ h[x] = f[x] + g[x]
  PROVE  SumFunctionOnSet(h, S) = SumFunctionOnSet(f, S) + SumFunctionOnSet(g, S)
<1> DEFINE P == {s \in SUBSET S : SumFunctionOnSet(h, s)
                     = SumFunctionOnSet(f, s) + SumFunctionOnSet(g, s)}
<1>1. {} \in P
  BY SumEmpty
<1>2. ASSUME NEW s \in SUBSET S, NEW x \in S \ s, s \in P PROVE s \cup {x} \in P
  <2>1. IsFiniteSet(s)
    BY FS_Subset
  <2>2. SumFunctionOnSet(f, s) \in Int /\ SumFunctionOnSet(g, s) \in Int
    BY <2>1, SumInt
  <2>3. SumFunctionOnSet(f, s \cup {x}) = f[x] + SumFunctionOnSet(f, s)
    BY <2>1, SumAdd
  <2>4. SumFunctionOnSet(g, s \cup {x}) = g[x] + SumFunctionOnSet(g, s)
    BY <2>1, SumAdd
  <2>5. SumFunctionOnSet(h, s \cup {x}) = h[x] + SumFunctionOnSet(h, s)
    BY <2>1, SumAdd
  <2> QED BY <1>2, <2>2, <2>3, <2>4, <2>5
<1>3. S \in P
  <2> HIDE DEF P
  <2> QED BY <1>1, <1>2, FiniteInduction
<1> QED BY <1>3

(* The sum of multiples. *)
LEMMA SumScale ==
  ASSUME NEW f, NEW h, NEW S, IsFiniteSet(S), NEW c \in Int,
         \A x \in S : f[x] \in Int /\ h[x] = f[x] * c
  PROVE  SumFunctionOnSet(h, S) = SumFunctionOnSet(f, S) * c
<1>0. \A u, v \in Int : u * c \in Int /\ (u + v) * c = u * c + v * c
  OBVIOUS
<1> DEFINE P == {s \in SUBSET S : SumFunctionOnSet(h, s) = SumFunctionOnSet(f, s) * c}
<1>1. {} \in P
  BY SumEmpty
<1>2. ASSUME NEW s \in SUBSET S, NEW x \in S \ s, s \in P PROVE s \cup {x} \in P
  <2>1. IsFiniteSet(s)
    BY FS_Subset
  <2>2. SumFunctionOnSet(f, s) \in Int
    BY <2>1, SumInt
  <2>3. SumFunctionOnSet(f, s \cup {x}) = f[x] + SumFunctionOnSet(f, s)
    BY <2>1, SumAdd
  <2>4. h[x] = f[x] * c /\ f[x] \in Int /\ \A y \in s : h[y] \in Int
    BY <1>0
  <2>5. SumFunctionOnSet(h, s \cup {x}) = h[x] + SumFunctionOnSet(h, s)
    BY <1>0, <2>1, <2>4, SumAdd
  <2>6. SumFunctionOnSet(h, s) = SumFunctionOnSet(f, s) * c
    BY <1>2
  <2>7. (f[x] + SumFunctionOnSet(f, s)) * c = f[x] * c + SumFunctionOnSet(f, s) * c
    BY <1>0, <2>2, <2>4
  <2>8. SumFunctionOnSet(h, s \cup {x}) = SumFunctionOnSet(f, s \cup {x}) * c
    BY <2>3, <2>4, <2>5, <2>6, <2>7
  <2> QED BY <2>8
<1>3. S \in P
  <2> HIDE DEF P
  <2> QED BY <1>1, <1>2, FiniteInduction
<1> QED BY <1>3

(* One term changes. *)
LEMMA SumUpdate ==
  ASSUME NEW f, NEW g, NEW S, IsFiniteSet(S), NEW x \in S,
         \A y \in S : f[y] \in Int, g[x] \in Int,
         \A y \in S \ {x} : g[y] = f[y]
  PROVE  SumFunctionOnSet(g, S) = SumFunctionOnSet(f, S) - f[x] + g[x]
<1>1. IsFiniteSet(S \ {x})
  BY FS_Subset
<1>2. SumFunctionOnSet(g, S \ {x}) = SumFunctionOnSet(f, S \ {x})
  BY <1>1, SumEqual
<1>3. SumFunctionOnSet(f, S \ {x}) \in Int
  BY <1>1, SumInt
<1>4. SumFunctionOnSet(f, S) = f[x] + SumFunctionOnSet(f, S \ {x})
  BY SumRemove
<1>5. SumFunctionOnSet(g, S) = g[x] + SumFunctionOnSet(g, S \ {x})
  <2>1. \A y \in S : g[y] \in Int
    OBVIOUS
  <2> QED BY <2>1, SumRemove
<1> QED BY <1>2, <1>3, <1>4, <1>5

(* A set and the rest of a larger one. *)
LEMMA SumSplit ==
  ASSUME NEW f, NEW T, IsFiniteSet(T), NEW S \in SUBSET T,
         \A x \in T : f[x] \in Int
  PROVE  SumFunctionOnSet(f, T) = SumFunctionOnSet(f, S) + SumFunctionOnSet(f, T \ S)
<1> DEFINE P == {s \in SUBSET S : SumFunctionOnSet(f, T)
                     = SumFunctionOnSet(f, s) + SumFunctionOnSet(f, T \ s)}
<1>1. {} \in P
  <2>1. T \ {} = T
    OBVIOUS
  <2> QED BY <2>1, SumEmpty, SumInt
<1>2. ASSUME NEW s \in SUBSET S, NEW x \in S \ s, s \in P PROVE s \cup {x} \in P
  <2>1. IsFiniteSet(s) /\ IsFiniteSet(T \ s) /\ IsFiniteSet(T \ (s \cup {x}))
    <3>1. s \in SUBSET T /\ T \ s \in SUBSET T /\ T \ (s \cup {x}) \in SUBSET T
      OBVIOUS
    <3> QED BY <3>1, FS_Subset
  <2>2. SumFunctionOnSet(f, s) \in Int /\ SumFunctionOnSet(f, T \ (s \cup {x})) \in Int
    BY <2>1, SumInt
  <2>3. SumFunctionOnSet(f, s \cup {x}) = f[x] + SumFunctionOnSet(f, s)
    BY <2>1, SumAdd
  <2>4. SumFunctionOnSet(f, T \ s) = f[x] + SumFunctionOnSet(f, T \ (s \cup {x}))
    <3>1. x \in T \ s /\ (T \ s) \ {x} = T \ (s \cup {x})
      OBVIOUS
    <3> QED BY <2>1, <3>1, SumRemove
  <2>5. f[x] \in Int /\ SumFunctionOnSet(f, T) = SumFunctionOnSet(f, s) + SumFunctionOnSet(f, T \ s)
    BY <1>2
  <2> QED BY <2>2, <2>3, <2>4, <2>5
<1>3. S \in P
  <2>1. IsFiniteSet(S)
    BY FS_Subset
  <2> HIDE DEF P
  <2> QED BY <1>1, <1>2, <2>1, FiniteInduction
<1> QED BY <1>3

(* Terms outside S are zero. *)
LEMMA SumSupport ==
  ASSUME NEW f, NEW T, IsFiniteSet(T), NEW S \in SUBSET T,
         \A x \in S : f[x] \in Int, \A x \in T \ S : f[x] = 0
  PROVE  SumFunctionOnSet(f, T) = SumFunctionOnSet(f, S)
<1>1. SumFunctionOnSet(f, T) = SumFunctionOnSet(f, S) + SumFunctionOnSet(f, T \ S)
  <2>1. \A x \in T : f[x] \in Int
    OBVIOUS
  <2> QED BY <2>1, SumSplit
<1>2. IsFiniteSet(T \ S) /\ IsFiniteSet(S)
  BY FS_Subset
<1>3. SumFunctionOnSet(f, T \ S) = Cardinality(T \ S) * 0 /\ Cardinality(T \ S) \in Nat
  BY <1>2, SumConstant, FS_CardinalityType
<1>4. SumFunctionOnSet(f, S) \in Int
  BY <1>2, SumInt
<1> QED BY <1>1, <1>3, <1>4

------------------------------------------------------------------------------
(* Loops.  A fold over a list is the value at all of the list's positions  *)
(* of a function on sets of positions: the body is applied to the result   *)
(* for the set without its last position and to the element there.         *)

(* The last position of an interval. *)
LEMMA MaxOfInterval ==
  ASSUME NEW n \in Nat, NEW s \in SUBSET (1..n), n \in s
  PROVE  Max(s) = n
<1>1. \E x \in s : \A y \in s : x >= y
  OBVIOUS
<1>2. Max(s) \in s /\ \A y \in s : Max(s) >= y
  BY <1>1 DEF Max
<1>3. Max(s) \in 1..n /\ Max(s) >= n
  BY <1>2
<1> QED
  BY <1>3

(* The maximum of a non-empty finite set of numbers. *)
LEMMA MaxIsIn ==
  ASSUME NEW s, s \subseteq Int, IsFiniteSet(s), s # {}
  PROVE  Max(s) \in s /\ \A y \in s : y <= Max(s)
<1> DEFINE P == {t \in SUBSET s : t # {} => \E x \in t : \A y \in t : x >= y}
<1>1. {} \in P
  OBVIOUS
<1>2. ASSUME NEW t \in SUBSET s, NEW x \in s \ t, t \in P PROVE t \cup {x} \in P
  <2>1. CASE t = {}
    <3>1. x \in t \cup {x} /\ \A y \in t \cup {x} : x >= y
      BY <2>1
    <3> QED BY <3>1
  <2>2. CASE t # {}
    <3>1. PICK z \in t : \A y \in t : z >= y
      BY <2>2, <1>2
    <3>2. CASE z >= x
      BY <3>1, <3>2
    <3>3. CASE ~(z >= x)
      <4>1. \A y \in t \cup {x} : x >= y
        BY <3>1, <3>3
      <4> QED BY <4>1
    <3> QED BY <3>2, <3>3
  <2> QED BY <2>1, <2>2
<1>3. s \in P
  <2> HIDE DEF P
  <2> QED BY <1>1, <1>2, FiniteInduction
<1>4. \E x \in s : \A y \in s : x >= y
  BY <1>3
<1> QED
  BY <1>4 DEF Max

(* The last of a non-empty set of positions. *)
LEMMA MaxOfPositions ==
  ASSUME NEW m \in Nat, NEW s \in SUBSET (1..m), s # {}
  PROVE  Max(s) \in 1..m
<1>1. IsFiniteSet(1..m)
  BY FS_Interval
<1>2. IsFiniteSet(s)
  BY <1>1, FS_Subset
<1>3. s \subseteq Int
  OBVIOUS
<1> QED
  BY <1>2, <1>3, MaxIsIn

(* The positions up to i. *)
LEMMA FirstPositions ==
  /\ 1..0 = {}
  /\ \A m \in Nat : \A i \in 1..m :
       /\ 1..i \in SUBSET (1..m) /\ 1..i # {} /\ (1..i) \ {i} = 1..(i - 1)
       /\ 1..i = (1..(i - 1)) \cup {i} /\ i - 1 \in 0..m
       /\ Max(1..i) = i
<1>1. 1..0 = {}
  OBVIOUS
<1>2. ASSUME NEW m \in Nat, NEW i \in 1..m
      PROVE  /\ 1..i \in SUBSET (1..m) /\ 1..i # {} /\ (1..i) \ {i} = 1..(i - 1)
             /\ 1..i = (1..(i - 1)) \cup {i} /\ i - 1 \in 0..m
             /\ Max(1..i) = i
  <2>1. i \in Nat /\ (1..i) \in SUBSET (1..i) /\ i \in 1..i
    OBVIOUS
  <2>2. Max(1..i) = i
    BY <2>1, MaxOfInterval
  <2>3. 1..i \in SUBSET (1..m) /\ 1..i # {} /\ (1..i) \ {i} = 1..(i - 1)
    OBVIOUS
  <2>4. 1..i = (1..(i - 1)) \cup {i} /\ i - 1 \in 0..m
    OBVIOUS
  <2> QED BY <2>2, <2>3, <2>4
<1> QED
  BY <1>1, <1>2

------------------------------------------------------------------------------
(* Lists. *)

(* A sequence as a function on its positions. *)
LEMMA ListFacts ==
  ASSUME NEW E, NEW s \in Seq(E)
  PROVE  /\ Len(s) \in Nat /\ DOMAIN s = 1..Len(s) /\ s \in [1..Len(s) -> E]
         /\ ToSet(s) = {s[i] : i \in 1..Len(s)} /\ ToSet(s) \subseteq E
  BY LenProperties DEF ToSet

(* The elements after a prefix, an appended element. *)
LEMMA AppendFacts ==
  ASSUME NEW E, NEW s \in Seq(E), NEW e \in E
  PROVE  /\ Append(s, e) \in Seq(E) /\ Len(Append(s, e)) = Len(s) + 1
         /\ \A i \in 1..Len(s) : Append(s, e)[i] = s[i]
         /\ Append(s, e)[Len(s) + 1] = e
         /\ ToSet(Append(s, e)) = ToSet(s) \cup {e}
         /\ IsInjective(s) /\ e \notin ToSet(s) => IsInjective(Append(s, e))
<1> DEFINE t == Append(s, e)
<1>1. /\ t \in Seq(E) /\ Len(t) = Len(s) + 1 /\ Len(s) \in Nat
      /\ \A i \in 1..Len(s) : t[i] = s[i]
      /\ t[Len(s) + 1] = e
  OBVIOUS
<1> HIDE DEF t
<1>2. ToSet(t) = {t[i] : i \in 1..Len(t)} /\ ToSet(s) = {s[i] : i \in 1..Len(s)}
  BY <1>1, ListFacts
<1>3. 1..Len(t) = (1..Len(s)) \cup {Len(s) + 1}
  BY <1>1
<1>4. ToSet(t) = ToSet(s) \cup {e}
  <2>1. \A x \in ToSet(t) : x \in ToSet(s) \cup {e}
    BY <1>1, <1>2, <1>3
  <2>2. \A x \in ToSet(s) : x \in ToSet(t)
    BY <1>1, <1>2, <1>3
  <2>3. e \in ToSet(t)
    BY <1>1, <1>2, <1>3
  <2> QED BY <2>1, <2>2, <2>3
<1>5. ASSUME IsInjective(s), e \notin ToSet(s) PROVE IsInjective(t)
  <2>1. DOMAIN s = 1..Len(s) /\ DOMAIN t = 1..Len(t)
    BY <1>1, ListFacts
  <2>2. \A i, j \in 1..Len(s) : s[i] = s[j] => i = j
    BY <1>5, <2>1 DEF IsInjective
  <2>3. \A i \in 1..Len(s) : s[i] # e
    BY <1>5, <1>2
  <2>4. \A i, j \in 1..Len(t) : t[i] = t[j] => i = j
    BY <1>1, <1>3, <2>2, <2>3
  <2> QED BY <2>1, <2>4 DEF IsInjective
<1> QED
  BY <1>1, <1>4, <1>5 DEF t

(* Insertion after the first i elements. *)
LEMMA InsertAtFacts ==
  ASSUME NEW E, NEW s \in Seq(E), NEW e \in E, NEW i \in 0..Len(s)
  PROVE  /\ InsertAt(s, i + 1, e) \in Seq(E)
         /\ Len(InsertAt(s, i + 1, e)) = Len(s) + 1
         /\ \A k \in 1..(Len(s) + 1) : InsertAt(s, i + 1, e)[k] =
              IF k <= i THEN s[k] ELSE IF k = i + 1 THEN e ELSE s[k - 1]
<1> DEFINE a == SubSeq(s, 1, (i + 1) - 1)
           c == SubSeq(s, i + 1, Len(s))
<1>0. Len(s) \in Nat /\ \A k \in 1..Len(s) : s[k] \in E
  BY ListFacts
<1>1. /\ a \in Seq(E) /\ Len(a) = i
      /\ \A k \in 1..i : a[k] = s[k]
  BY <1>0, SubSeqProperties
<1>2. /\ c \in Seq(E) /\ Len(c) = Len(s) - i
      /\ \A k \in 1..(Len(s) - i) : c[k] = s[k + i]
  <2>1. \A k \in (i + 1)..Len(s) : s[k] \in E
    BY <1>0
  <2>2. i + 1 \in Int /\ Len(s) \in Int
    BY <1>0
  <2>3. /\ c \in Seq(E)
        /\ Len(c) = IF i + 1 <= Len(s) THEN Len(s) - (i + 1) + 1 ELSE 0
        /\ \A k \in 1..(Len(s) - (i + 1) + 1) : c[k] = s[(i + 1) + k - 1]
    BY <2>1, <2>2, SubSeqProperties
  <2> HIDE DEF c
  <2>4. /\ Len(s) - (i + 1) + 1 = Len(s) - i
        /\ i + 1 <= Len(s) \/ Len(s) - i = 0
    BY <1>0
  <2>5. \A k \in Int : (i + 1) + k - 1 = k + i
    BY <1>0
  <2> QED BY <1>0, <2>3, <2>4, <2>5
<1>3. InsertAt(s, i + 1, e) = a \o <<e>> \o c
  BY DEF InsertAt
<1> HIDE DEF a, c
<1>4. <<e>> \in Seq(E) /\ Len(<<e>>) = 1 /\ <<e>>[1] = e
  OBVIOUS
<1> DEFINE d == a \o <<e>>
<1>5. /\ d \in Seq(E) /\ Len(d) = i + 1
      /\ \A k \in 1..(i + 1) : d[k] = IF k <= i THEN s[k] ELSE e
  <2>1. /\ d \in Seq(E) /\ Len(d) = Len(a) + 1
        /\ \A k \in 1..(Len(a) + 1) : d[k] = IF k <= Len(a) THEN a[k] ELSE <<e>>[k - Len(a)]
    BY <1>1, <1>4, ConcatProperties
  <2> HIDE DEF d
  <2>2. ASSUME NEW k \in 1..(i + 1) PROVE d[k] = IF k <= i THEN s[k] ELSE e
    <3>1. CASE k <= i
      BY <3>1, <2>1, <1>1
    <3>2. CASE k = i + 1
      <4>1. k - Len(a) = 1
        BY <3>2, <1>1
      <4> QED BY <3>2, <4>1, <2>1, <1>1, <1>4
    <3> QED BY <3>1, <3>2
  <2> QED BY <2>1, <2>2, <1>1
<1>6. InsertAt(s, i + 1, e) = d \o c
  BY <1>3
<1> HIDE DEF d
<1>7. /\ d \o c \in Seq(E) /\ Len(d \o c) = Len(d) + Len(c)
      /\ \A k \in 1..(Len(d) + Len(c)) :
           (d \o c)[k] = IF k <= Len(d) THEN d[k] ELSE c[k - Len(d)]
  BY <1>2, <1>5, ConcatProperties
<1>8. Len(d) + Len(c) = Len(s) + 1
  BY <1>0, <1>2, <1>5
<1>9. ASSUME NEW k \in 1..(Len(s) + 1)
      PROVE (d \o c)[k] = IF k <= i THEN s[k] ELSE IF k = i + 1 THEN e ELSE s[k - 1]
  <2>1. CASE k <= i + 1
    BY <2>1, <1>5, <1>7, <1>8
  <2>2. CASE k > i + 1
    <3>1. k - Len(d) = k - (i + 1) /\ k - (i + 1) \in 1..(Len(s) - i)
          /\ (k - (i + 1)) + i = k - 1
      BY <2>2, <1>0, <1>5
    <3>2. (d \o c)[k] = c[k - (i + 1)]
      BY <2>2, <3>1, <1>5, <1>7, <1>8
    <3>3. c[k - (i + 1)] = s[k - 1]
      BY <3>1, <1>2
    <3> QED BY <2>2, <3>2, <3>3
  <2>3. k <= i + 1 \/ k > i + 1
    BY <1>0
  <2> QED BY <2>1, <2>2, <2>3
<1> QED
  BY <1>6, <1>7, <1>8, <1>9

(* A new element of a list without duplicates leaves it without any.       *)
LEMMA InsertAtKeepsDistinct ==
  ASSUME NEW E, NEW s \in Seq(E), NEW e \in E, NEW i \in 0..Len(s),
         IsInjective(s), e \notin ToSet(s)
  PROVE  /\ IsInjective(InsertAt(s, i + 1, e))
         /\ ToSet(InsertAt(s, i + 1, e)) = ToSet(s) \cup {e}
<1> DEFINE t == InsertAt(s, i + 1, e)
<1>1. /\ t \in Seq(E) /\ Len(t) = Len(s) + 1 /\ Len(s) \in Nat
      /\ \A k \in 1..(Len(s) + 1) :
           t[k] = IF k <= i THEN s[k] ELSE IF k = i + 1 THEN e ELSE s[k - 1]
  BY InsertAtFacts, ListFacts
<1> HIDE DEF t
<1>2. /\ ToSet(t) = {t[k] : k \in 1..Len(t)} /\ DOMAIN t = 1..Len(t)
      /\ ToSet(s) = {s[k] : k \in 1..Len(s)} /\ DOMAIN s = 1..Len(s)
  BY <1>1, ListFacts
<1>3. ToSet(t) = ToSet(s) \cup {e}
  <2>1. ASSUME NEW k \in 1..Len(t) PROVE t[k] \in ToSet(s) \cup {e}
    <3>1. CASE k <= i
      BY <3>1, <1>1, <1>2
    <3>2. CASE k = i + 1
      BY <3>2, <1>1
    <3>3. CASE k > i + 1
      <4>1. k - 1 \in 1..Len(s) /\ t[k] = s[k - 1]
        BY <3>3, <1>1
      <4> QED BY <4>1, <1>2
    <3> QED BY <3>1, <3>2, <3>3
  <2>2. ASSUME NEW k \in 1..Len(s) PROVE s[k] \in ToSet(t)
    <3>1. CASE k <= i
      BY <3>1, <1>1, <1>2
    <3>2. CASE k > i
      <4>1. k + 1 \in 1..Len(t) /\ t[k + 1] = s[(k + 1) - 1] /\ (k + 1) - 1 = k
        BY <3>2, <1>1
      <4> QED BY <4>1, <1>2
    <3> QED BY <3>1, <3>2
  <2>3. e \in ToSet(t)
    <3>1. i + 1 \in 1..Len(t) /\ t[i + 1] = e
      BY <1>1
    <3> QED BY <3>1, <1>2
  <2> QED BY <1>2, <2>1, <2>2, <2>3
<1>4. IsInjective(t)
  <2>1. \A k, l \in 1..Len(s) : s[k] = s[l] => k = l
    BY <1>2 DEF IsInjective
  <2>2. \A k \in 1..Len(s) : s[k] # e
    BY <1>2
  <2> DEFINE q(k) == IF k <= i THEN k ELSE k - 1
  <2>3. ASSUME NEW k \in 1..Len(t), k # i + 1 PROVE q(k) \in 1..Len(s) /\ t[k] = s[q(k)]
    BY <2>3, <1>1
  <2>4. t[i + 1] = e
    BY <1>1
  <2>5. ASSUME NEW k \in 1..Len(t), NEW l \in 1..Len(t), k # i + 1, l # i + 1, q(k) = q(l)
        PROVE k = l
    BY <2>5, <1>1
  <2> HIDE DEF q
  <2>6. ASSUME NEW k \in 1..Len(t), NEW l \in 1..Len(t), t[k] = t[l] PROVE k = l
    BY <2>1, <2>2, <2>3, <2>4, <2>5, <2>6
  <2> QED BY <1>2, <2>6 DEF IsInjective
<1> QED
  BY <1>3, <1>4 DEF t

(* A list without duplicates is as long as the set of its elements.        *)
LEMMA DistinctCount ==
  ASSUME NEW E, NEW s \in Seq(E), IsInjective(s)
  PROVE  IsFiniteSet(ToSet(s)) /\ Cardinality(ToSet(s)) = Len(s)
<1>1. /\ Len(s) \in Nat /\ s \in [1..Len(s) -> E] /\ DOMAIN s = 1..Len(s)
      /\ ToSet(s) = {s[k] : k \in 1..Len(s)}
  BY ListFacts
<1>2. s \in Injection(1..Len(s), ToSet(s))
  BY <1>1 DEF Injection, IsInjective
<1>3. s \in Surjection(1..Len(s), ToSet(s))
  BY <1>1 DEF Surjection
<1>4. ExistsBijection(1..Len(s), ToSet(s))
  BY <1>2, <1>3 DEF ExistsBijection, Bijection
<1>5. IsFiniteSet(1..Len(s)) /\ Cardinality(1..Len(s)) = Len(s)
  BY <1>1, FS_Interval
<1> QED
  BY <1>4, <1>5, FS_Bijection

(* The reverse of a list. *)
LEMMA ReverseFacts ==
  ASSUME NEW E, NEW s \in Seq(E)
  PROVE  /\ Reverse(s) \in Seq(E) /\ Len(Reverse(s)) = Len(s)
         /\ \A k \in 1..Len(s) : Reverse(s)[k] = s[Len(s) - k + 1]
<1>1. Len(s) \in Nat /\ \A k \in 1..Len(s) : s[k] \in E
  BY ListFacts
<1>2. \A k \in 1..Len(s) : s[(Len(s) - k) + 1] \in E
  BY <1>1
<1>3. Reverse(s) = [k \in 1..Len(s) |-> s[(Len(s) - k) + 1]]
  BY DEF Reverse
<1>4. Reverse(s) \in Seq(E)
  BY <1>1, <1>2, <1>3
<1> QED
  BY <1>1, <1>3, <1>4
==============================================================================
