----------------------------- MODULE SumLemmas -----------------------------
(***************************************************************************)
(* Facts about SumFunction and SumFunctionOnSet of the community module    *)
(* Functions: what the sum of the balances of all accounts does when some  *)
(* of them change.                                                         *)
(*                                                                         *)
(* The sum is a fold: a function on the subsets of its index set, defined  *)
(* by recursion, that removes one element, chosen by CHOOSE, at a time.    *)
(* That there is such a function, that it is unique and that the order of  *)
(* the elements does not matter are proved by induction over finite sets.  *)
(* A set takes the place of the predicate of an induction: `Good` is the   *)
(* set of the subsets a fact holds of.                                     *)
(***************************************************************************)
EXTENDS Functions, FiniteSetTheorems, TLAPS

\* The induction principle: a set of finite sets that has every set all of
\* whose proper subsets it has is all of them (strict inclusion is well
\* founded on the finite sets).
LEMMA SubsetInduction ==
  ASSUME NEW S, IsFiniteSet(S), NEW Good,
         \A s \in SUBSET S : (SUBSET s) \ {s} \subseteq Good => s \in Good
  PROVE  SUBSET S \subseteq Good
<1> DEFINE Bad == (SUBSET S) \ Good
<1>1. IsWellFoundedOn(StrictSubsetOrdering(S), SUBSET S)
  BY FS_FiniteSubsetsOfFinite, FS_StrictSubsetOrderingWellFounded
<1>2. ASSUME Bad # {}
      PROVE  \E s \in Bad : \A r \in Bad :
               ~ (<<r, s>> \in StrictSubsetOrdering(S))
  <2>1. Bad \subseteq SUBSET S
    OBVIOUS
  <2> HIDE DEF Bad
  <2> QED
    BY <1>1, <1>2, <2>1, WFMin
<1> QED
  BY <1>2 DEF StrictSubsetOrdering

\* The same principle for the numbers up to m, which the initial intervals
\* stand for.
LEMMA CountInduction ==
  ASSUME NEW m \in Nat, NEW Good, 0 \in Good,
         \A n \in 1..m : n - 1 \in Good => n \in Good
  PROVE  0..m \subseteq Good
<1> DEFINE All == 0..m
           Initial == {s \in SUBSET All :
                         \A n \in 0..m : s = 0..n => n \in Good}
<1>1. ASSUME NEW s \in SUBSET All, (SUBSET s) \ {s} \subseteq Initial
      PROVE  s \in Initial
  <2> SUFFICES ASSUME NEW n \in 0..m, s = 0..n, n # 0 PROVE n \in Good
    OBVIOUS
  <2>1. /\ n - 1 \in 0..m /\ n \in 1..m
        /\ 0..(n - 1) \in (SUBSET s) \ {s}
    <3>1. n \in s /\ n \notin 0..(n - 1) /\ 0..(n - 1) \subseteq s
      OBVIOUS
    <3> QED
      BY <3>1
  <2> QED
    BY <1>1, <2>1
<1>2. IsFiniteSet(All)
  BY FS_Interval
<1> HIDE DEF Initial, All
<1>3. SUBSET All \subseteq Initial
  BY <1>1, <1>2, SubsetInduction
<1>4. ASSUME NEW n \in 0..m PROVE 0..n \in SUBSET All
  BY DEF All
<1> QED
  BY <1>3, <1>4 DEF Initial, All

-----------------------------------------------------------------------------
(* The recursion a sum is defined by. *)

\* The element the fold takes next.
Pick(s) == CHOOSE x \in s : TRUE

\* One unfolding of the recursion, from the sums of the smaller sets.
SumStep(f, g, s) == IF s = {} THEN 0 ELSE f[Pick(s)] + g[s \ {Pick(s)}]

\* g gives the sum of f over every subset of S.
SumsUp(g, f, S) == g = [s \in SUBSET S |-> SumStep(f, g, s)]

LEMMA PickType == ASSUME NEW s, s # {} PROVE Pick(s) \in s
BY DEF Pick

LEMMA SumByFold ==
  ASSUME NEW f, NEW S
  PROVE  SumFunctionOnSet(f, S) = (CHOOSE g : SumsUp(g, f, S))[S]
BY DEF SumFunctionOnSet, FoldFunctionOnSet, MapThenFoldSet, SumsUp, SumStep,
       Pick

\* Two such functions agree wherever their summands do.
LEMMA SumsUpUnique ==
  ASSUME NEW S, NEW R, NEW f, NEW e,
         NEW g, SumsUp(g, f, S), NEW h, SumsUp(h, e, R),
         NEW s \in SUBSET S, s \subseteq R, IsFiniteSet(s),
         \A a \in s : f[a] = e[a]
  PROVE  g[s] = h[s]
<1> DEFINE Good == {r \in SUBSET s : g[r] = h[r]}
<1>1. ASSUME NEW r \in SUBSET s, (SUBSET r) \ {r} \subseteq Good
      PROVE  r \in Good
  <2>1. CASE r = {}
    BY <2>1 DEF SumsUp, SumStep
  <2>2. CASE r # {}
    <3>1. Pick(r) \in r /\ r \ {Pick(r)} \in Good
      BY <1>1, <2>2, PickType
    <3>2. /\ g[r] = f[Pick(r)] + g[r \ {Pick(r)}]
          /\ h[r] = e[Pick(r)] + h[r \ {Pick(r)}]
      BY <2>2 DEF SumsUp, SumStep
    <3> QED
      BY <3>1, <3>2
  <2> QED
    BY <2>1, <2>2
<1> HIDE DEF Good
<1>2. SUBSET s \subseteq Good
  BY <1>1, SubsetInduction
<1> QED
  BY <1>2 DEF Good

\* There is such a function for every finite set: it is put together from
\* those of the proper subsets.
LEMMA SumsUpExists ==
  ASSUME NEW S, IsFiniteSet(S), NEW f
  PROVE  \E g : SumsUp(g, f, S)
<1> DEFINE G(s) == CHOOSE g : SumsUp(g, f, s)
           Good == {s \in SUBSET S : \E g : SumsUp(g, f, s)}
<1>1. ASSUME NEW r \in SUBSET S, (SUBSET r) \ {r} \subseteq Good
      PROVE  r \in Good
  <2> DEFINE h == [s \in SUBSET r |->
                     IF s = {} THEN 0
                     ELSE f[Pick(s)] + G(s \ {Pick(s)})[s \ {Pick(s)}]]
  <2>1. ASSUME NEW s \in SUBSET r, s # r
        PROVE  SumsUp(G(s), f, s)
    BY <1>1, <2>1
  <2> HIDE DEF G
  <2>2. ASSUME NEW s \in SUBSET r, s # r
        PROVE  h[s] = G(s)[s]
    <3>1. CASE s = {}
      BY <2>1, <2>2, <3>1 DEF SumsUp, SumStep
    <3>2. CASE s # {}
      <4> DEFINE t == s \ {Pick(s)}
      <4>1. Pick(s) \in s /\ t \in SUBSET r /\ t # r /\ t \in SUBSET s
        BY <3>2, PickType
      <4>2. SumsUp(G(s), f, s) /\ SumsUp(G(t), f, t)
        BY <2>1, <2>2, <4>1
      <4>3. G(s)[s] = f[Pick(s)] + G(s)[t]
        BY <3>2, <4>2 DEF SumsUp, SumStep
      <4>4. G(s)[t] = G(t)[t]
        <5>1. IsFiniteSet(t)
          BY <4>1, FS_Subset
        <5> HIDE DEF t
        <5> QED
          BY <4>1, <4>2, <5>1, SumsUpUnique
      <4> QED
        BY <3>2, <4>3, <4>4
    <3> QED
      BY <3>1, <3>2
  <2>3. ASSUME NEW s \in SUBSET r
        PROVE  h[s] = SumStep(f, h, s)
    <3>1. CASE s = {}
      BY <3>1 DEF SumStep
    <3>2. CASE s # {}
      <4> DEFINE t == s \ {Pick(s)}
      <4>1. t \in SUBSET r /\ t # r
        BY <3>2, PickType
      <4>2. h[s] = f[Pick(s)] + G(t)[t]
        BY <3>2
      <4>3. h[t] = G(t)[t]
        BY <2>2, <4>1
      <4> QED
        BY <3>2, <4>2, <4>3 DEF SumStep
    <3> QED
      BY <3>1, <3>2
  <2>4. SumsUp(h, f, r)
    <3>1. h = [s \in SUBSET r |-> h[s]]
      OBVIOUS
    <3> HIDE DEF h
    <3> QED
      BY <2>3, <3>1 DEF SumsUp
  <2> QED
    BY <2>4
<1> HIDE DEF Good
<1>2. SUBSET S \subseteq Good
  BY <1>1, SubsetInduction
<1> QED
  BY <1>2 DEF Good

-----------------------------------------------------------------------------
(* Sums over a set of indices. *)

\* The sum meets its recursion.
LEMMA SumUnfolds ==
  ASSUME NEW S, IsFiniteSet(S), NEW f
  PROVE  SumFunctionOnSet(f, S)
           = IF S = {} THEN 0
             ELSE f[Pick(S)] + SumFunctionOnSet(f, S \ {Pick(S)})
<1> DEFINE R == S \ {Pick(S)}
           g == CHOOSE k : SumsUp(k, f, S)
           h == CHOOSE k : SumsUp(k, f, R)
<1>1. IsFiniteSet(R) /\ R \in SUBSET S
  BY FS_RemoveElement
<1>2. /\ SumFunctionOnSet(f, S) = g[S]
      /\ SumFunctionOnSet(f, R) = h[R]
  BY SumByFold
<1>3. SumsUp(g, f, S) /\ SumsUp(h, f, R)
  BY <1>1, SumsUpExists
<1> HIDE DEF g, h
<1>4. g[R] = h[R]
  <2> HIDE DEF R
  <2> QED
    BY <1>1, <1>3, SumsUpUnique
<1>5. g[S] = IF S = {} THEN 0 ELSE f[Pick(S)] + g[R]
  BY <1>3 DEF SumsUp, SumStep
<1> QED
  BY <1>2, <1>4, <1>5

\* Equal summands have equal sums.
LEMMA SumAgrees ==
  ASSUME NEW S, IsFiniteSet(S), NEW f, NEW e, \A a \in S : f[a] = e[a]
  PROVE  SumFunctionOnSet(f, S) = SumFunctionOnSet(e, S)
<1>1. /\ SumsUp(CHOOSE g : SumsUp(g, f, S), f, S)
      /\ SumsUp(CHOOSE g : SumsUp(g, e, S), e, S)
  BY SumsUpExists
<1> QED
  BY <1>1, SumsUpUnique, SumByFold

\* A set of numbers closed under addition, Nat or Int, has the sums too.
LEMMA SumClosed ==
  ASSUME NEW S, IsFiniteSet(S), NEW T, 0 \in T, \A x, y \in T : x + y \in T,
         NEW f, \A a \in S : f[a] \in T
  PROVE  SumFunctionOnSet(f, S) \in T
<1> DEFINE Good == {s \in SUBSET S : SumFunctionOnSet(f, s) \in T}
<1>1. ASSUME NEW s \in SUBSET S, (SUBSET s) \ {s} \subseteq Good
      PROVE  s \in Good
  <2>1. IsFiniteSet(s)
    BY FS_Subset
  <2>2. CASE s = {}
    <3>1. SumFunctionOnSet(f, s) = 0
      BY <2>1, <2>2, SumUnfolds
    <3> QED
      BY <3>1
  <2>3. CASE s # {}
    <3>1. Pick(s) \in S /\ s \ {Pick(s)} \in Good
      BY <1>1, <2>3, PickType
    <3>2. SumFunctionOnSet(f, s)
            = f[Pick(s)] + SumFunctionOnSet(f, s \ {Pick(s)})
      BY <2>1, <2>3, SumUnfolds
    <3> QED
      BY <3>1, <3>2
  <2> QED
    BY <2>2, <2>3
<1> HIDE DEF Good
<1>2. SUBSET S \subseteq Good
  BY <1>1, SubsetInduction
<1> QED
  BY <1>2 DEF Good

LEMMA SumInt ==
  ASSUME NEW S, IsFiniteSet(S), NEW f, \A a \in S : f[a] \in Int
  PROVE  SumFunctionOnSet(f, S) \in Int
<1>1. 0 \in Int /\ \A x, y \in Int : x + y \in Int
  OBVIOUS
<1> QED
  BY <1>1, SumClosed

LEMMA SumNat ==
  ASSUME NEW S, IsFiniteSet(S), NEW f, \A a \in S : f[a] \in Nat
  PROVE  SumFunctionOnSet(f, S) \in Nat
<1>1. 0 \in Nat /\ \A x, y \in Nat : x + y \in Nat
  OBVIOUS
<1> QED
  BY <1>1, SumClosed

\* Any element may be taken first, not only the one the fold picks.
LEMMA SumRemove ==
  ASSUME NEW S, IsFiniteSet(S), NEW f, \A b \in S : f[b] \in Int, NEW a \in S
  PROVE  SumFunctionOnSet(f, S) = f[a] + SumFunctionOnSet(f, S \ {a})
<1> DEFINE Sum(s) == SumFunctionOnSet(f, s)
           Good == {s \in SUBSET S :
                      \A b \in s : Sum(s) = f[b] + Sum(s \ {b})}
<1>1. ASSUME NEW s \in SUBSET S, (SUBSET s) \ {s} \subseteq Good
      PROVE  s \in Good
  <2> SUFFICES ASSUME NEW b \in s PROVE Sum(s) = f[b] + Sum(s \ {b})
    OBVIOUS
  <2> DEFINE x == Pick(s)
             t == s \ {x}
             u == s \ {b}
             w == s \ {b, x}
  <2>1. x \in s /\ Sum(s) = f[x] + Sum(t)
    <3>1. IsFiniteSet(s)
      BY FS_Subset
    <3> QED
      BY <3>1, SumUnfolds, PickType
  <2>2. CASE x = b
    BY <2>1, <2>2
  <2>3. CASE x # b
    <3>1. t \in Good /\ u \in Good
      BY <1>1, <2>1
    <3>2. b \in t /\ x \in u /\ t \ {b} = w /\ u \ {x} = w
      BY <2>1, <2>3
    <3>3. Sum(t) = f[b] + Sum(w) /\ Sum(u) = f[x] + Sum(w)
      BY <3>1, <3>2
    <3>4. f[b] \in Int /\ f[x] \in Int /\ Sum(w) \in Int
      <4>1. IsFiniteSet(w) /\ w \subseteq S
        BY FS_Subset
      <4> HIDE DEF w
      <4>2. Sum(w) \in Int
        BY <4>1, SumInt
      <4> QED
        BY <2>1, <4>2
    <3> QED
      BY <2>1, <3>3, <3>4
  <2> QED
    BY <2>2, <2>3
<1> HIDE DEF Good
<1>2. SUBSET S \subseteq Good
  BY <1>1, SubsetInduction
<1> QED
  BY <1>2 DEF Good

-----------------------------------------------------------------------------
(* Totals: sums over the whole domain of a function. *)

LEMMA TotalInt ==
  ASSUME NEW S, IsFiniteSet(S), NEW f \in [S -> Int]
  PROVE  SumFunction(f) \in Int
BY SumInt DEF SumFunction

\* No balance is more than the total.
LEMMA TotalNat ==
  ASSUME NEW S, IsFiniteSet(S), NEW f \in [S -> Nat]
  PROVE  /\ SumFunction(f) \in Nat
         /\ \A a \in S : f[a] <= SumFunction(f)
<1>1. SumFunction(f) \in Nat
  BY SumNat DEF SumFunction
<1>2. ASSUME NEW a \in S PROVE f[a] <= SumFunction(f)
  <2>1. SumFunction(f) = f[a] + SumFunctionOnSet(f, S \ {a})
    BY SumRemove DEF SumFunction
  <2>2. IsFiniteSet(S \ {a})
    BY FS_RemoveElement
  <2>3. SumFunctionOnSet(f, S \ {a}) \in Nat
    BY <2>2, SumNat
  <2> QED
    BY <2>1, <2>3
<1> QED
  BY <1>1, <1>2

\* One balance changes.
LEMMA TotalUpdate ==
  ASSUME NEW S, IsFiniteSet(S), NEW f \in [S -> Int], NEW g \in [S -> Int],
         NEW a \in S, \A b \in S \ {a} : g[b] = f[b]
  PROVE  SumFunction(g) = SumFunction(f) - f[a] + g[a]
<1>1. /\ SumFunction(f) = f[a] + SumFunctionOnSet(f, S \ {a})
      /\ SumFunction(g) = g[a] + SumFunctionOnSet(g, S \ {a})
  BY SumRemove DEF SumFunction
<1>2. IsFiniteSet(S \ {a})
  BY FS_RemoveElement
<1>3. SumFunctionOnSet(f, S \ {a}) = SumFunctionOnSet(g, S \ {a})
  BY <1>2, SumAgrees
<1>4. SumFunctionOnSet(f, S \ {a}) \in Int
  BY <1>2, SumInt
<1> QED
  BY <1>1, <1>3, <1>4

\* Two balances change.
LEMMA TotalMove ==
  ASSUME NEW S, IsFiniteSet(S), NEW f \in [S -> Int], NEW g \in [S -> Int],
         NEW a \in S, NEW b \in S, a # b, \A c \in S \ {a, b} : g[c] = f[c]
  PROVE  SumFunction(g) = SumFunction(f) - f[a] - f[b] + g[a] + g[b]
<1> DEFINE h == [f EXCEPT ![a] = g[a]]
<1>1. /\ h \in [S -> Int]
      /\ h[a] = g[a]
      /\ h[b] = f[b]
      /\ \A c \in S \ {a} : h[c] = f[c]
      /\ \A c \in S \ {b} : g[c] = h[c]
  OBVIOUS
<1> HIDE DEF h
<1>2. SumFunction(h) = SumFunction(f) - f[a] + h[a]
  BY <1>1, TotalUpdate
<1>3. SumFunction(g) = SumFunction(h) - h[b] + g[b]
  BY <1>1, TotalUpdate
<1> QED
  BY <1>1, <1>2, <1>3, TotalInt

\* The balances of a set of accounts are swept.
LEMMA TotalSwept ==
  ASSUME NEW S, IsFiniteSet(S), NEW f \in [S -> Int], NEW R \in SUBSET S
  PROVE  SumFunction([a \in S |-> IF a \in R THEN 0 ELSE f[a]])
           = SumFunction(f) - SumFunctionOnSet(f, R)
<1> DEFINE Rest(Q) == [a \in S |-> IF a \in Q THEN 0 ELSE f[a]]
           Good == {Q \in SUBSET R : SumFunction(Rest(Q))
                                       = SumFunction(f) - SumFunctionOnSet(f, Q)}
<1>1. IsFiniteSet(R)
  BY FS_Subset
<1>2. ASSUME NEW Q \in SUBSET R
      PROVE  IsFiniteSet(Q) /\ Rest(Q) \in [S -> Int]
  BY <1>1, FS_Subset
<1>3. ASSUME NEW Q \in SUBSET R, (SUBSET Q) \ {Q} \subseteq Good
      PROVE  Q \in Good
  <2>1. CASE Q = {}
    <3>1. SumFunctionOnSet(f, Q) = 0
      BY <2>1, FS_EmptySet, SumUnfolds
    <3>2. Rest(Q) = f
      BY <2>1
    <3> QED
      BY <3>1, <3>2, TotalInt
  <2>2. CASE Q # {}
    <3> DEFINE x == Pick(Q)
               P == Q \ {x}
    <3>1. x \in Q /\ x \in S /\ P \in Good /\ P \in SUBSET R
      BY <1>3, <2>2, PickType
    <3>2. SumFunctionOnSet(f, Q) = f[x] + SumFunctionOnSet(f, P)
      BY <1>2, <2>2, SumUnfolds
    <3>3. SumFunction(Rest(Q))
            = SumFunction(Rest(P)) - Rest(P)[x] + Rest(Q)[x]
      <4>1. \A b \in S \ {x} : Rest(Q)[b] = Rest(P)[b]
        OBVIOUS
      <4>2. Rest(Q) \in [S -> Int] /\ Rest(P) \in [S -> Int]
        BY <1>2, <3>1
      <4> HIDE DEF Rest, P, x
      <4> QED
        BY <3>1, <4>1, <4>2, TotalUpdate
    <3>4. Rest(P)[x] = f[x] /\ Rest(Q)[x] = 0
      BY <3>1
    <3>5. SumFunction(Rest(P)) = SumFunction(f) - SumFunctionOnSet(f, P)
      BY <3>1
    <3>6. /\ SumFunction(f) \in Int
          /\ SumFunctionOnSet(f, P) \in Int
          /\ f[x] \in Int
      BY <1>2, <3>1, TotalInt, SumInt
    <3> HIDE DEF Rest, P, x
    <3>7. SumFunction(Rest(Q)) = SumFunction(f) - SumFunctionOnSet(f, Q)
      BY <3>2, <3>3, <3>4, <3>5, <3>6
    <3> QED
      BY <3>7
  <2> QED
    BY <2>1, <2>2
<1> HIDE DEF Good
<1>4. SUBSET R \subseteq Good
  BY <1>1, <1>3, SubsetInduction
<1> QED
  BY <1>4 DEF Good

\* Nobody holds anything.
LEMMA TotalNothing ==
  ASSUME NEW S, IsFiniteSet(S)
  PROVE  SumFunction([a \in S |-> 0]) = 0
<1> DEFINE z == [a \in S |-> 0]
<1>1. z = [a \in S |-> IF a \in S THEN 0 ELSE z[a]]
  OBVIOUS
<1>2. z \in [S -> Int] /\ DOMAIN z = S
  OBVIOUS
<1> HIDE DEF z
<1>3. SumFunction(z) = SumFunction(z) - SumFunctionOnSet(z, S)
  BY <1>1, <1>2, TotalSwept
<1> QED
  BY <1>2, <1>3, TotalInt DEF SumFunction, z
=============================================================================
