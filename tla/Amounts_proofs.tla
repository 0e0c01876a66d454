-------------------------- MODULE Amounts_proofs ---------------------------
(***************************************************************************)
(* Sums, quotients, shares and repairs for all amounts: sums over finite   *)
(* sets may be taken in any order, shares cover the bill, the rows of a    *)
(* line and scaled prices add up, and repairMisassignedTotals does to the  *)
(* figures of a receipt what it is meant to.                               *)
(***************************************************************************)
EXTENDS Bill, ReceiptMath, FiniteSetTheorems, WellFoundedInduction, TLAPS

\* Induction over finite sets: among subsets of a finite set one is least.
LEMMA LeastSubset ==
  ASSUME NEW S, IsFiniteSet(S), NEW B, B \subseteq SUBSET S, B # {}
  PROVE  \E s \in B : \A t \in B : t \subseteq s => t = s
<1>1. IsWellFoundedOn(StrictSubsetOrdering(S), SUBSET S)
  BY FS_StrictSubsetOrderingWellFounded, FS_FiniteSubsetsOfFinite
<1>2. PICK s \in B : \A t \in B : ~(<<t, s>> \in StrictSubsetOrdering(S))
  BY <1>1, WFMin
<1>3. ASSUME NEW t \in B, t \subseteq s, t # s PROVE FALSE
  <2>1. <<t, s>> \in (SUBSET S) \X (SUBSET S)
    OBVIOUS
  <2> QED
    BY <1>2, <1>3, <2>1 DEF StrictSubsetOrdering
<1> QED
  BY <1>3

\* So what holds of {} and stays true when an element joins holds of the whole.
LEMMA SetInduction ==
  ASSUME NEW S, IsFiniteSet(S), NEW T, {} \in T,
         \A s \in SUBSET S : \A x \in S \ s : s \in T => s \cup {x} \in T
  PROVE  S \in T
<1> DEFINE B == {s \in SUBSET S : s \notin T}
<1>1. SUFFICES ASSUME B # {} PROVE FALSE
  OBVIOUS
<1>2. PICK s \in B : \A t \in B : t \subseteq s => t = s
  <2>1. B \subseteq SUBSET S
    OBVIOUS
  <2> HIDE DEF B
  <2> QED
    BY <1>1, <2>1, LeastSubset
<1>3. PICK x \in s : TRUE
  OBVIOUS
<1>4. s \ {x} \in T
  BY <1>2, <1>3
<1>5. (s \ {x}) \cup {x} = s /\ x \in S \ (s \ {x})
  BY <1>3
<1> QED
  BY <1>4, <1>5

-----------------------------------------------------------------------------
\* The recursion a sum is defined by, and sums taken in any order.
Recursion(h, g, S) ==
    h = [s \in SUBSET S |-> IF s = {} THEN 0
                            ELSE g[CHOOSE x \in s : TRUE] + h[s \ {CHOOSE x \in s : TRUE}]]

Adds(h, g, S) ==
    /\ h \in [SUBSET S -> Int]
    /\ h[{}] = 0
    /\ \A s \in SUBSET S : \A x \in s : h[s] = g[x] + h[s \ {x}]

LEMMA SumIsRecursion ==
  ASSUME NEW g, NEW S
  PROVE  SumFunctionOnSet(g, S) = (CHOOSE h : Recursion(h, g, S))[S]
BY DEF SumFunctionOnSet, FoldFunctionOnSet, MapThenFoldSet, Recursion

LEMMA AddsExtend ==
  ASSUME NEW S, NEW g, \A y \in S : g[y] \in Int,
         NEW T \in SUBSET S, NEW x \in S \ T, NEW h, Adds(h, g, T)
  PROVE  \E k : Adds(k, g, T \cup {x})
<1> DEFINE k == [s \in SUBSET (T \cup {x}) |-> h[s \ {x}] + IF x \in s THEN g[x] ELSE 0]
<1>1. \A s \in SUBSET (T \cup {x}) : s \ {x} \in SUBSET T
  OBVIOUS
<1>2. k \in [SUBSET (T \cup {x}) -> Int]
  BY <1>1 DEF Adds
<1>3. k[{}] = 0
  <2>1. {} \ {x} = {}
    OBVIOUS
  <2> QED
    BY <2>1 DEF Adds
<1>4. ASSUME NEW s \in SUBSET (T \cup {x}), NEW y \in s PROVE k[s] = g[y] + k[s \ {y}]
  <2> DEFINE r == s \ {x}
  <2>1. r \in SUBSET T /\ s \ {y} \in SUBSET (T \cup {x}) /\ g[y] \in Int /\ g[x] \in Int
    BY <1>4
  <2>2. k[s] = h[r] + IF x \in s THEN g[x] ELSE 0
    BY <1>4
  <2>3. CASE y = x
    <3>1. k[s \ {y}] = h[(s \ {y}) \ {x}] + 0
      BY <2>1, <2>3
    <3>2. (s \ {y}) \ {x} = r
      BY <2>3
    <3>3. h[r] \in Int
      BY <2>1 DEF Adds
    <3>4. k[s] = h[r] + g[y]
      BY <1>4, <2>2, <2>3
    <3> HIDE DEF k, r
    <3>5. k[s \ {y}] = h[r]
      BY <3>1, <3>2, <3>3
    <3> QED
      BY <2>1, <3>3, <3>4, <3>5
  <2>4. CASE y # x
    <3>1. y \in r
      BY <1>4, <2>4
    <3>2. h[r] = g[y] + h[r \ {y}]
      BY <2>1, <3>1 DEF Adds
    <3>3. k[s \ {y}] = h[(s \ {y}) \ {x}] + IF x \in s THEN g[x] ELSE 0
      BY <2>1, <2>4
    <3>4. (s \ {y}) \ {x} = r \ {y} /\ r \ {y} \in SUBSET T
      BY <2>1
    <3>5. h[r \ {y}] \in Int
      BY <3>4 DEF Adds
    <3> DEFINE d == IF x \in s THEN g[x] ELSE 0
    <3>6. d \in Int
      BY <2>1
    <3>7. k[s] = h[r] + d
      BY <2>2
    <3>8. k[s \ {y}] = h[r \ {y}] + d
      BY <3>3, <3>4
    <3> HIDE DEF k, r, d
    <3> QED
      BY <2>1, <3>2, <3>5, <3>6, <3>7, <3>8
  <2> QED
    BY <2>3, <2>4
<1> HIDE DEF k
<1> QED
  BY <1>2, <1>3, <1>4 DEF Adds

LEMMA AddsExist ==
  ASSUME NEW S, IsFiniteSet(S), NEW g, \A x \in S : g[x] \in Int
  PROVE  \E h : Adds(h, g, S)
<1> DEFINE Summed == {T \in SUBSET S : \E h : Adds(h, g, T)}
<1>1. {} \in Summed
  <2> DEFINE zero == [s \in SUBSET {} |-> 0]
  <2>1. Adds(zero, g, {})
    BY DEF Adds
  <2> QED
    BY <2>1
<1>2. ASSUME NEW T \in SUBSET S, NEW x \in S \ T, T \in Summed PROVE T \cup {x} \in Summed
  BY <1>2, AddsExtend
<1> HIDE DEF Summed
<1>3. S \in Summed
  BY <1>1, <1>2, SetInduction
<1> QED
  BY <1>3 DEF Summed

LEMMA AddsIsRecursion ==
  ASSUME NEW S, NEW g, NEW h, Adds(h, g, S)
  PROVE  Recursion(h, g, S)
<1>1. ASSUME NEW s \in SUBSET S
      PROVE  h[s] = IF s = {} THEN 0
                    ELSE g[CHOOSE x \in s : TRUE] + h[s \ {CHOOSE x \in s : TRUE}]
  <2>1. CASE s = {}
    BY <2>1 DEF Adds
  <2>2. CASE s # {}
    <3>1. (CHOOSE x \in s : TRUE) \in s
      BY <2>2
    <3> QED
      BY <2>2, <3>1 DEF Adds
  <2> QED
    BY <2>1, <2>2
<1> QED
  BY <1>1 DEF Recursion, Adds

LEMMA RecursionUnique ==
  ASSUME NEW S, IsFiniteSet(S), NEW g, NEW h, NEW k, Recursion(h, g, S), Recursion(k, g, S)
  PROVE  h = k
<1> DEFINE B == {s \in SUBSET S : h[s] # k[s]}
<1>1. SUFFICES ASSUME B # {} PROVE FALSE
  BY DEF Recursion
<1>2. PICK s \in B : \A t \in B : t \subseteq s => t = s
  <2>1. B \subseteq SUBSET S
    OBVIOUS
  <2> HIDE DEF B
  <2> QED
    BY <1>1, <2>1, LeastSubset
<1>3. CASE s = {}
  BY <1>2, <1>3 DEF Recursion
<1>4. CASE s # {}
  <2> DEFINE y == CHOOSE x \in s : TRUE
  <2>1. y \in s
    BY <1>4
  <2>2. h[s] = g[y] + h[s \ {y}] /\ k[s] = g[y] + k[s \ {y}]
    BY <1>2, <1>4 DEF Recursion
  <2>3. h[s \ {y}] = k[s \ {y}]
    BY <1>2, <2>1
  <2> QED
    BY <1>2, <2>2, <2>3
<1> QED
  BY <1>3, <1>4

\* The sum is what any order of adding gives.
LEMMA SumAdds ==
  ASSUME NEW S, IsFiniteSet(S), NEW g, NEW h, Adds(h, g, S)
  PROVE  SumFunctionOnSet(g, S) = h[S]
<1>1. Recursion(h, g, S)
  BY AddsIsRecursion
<1>2. Recursion(CHOOSE k : Recursion(k, g, S), g, S)
  BY <1>1
<1>3. (CHOOSE k : Recursion(k, g, S)) = h
  BY <1>1, <1>2, RecursionUnique
<1> QED
  BY <1>3, SumIsRecursion

-----------------------------------------------------------------------------
\* What is used of sums elsewhere.

LEMMA SumType ==
  ASSUME NEW S, IsFiniteSet(S), NEW g, \A x \in S : g[x] \in Int
  PROVE  SumFunctionOnSet(g, S) \in Int
<1>1. PICK h : Adds(h, g, S)
  BY AddsExist
<1>2. SumFunctionOnSet(g, S) = h[S]
  BY <1>1, SumAdds
<1> QED
  BY <1>1, <1>2 DEF Adds

LEMMA SumEmpty == ASSUME NEW g PROVE SumFunctionOnSet(g, {}) = 0
<1>1. IsFiniteSet({})
  BY FS_EmptySet
<1>2. PICK h : Adds(h, g, {})
  BY <1>1, AddsExist
<1>3. SumFunctionOnSet(g, {}) = h[{}]
  BY <1>1, <1>2, SumAdds
<1> QED
  BY <1>2, <1>3 DEF Adds

LEMMA SumRemove ==
  ASSUME NEW S, IsFiniteSet(S), NEW g, \A x \in S : g[x] \in Int, NEW x \in S
  PROVE  SumFunctionOnSet(g, S) = g[x] + SumFunctionOnSet(g, S \ {x})
<1>1. PICK h : Adds(h, g, S)
  BY AddsExist
<1> DEFINE R == S \ {x}
           k == [s \in SUBSET R |-> h[s]]
<1>2. IsFiniteSet(R)
  BY FS_Subset
<1>3. Adds(k, g, R)
  BY <1>1 DEF Adds
<1>4. SumFunctionOnSet(g, R) = h[R]
  BY <1>2, <1>3, SumAdds
<1>5. h[S] = g[x] + h[R]
  BY <1>1 DEF Adds
<1>6. SumFunctionOnSet(g, S) = h[S]
  BY <1>1, SumAdds
<1> QED
  BY <1>4, <1>5, <1>6

\* The same numbers have the same sum, whatever else the functions are.
LEMMA SumSame ==
  ASSUME NEW S, IsFiniteSet(S), NEW g, NEW f, \A x \in S : g[x] \in Int /\ f[x] = g[x]
  PROVE  SumFunctionOnSet(f, S) = SumFunctionOnSet(g, S)
<1>1. PICK h : Adds(h, g, S)
  BY AddsExist
<1>2. Adds(h, f, S)
  BY <1>1 DEF Adds
<1> QED
  BY <1>1, <1>2, SumAdds

LEMMA SumNat ==
  ASSUME NEW S, IsFiniteSet(S), NEW g, \A x \in S : g[x] \in Nat
  PROVE  SumFunctionOnSet(g, S) \in Nat
<1> DEFINE T == {s \in SUBSET S : SumFunctionOnSet(g, s) \in Nat}
<1>1. {} \in T
  BY SumEmpty
<1>2. ASSUME NEW s \in SUBSET S, NEW x \in S \ s, s \in T PROVE s \cup {x} \in T
  <2>1. IsFiniteSet(s \cup {x}) /\ (s \cup {x}) \ {x} = s
    BY <1>2, FS_Subset
  <2>2. SumFunctionOnSet(g, s \cup {x}) = g[x] + SumFunctionOnSet(g, s)
    BY <2>1, SumRemove
  <2> QED
    BY <1>2, <2>2
<1> HIDE DEF T
<1>3. S \in T
  BY <1>1, <1>2, SetInduction
<1> QED
  BY <1>3 DEF T

\* Sums of sums, of multiples and of one number many times.
LEMMA SumPlus ==
  ASSUME NEW S, IsFiniteSet(S), NEW f, NEW g, NEW h,
         \A x \in S : f[x] \in Int /\ g[x] \in Int /\ h[x] = f[x] + g[x]
  PROVE  SumFunctionOnSet(h, S) = SumFunctionOnSet(f, S) + SumFunctionOnSet(g, S)
<1> DEFINE T == {s \in SUBSET S :
                    SumFunctionOnSet(h, s) = SumFunctionOnSet(f, s) + SumFunctionOnSet(g, s)}
<1>1. {} \in T
  BY SumEmpty
<1>2. ASSUME NEW s \in SUBSET S, NEW x \in S \ s, s \in T PROVE s \cup {x} \in T
  <2> DEFINE F == SumFunctionOnSet(f, s)
             G == SumFunctionOnSet(g, s)
             H == SumFunctionOnSet(h, s)
  <2>1. IsFiniteSet(s) /\ IsFiniteSet(s \cup {x}) /\ (s \cup {x}) \ {x} = s
    BY <1>2, FS_Subset
  <2>2. \A y \in S : h[y] \in Int
    OBVIOUS
  <2>3. /\ SumFunctionOnSet(f, s \cup {x}) = f[x] + F
        /\ SumFunctionOnSet(g, s \cup {x}) = g[x] + G
        /\ SumFunctionOnSet(h, s \cup {x}) = h[x] + H
    BY <2>1, <2>2, SumRemove
  <2>4. F \in Int /\ G \in Int /\ H = F + G
    BY <1>2, <2>1, SumType
  <2> HIDE DEF F, G, H
  <2>5. h[x] + H = (f[x] + F) + (g[x] + G)
    BY <2>4
  <2> QED
    BY <2>3, <2>5
<1> HIDE DEF T
<1>3. S \in T
  BY <1>1, <1>2, SetInduction
<1> QED
  BY <1>3 DEF T

LEMMA SumTimes ==
  ASSUME NEW S, IsFiniteSet(S), NEW f, NEW h, NEW c \in Int,
         \A x \in S : f[x] \in Int /\ h[x] = f[x] * c
  PROVE  SumFunctionOnSet(h, S) = SumFunctionOnSet(f, S) * c
<1> DEFINE T == {s \in SUBSET S : SumFunctionOnSet(h, s) = SumFunctionOnSet(f, s) * c}
<1>1. {} \in T
  <2>1. 0 * c = 0
    OBVIOUS
  <2> QED
    BY <2>1, SumEmpty
<1>2. ASSUME NEW s \in SUBSET S, NEW x \in S \ s, s \in T PROVE s \cup {x} \in T
  <2> DEFINE F == SumFunctionOnSet(f, s)
             H == SumFunctionOnSet(h, s)
  <2>1. IsFiniteSet(s) /\ IsFiniteSet(s \cup {x}) /\ (s \cup {x}) \ {x} = s
    BY <1>2, FS_Subset
  <2>2. \A y \in S : h[y] \in Int
    OBVIOUS
  <2>3. SumFunctionOnSet(f, s \cup {x}) = f[x] + F /\ SumFunctionOnSet(h, s \cup {x}) = h[x] + H
    BY <2>1, <2>2, SumRemove
  <2>4. F \in Int /\ H = F * c
    BY <1>2, <2>1, SumType
  <2> HIDE DEF F, H
  <2>5. h[x] + H = (f[x] + F) * c
    BY <2>4
  <2> QED
    BY <2>3, <2>5
<1> HIDE DEF T
<1>3. S \in T
  BY <1>1, <1>2, SetInduction
<1> QED
  BY <1>3 DEF T

LEMMA SumConstant ==
  ASSUME NEW S, IsFiniteSet(S), NEW f, NEW c \in Int, \A x \in S : f[x] = c
  PROVE  SumFunctionOnSet(f, S) = c * Cardinality(S)
<1> DEFINE T == {s \in SUBSET S : SumFunctionOnSet(f, s) = c * Cardinality(s)}
<1>1. {} \in T
  <2>1. c * 0 = 0
    OBVIOUS
  <2> QED
    BY <2>1, SumEmpty, FS_EmptySet
<1>2. ASSUME NEW s \in SUBSET S, NEW x \in S \ s, s \in T PROVE s \cup {x} \in T
  <2> DEFINE n == Cardinality(s)
  <2>1. IsFiniteSet(s) /\ IsFiniteSet(s \cup {x}) /\ (s \cup {x}) \ {x} = s
    BY <1>2, FS_Subset
  <2>2. \A y \in S : f[y] \in Int
    OBVIOUS
  <2>3. SumFunctionOnSet(f, s \cup {x}) = f[x] + SumFunctionOnSet(f, s)
    BY <2>1, <2>2, SumRemove
  <2>4. n \in Nat /\ Cardinality(s \cup {x}) = n + 1
    BY <2>1, FS_CardinalityType, FS_AddElement
  <2>5. SumFunctionOnSet(f, s) = c * n
    BY <1>2
  <2> HIDE DEF n
  <2>6. c + c * n = c * (n + 1)
    BY <2>4
  <2> QED
    BY <2>3, <2>4, <2>5, <2>6
<1> HIDE DEF T
<1>3. S \in T
  BY <1>1, <1>2, SetInduction
<1> QED
  BY <1>3 DEF T

\* Only one of the numbers differs.
LEMMA SumChange ==
  ASSUME NEW S, IsFiniteSet(S), NEW f, NEW g, NEW x \in S,
         \A y \in S : f[y] \in Int /\ g[y] \in Int, \A y \in S \ {x} : g[y] = f[y]
  PROVE  SumFunctionOnSet(g, S) = SumFunctionOnSet(f, S) + (g[x] - f[x])
<1>1. IsFiniteSet(S \ {x})
  BY FS_Subset
<1>2. SumFunctionOnSet(g, S \ {x}) = SumFunctionOnSet(f, S \ {x})
  BY <1>1, SumSame
<1>3. /\ SumFunctionOnSet(f, S) = f[x] + SumFunctionOnSet(f, S \ {x})
      /\ SumFunctionOnSet(g, S) = g[x] + SumFunctionOnSet(g, S \ {x})
  BY SumRemove
<1>4. SumFunctionOnSet(f, S \ {x}) \in Int
  BY <1>1, SumType
<1> QED
  BY <1>2, <1>3, <1>4

\* Numbers that differ by little have sums that differ by the sum of that.
LEMMA SumWithin ==
  ASSUME NEW S, IsFiniteSet(S), NEW f, NEW g, NEW w,
         \A i \in S : f[i] \in Int /\ g[i] \in Int /\ w[i] \in Nat /\ 2 * g[i] - 2 * f[i] \in -w[i] .. w[i]
  PROVE  2 * SumFunctionOnSet(g, S) - 2 * SumFunctionOnSet(f, S)
            \in -SumFunctionOnSet(w, S) .. SumFunctionOnSet(w, S)
<1> DEFINE T == {s \in SUBSET S : 2 * SumFunctionOnSet(g, s) - 2 * SumFunctionOnSet(f, s)
                                     \in -SumFunctionOnSet(w, s) .. SumFunctionOnSet(w, s)}
<1>1. {} \in T
  BY SumEmpty
<1>2. ASSUME NEW s \in SUBSET S, NEW x \in S \ s, s \in T PROVE s \cup {x} \in T
  <2> DEFINE F == SumFunctionOnSet(f, s)
             G == SumFunctionOnSet(g, s)
             W == SumFunctionOnSet(w, s)
  <2>1. IsFiniteSet(s) /\ IsFiniteSet(s \cup {x}) /\ (s \cup {x}) \ {x} = s
    BY <1>2, FS_Subset
  <2>2. /\ SumFunctionOnSet(f, s \cup {x}) = f[x] + F
        /\ SumFunctionOnSet(g, s \cup {x}) = g[x] + G
        /\ SumFunctionOnSet(w, s \cup {x}) = w[x] + W
    BY <2>1, SumRemove
  <2>3. F \in Int /\ G \in Int /\ W \in Nat
    BY <2>1, SumType, SumNat
  <2>4. 2 * G - 2 * F \in -W .. W
    BY <1>2
  <2> HIDE DEF F, G, W
  <2>5. 2 * (g[x] + G) - 2 * (f[x] + F) \in -(w[x] + W) .. w[x] + W
    BY <2>3, <2>4
  <2> QED
    BY <2>2, <2>5
<1> HIDE DEF T
<1>3. S \in T
  BY <1>1, <1>2, SetInduction
<1> QED
  BY <1>3 DEF T

\* Numbers that are each within half a sen of the k-th part add up to within that
\* much for each.
LEMMA SumNear ==
  ASSUME NEW S, IsFiniteSet(S), NEW f, NEW g, NEW k \in Nat,
         \A i \in S : f[i] \in Int /\ g[i] \in Int /\ 2 * (k * g[i]) - 2 * f[i] \in -k .. k
  PROVE  2 * (k * SumFunctionOnSet(g, S)) - 2 * SumFunctionOnSet(f, S)
            \in -(k * Cardinality(S)) .. k * Cardinality(S)
<1> DEFINE h == [i \in S |-> g[i] * k]
           w == [i \in S |-> k]
<1>1. ASSUME NEW i \in S
      PROVE  h[i] = g[i] * k /\ w[i] = k /\ h[i] \in Int /\ 2 * h[i] - 2 * f[i] \in -w[i] .. w[i]
  <2>1. g[i] * k = k * g[i] /\ g[i] * k \in Int
    OBVIOUS
  <2> QED
    BY <2>1
<1> HIDE DEF h, w
<1>2. 2 * SumFunctionOnSet(h, S) - 2 * SumFunctionOnSet(f, S)
        \in -SumFunctionOnSet(w, S) .. SumFunctionOnSet(w, S)
  BY <1>1, SumWithin
<1>3. SumFunctionOnSet(h, S) = SumFunctionOnSet(g, S) * k
  <2>1. \A i \in S : g[i] \in Int /\ h[i] = g[i] * k
    BY <1>1
  <2> QED
    BY <2>1, SumTimes
<1>4. SumFunctionOnSet(w, S) = k * Cardinality(S)
  <2>1. \A i \in S : w[i] = k
    BY <1>1
  <2> QED
    BY <2>1, SumConstant
<1>5. SumFunctionOnSet(g, S) * k = k * SumFunctionOnSet(g, S)
  BY SumType
<1> QED
  BY <1>2, <1>3, <1>4, <1>5

\* What is not counted may as well be left out.
LEMMA SumOver ==
  ASSUME NEW S, IsFiniteSet(S), NEW r, NEW f, NEW A,
         \A i \in S : r[i] \in Int,
         \A i \in S \cap A : f[i] = r[i], \A i \in S \ A : f[i] = 0
  PROVE  SumFunctionOnSet(f, S) = SumFunctionOnSet(r, A \cap S)
<1> DEFINE T == {s \in SUBSET S : SumFunctionOnSet(f, s) = SumFunctionOnSet(r, A \cap s)}
<1>1. {} \in T
  <2>1. A \cap {} = {}
    OBVIOUS
  <2> QED
    BY <2>1, SumEmpty
<1>2. ASSUME NEW s \in SUBSET S, NEW x \in S \ s, s \in T PROVE s \cup {x} \in T
  <2>1. /\ IsFiniteSet(s) /\ IsFiniteSet(s \cup {x}) /\ (s \cup {x}) \ {x} = s
        /\ IsFiniteSet(A \cap s) /\ IsFiniteSet(A \cap (s \cup {x}))
    BY <1>2, FS_Subset
  <2>2. SumFunctionOnSet(f, s \cup {x}) = f[x] + SumFunctionOnSet(f, s)
    <3>1. \A i \in S : f[i] \in Int
      OBVIOUS
    <3> QED
      BY <2>1, <3>1, SumRemove
  <2>3. CASE x \in A
    <3>1. x \in A \cap (s \cup {x}) /\ (A \cap (s \cup {x})) \ {x} = A \cap s /\ f[x] = r[x]
      BY <1>2, <2>3
    <3>2. SumFunctionOnSet(r, A \cap (s \cup {x})) = r[x] + SumFunctionOnSet(r, A \cap s)
      BY <2>1, <3>1, SumRemove
    <3> QED
      BY <1>2, <2>2, <3>1, <3>2
  <2>4. CASE x \notin A
    <3>1. A \cap (s \cup {x}) = A \cap s /\ f[x] = 0
      BY <2>4
    <3>2. SumFunctionOnSet(r, A \cap s) \in Int
      BY <2>1, SumType
    <3>3. SumFunctionOnSet(f, s) = SumFunctionOnSet(r, A \cap s)
      BY <1>2
    <3>4. SumFunctionOnSet(f, s \cup {x}) = SumFunctionOnSet(r, A \cap s)
      BY <2>2, <3>1, <3>2, <3>3
    <3> QED
      BY <3>1, <3>4
  <2> QED
    BY <2>3, <2>4
<1> HIDE DEF T
<1>3. S \in T
  BY <1>1, <1>2, SetInduction
<1> QED
  BY <1>3 DEF T

\* Counting by people or by items.
Takers(J, C, i) == {p \in J : i \in C[p]}

SumsByPeople(by, J, S, r, C) == \A p \in J : by[p] = SumFunctionOnSet(r, C[p] \cap S)
SumsByItems(all, J, S, r, C) == \A i \in S : all[i] = r[i] * Cardinality(Takers(J, C, i))

LEMMA SumSwap ==
  ASSUME NEW S, IsFiniteSet(S), NEW J, IsFiniteSet(J), NEW r, NEW C, \A i \in S : r[i] \in Int,
         NEW by, SumsByPeople(by, J, S, r, C), NEW all, SumsByItems(all, J, S, r, C)
  PROVE  SumFunctionOnSet(by, J) = SumFunctionOnSet(all, S)
<1> DEFINE of(s) == [i \in S |-> r[i] * Cardinality(Takers(s, C, i))]
           T == {s \in SUBSET J : SumFunctionOnSet(by, s) = SumFunctionOnSet(of(s), S)}
<1>1. {} \in T
  <2>1. \A i \in S : of({})[i] = 0
    <3>1. \A i \in S : Takers({}, C, i) = {} /\ r[i] * 0 = 0
      BY DEF Takers
    <3> QED
      BY <3>1, FS_EmptySet
  <2>2. SumFunctionOnSet(of({}), S) = 0 * Cardinality(S)
    BY <2>1, SumConstant
  <2>3. 0 * Cardinality(S) = 0
    BY FS_CardinalityType
  <2> QED
    BY <2>2, <2>3, SumEmpty
<1>2. ASSUME NEW s \in SUBSET J, NEW x \in J \ s, s \in T PROVE s \cup {x} \in T
  <2> DEFINE extra == [i \in S |-> IF i \in C[x] THEN r[i] ELSE 0]
  <2>1. IsFiniteSet(s) /\ IsFiniteSet(s \cup {x}) /\ (s \cup {x}) \ {x} = s
    BY <1>2, FS_Subset
  <2>2. ASSUME NEW p \in J PROVE by[p] \in Int
    <3> DEFINE R == C[p] \cap S
    <3>1. IsFiniteSet(R) /\ \A i \in R : r[i] \in Int
      BY FS_Subset
    <3>2. by[p] = SumFunctionOnSet(r, R)
      BY DEF SumsByPeople
    <3> HIDE DEF R
    <3> QED
      BY <3>1, <3>2, SumType
  <2>3. SumFunctionOnSet(by, s \cup {x}) = by[x] + SumFunctionOnSet(by, s)
    BY <2>1, <2>2, SumRemove
  <2>4. by[x] = SumFunctionOnSet(r, C[x] \cap S)
    BY DEF SumsByPeople
  <2>5. SumFunctionOnSet(extra, S) = SumFunctionOnSet(r, C[x] \cap S)
    <3> DEFINE X == C[x]
    <3>1. (\A i \in S \cap X : extra[i] = r[i]) /\ \A i \in S \ X : extra[i] = 0
      OBVIOUS
    <3> HIDE DEF extra, X
    <3>2. SumFunctionOnSet(extra, S) = SumFunctionOnSet(r, X \cap S)
      BY <3>1, SumOver
    <3> QED
      BY <3>2 DEF X
  <2>6. ASSUME NEW i \in S
        PROVE  of(s)[i] \in Int /\ extra[i] \in Int /\ of(s \cup {x})[i] = of(s)[i] + extra[i]
    <3> DEFINE on == Takers(s, C, i)
               m == Cardinality(on)
    <3>1. IsFiniteSet(on) /\ x \notin on /\ m \in Nat
      <4>1. on \subseteq s
        BY DEF Takers
      <4> QED
        BY <1>2, <2>1, <4>1, FS_Subset, FS_CardinalityType
    <3>2. Takers(s \cup {x}, C, i) = IF i \in C[x] THEN on \cup {x} ELSE on
      BY DEF Takers
    <3>3. Cardinality(Takers(s \cup {x}, C, i)) = IF i \in C[x] THEN m + 1 ELSE m
      BY <3>1, <3>2, FS_AddElement
    <3>4. r[i] * (m + 1) = r[i] * m + r[i] /\ r[i] * m \in Int
      BY <3>1
    <3>5. of(s)[i] = r[i] * m /\ extra[i] = IF i \in C[x] THEN r[i] ELSE 0
      OBVIOUS
    <3>6. of(s \cup {x})[i] = r[i] * IF i \in C[x] THEN m + 1 ELSE m
      BY <3>3
    <3> HIDE DEF of, extra, m
    <3> QED
      BY <3>4, <3>5, <3>6
  <2>7. SumFunctionOnSet(of(s \cup {x}), S) = SumFunctionOnSet(of(s), S) + SumFunctionOnSet(extra, S)
    <3> HIDE DEF of, extra
    <3> QED
      BY <2>6, SumPlus
  <2>8. SumFunctionOnSet(by, s) = SumFunctionOnSet(of(s), S)
    BY <1>2
  <2>9. by[x] \in Int /\ SumFunctionOnSet(by, s) \in Int
    BY <2>1, <2>2, SumType
  <2> HIDE DEF of, extra
  <2>10. SumFunctionOnSet(by, s \cup {x}) = SumFunctionOnSet(of(s \cup {x}), S)
    BY <2>3, <2>4, <2>5, <2>7, <2>8, <2>9
  <2> QED
    BY <2>10
<1> HIDE DEF T
<1>3. J \in T
  BY <1>1, <1>2, SetInduction
<1>4. SumFunctionOnSet(by, J) = SumFunctionOnSet(of(J), S)
  BY <1>3 DEF T
<1>5. ASSUME NEW i \in S PROVE of(J)[i] \in Int /\ all[i] = of(J)[i]
  <2> DEFINE on == Takers(J, C, i)
  <2>1. on \subseteq J
    BY DEF Takers
  <2>2. all[i] = r[i] * Cardinality(on) /\ of(J)[i] = r[i] * Cardinality(on)
    BY DEF SumsByItems
  <2> HIDE DEF on, of
  <2>3. Cardinality(on) \in Nat
    BY <2>1, FS_Subset, FS_CardinalityType
  <2> QED
    BY <2>2, <2>3
<1> HIDE DEF of
<1> QED
  BY <1>4, <1>5, SumSame

\* A finite set of integers has a greatest, and Max is one of its elements.
LEMMA MaxIn ==
  ASSUME NEW S \in SUBSET Int, IsFiniteSet(S), S # {}
  PROVE  Max(S) \in S
<1> DEFINE T == {s \in SUBSET S : s = {} \/ \E x \in s : \A y \in s : x >= y}
<1>1. ASSUME NEW s \in SUBSET S, NEW x \in S \ s, s \in T PROVE s \cup {x} \in T
  BY <1>1
<1>2. {} \in T
  OBVIOUS
<1> HIDE DEF T
<1>3. S \in T
  BY <1>1, <1>2, SetInduction
<1>4. \E x \in S : \A y \in S : x >= y
  BY <1>3 DEF T
<1> QED
  BY <1>4 DEF Max

-----------------------------------------------------------------------------
\* Quotients and shares are whole sen.

LEMMA RoundDivType == ASSUME NEW a \in Int, NEW b \in Int PROVE RoundDiv(a, b) \in Int
BY DEF RoundDiv, GoDiv

LEMMA ClaimedType ==
  ASSUME NEW S, IsFiniteSet(S), NEW line, NEW n, \A i \in S : line[i] \in Int /\ n[i] \in Int
  PROVE  ClaimedSen(S, line, n) \in Int
<1> DEFINE portion == [i \in S |-> RoundDiv(line[i], IF n[i] < 1 THEN 1 ELSE n[i])]
<1>1. ASSUME NEW i \in S PROVE portion[i] \in Int
  <2>1. (IF n[i] < 1 THEN 1 ELSE n[i]) \in Int
    OBVIOUS
  <2> QED
    BY <2>1, RoundDivType
<1>2. DOMAIN portion = S
  OBVIOUS
<1> HIDE DEF portion
<1>3. SumFunctionOnSet(portion, S) \in Int
  BY <1>1, SumType
<1> QED
  BY <1>2, <1>3 DEF ClaimedSen, SumFunction, portion

LEMMA OwedType ==
  ASSUME NEW a \in Int, NEW b \in Int, NEW c \in Int
  PROVE  Owed(a, b, c) \in Int
<1>1. a * c \in Int
  OBVIOUS
<1> QED
  BY <1>1, RoundDivType DEF Owed

\* What a quotient and a rounded quotient differ from the exact one.
LEMMA DivBounds ==
  ASSUME NEW a \in Int, NEW b \in Nat \ {0}
  PROVE  a \div b \in Int /\ b * (a \div b) <= a /\ a < b * (a \div b) + b
OBVIOUS

LEMMA GoDivBounds ==
  ASSUME NEW a \in Int, NEW b \in Nat \ {0}
  PROVE  /\ GoDiv(a, b) \in Int
         /\ a >= 0 => b * GoDiv(a, b) <= a /\ a < b * GoDiv(a, b) + b
         /\ a < 0 => a <= b * GoDiv(a, b) /\ b * GoDiv(a, b) < a + b
BY DivBounds DEF GoDiv

LEMMA RoundDivNear ==
  ASSUME NEW a \in Int, NEW b \in Nat \ {0}
  PROVE  /\ RoundDiv(a, b) \in Int
         /\ a >= 0 => 2 * (b * RoundDiv(a, b)) - 2 * a \in -b .. b
         /\ 2 * (b * RoundDiv(a, b)) - 2 * a \in -(3 * b) .. 3 * b
<1> DEFINE h == b \div 2
           q == GoDiv(a + h, b)
<1>1. h \in Int /\ GoDiv(b, 2) = h /\ b - 1 <= 2 * h /\ 2 * h <= b
  BY DEF GoDiv
<1>2. a + h \in Int
  BY <1>1
<1>3. RoundDiv(a, b) = q
  BY <1>1 DEF RoundDiv
<1>4. /\ q \in Int
      /\ a + h >= 0 => b * q <= a + h /\ a + h < b * q + b
      /\ a + h < 0 => a + h <= b * q /\ b * q < a + h + b
  BY <1>2, GoDivBounds
<1> HIDE DEF h, q
<1>5. b * q \in Int
  BY <1>4
<1> QED
  BY <1>1, <1>3, <1>4, <1>5

\* A number times one within bounds.
LEMMA TimesWithin ==
  ASSUME NEW a \in Nat, NEW m \in Nat, NEW x \in -m .. m
  PROVE  a * x \in -(a * m) .. a * m
<1>1. a * m - a * x = a * (m - x) /\ a * m + a * x = a * (m + x)
  OBVIOUS
<1>2. m - x \in Nat /\ m + x \in Nat
  OBVIOUS
<1>3. a * (m - x) \in Nat /\ a * (m + x) \in Nat
  BY <1>2
<1> QED
  BY <1>1, <1>3

\* Nothing negative is rounded below 0.
LEMMA PortionNear ==
  ASSUME NEW a \in Nat, NEW b \in Nat \ {0}
  PROVE  RoundDiv(a, b) \in Nat /\ 2 * (b * RoundDiv(a, b)) - 2 * a \in -b .. b
<1> DEFINE q == RoundDiv(a, b)
<1>1. q \in Int /\ 2 * (b * q) - 2 * a \in -b .. b
  BY RoundDivNear
<1> HIDE DEF q
<1>2. q >= 0
  <2>1. q < 0 => b * q <= -b
    <3>1. q < 0 => q <= -1
      BY <1>1
    <3>2. q <= -1 => -1 - q \in Nat /\ b * (-1 - q) \in Nat
      BY <1>1
    <3>3. b * (-1 - q) = -b - b * q
      BY <1>1
    <3>4. b * q \in Int
      BY <1>1
    <3> QED
      BY <3>1, <3>2, <3>3, <3>4
  <2>2. b * q \in Int
    BY <1>1
  <2> QED
    BY <1>1, <2>1, <2>2
<1> QED
  BY <1>1, <1>2 DEF q

\* A cut of tax, service and rounding is near to its share of them.
LEMMA CutNear ==
  ASSUME NEW a \in Nat, NEW b \in Nat \ {0}, NEW t \in Int
  PROVE  LET c == IF t < 0 THEN 3 ELSE 1
         IN  RoundDiv(a * t, b) \in Int /\ 2 * (RoundDiv(a * t, b) * b) - 2 * (a * t) \in -(c * b) .. c * b
<1> DEFINE q == RoundDiv(a * t, b)
           c == IF t < 0 THEN 3 ELSE 1
<1>1. a * t \in Int /\ (t >= 0 => a * t >= 0)
  OBVIOUS
<1>2. /\ q \in Int
      /\ a * t >= 0 => 2 * (b * q) - 2 * (a * t) \in -b .. b
      /\ 2 * (b * q) - 2 * (a * t) \in -(3 * b) .. 3 * b
  BY <1>1, RoundDivNear
<1> HIDE DEF q
<1>3. q * b = b * q /\ b * q \in Int
  BY <1>2
<1>4. 2 * (q * b) - 2 * (a * t) \in -(c * b) .. c * b
  BY <1>1, <1>2, <1>3
<1> QED
  BY <1>2, <1>4 DEF q

LEMMA SubtotalType == SplittableSubtotal \in Int
<1>1. IsFiniteSet(Included) /\ \A i \in Included : LineTotal[i] \in Int
  BY BillAssumption, IncludedAssumption, FS_Subset
<1> QED
  BY <1>1, SumType DEF SplittableSubtotal

\* Claims of finitely many people are counted by a number.
LEMMA ClaimantsType ==
  ASSUME NEW J, IsFiniteSet(J), NEW C \in ClaimTables,
         \A p \in Participants \ J : C[p] = {},
         NEW i \in Items
  PROVE  /\ IsFiniteSet({p \in Participants : i \in C[p]})
         /\ Claimants(C)[i] \in Nat
<1> DEFINE on == {p \in Participants : i \in C[p]}
<1>1. on \subseteq J
  OBVIOUS
<1>2. IsFiniteSet(on) /\ Cardinality(on) \in Nat
  BY <1>1, FS_Subset, FS_CardinalityType
<1> QED
  BY <1>2 DEF Claimants

\* The formula of recomputeOwedTx yields an amount in OwedValues.
LEMMA OwedForType ==
    ASSUME NEW p \in Participants, NEW C \in ClaimTables
    PROVE  OwedFor(p, C) \in OwedValues
BY DEF OwedValues

LEMMA OwedForInt ==
  ASSUME NEW J, IsFiniteSet(J), NEW C \in ClaimTables,
         \A p \in Participants \ J : C[p] = {},
         NEW p \in Participants
  PROVE  OwedFor(p, C) \in Int
<1> DEFINE S == C[p] \cap Included
<1>1. IsFiniteSet(S) /\ S \subseteq Items
  BY BillAssumption, IncludedAssumption, FS_Subset
<1>2. ASSUME NEW i \in S PROVE LineTotal[i] \in Int /\ Claimants(C)[i] \in Int
  <2>1. i \in Items /\ Claimants(C)[i] \in Nat
    BY <1>1, ClaimantsType
  <2> QED
    BY <2>1, BillAssumption
<1>3. ClaimedSen(S, LineTotal, Claimants(C)) \in Int
  BY <1>1, <1>2, ClaimedType
<1> QED
  BY <1>3, SubtotalType, OwedType, BillAssumption DEF OwedFor

LEMMA NothingClaimed ==
  ASSUME NEW p, NEW C, C[p] \cap Included = {}
  PROVE  OwedFor(p, C) = 0
<1>1. ClaimedSen({}, LineTotal, Claimants(C)) = 0
  BY SumEmpty DEF ClaimedSen, SumFunction
<1>2. 0 * TaxTotal = 0
  BY BillAssumption
<1>3. Owed(0, SplittableSubtotal, TaxTotal) = 0
  BY <1>2, SubtotalType DEF Owed, RoundDiv, GoDiv
<1> QED
  BY <1>1, <1>3 DEF OwedFor

-----------------------------------------------------------------------------
\* Amounts of which A is the portions, off by N halves of a sen at most, and K
\* the cuts.
LEMMA DriftBound ==
  ASSUME NEW A \in Int, NEW K \in Int, NEW s \in Nat, NEW t \in Int, NEW N \in Nat, NEW m \in Nat,
         NEW c \in Nat, c = IF t < 0 THEN 3 ELSE 1,
         2 * A - 2 * s \in -N .. N,
         2 * (s * K) - 2 * (A * t) \in -(c * s * m) .. c * s * m
  PROVE  CoversBill(A + K, s, t, N, m)
<1> DEFINE size == Distance(t, 0)
           off == Distance(A + K, s + t)
           E == A - s
           D == s * K - A * t
           drift == A + K - (s + t)
           M == c * s * m
<1>1. s * drift = s * E + D + t * E
  OBVIOUS
<1>2. M \in Nat
  <2>1. c * s \in Nat
    OBVIOUS
  <2> QED
    BY <2>1
<1> HIDE DEF M
<1>3. E \in Int /\ D \in Int /\ drift \in Int /\ 2 * E \in -N .. N /\ 2 * D \in -M .. M
  <2>1. s * K \in Int /\ A * t \in Int
    OBVIOUS
  <2> QED
    BY <1>2, <2>1 DEF M
<1>4. size \in Nat /\ (t = size \/ t = -size) /\ (off = drift \/ off = -drift) /\ off \in Nat
  BY DEF Distance
<1> HIDE DEF E, D, drift, size, off
<1>5. s * (2 * E) \in -(s * N) .. s * N
  BY <1>3, TimesWithin
<1>6. t * (2 * E) \in -(size * N) .. size * N
  <2>1. size * (2 * E) \in -(size * N) .. size * N
    BY <1>3, <1>4, TimesWithin
  <2>2. t * (2 * E) = size * (2 * E) \/ t * (2 * E) = -(size * (2 * E))
    BY <1>3, <1>4
  <2>3. size * (2 * E) \in Int /\ size * N \in Int
    BY <1>3, <1>4
  <2> QED
    BY <2>1, <2>2, <2>3
<1>7. s * (2 * E) = 2 * (s * E) /\ t * (2 * E) = 2 * (t * E) /\ s * E \in Int /\ t * E \in Int
  BY <1>3
<1>8. 2 * off * s = 2 * (s * drift) \/ 2 * off * s = -(2 * (s * drift))
  BY <1>3, <1>4
<1>9. N * (s + size) = s * N + size * N /\ s * N \in Int /\ size * N \in Int
  BY <1>4
<1>10. 2 * off * s <= N * (s + size) + M
  BY <1>1, <1>2, <1>3, <1>5, <1>6, <1>7, <1>8, <1>9
<1> QED
  BY <1>10 DEF CoversBill, M, off, size

\* k people who share everything owe the bill together, up to half a sen for each
\* claim and for each cut of tax, service and rounding (1.5 sen where these are
\* negative: GoDiv truncates), whatever the prices.
THEOREM SharersCoverBill ==
  ASSUME NEW S, IsFiniteSet(S), NEW line, \A i \in S : line[i] \in Nat,
         NEW k \in Nat \ {0}, NEW tax \in Int, SumFunctionOnSet(line, S) > 0
  PROVE  LET sub == SumFunctionOnSet(line, S)
         IN  CoversBill(k * Owed(ClaimedSen(S, line, [i \in S |-> k]), sub, tax), sub, tax,
                        k * Cardinality(S), k)
<1> DEFINE portion == [i \in S |-> RoundDiv(line[i], k)]
           sub == SumFunctionOnSet(line, S)
           claimed == SumFunctionOnSet(portion, S)
           cut == RoundDiv(claimed * tax, sub)
           n == Cardinality(S)
           c == IF tax < 0 THEN 3 ELSE 1
<1>1. ASSUME NEW i \in S
      PROVE  portion[i] \in Nat /\ 2 * (k * portion[i]) - 2 * line[i] \in -k .. k
  <2>1. line[i] \in Nat
    OBVIOUS
  <2>2. RoundDiv(line[i], k) \in Nat /\ 2 * (k * RoundDiv(line[i], k)) - 2 * line[i] \in -k .. k
    BY <2>1, PortionNear
  <2> QED
    BY <2>2
<1>2. sub \in Nat \ {0} /\ claimed \in Nat /\ n \in Nat
  <2> HIDE DEF portion
  <2>1. sub \in Nat /\ claimed \in Nat
    BY <1>1, SumNat
  <2> QED
    BY <2>1, FS_CardinalityType
<1>3. ClaimedSen(S, line, [i \in S |-> k]) = claimed
  <2>1. [i \in S |-> RoundDiv(line[i], IF [j \in S |-> k][i] < 1 THEN 1 ELSE [j \in S |-> k][i])] = portion
    <3>1. ~(k < 1)
      OBVIOUS
    <3>2. \A i \in S : (IF [j \in S |-> k][i] < 1 THEN 1 ELSE [j \in S |-> k][i]) = k
      BY <3>1
    <3> QED
      BY <3>2
  <2>2. DOMAIN portion = S
    OBVIOUS
  <2> QED
    BY <2>1, <2>2 DEF ClaimedSen, SumFunction
<1>4. Owed(claimed, sub, tax) = claimed + cut
  BY <1>2 DEF Owed
<1>5. 2 * (k * claimed) - 2 * sub \in -(k * n) .. k * n
  <2> HIDE DEF portion, n, sub
  <2>1. 2 * (k * SumFunctionOnSet(portion, S)) - 2 * SumFunctionOnSet(line, S)
          \in -(k * Cardinality(S)) .. k * Cardinality(S)
    BY <1>1, SumNear
  <2>2. k * claimed \in Int /\ sub \in Int
    BY <1>2
  <2> HIDE DEF claimed
  <2> QED
    BY <2>1, <2>2 DEF n, claimed, sub
<1> HIDE DEF portion, sub, claimed, n
<1>6. cut \in Int /\ 2 * (cut * sub) - 2 * (claimed * tax) \in -(c * sub) .. c * sub
  BY <1>2, CutNear
<1> HIDE DEF cut
<1>7. 2 * (sub * (k * cut)) - 2 * (k * claimed * tax) \in -(c * sub * k) .. c * sub * k
  <2> DEFINE x == 2 * (cut * sub) - 2 * (claimed * tax)
  <2>1. c * sub \in Nat
    BY <1>2
  <2>2. k * x \in -(k * (c * sub)) .. k * (c * sub)
    <3>1. x \in -(c * sub) .. c * sub
      BY <1>6
    <3> HIDE DEF x, c
    <3> QED
      BY <2>1, <3>1, TimesWithin
  <2>3. k * x = 2 * (sub * (k * cut)) - 2 * (k * claimed * tax)
    BY <1>2, <1>6
  <2>4. c * sub * k = k * (c * sub)
    BY <2>1
  <2> QED
    BY <2>2, <2>3, <2>4
<1>8. CoversBill(k * claimed + k * cut, sub, tax, k * n, k)
  <2>1. k * claimed \in Int /\ k * cut \in Int /\ k * n \in Nat /\ sub \in Nat /\ c \in Nat
    BY <1>2, <1>6
  <2> QED
    BY <1>5, <1>7, <2>1, DriftBound
<1>9. k * (claimed + cut) = k * claimed + k * cut
  BY <1>2, <1>6
<1> QED
  BY <1>3, <1>4, <1>8, <1>9 DEF sub, n

\* Whoever claims what: the amounts of the people of a split add up to the bill,
\* if every item has a claimant and none is a discount. Each claim is off by half
\* a sen at most, and each person's cut of tax, service and rounding by as much,
\* or by 1.5 sen where these are negative.
THEOREM AmountsCoverBill ==
  ASSUME NEW J \in SUBSET Participants, IsFiniteSet(J), NEW C \in ClaimTables,
         \A p \in Participants \ J : C[p] = {},
         NEW owed, \A p \in J : owed[p] = OwedFor(p, C),
         \A i \in Included : LineTotal[i] \in Nat /\ Claimants(C)[i] >= 1,
         SplittableSubtotal > 0
  PROVE  CoversBill(SumFunctionOnSet(owed, J), SplittableSubtotal, TaxTotal,
                    SumFunctionOnSet(Claimants(C), Included), Cardinality(J))
<1> DEFINE n == Claimants(C)
           sub == SplittableSubtotal
           r == [i \in Items |-> RoundDiv(LineTotal[i], IF n[i] < 1 THEN 1 ELSE n[i])]
           portion == [p \in J |-> SumFunctionOnSet(r, C[p] \cap Included)]
           cut == [p \in J |-> RoundDiv(portion[p] * TaxTotal, sub)]
           c == IF TaxTotal < 0 THEN 3 ELSE 1
           N == SumFunctionOnSet(n, Included)
           A == SumFunctionOnSet(portion, J)
           K == SumFunctionOnSet(cut, J)
           M == c * sub * Cardinality(J)
<1>1. IsFiniteSet(Included) /\ Included \subseteq Items /\ \A p \in J : IsFiniteSet(C[p] \cap Included)
  BY BillAssumption, IncludedAssumption, FS_Subset
<1>2. sub \in Nat \ {0} /\ TaxTotal \in Int /\ Cardinality(J) \in Nat /\ c \in Nat
  BY SubtotalType, BillAssumption, FS_CardinalityType
<1>3. ASSUME NEW i \in Included
      PROVE  /\ n[i] \in Nat \ {0} /\ LineTotal[i] \in Nat /\ r[i] \in Nat
             /\ 2 * (r[i] * n[i]) - 2 * LineTotal[i] \in -n[i] .. n[i]
  <2>1. i \in Items
    BY <1>1
  <2>2. n[i] \in Nat
    BY <2>1, ClaimantsType
  <2>3. n[i] >= 1 /\ LineTotal[i] \in Nat
    OBVIOUS
  <2> HIDE DEF n
  <2>4. r[i] = RoundDiv(LineTotal[i], n[i])
    BY <2>1, <2>2, <2>3
  <2>5. RoundDiv(LineTotal[i], n[i]) \in Nat
        /\ 2 * (n[i] * RoundDiv(LineTotal[i], n[i])) - 2 * LineTotal[i] \in -n[i] .. n[i]
    <3>1. n[i] \in Nat \ {0}
      BY <2>2, <2>3
    <3> QED
      BY <2>3, <3>1, PortionNear
  <2>6. r[i] * n[i] = n[i] * r[i]
    BY <2>2, <2>4, <2>5
  <2> HIDE DEF r
  <2> QED
    BY <2>2, <2>3, <2>4, <2>5, <2>6
<1>4. ASSUME NEW p \in J
      PROVE  /\ portion[p] \in Nat
             /\ owed[p] = portion[p] + cut[p]
  <2> DEFINE S == C[p] \cap Included
             part == [i \in S |-> RoundDiv(LineTotal[i], IF n[i] < 1 THEN 1 ELSE n[i])]
  <2>1. IsFiniteSet(S) /\ S \subseteq Included
    BY <1>1
  <2>2. \A i \in S : r[i] \in Nat
    BY <1>3
  <2>3. \A i \in S : part[i] = r[i]
    BY <1>1
  <2>4. portion[p] = SumFunctionOnSet(r, S)
    OBVIOUS
  <2>5. ClaimedSen(S, LineTotal, n) = SumFunctionOnSet(part, S)
    BY DEF ClaimedSen, SumFunction
  <2> HIDE DEF portion, r, S, part
  <2>6. portion[p] \in Nat
    BY <2>1, <2>2, <2>4, SumNat
  <2>7. ClaimedSen(S, LineTotal, n) = portion[p]
    BY <2>1, <2>2, <2>3, <2>4, <2>5, SumSame
  <2>8. owed[p] = portion[p] + cut[p]
    BY <1>2, <2>7 DEF OwedFor, Owed, S
  <2> QED
    BY <2>6, <2>8
<1>5. 2 * A - 2 * sub \in -N .. N /\ N \in Nat /\ A \in Nat
  <2> DEFINE whole == [i \in Included |-> r[i] * Cardinality(Takers(J, C, i))]
  <2>1. A = SumFunctionOnSet(whole, Included)
    <3>1. \A i \in Included : r[i] \in Int
      BY <1>3
    <3>2. SumsByPeople(portion, J, Included, r, C)
      BY DEF SumsByPeople
    <3>3. SumsByItems(whole, J, Included, r, C)
      BY DEF SumsByItems
    <3> HIDE DEF r, portion, whole
    <3> QED
      BY <1>1, <3>1, <3>2, <3>3, SumSwap
  <2>2. ASSUME NEW i \in Included PROVE whole[i] = r[i] * n[i]
    <3>1. i \in Items
      BY <1>1
    <3>2. Takers(J, C, i) = {p \in Participants : i \in C[p]}
      BY DEF Takers
    <3> QED
      BY <3>1, <3>2 DEF Claimants
  <2>3. ASSUME NEW i \in Included
        PROVE  LineTotal[i] \in Int /\ whole[i] \in Int /\ n[i] \in Nat
               /\ 2 * whole[i] - 2 * LineTotal[i] \in -n[i] .. n[i]
    <3>1. r[i] * n[i] \in Int
      <4> HIDE DEF r, n
      <4> QED
        BY <1>3
    <3> HIDE DEF whole, r, n
    <3> QED
      BY <1>3, <2>2, <3>1
  <2>4. sub = SumFunctionOnSet(LineTotal, Included)
    BY DEF SplittableSubtotal
  <2> HIDE DEF whole, n, portion, A, sub
  <2>5. 2 * A - 2 * sub \in -N .. N
    BY <1>1, <2>1, <2>3, <2>4, SumWithin
  <2>6. N \in Nat
    BY <1>1, <2>3, SumNat
  <2>7. A \in Nat
    BY <1>4, SumNat DEF A
  <2> QED
    BY <2>5, <2>6, <2>7
<1>6. ASSUME NEW p \in J
      PROVE  cut[p] \in Int /\ 2 * (cut[p] * sub) - 2 * (portion[p] * TaxTotal) \in -(c * sub) .. c * sub
  <2> HIDE DEF portion, sub
  <2> QED
    BY <1>2, <1>4, CutNear
<1> HIDE DEF n, r, portion, cut, sub, c
<1>7. SumFunctionOnSet(owed, J) = A + K
  <2>1. \A p \in J : portion[p] \in Int /\ cut[p] \in Int /\ owed[p] = portion[p] + cut[p]
    BY <1>4, <1>6
  <2> QED
    BY <2>1, SumPlus
<1>8. K \in Int /\ M \in Nat /\ 2 * (sub * K) - 2 * (A * TaxTotal) \in -M .. M
  <2> DEFINE f == [p \in J |-> portion[p] * TaxTotal]
             g == [p \in J |-> cut[p] * sub]
             w == [p \in J |-> c * sub]
  <2>1. c * sub \in Nat
    BY <1>2
  <2>2. ASSUME NEW p \in J
        PROVE  f[p] \in Int /\ g[p] \in Int /\ w[p] \in Nat /\ 2 * g[p] - 2 * f[p] \in -w[p] .. w[p]
    <3>1. portion[p] * TaxTotal \in Int /\ cut[p] * sub \in Int
      BY <1>2, <1>4, <1>6
    <3> QED
      BY <1>6, <2>1, <3>1
  <2>3. /\ \A p \in J : portion[p] \in Int /\ f[p] = portion[p] * TaxTotal
        /\ \A p \in J : cut[p] \in Int /\ g[p] = cut[p] * sub
        /\ \A p \in J : w[p] = c * sub
    BY <1>4, <1>6
  <2> HIDE DEF f, g, w
  <2>4. SumFunctionOnSet(f, J) = A * TaxTotal
    BY <1>2, <2>3, SumTimes
  <2>5. SumFunctionOnSet(g, J) = K * sub
    BY <1>2, <2>3, SumTimes
  <2>6. SumFunctionOnSet(w, J) = M
    BY <2>1, <2>3, SumConstant
  <2>7. 2 * SumFunctionOnSet(g, J) - 2 * SumFunctionOnSet(f, J)
          \in -SumFunctionOnSet(w, J) .. SumFunctionOnSet(w, J)
    BY <2>2, SumWithin
  <2>8. K \in Int
    BY <1>6, SumType
  <2>9. K * sub = sub * K
    BY <1>2, <2>8
  <2>10. M \in Nat
    BY <1>2, <2>1
  <2> HIDE DEF A, K, M
  <2> QED
    BY <2>4, <2>5, <2>6, <2>7, <2>8, <2>9, <2>10
<1>9. CoversBill(A + K, sub, TaxTotal, N, Cardinality(J))
  <2>1. A \in Int /\ sub \in Nat
    BY <1>2, <1>5
  <2> HIDE DEF A, K, N
  <2> QED
    BY <1>2, <1>5, <1>8, <2>1, DriftBound DEF c
<1> QED
  BY <1>7, <1>9 DEF n, sub

-----------------------------------------------------------------------------
\* A receipt's items.

\* The units of a line cost what the line costs, and differ by less than one sen
\* per unit.
THEOREM UnitsOfLine ==
  ASSUME NEW item, item.qty \in Nat \ {0}, item.line \in Int, item.unit \in Int
  PROVE  LET total == IF item.line = 0 THEN item.unit * item.qty ELSE item.line
             of    == DOMAIN Units(item)
         IN  /\ Cardinality(of) = item.qty
             /\ SumFunction([n \in of |-> Units(item)[n].line]) = total
             /\ \A n, m \in of : Units(item)[n].line - Units(item)[m].line < item.qty
<1> DEFINE qty == item.qty
           total == IF item.line = 0 THEN item.unit * item.qty ELSE item.line
           unit == GoDiv(total, qty)
           cost == [n \in 1..qty |-> IF n = qty THEN total - unit * (qty - 1) ELSE unit]
<1>1. total \in Int /\ qty \in Nat \ {0}
  <2>1. item.unit * item.qty \in Int
    OBVIOUS
  <2> QED
    BY <2>1
<1>2. /\ unit \in Int
      /\ total >= 0 => qty * unit <= total /\ total < qty * unit + qty
      /\ total < 0 => total <= qty * unit /\ qty * unit < total + qty
  BY <1>1, GoDivBounds
<1>3. Units(item) = [n \in 1..qty |-> [name |-> item.name, line |-> cost[n]]]
  <2>1. ~(item.qty < 1)
    OBVIOUS
  <2> QED
    BY <2>1 DEF Units
<1>4. DOMAIN Units(item) = 1..qty /\ DOMAIN cost = 1..qty
  BY <1>3
<1>5. \A n \in 1..qty : Units(item)[n].line = cost[n]
  BY <1>3
<1> DEFINE lines == [n \in 1..qty |-> Units(item)[n].line]
<1>50. lines = cost
  BY <1>5
<1> HIDE DEF total, unit, lines
<1>6. unit * (qty - 1) = qty * unit - unit /\ qty * unit \in Int
  BY <1>1, <1>2
<1>7. \A n \in 1..qty : cost[n] \in Int /\ cost[n] = IF n = qty THEN total - unit * (qty - 1) ELSE unit
  BY <1>1, <1>2, <1>6
<1> HIDE DEF cost, qty
<1>8. SumFunctionOnSet(cost, 1..qty) = total
  <2>1. IsFiniteSet(1..qty) /\ qty \in 1..qty
    BY <1>1, FS_Interval
  <2>2. SumFunctionOnSet(cost, 1..qty) = cost[qty] + SumFunctionOnSet(cost, (1..qty) \ {qty})
    BY <1>7, <2>1, SumRemove
  <2>3. (1..qty) \ {qty} = 1..(qty - 1)
    BY <1>1
  <2>4. IsFiniteSet(1..(qty - 1)) /\ Cardinality(1..(qty - 1)) = qty - 1
    BY <1>1, FS_Interval
  <2>5. \A n \in 1..(qty - 1) : cost[n] = unit
    BY <1>1, <1>7
  <2>6. SumFunctionOnSet(cost, 1..(qty - 1)) = unit * (qty - 1)
    BY <1>2, <2>4, <2>5, SumConstant
  <2> DEFINE rest == unit * (qty - 1)
  <2>7. cost[qty] = total - rest /\ rest \in Int
    BY <1>2, <1>6, <1>7, <2>1
  <2> HIDE DEF rest
  <2>8. cost[qty] + rest = total
    BY <1>1, <2>7
  <2> QED
    BY <2>2, <2>3, <2>6, <2>8 DEF rest
<1>9. \A n, m \in 1..qty : cost[n] - cost[m] < qty
  BY <1>1, <1>2, <1>6, <1>7
<1>10. Cardinality(1..qty) = qty
  BY <1>1, FS_Interval
<1>11. SumFunction(lines) = total
  BY <1>4, <1>50, <1>8 DEF SumFunction
<1> QED
  BY <1>4, <1>5, <1>9, <1>10, <1>11 DEF total, qty, lines

\* Items of a receipt with their quantities and prices.
Priced(items) ==
    /\ DOMAIN items = 1..Len(items) /\ Len(items) \in Nat
    /\ \A i \in 1..Len(items) :
         items[i] = [name |-> items[i].name, qty |-> items[i].qty, line |-> items[i].line, unit |-> items[i].unit]
    /\ \A i \in 1..Len(items) : items[i].line \in Nat /\ items[i].qty \in Nat

LEMMA WithLineLine ==
  ASSUME NEW n, NEW q, NEW l, NEW u, NEW v
  PROVE  WithLine([name |-> n, qty |-> q, line |-> l, unit |-> u], v).line = v
BY DEF WithLine

\* ScaleItemsToNet's first step.
Scaled(items, net, gross) ==
    [i \in DOMAIN items |-> WithLine(items[i], RoundDiv(items[i].line * net, gross))]

\* Tax-inclusive prices scaled to net ones add up to the subtotal exactly, if any
\* of them is left above 0, and each is its share of the subtotal, give or take
\* half a sen per item of the receipt.
THEOREM ScaledToNet ==
  ASSUME NEW items, Priced(items), NEW net \in Nat, ItemsSumSen(items) > 0,
         \E i \in DOMAIN items : RoundDiv(items[i].line * net, ItemsSumSen(items)) > 0
  PROVE  LET new == ScaleItemsToNet(items, net, ItemsSumSen(items))
         IN  /\ ItemsSumSen(new) = net
             /\ \A i \in DOMAIN items :
                  2 * (new[i].line - RoundDiv(items[i].line * net, ItemsSumSen(items)))
                      \in -Len(items) .. Len(items)
<1> DEFINE n == Len(items)
           I == 1..n
           line == [i \in I |-> items[i].line]
           gross == ItemsSumSen(items)
           share == [i \in I |-> RoundDiv(items[i].line * net, gross)]
           scaled == Scaled(items, net, gross)
           sum == SumFunctionOnSet(share, I)
           drift == net - sum
           positive == {i \in DOMAIN items : scaled[i].line > 0}
           last == Max(positive)
           new == ScaleItemsToNet(items, net, gross)
<1>1. n \in Nat /\ IsFiniteSet(I) /\ Cardinality(I) = n /\ DOMAIN items = I /\ DOMAIN line = I
  <2>1. n \in Nat /\ DOMAIN items = I
    BY DEF Priced
  <2> HIDE DEF n
  <2>2. IsFiniteSet(1..n) /\ Cardinality(1..n) = n
    BY <2>1, FS_Interval
  <2> QED
    BY <2>1, <2>2
<1>2. gross = SumFunctionOnSet(line, I) /\ gross \in Nat \ {0}
  <2>1. gross = SumFunctionOnSet(line, I)
    BY <1>1 DEF ItemsSumSen, SumFunction
  <2>2. \A i \in I : line[i] \in Nat
    BY DEF Priced
  <2> HIDE DEF line, I
  <2>3. gross \in Nat
    BY <1>1, <2>1, <2>2, SumNat
  <2> QED
    BY <2>1, <2>3
<1> HIDE DEF gross
<1>3. ASSUME NEW i \in I
      PROVE  /\ items[i].line * net \in Nat /\ line[i] \in Nat /\ share[i] \in Nat
             /\ 2 * (gross * share[i]) - 2 * (items[i].line * net) \in -gross .. gross
  <2>1. items[i].line * net \in Nat /\ line[i] \in Nat
    BY DEF Priced
  <2>2. RoundDiv(items[i].line * net, gross) \in Nat
        /\ 2 * (gross * RoundDiv(items[i].line * net, gross)) - 2 * (items[i].line * net) \in -gross .. gross
    BY <1>2, <2>1, PortionNear
  <2> QED
    BY <2>1, <2>2
<1>4. 2 * drift \in -n .. n /\ sum \in Nat
  <2> DEFINE part == [i \in I |-> items[i].line * net]
  <2>1. \A i \in I : part[i] \in Int /\ share[i] \in Int /\ 2 * (gross * share[i]) - 2 * part[i] \in -gross .. gross
    BY <1>3
  <2>2. \A i \in I : line[i] \in Int /\ part[i] = line[i] * net
    BY <1>3
  <2>3. \A i \in I : share[i] \in Nat
    BY <1>3
  <2> HIDE DEF share, line, part, I
  <2>4. sum \in Nat
    BY <1>1, <2>3, SumNat
  <2>5. SumFunctionOnSet(part, I) = gross * net
    BY <1>1, <1>2, <2>2, SumTimes
  <2>6. 2 * (gross * sum) - 2 * SumFunctionOnSet(part, I) \in -(gross * n) .. gross * n
    BY <1>1, <1>2, <2>1, SumNear
  <2> HIDE DEF sum, n
  <2>7. gross * (2 * drift) \in -(gross * n) .. gross * n
    <3>1. gross * (2 * drift) = 2 * (gross * net) - 2 * (gross * sum)
      BY <1>2, <2>4
    <3>2. gross * net \in Int /\ gross * sum \in Int /\ gross * n \in Int
      BY <1>1, <1>2, <2>4
    <3> QED
      BY <2>5, <2>6, <3>1, <3>2
  <2>8. 2 * drift \in -n .. n
    <3>1. 2 * drift \in Int /\ 2 * drift - n \in Int
      BY <1>1, <2>4
    <3>2. ASSUME NEW x \in Int, gross * x \in -(gross * n) .. gross * n
          PROVE  x \in -n .. n
      <4>1. x > n => gross * (x - n) > 0
        BY <1>1, <1>2
      <4>2. x < -n => gross * (-n - x) > 0
        BY <1>1, <1>2
      <4>3. gross * (x - n) = gross * x - gross * n /\ gross * (-n - x) = -(gross * n) - gross * x
        BY <1>1, <1>2
      <4>4. gross * x \in Int /\ gross * n \in Int
        BY <1>1, <1>2
      <4> QED
        BY <1>1, <3>2, <4>1, <4>2, <4>3, <4>4
    <3> HIDE DEF drift
    <3> QED
      BY <2>7, <3>1, <3>2
  <2> QED
    BY <2>4, <2>8
<1>5. \A i \in I : scaled[i].line = share[i]
  <2> SUFFICES ASSUME NEW i \in I PROVE scaled[i].line = share[i]
    OBVIOUS
  <2>1. scaled[i] = WithLine(items[i], share[i])
    BY <1>1 DEF Scaled
  <2>2. items[i] = [name |-> items[i].name, qty |-> items[i].qty, line |-> items[i].line, unit |-> items[i].unit]
    BY DEF Priced
  <2> HIDE DEF share, scaled
  <2> QED
    BY <2>1, <2>2, WithLineLine
<1>6. ItemsSumSen(scaled) = sum
  <2>1. DOMAIN scaled = I
    BY <1>1 DEF Scaled
  <2>2. [i \in DOMAIN scaled |-> scaled[i].line] = share
    BY <1>5, <2>1
  <2>3. DOMAIN share = I
    OBVIOUS
  <2> HIDE DEF share, scaled, I
  <2> QED
    BY <2>2, <2>3 DEF ItemsSumSen, SumFunction
<1>7. positive # {} /\ positive \subseteq I /\ last \in I /\ share[last] > 0
  <2>1. positive = {i \in I : share[i] > 0}
    BY <1>1, <1>5
  <2>2. positive # {}
    BY <1>1, <2>1 DEF gross
  <2>3. positive \in SUBSET Int /\ IsFiniteSet(positive)
    <3>1. positive \subseteq I /\ I \subseteq Int
      BY <2>1
    <3> HIDE DEF positive, I
    <3> QED
      BY <1>1, <3>1, FS_Subset
  <2> HIDE DEF positive
  <2>4. last \in positive
    BY <2>2, <2>3, MaxIn
  <2> QED
    BY <2>1, <2>2, <2>4
<1> DEFINE Exact == ItemsSumSen(new) = net
           Close == \A i \in I : 2 * (new[i].line - share[i]) \in -n .. n
<1>8. ASSUME drift = 0 PROVE Exact /\ Close
  <2>1. new = scaled
    BY <1>6, <1>8 DEF ScaleItemsToNet, Scaled
  <2>2. sum = net
    BY <1>4, <1>8
  <2>3. \A i \in I : 2 * (share[i] - share[i]) \in -n .. n
    <3>1. n \in Nat /\ \A i \in I : share[i] \in Nat
      BY <1>1, <1>3
    <3> HIDE DEF share, n, I
    <3> QED
      BY <3>1
  <2> HIDE DEF new, scaled, share, n, sum, I
  <2> QED
    BY <1>5, <1>6, <2>1, <2>2, <2>3
<1>9. ASSUME drift # 0 PROVE Exact /\ Close
  <2> DEFINE price == [i \in I |-> new[i].line]
  <2>1. new = [scaled EXCEPT ![last] = WithLine(scaled[last], scaled[last].line + drift)]
    BY <1>6, <1>7, <1>9 DEF ScaleItemsToNet, Scaled
  <2>2. DOMAIN scaled = I
    BY <1>1 DEF Scaled
  <2>3. scaled[last] = WithLine(items[last], share[last])
    BY <1>1, <1>7 DEF Scaled
  <2>4. new[last].line = share[last] + drift
    <3>1. items[last] = [name |-> items[last].name, qty |-> items[last].qty,
                         line |-> items[last].line, unit |-> items[last].unit]
      BY <1>7 DEF Priced
    <3>2. new[last] = WithLine(WithLine(items[last], share[last]), scaled[last].line + drift)
      BY <1>7, <2>1, <2>2, <2>3
    <3> HIDE DEF new, scaled, share, last, drift, I
    <3>3. WithLine(WithLine(items[last], share[last]), scaled[last].line + drift).line
            = scaled[last].line + drift
      BY <3>1 DEF WithLine
    <3> QED
      BY <1>5, <1>7, <3>2, <3>3
  <2>5. DOMAIN new = I /\ \A i \in I \ {last} : new[i].line = share[i]
    BY <1>5, <2>1, <2>2
  <2>6. ItemsSumSen(new) = SumFunctionOnSet(price, I)
    <3>1. DOMAIN price = I
      OBVIOUS
    <3>2. [i \in DOMAIN new |-> new[i].line] = price
      BY <2>5
    <3> HIDE DEF new, price
    <3> QED
      BY <3>1, <3>2 DEF ItemsSumSen, SumFunction
  <2>7. drift \in Int /\ last \in I /\ \A i \in I : share[i] \in Int
    <3>1. \A i \in I : share[i] \in Nat
      BY <1>3
    <3> HIDE DEF share, sum, last, I
    <3> QED
      BY <1>4, <1>7, <3>1
  <2>8. price[last] = share[last] + drift /\ \A i \in I \ {last} : price[i] = share[i]
    BY <2>4, <2>5, <2>7
  <2> HIDE DEF new, price, share, last, n, I
  <2>9. \A i \in I : price[i] \in Int
    <3> HIDE DEF drift
    <3> QED
      BY <2>7, <2>8
  <2>10. SumFunctionOnSet(price, I) = SumFunctionOnSet(share, I) + (price[last] - share[last])
    BY <1>1, <2>7, <2>8, <2>9, SumChange
  <2>11. Exact
    <3> HIDE DEF sum
    <3>1. SumFunctionOnSet(share, I) = sum
      BY DEF sum
    <3> QED
      BY <1>4, <2>6, <2>7, <2>8, <2>10, <3>1
  <2>12. Close
    <3> SUFFICES ASSUME NEW i \in I PROVE 2 * (new[i].line - share[i]) \in -n .. n
      OBVIOUS
    <3> HIDE DEF drift
    <3>1. CASE i = last
      BY <1>4, <2>4, <2>7, <3>1
    <3>2. CASE i # last
      BY <1>1, <2>5, <2>7, <3>2
    <3> QED
      BY <3>1, <3>2
  <2> QED
    BY <2>11, <2>12
<1>10. Exact /\ Close
  BY <1>8, <1>9
<1> QED
  BY <1>1, <1>10 DEF gross

-----------------------------------------------------------------------------
\* The repair of misassigned totals.

Receipts(items) ==
    [subtotal : Int, sst : Int, service : Int, rounding : Int, total : Int, items : {items}]

\* The figures of a printed receipt whose taxes are at most a fifth.
Plausible(p) ==
    /\ p.subtotal > 0 /\ p.sst >= 0 /\ p.service >= 0
    /\ p.total = p.subtotal + p.sst + p.service
    /\ p.sst + p.service <= (p.subtotal * 20) \div 100
    /\ p.rounding \in -2..2

SameFigures(r, p) ==
    /\ r.subtotal = p.subtotal /\ r.total = p.total /\ r.items = p.items
    /\ TaxTotalSen(r) = TaxTotalSen(p)

\* A receipt read correctly keeps its subtotal, its total and the sum of its
\* taxes, whatever the amounts.
THEOREM CorrectFiguresKept ==
    ASSUME NEW items, NEW p \in Receipts(items), Plausible(p)
    PROVE  SameFigures(RepairMisassignedTotals(p), p)
<1> DEFINE r == RelabelServiceTax(p)
<1>1. r \in Receipts(items) /\ SameFigures(r, p) /\ r.rounding = p.rounding
      /\ r.sst >= 0 /\ r.service >= 0 /\ r.sst + r.service = p.sst + p.service
  BY DEF RelabelServiceTax, WithFigures, Receipts, Plausible, SameFigures, TaxTotalSen
<1>2. r.sst < (r.subtotal * 95) \div 100 \/ r.subtotal <= 2
  BY <1>1 DEF Receipts, Plausible, SameFigures
<1>3. ~TaxInService(r)
  BY <1>1 DEF TaxInService, Receipts, Plausible, SameFigures
<1>4. ~TotalInSst(r)
  BY <1>1, <1>2 DEF TotalInSst, ImpliedTax, Receipts, Plausible, SameFigures
<1> QED
  BY <1>1, <1>3, <1>4 DEF RepairMisassignedTotals, Plausible, Receipts

\* A printed total that was read as the sales tax is put back, and the sum of the
\* taxes comes out within the 2 sen that rounding may hide, if the tax can be told
\* from rounding and from the repair's bound of a fifth.
THEOREM MisplacedTotalRestored ==
    ASSUME NEW items, NEW p \in Receipts(items), Plausible(p),
           p.sst >= 3, p.sst + 2 <= (p.subtotal * 20) \div 100,
           NEW t \in {0, p.total, p.total + p.rounding}, NEW d \in {0, p.rounding}
    PROVE  LET r == RepairMisassignedTotals(WithFigures(p, p.total, p.service, d, t))
           IN  /\ r.subtotal = p.subtotal /\ r.total = p.total /\ r.items = p.items
               /\ SenClose(TaxTotalSen(r), TaxTotalSen(p))
<1> DEFINE a == WithFigures(p, p.total, p.service, d, t)
<1>1. a \in Receipts(items) /\ a.subtotal = p.subtotal /\ a.sst = p.total /\ a.service = p.service
      /\ a.rounding = d /\ a.total = t /\ a.items = p.items
  BY DEF WithFigures, Receipts, Plausible
<1>2. RelabelServiceTax(a) = a
  BY <1>1 DEF RelabelServiceTax, Receipts, Plausible
<1>3. ~TaxInService(a)
  BY <1>1 DEF TaxInService, SenClose, Receipts, Plausible
<1>4. ImpliedTax(a) = p.sst - d
  BY <1>1 DEF ImpliedTax, Receipts, Plausible
<1>5. TotalInSst(a)
  <2>1. a.sst >= (a.subtotal * 95) \div 100
    BY <1>1 DEF Receipts, Plausible
  <2>2. ImpliedTax(a) \in 1..((a.subtotal * 20) \div 100)
    BY <1>1, <1>4 DEF Receipts, Plausible
  <2>3. a.total = 0 \/ SenClose(a.total, a.sst)
    BY <1>1 DEF SenClose, Receipts, Plausible
  <2> QED
    BY <2>1, <2>2, <2>3 DEF TotalInSst
<1>6. RepairMisassignedTotals(a) = TotalFromSst(a, p.sst - d, p.service)
  BY <1>1, <1>2, <1>3, <1>4, <1>5 DEF RepairMisassignedTotals, Plausible, Receipts
<1> QED
  BY <1>1, <1>6 DEF TotalFromSst, WithFigures, TaxTotalSen, SenClose, Receipts, Plausible

=============================================================================
