--------------------------- MODULE Receipt_proofs ---------------------------
(***************************************************************************)
(* The scan pipeline for all receipts: what the loops over a receipt's     *)
(* lines compute, what the calls of the pipeline do to its figures, and    *)
(* from these the invariants of Receipt for any number of items and any    *)
(* amounts.                                                                *)
(***************************************************************************)
EXTENDS Receipt, Amounts_proofs

\* Induction up to a number: what holds of 0 and of the next number holds of all.
LEMMA Upto ==
  ASSUME NEW n \in Nat, NEW T, 0 \in T, \A i \in 0..n : i < n /\ i \in T => i + 1 \in T
  PROVE  \A i \in 0..n : i \in T
<1> DEFINE B == {1..i : i \in (0..n) \ T}
<1>1. SUFFICES ASSUME B # {} PROVE FALSE
  OBVIOUS
<1>2. PICK s \in B : \A t \in B : t \subseteq s => t = s
  <2> DEFINE N == 1..n
  <2>1. B \subseteq SUBSET N
    OBVIOUS
  <2>2. IsFiniteSet(N)
    BY FS_Interval
  <2> HIDE DEF B, N
  <2> QED
    BY <1>1, <2>1, <2>2, LeastSubset
<1>3. PICK i \in (0..n) \ T : s = 1..i
  BY <1>2
<1>4. i - 1 \in (0..n) \ T
  BY <1>3
<1>5. 1..(i - 1) \in B /\ 1..(i - 1) \subseteq s /\ i \in s /\ i \notin 1..(i - 1)
  BY <1>3, <1>4
<1> QED
  BY <1>2, <1>5

LEMMA MaxIs ==
  ASSUME NEW S \in SUBSET Int, NEW x \in S, \A y \in S : y <= x
  PROVE  Max(S) = x
<1> DEFINE m == CHOOSE y \in S : \A z \in S : y >= z
<1>1. \E y \in S : \A z \in S : y >= z
  OBVIOUS
<1>2. m \in S /\ \A z \in S : m >= z
  BY <1>1
<1>3. Max(S) = m
  BY DEF Max
<1> HIDE DEF m
<1>4. m \in Int /\ x \in Int /\ m <= x /\ m >= x
  BY <1>2
<1>5. m = x
  BY <1>4
<1> QED
  BY <1>3, <1>5

-----------------------------------------------------------------------------
\* FlattenSeq joins one sequence after the other.
Joins(f, seqs) ==
    f = [i \in 1..Len(seqs) |-> IF i = 1 THEN seqs[i] ELSE f[i - 1] \o seqs[i]]

LEMMA FlattenIsJoined ==
  ASSUME NEW seqs, Len(seqs) \in Nat \ {0}
  PROVE  \E f : Joins(f, seqs) /\ FlattenSeq(seqs) = f[Len(seqs)]
<1> DEFINE n == Len(seqs)
           Joined(f, m) == f = [i \in 1..m |-> IF i = 1 THEN seqs[i] ELSE f[i - 1] \o seqs[i]]
           T == {m \in 0..n : \E f : Joined(f, m)}
<1>1. 0 \in T
  <2>1. Joined([i \in 1..0 |-> IF i = 1 THEN seqs[i] ELSE seqs[i - 1] \o seqs[i]], 0)
    OBVIOUS
  <2>2. \E f : Joined(f, 0)
    BY <2>1
  <2> HIDE DEF Joined
  <2> QED
    BY <2>2
<1>2. ASSUME NEW m \in 0..n, m < n, m \in T PROVE m + 1 \in T
  <2>1. PICK f : Joined(f, m)
    BY <1>2
  <2> DEFINE g == [i \in 1..(m + 1) |-> IF i = m + 1
                                        THEN IF i = 1 THEN seqs[i] ELSE f[i - 1] \o seqs[i]
                                        ELSE f[i]]
  <2>2. ASSUME NEW i \in 1..(m + 1) PROVE g[i] = IF i = 1 THEN seqs[i] ELSE g[i - 1] \o seqs[i]
    <3>1. i # 1 => i - 1 \in 1..m /\ g[i - 1] = f[i - 1]
      OBVIOUS
    <3>2. CASE i = m + 1
      BY <3>1, <3>2
    <3>3. CASE i # m + 1
      <4>1. i \in 1..m
        BY <3>3
      <4>2. f[i] = [j \in 1..m |-> IF j = 1 THEN seqs[j] ELSE f[j - 1] \o seqs[j]][i]
        BY <2>1
      <4> QED
        BY <3>1, <3>3, <4>1, <4>2
    <3> QED
      BY <3>2, <3>3
  <2>3. Joined(g, m + 1)
    BY <2>2
  <2> HIDE DEF Joined, g
  <2> QED
    BY <1>2, <2>3
<1>3. n \in T
  <2>1. n \in Nat /\ n \in 0..n
    OBVIOUS
  <2> HIDE DEF T, n
  <2>2. \A i \in 0..n : i \in T
    BY <1>1, <1>2, <2>1, Upto
  <2> QED
    BY <2>1, <2>2
<1>4. \E f : Joins(f, seqs)
  BY <1>3 DEF T, Joins
<1>5. FlattenSeq(seqs) = (CHOOSE f : Joins(f, seqs))[n]
  BY DEF FlattenSeq, Joins
<1> QED
  BY <1>4, <1>5

-----------------------------------------------------------------------------
\* A loop over a receipt's items is a fold over their indices from the greatest
\* down; what it has after the first i of them is what a step makes of what it
\* had before.
Named(g, its) ==
    g = [s \in SUBSET (DOMAIN its) |-> IF s = {} THEN <<>> ELSE AddNamed(g[s \ {Max(s)}], its[Max(s)])]

NamedUpto(its, m) ==
    \E g : g = [s \in SUBSET (1..m) |->
                  IF s = {} THEN <<>> ELSE AddNamed(g[s \ {Max(s)}], its[Max(s)])]

LEMMA NamedExtend ==
  ASSUME NEW its, NEW m \in Nat, NamedUpto(its, m)
  PROVE  NamedUpto(its, m + 1)
<1>1. PICK g : g = [s \in SUBSET (1..m) |->
                      IF s = {} THEN <<>> ELSE AddNamed(g[s \ {Max(s)}], its[Max(s)])]
  BY DEF NamedUpto
<1> DEFINE k == [s \in SUBSET (1..(m + 1)) |->
                   IF m + 1 \in s THEN AddNamed(g[s \ {m + 1}], its[m + 1]) ELSE g[s]]
<1>2. ASSUME NEW s \in SUBSET (1..(m + 1))
      PROVE  k[s] = IF s = {} THEN <<>> ELSE AddNamed(k[s \ {Max(s)}], its[Max(s)])
  <2>1. CASE m + 1 \in s
    <3>1. Max(s) = m + 1
      <4>1. s \in SUBSET Int /\ \A y \in s : y <= m + 1
        OBVIOUS
      <4> QED
        BY <2>1, <4>1, MaxIs
    <3>2. k[s \ {m + 1}] = g[s \ {m + 1}]
      OBVIOUS
    <3>3. k[s] = AddNamed(g[s \ {m + 1}], its[m + 1])
      BY <2>1
    <3> HIDE DEF k
    <3> QED
      BY <2>1, <3>1, <3>2, <3>3
  <2>2. CASE m + 1 \notin s
    <3>1. s \in SUBSET (1..m)
      BY <2>2
    <3>2. g[s] = IF s = {} THEN <<>> ELSE AddNamed(g[s \ {Max(s)}], its[Max(s)])
      BY <1>1, <3>1
    <3>3. k[s] = g[s] /\ k[s \ {Max(s)}] = g[s \ {Max(s)}]
      BY <2>2
    <3> HIDE DEF k
    <3> QED
      BY <3>2, <3>3
  <2> QED
    BY <2>1, <2>2
<1>3. k = [s \in SUBSET (1..(m + 1)) |->
             IF s = {} THEN <<>> ELSE AddNamed(k[s \ {Max(s)}], its[Max(s)])]
  <2>1. DOMAIN k = SUBSET (1..(m + 1)) /\ k = [s \in SUBSET (1..(m + 1)) |-> k[s]]
    OBVIOUS
  <2> HIDE DEF k
  <2> QED
    BY <1>2, <2>1
<1> HIDE DEF k
<1> QED
  BY <1>3 DEF NamedUpto

LEMMA NamedLoop ==
  ASSUME NEW its, NEW n \in Nat, DOMAIN its = 1..n
  PROVE  \E h : /\ h[0] = <<>>
                /\ \A i \in 1..n : h[i] = AddNamed(h[i - 1], its[i])
                /\ FoldLeft(AddNamed, <<>>, its) = h[n]
<1> DEFINE T == {m \in 0..n : NamedUpto(its, m)}
<1>1. 0 \in T
  <2> DEFINE g == [s \in SUBSET (1..0) |-> <<>>]
  <2>1. g = [s \in SUBSET (1..0) |->
               IF s = {} THEN <<>> ELSE AddNamed(g[s \ {Max(s)}], its[Max(s)])]
    <3>1. \A s \in SUBSET (1..0) : s = {}
      OBVIOUS
    <3> QED
      BY <3>1
  <2> HIDE DEF g
  <2>2. NamedUpto(its, 0)
    BY <2>1 DEF NamedUpto
  <2> QED
    BY <2>2
<1>2. ASSUME NEW m \in 0..n, m < n, m \in T PROVE m + 1 \in T
  BY <1>2, NamedExtend
<1>3. n \in T
  <2> HIDE DEF T
  <2>1. \A i \in 0..n : i \in T
    BY <1>1, <1>2, Upto
  <2> QED
    BY <2>1
<1>4. \E g : Named(g, its)
  BY <1>3 DEF Named, NamedUpto
<1> DEFINE g == CHOOSE g : Named(g, its)
<1>5. Named(g, its)
  BY <1>4
<1>6. FoldLeft(AddNamed, <<>>, its) = g[DOMAIN its]
  BY DEF FoldLeft, MapThenFoldSet, Named
<1> HIDE DEF g
<1> DEFINE h == [i \in 0..n |-> g[1..i]]
<1>7. h[0] = <<>>
  <2>1. 1..0 = {} /\ {} \in SUBSET (DOMAIN its)
    OBVIOUS
  <2> QED
    BY <1>5, <2>1 DEF Named
<1>8. ASSUME NEW i \in 1..n PROVE h[i] = AddNamed(h[i - 1], its[i])
  <2>1. 1..i \in SUBSET (DOMAIN its) /\ 1..i # {} /\ (1..i) \ {i} = 1..(i - 1)
    <3>1. 1..i \subseteq 1..n /\ i \in 1..i
      OBVIOUS
    <3>2. (1..i) \ {i} = 1..(i - 1)
      OBVIOUS
    <3> QED
      BY <3>1, <3>2
  <2>2. Max(1..i) = i
    <3>1. 1..i \in SUBSET Int /\ i \in 1..i /\ \A y \in 1..i : y <= i
      OBVIOUS
    <3> QED
      BY <3>1, MaxIs
  <2>3. g[1..i] = AddNamed(g[1..(i - 1)], its[i])
    BY <1>5, <2>1, <2>2 DEF Named
  <2> QED
    BY <2>3
<1>9. FoldLeft(AddNamed, <<>>, its) = h[n]
  BY <1>6
<1> QED
  BY <1>7, <1>8, <1>9

Repaired(g, r) ==
    LET index == [i \in DOMAIN r.items |-> i]
    IN  g = [s \in SUBSET (DOMAIN index) |->
               IF s = {} THEN r ELSE RepairLine(g[s \ {Max(s)}], index[Max(s)])]

RepairedUpto(r, m) ==
    \E g : g = [s \in SUBSET (1..m) |->
                  IF s = {} THEN r ELSE RepairLine(g[s \ {Max(s)}], Max(s))]

LEMMA RepairedExtend ==
  ASSUME NEW r, NEW m \in Nat, RepairedUpto(r, m)
  PROVE  RepairedUpto(r, m + 1)
<1>1. PICK g : g = [s \in SUBSET (1..m) |->
                      IF s = {} THEN r ELSE RepairLine(g[s \ {Max(s)}], Max(s))]
  BY DEF RepairedUpto
<1> DEFINE k == [s \in SUBSET (1..(m + 1)) |->
                   IF m + 1 \in s THEN RepairLine(g[s \ {m + 1}], m + 1) ELSE g[s]]
<1>2. ASSUME NEW s \in SUBSET (1..(m + 1))
      PROVE  k[s] = IF s = {} THEN r ELSE RepairLine(k[s \ {Max(s)}], Max(s))
  <2>1. CASE m + 1 \in s
    <3>1. Max(s) = m + 1
      <4>1. s \in SUBSET Int /\ \A y \in s : y <= m + 1
        OBVIOUS
      <4> QED
        BY <2>1, <4>1, MaxIs
    <3>2. k[s \ {m + 1}] = g[s \ {m + 1}]
      OBVIOUS
    <3>3. k[s] = RepairLine(g[s \ {m + 1}], m + 1)
      BY <2>1
    <3> HIDE DEF k
    <3> QED
      BY <2>1, <3>1, <3>2, <3>3
  <2>2. CASE m + 1 \notin s
    <3>1. s \in SUBSET (1..m)
      BY <2>2
    <3>2. g[s] = IF s = {} THEN r ELSE RepairLine(g[s \ {Max(s)}], Max(s))
      BY <1>1, <3>1
    <3>3. k[s] = g[s] /\ k[s \ {Max(s)}] = g[s \ {Max(s)}]
      BY <2>2
    <3> HIDE DEF k
    <3> QED
      BY <3>2, <3>3
  <2> QED
    BY <2>1, <2>2
<1>3. k = [s \in SUBSET (1..(m + 1)) |->
             IF s = {} THEN r ELSE RepairLine(k[s \ {Max(s)}], Max(s))]
  <2>1. DOMAIN k = SUBSET (1..(m + 1)) /\ k = [s \in SUBSET (1..(m + 1)) |-> k[s]]
    OBVIOUS
  <2> HIDE DEF k
  <2> QED
    BY <1>2, <2>1
<1> HIDE DEF k
<1> QED
  BY <1>3 DEF RepairedUpto

LEMMA RepairLoop ==
  ASSUME NEW r, NEW n \in Nat, DOMAIN r.items = 1..n
  PROVE  \E h : /\ h[0] = r
                /\ \A i \in 1..n : h[i] = RepairLine(h[i - 1], i)
                /\ FoldLeftDomain(RepairLine, r, r.items) = h[n]
<1> DEFINE T == {m \in 0..n : RepairedUpto(r, m)}
<1>1. 0 \in T
  <2> DEFINE g == [s \in SUBSET (1..0) |-> r]
  <2>1. g = [s \in SUBSET (1..0) |->
               IF s = {} THEN r ELSE RepairLine(g[s \ {Max(s)}], Max(s))]
    <3>1. \A s \in SUBSET (1..0) : s = {}
      OBVIOUS
    <3> QED
      BY <3>1
  <2> HIDE DEF g
  <2>2. RepairedUpto(r, 0)
    BY <2>1 DEF RepairedUpto
  <2> QED
    BY <2>2
<1>2. ASSUME NEW m \in 0..n, m < n, m \in T PROVE m + 1 \in T
  BY <1>2, RepairedExtend
<1>3. n \in T
  <2> HIDE DEF T
  <2>1. \A i \in 0..n : i \in T
    BY <1>1, <1>2, Upto
  <2> QED
    BY <2>1
<1>4. \E g : Repaired(g, r)
  <2>1. PICK k : k = [s \in SUBSET (1..n) |-> IF s = {} THEN r ELSE RepairLine(k[s \ {Max(s)}], Max(s))]
    BY <1>3 DEF RepairedUpto
  <2>2. ASSUME NEW s \in SUBSET (1..n), s # {} PROVE Max(s) \in 1..n
    <3> DEFINE N == 1..n
    <3>1. N \in SUBSET Int
      OBVIOUS
    <3>2. IsFiniteSet(N)
      BY FS_Interval
    <3>3. s \subseteq N
      OBVIOUS
    <3> HIDE DEF N
    <3>4. Max(s) \in s
      BY <2>2, <3>1, <3>2, <3>3, FS_Subset, MaxIn
    <3> QED
      BY <3>4
  <2> DEFINE index == [i \in DOMAIN r.items |-> i]
  <2>3. DOMAIN index = 1..n /\ \A i \in 1..n : index[i] = i
    OBVIOUS
  <2> HIDE DEF index
  <2>4. k = [s \in SUBSET (DOMAIN index) |->
               IF s = {} THEN r ELSE RepairLine(k[s \ {Max(s)}], index[Max(s)])]
    BY <2>1, <2>2, <2>3
  <2>5. Repaired(k, r)
    BY <2>4 DEF Repaired, index
  <2> QED
    BY <2>5
<1> DEFINE g == CHOOSE g : Repaired(g, r)
<1>5. Repaired(g, r)
  BY <1>4
<1>6. FoldLeftDomain(RepairLine, r, r.items) = g[DOMAIN [i \in DOMAIN r.items |-> i]]
  BY DEF FoldLeftDomain, FoldLeft, MapThenFoldSet, Repaired
<1> HIDE DEF g
<1> DEFINE h == [i \in 0..n |-> g[1..i]]
<1>7. h[0] = r
  <2>1. 1..0 = {} /\ {} \in SUBSET (DOMAIN r.items)
    OBVIOUS
  <2> QED
    BY <1>5, <2>1 DEF Repaired
<1>8. ASSUME NEW i \in 1..n PROVE h[i] = RepairLine(h[i - 1], i)
  <2>1. 1..i \in SUBSET (DOMAIN r.items) /\ 1..i # {} /\ (1..i) \ {i} = 1..(i - 1)
    <3>1. 1..i \subseteq 1..n /\ i \in 1..i
      OBVIOUS
    <3>2. (1..i) \ {i} = 1..(i - 1)
      OBVIOUS
    <3> QED
      BY <3>1, <3>2
  <2>2. Max(1..i) = i
    <3>1. 1..i \in SUBSET Int /\ i \in 1..i /\ \A y \in 1..i : y <= i
      OBVIOUS
    <3> QED
      BY <3>1, MaxIs
  <2>3. g[1..i] = RepairLine(g[1..(i - 1)], i)
    BY <1>5, <2>1, <2>2 DEF Repaired
  <2> QED
    BY <2>3
<1>9. FoldLeftDomain(RepairLine, r, r.items) = h[n]
  BY <1>6
<1> QED
  BY <1>7, <1>8, <1>9

-----------------------------------------------------------------------------
\* The items of an answer, and what the pipeline makes of them.
Answered == [name : STRING \cup {NoName}, qty : Nat, unit : Nat, line : Int]

Entries ==
    {it \in [name : STRING, qty : Nat \ {0}, unit : Int, line : Int] :
        it.name # NoName /\ (it.line = 0 => it.unit = 0)}

Distinct(items) == \A i, j \in DOMAIN items : items[i].name = items[j].name => i = j

LEMMA GoDivZero == ASSUME NEW b \in Nat \ {0} PROVE GoDiv(0, b) = 0
BY DEF GoDiv

\* A line is priced at nothing only if its unit is.
LEMMA MapItemEntry ==
  ASSUME NEW it \in Answered, it.name # NoName
  PROVE  MapItem(it) \in Entries /\ MapItem(it).name = it.name
<1> DEFINE qty == IF it.qty < 1 THEN 1 ELSE it.qty
           line == IF it.line = 0 THEN it.unit * qty ELSE it.line
           unit == IF it.unit = 0 THEN GoDiv(line, qty) ELSE it.unit
<1>0. it.qty \in Nat /\ it.unit \in Nat /\ it.line \in Int
  BY DEF Answered
<1>1. qty \in Nat \ {0}
  <2>1. CASE it.qty < 1
    BY <2>1
  <2>2. CASE ~(it.qty < 1)
    BY <1>0, <2>2
  <2> QED
    BY <2>1, <2>2
<1> HIDE DEF qty, unit, line
<1>2. it.unit * qty \in Nat /\ (it.unit * qty = 0 => it.unit = 0)
  BY <1>0, <1>1
<1>3. line \in Int
  BY <1>0, <1>1, <1>2 DEF line
<1>4. GoDiv(line, qty) \in Int
  BY <1>1, <1>3, GoDivBounds
<1>5. line = 0 => unit = 0
  BY <1>0, <1>1, <1>2, GoDivZero DEF line, unit
<1>6. unit \in Int
  BY <1>0, <1>4 DEF unit
<1>7. MapItem(it) = [name |-> it.name, qty |-> qty, line |-> line, unit |-> unit]
  BY DEF MapItem, qty, line, unit
<1>8. it.name \in STRING
  BY DEF Answered
<1> QED
  BY <1>8, <1>1, <1>3, <1>5, <1>6, <1>7 DEF Entries

\* mapLLMResponse keeps the named items in order, whatever the others are.
LEMMA NamedItems ==
  ASSUME NEW its \in Seq(Answered)
  PROVE  LET kept == FoldLeft(AddNamed, <<>>, its)
         IN  /\ kept \in Seq(Entries)
             /\ Distinct(its) => Distinct(kept)
             /\ (\A i \in DOMAIN its : its[i].name # NoName) => kept = [i \in DOMAIN its |-> MapItem(its[i])]
<1> DEFINE n == Len(its)
<1>1. n \in Nat /\ DOMAIN its = 1..n /\ \A i \in 1..n : its[i] \in Answered
  OBVIOUS
<1>2. PICK h : /\ h[0] = <<>>
               /\ \A i \in 1..n : h[i] = AddNamed(h[i - 1], its[i])
               /\ FoldLeft(AddNamed, <<>>, its) = h[n]
  <2> HIDE DEF n
  <2> QED
    BY <1>1, NamedLoop
<1> HIDE DEF n
<1> DEFINE AllNamed == \A i \in 1..n : its[i].name # NoName
           Good(m) ==
             /\ h[m] \in Seq(Entries)
             /\ \A j \in 1..Len(h[m]) : \E i \in 1..m : h[m][j].name = its[i].name
             /\ Distinct(its) => Distinct(h[m])
             /\ AllNamed => Len(h[m]) = m /\ \A i \in 1..m : h[m][i] = MapItem(its[i])
           T == {m \in 0..n : Good(m)}
<1>3. 0 \in T
  <2>1. h[0] = <<>> /\ h[0] \in Seq(Entries) /\ Len(h[0]) = 0 /\ DOMAIN h[0] = {}
    BY <1>2
  <2>2. Distinct(h[0])
    BY <2>1 DEF Distinct
  <2>3. Good(0)
    BY <2>1, <2>2
  <2> QED
    BY <1>1, <2>3
<1>4. ASSUME NEW m \in 0..n, m < n, m \in T PROVE m + 1 \in T
  <2> DEFINE it == its[m + 1]
  <2>1. m + 1 \in 1..n /\ it \in Answered
    BY <1>1, <1>4
  <2>2. h[m + 1] = AddNamed(h[m], it)
    BY <1>2, <2>1
  <2>3. Good(m)
    BY <1>4
  <2>4. CASE it.name = NoName
    <3>1. h[m + 1] = h[m]
      BY <2>2, <2>4 DEF AddNamed
    <3>2. Good(m + 1)
      BY <2>1, <2>3, <2>4, <3>1
    <3> QED
      BY <2>1, <3>2
  <2>5. CASE it.name # NoName
    <3> DEFINE e == MapItem(it)
               s == h[m]
    <3>1. e \in Entries /\ e.name = it.name
      BY <2>1, <2>5, MapItemEntry
    <3>2. h[m + 1] = Append(s, e) /\ s \in Seq(Entries)
      BY <2>2, <2>3, <2>5 DEF AddNamed
    <3> HIDE DEF e
    <3>3. /\ Append(s, e) \in Seq(Entries) /\ Len(Append(s, e)) = Len(s) + 1
          /\ \A j \in 1..Len(s) : Append(s, e)[j] = s[j]
          /\ Append(s, e)[Len(s) + 1] = e
      BY <3>1, <3>2
    <3>4. \A j \in 1..(Len(s) + 1) : \E i \in 1..(m + 1) : Append(s, e)[j].name = its[i].name
      <4> SUFFICES ASSUME NEW j \in 1..(Len(s) + 1)
                   PROVE  \E i \in 1..(m + 1) : Append(s, e)[j].name = its[i].name
        OBVIOUS
      <4>1. CASE j \in 1..Len(s)
        BY <2>3, <3>3, <4>1
      <4>2. CASE j = Len(s) + 1
        BY <3>1, <3>3, <4>2
      <4> QED
        BY <3>2, <4>1, <4>2
    <3>5. ASSUME Distinct(its) PROVE Distinct(Append(s, e))
      <4>1. DOMAIN Append(s, e) = 1..(Len(s) + 1) /\ DOMAIN s = 1..Len(s)
        BY <3>2, <3>3
      <4>2. ASSUME NEW j \in 1..Len(s) PROVE s[j].name # e.name
        <5>1. PICK i \in 1..m : s[j].name = its[i].name
          BY <2>3
        <5>2. i # m + 1 /\ i \in DOMAIN its /\ m + 1 \in DOMAIN its
          BY <1>1, <2>1
        <5> QED
          BY <3>1, <3>5, <5>1, <5>2 DEF Distinct
      <4>3. Distinct(s)
        BY <2>3, <3>5
      <4> SUFFICES ASSUME NEW i \in 1..(Len(s) + 1), NEW j \in 1..(Len(s) + 1),
                          Append(s, e)[i].name = Append(s, e)[j].name
                   PROVE  i = j
        BY <4>1 DEF Distinct
      <4>4. Len(s) \in Nat
        BY <3>2
      <4>5. CASE i \in 1..Len(s) /\ j \in 1..Len(s)
        BY <3>3, <4>1, <4>3, <4>5 DEF Distinct
      <4>6. CASE i = Len(s) + 1 /\ j \in 1..Len(s)
        BY <3>3, <4>2, <4>6
      <4>7. CASE i \in 1..Len(s) /\ j = Len(s) + 1
        BY <3>3, <4>2, <4>7
      <4> QED
        BY <4>4, <4>5, <4>6, <4>7
    <3>6. ASSUME \A i \in 1..n : its[i].name # NoName
          PROVE  Len(Append(s, e)) = m + 1 /\ \A i \in 1..(m + 1) : Append(s, e)[i] = MapItem(its[i])
      BY <2>1, <2>3, <3>3, <3>6 DEF e
    <3>7. Good(m + 1)
      BY <3>2, <3>3, <3>4, <3>5, <3>6
    <3> QED
      BY <2>1, <3>7
  <2> QED
    BY <2>4, <2>5
<1>5. Good(n)
  <2> HIDE DEF T
  <2>1. \A i \in 0..n : i \in T
    BY <1>1, <1>3, <1>4, Upto
  <2>2. n \in T
    BY <1>1, <2>1
  <2> QED
    BY <2>2 DEF T
<1>6. ASSUME \A i \in 1..n : its[i].name # NoName PROVE h[n] = [i \in 1..n |-> MapItem(its[i])]
  <2>1. Len(h[n]) = n /\ h[n] \in Seq(Entries) /\ \A i \in 1..n : h[n][i] = MapItem(its[i])
    BY <1>5, <1>6
  <2> QED
    BY <2>1
<1> QED
  BY <1>1, <1>2, <1>5, <1>6

\* What the calls hand from one to the next.
Scanned ==
    [subtotal : Int, sst : Int, service : Int, rounding : Int, total : Int, items : Seq(Entries)]

LEMMA SumSenType ==
  ASSUME NEW items, NEW n \in Nat, DOMAIN items = 1..n, \A i \in 1..n : items[i].line \in Int
  PROVE  ItemsSumSen(items) \in Int
<1> DEFINE line == [i \in DOMAIN items |-> items[i].line]
           N == 1..n
<1>1. IsFiniteSet(N) /\ DOMAIN line = N /\ \A i \in N : line[i] \in Int
  BY FS_Interval
<1>2. ItemsSumSen(items) = SumFunctionOnSet(line, DOMAIN line)
  BY DEF ItemsSumSen, SumFunction
<1> HIDE DEF line, N
<1> QED
  BY <1>1, <1>2, SumType

LEMMA EntriesSeq ==
  ASSUME NEW items \in Seq(Entries)
  PROVE  /\ Len(items) \in Nat /\ DOMAIN items = 1..Len(items)
         /\ \A i \in 1..Len(items) :
              /\ items[i] \in Entries
              /\ items[i] = [name |-> items[i].name, qty |-> items[i].qty,
                             line |-> items[i].line, unit |-> items[i].unit]
              /\ items[i].line \in Int /\ items[i].unit \in Int /\ items[i].qty \in Nat \ {0}
              /\ items[i].name # NoName /\ (items[i].line = 0 => items[i].unit = 0)
              /\ items[i].name \in STRING
         /\ ItemsSumSen(items) \in Int
<1>1. Len(items) \in Nat /\ DOMAIN items = 1..Len(items) /\ \A i \in 1..Len(items) : items[i] \in Entries
  OBVIOUS
<1>2. ASSUME NEW e \in Entries
      PROVE  /\ e = [name |-> e.name, qty |-> e.qty, line |-> e.line, unit |-> e.unit]
             /\ e.line \in Int /\ e.unit \in Int /\ e.qty \in Nat \ {0}
             /\ e.name # NoName /\ (e.line = 0 => e.unit = 0)
             /\ e.name \in STRING
  BY DEF Entries
<1>3. ItemsSumSen(items) \in Int
  <2> DEFINE n == Len(items)
  <2>1. n \in Nat /\ DOMAIN items = 1..n /\ \A i \in 1..n : items[i].line \in Int
    BY <1>1, <1>2
  <2> HIDE DEF n
  <2> QED
    BY <2>1, SumSenType
<1> QED
  BY <1>1, <1>2, <1>3

LEMMA WithLineEntry ==
  ASSUME NEW it \in Entries, NEW line \in Int
  PROVE  /\ WithLine(it, line) \in Entries
         /\ WithLine(it, line) = [name |-> it.name, qty |-> it.qty, line |-> line, unit |-> GoDiv(line, it.qty)]
         /\ WithLine(it, line).line = line /\ WithLine(it, line).name = it.name
         /\ WithLine(it, line).qty = it.qty
<1>1. /\ it.qty \in Nat \ {0} /\ it.name \in STRING /\ it.name # NoName
      /\ it = [name |-> it.name, qty |-> it.qty, line |-> it.line, unit |-> it.unit]
  BY DEF Entries
<1>2. WithLine(it, line) = [name |-> it.name, qty |-> it.qty, line |-> line, unit |-> GoDiv(line, it.qty)]
  <2>1. it.qty > 0
    BY <1>1
  <2>2. WithLine(it, line) = [it EXCEPT !.line = line, !.unit = GoDiv(line, it.qty)]
    BY <2>1 DEF WithLine
  <2> QED
    BY <1>1, <2>2
<1>3. GoDiv(line, it.qty) \in Int
  BY <1>1, GoDivBounds
<1>4. line = 0 => GoDiv(line, it.qty) = 0
  BY <1>1, GoDivZero
<1> QED
  BY <1>1, <1>2, <1>3, <1>4 DEF Entries

LEMMA TotalsType ==
  ASSUME NEW r \in Scanned
  PROVE  RepairMisassignedTotals(r) \in Scanned /\ RepairMisassignedTotals(r).items = r.items
         /\ RepairMisassignedTotals(r).subtotal = r.subtotal
<1> DEFINE s == RelabelServiceTax(r)
<1>1. s \in Scanned /\ s.items = r.items /\ s.subtotal = r.subtotal
  BY DEF Scanned, RelabelServiceTax, WithFigures
<1>2. ASSUME NEW sst \in Int, NEW service \in Int
      PROVE  TotalFromSst(s, sst, service) \in Scanned /\ TotalFromSst(s, sst, service).items = r.items
             /\ TotalFromSst(s, sst, service).subtotal = r.subtotal
  BY <1>1 DEF Scanned, TotalFromSst, WithFigures
<1>3. s.service \in Int /\ ImpliedTax(s) \in Int
  BY <1>1 DEF Scanned, ImpliedTax
<1> HIDE DEF s
<1>4. RepairMisassignedTotals(r) \in {r, s, TotalFromSst(s, s.service, 0), TotalFromSst(s, ImpliedTax(s), s.service)}
  BY DEF RepairMisassignedTotals, Scanned, s
<1> QED
  BY <1>1, <1>2, <1>3, <1>4

PutItem(r, i, it) == [r EXCEPT !.items[i] = it]

LEMMA PutItemType ==
  ASSUME NEW r \in Scanned, NEW i \in DOMAIN r.items, NEW it \in Entries
  PROVE  /\ PutItem(r, i, it) \in Scanned
         /\ PutItem(r, i, it).items = [r.items EXCEPT ![i] = it]
         /\ PutItem(r, i, it).subtotal = r.subtotal /\ PutItem(r, i, it).sst = r.sst
         /\ PutItem(r, i, it).service = r.service /\ PutItem(r, i, it).rounding = r.rounding
         /\ PutItem(r, i, it).total = r.total
         /\ ItemsSumSen(PutItem(r, i, it).items) = ItemsSumSen(r.items) - r.items[i].line + it.line
<1> DEFINE new == [r.items EXCEPT ![i] = it]
           n == Len(r.items)
           old == [k \in 1..n |-> r.items[k].line]
           line == [k \in 1..n |-> new[k].line]
           N == 1..n
<1>1. r.items \in Seq(Entries) /\ n \in Nat /\ DOMAIN r.items = 1..n /\ \A k \in 1..n : r.items[k].line \in Int
  <2>1. r.items \in Seq(Entries)
    BY DEF Scanned
  <2> QED
    BY <2>1, EntriesSeq
<1>2. it.line \in Int
  BY DEF Entries
<1>3. new \in Seq(Entries) /\ DOMAIN new = 1..n
  BY <1>1
<1>4. PutItem(r, i, it).items = new
  BY <1>1 DEF PutItem, Scanned
<1>5. /\ PutItem(r, i, it).subtotal = r.subtotal /\ PutItem(r, i, it).sst = r.sst
      /\ PutItem(r, i, it).service = r.service /\ PutItem(r, i, it).rounding = r.rounding
      /\ PutItem(r, i, it).total = r.total
  BY DEF PutItem, Scanned
<1>6. PutItem(r, i, it) \in Scanned
  <2>1. PutItem(r, i, it) = [r EXCEPT !.items = new]
    BY DEF PutItem, Scanned
  <2> HIDE DEF new
  <2> QED
    BY <1>3, <2>1 DEF Scanned
<1>7. ItemsSumSen(r.items) = SumFunctionOnSet(old, N) /\ ItemsSumSen(new) = SumFunctionOnSet(line, N)
  BY <1>1, <1>3 DEF ItemsSumSen, SumFunction
<1>8. /\ IsFiniteSet(N) /\ i \in N
      /\ \A k \in N : old[k] \in Int /\ line[k] \in Int
      /\ \A k \in N \ {i} : line[k] = old[k]
      /\ old[i] = r.items[i].line /\ line[i] = it.line
  <2>1. IsFiniteSet(N)
    <3> HIDE DEF n
    <3> QED
      BY <1>1, FS_Interval
  <2>2. i \in N /\ old[i] = r.items[i].line /\ line[i] = it.line
    BY <1>1
  <2>3. \A k \in N : old[k] \in Int
    BY <1>1
  <2>4. \A k \in N \ {i} : line[k] = old[k]
    BY <1>1
  <2> QED
    BY <1>2, <2>1, <2>2, <2>3, <2>4
<1> HIDE DEF old, line, N, new, n
<1>9. SumFunctionOnSet(line, N) = SumFunctionOnSet(old, N) + (line[i] - old[i])
  BY <1>8, SumChange
<1>10. SumFunctionOnSet(old, N) \in Int
  BY <1>8, SumType
<1> QED
  BY <1>4, <1>5, <1>6, <1>7, <1>8, <1>9, <1>10 DEF new

Inferred(r, i) == r.total - (ItemsSumSen(r.items) - r.items[i].line)

\* The step of repairMisassignedLineItems' loop that repairs line i.
Repairs(r, i) ==
    /\ IsSummaryLineAmount(r.items[i].line, r)
    /\ Inferred(r, i) >= 50 /\ Inferred(r, i) < r.items[i].line

RepairedAt(r, i) == PutItem(r, i, WithLine(r.items[i], Inferred(r, i)))

LEMMA RepairLineIs ==
  ASSUME NEW r \in Scanned, NEW i \in DOMAIN r.items
  PROVE  RepairLine(r, i) = IF Repairs(r, i) THEN RepairedAt(r, i) ELSE r
BY DEF RepairLine, Repairs, RepairedAt, Inferred, PutItem, Scanned

\* What a repair leaves, and that nothing is missing then.
LEMMA AfterRepair ==
  ASSUME NEW r \in Scanned, NEW i \in DOMAIN r.items, Repairs(r, i)
  PROVE  LET s == RepairedAt(r, i)
         IN  /\ s \in Scanned /\ s.items = [r.items EXCEPT ![i] = WithLine(@, Inferred(r, i))]
             /\ s.items[i].line = Inferred(r, i)
             /\ DOMAIN s.items = DOMAIN r.items /\ Len(s.items) = Len(r.items)
             /\ s.subtotal = r.subtotal /\ s.sst = r.sst /\ s.service = r.service
             /\ s.rounding = r.rounding /\ s.total = r.total
             /\ ItemsSumSen(s.items) = r.total /\ r.total < ItemsSumSen(r.items)
             /\ \A j \in DOMAIN r.items : ~Repairs(s, j)
<1> DEFINE s == RepairedAt(r, i)
           it == WithLine(r.items[i], Inferred(r, i))
<1>1. /\ r.items \in Seq(Entries) /\ r.total \in Int /\ r.items[i] \in Entries /\ r.items[i].line \in Int
      /\ ItemsSumSen(r.items) \in Int
  <2>1. r.items \in Seq(Entries) /\ r.total \in Int
    BY DEF Scanned
  <2> QED
    BY <2>1, EntriesSeq
<1>2. Inferred(r, i) \in Int
  BY <1>1 DEF Inferred
<1>3. it \in Entries /\ it.line = Inferred(r, i)
  BY <1>1, <1>2, WithLineEntry
<1> HIDE DEF it
<1>4. s = PutItem(r, i, it)
  BY DEF RepairedAt, it
<1>5. /\ s \in Scanned
      /\ s.items = [r.items EXCEPT ![i] = it]
      /\ s.subtotal = r.subtotal /\ s.sst = r.sst
      /\ s.service = r.service /\ s.rounding = r.rounding
      /\ s.total = r.total
      /\ ItemsSumSen(s.items) = ItemsSumSen(r.items) - r.items[i].line + it.line
  BY <1>3, <1>4, PutItemType
<1> HIDE DEF s
<1>6. ItemsSumSen(s.items) = r.total
  BY <1>1, <1>3, <1>5 DEF Inferred
<1>7. r.total < ItemsSumSen(r.items)
  BY <1>1, <1>2 DEF Repairs, Inferred
<1>8. s.items \in Seq(Entries) /\ DOMAIN s.items = DOMAIN r.items /\ Len(s.items) = Len(r.items)
      /\ s.items[i].line = Inferred(r, i)
  BY <1>1, <1>3, <1>5
<1>9. ASSUME NEW j \in DOMAIN r.items PROVE ~Repairs(s, j)
  <2>1. s.items[j].line \in Int
    BY <1>8, EntriesSeq
  <2>2. Inferred(s, j) = s.items[j].line
    BY <1>1, <1>5, <1>6, <2>1 DEF Inferred
  <2> QED
    BY <2>1, <2>2 DEF Repairs
<1> QED
  BY <1>5, <1>6, <1>7, <1>8, <1>9 DEF s, it

\* Only the first line that can be repaired is.
THEOREM FirstRepaired ==
  ASSUME NEW r \in Scanned
  PROVE  \/ RepairMisassignedLineItems(r) = r
            /\ (Len(r.items) < 2 \/ r.total <= 0 \/ \A i \in DOMAIN r.items : ~Repairs(r, i))
         \/ /\ Len(r.items) >= 2 /\ r.total > 0
            /\ \E i \in DOMAIN r.items :
                  /\ RepairMisassignedLineItems(r) = RepairedAt(r, i)
                  /\ Repairs(r, i) /\ \A j \in 1..(i - 1) : ~Repairs(r, j)
<1> DEFINE n == Len(r.items)
<1>1. n \in Nat /\ DOMAIN r.items = 1..n /\ r.total \in Int
  BY EntriesSeq DEF Scanned
<1>2. CASE n < 2 \/ r.total <= 0
  BY <1>2 DEF RepairMisassignedLineItems
<1>3. CASE n >= 2 /\ r.total > 0
  <2>1. PICK h : /\ h[0] = r
                 /\ \A i \in 1..n : h[i] = RepairLine(h[i - 1], i)
                 /\ FoldLeftDomain(RepairLine, r, r.items) = h[n]
    <3> HIDE DEF n
    <3> QED
      BY <1>1, RepairLoop
  <2>2. RepairMisassignedLineItems(r) = h[n]
    BY <1>1, <1>3, <2>1 DEF RepairMisassignedLineItems
  <2> HIDE DEF n
  <2> DEFINE First(i) == Repairs(r, i) /\ \A j \in 1..(i - 1) : ~Repairs(r, j)
             Good(m) == \/ h[m] = r /\ \A j \in 1..m : ~Repairs(r, j)
                        \/ \E i \in 1..m : h[m] = RepairedAt(r, i) /\ First(i)
             T == {m \in 0..n : Good(m)}
  <2>3. 0 \in T
    BY <1>1, <2>1
  <2>4. ASSUME NEW m \in 0..n, m < n, m \in T PROVE m + 1 \in T
    <3>1. m + 1 \in 1..n /\ h[m + 1] = RepairLine(h[m], m + 1) /\ m + 1 \in DOMAIN r.items
      BY <1>1, <2>1, <2>4
    <3>2. CASE h[m] = r /\ \A j \in 1..m : ~Repairs(r, j)
      <4>1. h[m + 1] = IF Repairs(r, m + 1) THEN RepairedAt(r, m + 1) ELSE r
        BY <3>1, <3>2, RepairLineIs
      <4>2. CASE Repairs(r, m + 1)
        <5>1. First(m + 1)
          BY <3>2, <4>2
        <5> QED
          BY <3>1, <4>1, <4>2, <5>1
      <4>3. CASE ~Repairs(r, m + 1)
        <5>1. \A j \in 1..(m + 1) : ~Repairs(r, j)
          BY <3>2, <4>3
        <5> QED
          BY <3>1, <4>1, <4>3, <5>1
      <4> QED
        BY <4>2, <4>3
    <3>3. CASE \E i \in 1..m : h[m] = RepairedAt(r, i) /\ First(i)
      <4>1. PICK i \in 1..m : h[m] = RepairedAt(r, i) /\ First(i)
        BY <3>3
      <4>2. i \in DOMAIN r.items /\ Repairs(r, i) /\ i \in 1..(m + 1)
        BY <1>1, <3>1, <4>1
      <4>3. h[m] \in Scanned /\ DOMAIN h[m].items = DOMAIN r.items /\ ~Repairs(h[m], m + 1)
        <5>1. /\ RepairedAt(r, i) \in Scanned /\ DOMAIN RepairedAt(r, i).items = DOMAIN r.items
              /\ \A j \in DOMAIN r.items : ~Repairs(RepairedAt(r, i), j)
          BY <4>2, AfterRepair
        <5> QED
          BY <3>1, <4>1, <5>1
      <4>4. h[m + 1] = h[m]
        BY <3>1, <4>3, RepairLineIs
      <4> HIDE DEF First
      <4> QED
        BY <3>1, <4>1, <4>2, <4>4
    <3> QED
      BY <2>4, <3>2, <3>3
  <2>5. Good(n)
    <3> HIDE DEF T
    <3>1. \A i \in 0..n : i \in T
      BY <1>1, <2>3, <2>4, Upto
    <3>2. n \in T
      BY <1>1, <3>1
    <3> QED
      BY <3>2 DEF T
  <2> QED
    BY <1>1, <1>3, <2>2, <2>5 DEF n
<1> QED
  BY <1>1, <1>2, <1>3

LEMMA LinesType ==
  ASSUME NEW r \in Scanned
  PROVE  LET s == RepairMisassignedLineItems(r)
         IN  /\ s \in Scanned /\ DOMAIN s.items = DOMAIN r.items
             /\ s.subtotal = r.subtotal /\ s.sst = r.sst /\ s.service = r.service
             /\ s.rounding = r.rounding /\ s.total = r.total
             /\ ItemsSumSen(s.items) # ItemsSumSen(r.items)
                  => ItemsSumSen(s.items) = r.total /\ r.total < ItemsSumSen(r.items)
<1>1. CASE RepairMisassignedLineItems(r) = r
  BY <1>1
<1>2. CASE \E i \in DOMAIN r.items : RepairMisassignedLineItems(r) = RepairedAt(r, i) /\ Repairs(r, i)
  <2>1. PICK i \in DOMAIN r.items : RepairMisassignedLineItems(r) = RepairedAt(r, i) /\ Repairs(r, i)
    BY <1>2
  <2> DEFINE s == RepairedAt(r, i)
  <2>2. /\ s \in Scanned /\ DOMAIN s.items = DOMAIN r.items
        /\ s.subtotal = r.subtotal /\ s.sst = r.sst /\ s.service = r.service
        /\ s.rounding = r.rounding /\ s.total = r.total
        /\ ItemsSumSen(s.items) = r.total /\ r.total < ItemsSumSen(r.items)
    BY <2>1, AfterRepair
  <2> QED
    BY <2>1, <2>2
<1> QED
  BY <1>1, <1>2, FirstRepaired

\* The same items, maybe at other prices.
SameItems(new, old) ==
    /\ new \in Seq(Entries) /\ DOMAIN new = DOMAIN old
    /\ \A i \in DOMAIN old : new[i].name = old[i].name /\ new[i].qty = old[i].qty

LEMMA SameDistinct ==
  ASSUME NEW new, NEW old, SameItems(new, old), Distinct(old)
  PROVE  Distinct(new)
BY DEF SameItems, Distinct

LEMMA RepairedSame ==
  ASSUME NEW r \in Scanned
  PROVE  SameItems(RepairMisassignedLineItems(r).items, r.items)
<1>1. r.items \in Seq(Entries)
  BY DEF Scanned
<1>2. CASE RepairMisassignedLineItems(r) = r
  BY <1>1, <1>2 DEF SameItems
<1>3. CASE \E i \in DOMAIN r.items : RepairMisassignedLineItems(r) = RepairedAt(r, i) /\ Repairs(r, i)
  <2>1. PICK i \in DOMAIN r.items : RepairMisassignedLineItems(r) = RepairedAt(r, i) /\ Repairs(r, i)
    BY <1>3
  <2> DEFINE s == RepairedAt(r, i)
             it == WithLine(r.items[i], Inferred(r, i))
  <2>2. s.items = [r.items EXCEPT ![i] = it] /\ s \in Scanned /\ DOMAIN s.items = DOMAIN r.items
    BY <2>1, AfterRepair
  <2>3. it.name = r.items[i].name /\ it.qty = r.items[i].qty
    <3>1. r.items[i] \in Entries /\ Inferred(r, i) \in Int
      <4>1. /\ r.items[i] \in Entries /\ r.items[i].line \in Int /\ ItemsSumSen(r.items) \in Int
            /\ r.total \in Int
        BY <1>1, EntriesSeq DEF Scanned
      <4> QED
        BY <4>1 DEF Inferred
    <3> QED
      BY <3>1, WithLineEntry
  <2> HIDE DEF it, s
  <2>4. s.items \in Seq(Entries)
    BY <2>2 DEF Scanned
  <2>5. SameItems(s.items, r.items)
    BY <1>1, <2>2, <2>3, <2>4 DEF SameItems
  <2> QED
    BY <2>1, <2>5 DEF s
<1> QED
  BY <1>2, <1>3, FirstRepaired

\* Scaling gives every item a price again.
LEMMA ScaleType ==
  ASSUME NEW items \in Seq(Entries), NEW net \in Int, NEW gross \in Int
  PROVE  SameItems(ScaleItemsToNet(items, net, gross), items)
<1> DEFINE n == Len(items)
           scaled == [i \in DOMAIN items |-> WithLine(items[i], RoundDiv(items[i].line * net, gross))]
           drift == net - ItemsSumSen(scaled)
           positive == {i \in DOMAIN items : scaled[i].line > 0}
           last == Max(positive)
           it == WithLine(scaled[last], scaled[last].line + drift)
<1>1. n \in Nat /\ DOMAIN items = 1..n /\ \A i \in 1..n : items[i] \in Entries /\ items[i].line \in Int
  BY EntriesSeq
<1>2. ASSUME NEW i \in 1..n
      PROVE  scaled[i] \in Entries /\ scaled[i].name = items[i].name /\ scaled[i].qty = items[i].qty
  <2>1. RoundDiv(items[i].line * net, gross) \in Int
    <3>1. items[i].line * net \in Int
      BY <1>1
    <3> QED
      BY <3>1, RoundDivType
  <2>2. scaled[i] = WithLine(items[i], RoundDiv(items[i].line * net, gross))
    BY <1>1
  <2> HIDE DEF scaled
  <2> QED
    BY <1>1, <2>1, <2>2, WithLineEntry
<1>3. scaled \in Seq(Entries) /\ DOMAIN scaled = 1..n
  BY <1>1, <1>2
<1>4. SameItems(scaled, items)
  BY <1>1, <1>2, <1>3 DEF SameItems
<1>5. drift \in Int
  <2> HIDE DEF scaled
  <2>1. ItemsSumSen(scaled) \in Int
    BY <1>3, EntriesSeq
  <2> QED
    BY <2>1
<1>6. positive # {} => last \in 1..n
  <2>1. positive \subseteq 1..n
    BY <1>1
  <2> HIDE DEF positive, n
  <2>2. positive \in SUBSET Int /\ IsFiniteSet(positive)
    <3> DEFINE N == 1..n
    <3>1. IsFiniteSet(N) /\ positive \in SUBSET N /\ N \in SUBSET Int
      BY <1>1, <2>1, FS_Interval
    <3> HIDE DEF N
    <3> QED
      BY <3>1, FS_Subset
  <2> QED
    BY <2>1, <2>2, MaxIn
<1>7. ASSUME last \in 1..n
      PROVE  it \in Entries /\ it.name = scaled[last].name /\ it.qty = scaled[last].qty
  <2>1. scaled[last] \in Entries
    BY <1>2, <1>7
  <2> HIDE DEF scaled, drift, last
  <2>2. scaled[last].line + drift \in Int
    BY <1>5, <2>1 DEF Entries
  <2> QED
    BY <2>1, <2>2, WithLineEntry
<1> DEFINE new == [scaled EXCEPT ![last] = it]
<1>8. ASSUME last \in 1..n PROVE SameItems(new, items)
  <2> HIDE DEF it, scaled, last
  <2>1. new \in Seq(Entries) /\ DOMAIN new = 1..n
    BY <1>3, <1>7, <1>8
  <2>2. \A i \in 1..n : new[i].name = items[i].name /\ new[i].qty = items[i].qty
    BY <1>2, <1>3, <1>7, <1>8
  <2> QED
    BY <1>1, <2>1, <2>2 DEF SameItems
<1>9. ScaleItemsToNet(items, net, gross) = IF drift = 0 \/ positive = {} THEN scaled ELSE new
  BY DEF ScaleItemsToNet
<1> HIDE DEF new, scaled, drift, positive, last
<1> QED
  BY <1>4, <1>6, <1>8, <1>9

LEMMA NormalizeType ==
  ASSUME NEW r \in Scanned
  PROVE  NormalizeParsedReceipt(r) \in Scanned /\ SameItems(NormalizeParsedReceipt(r).items, r.items)
<1> DEFINE sum == ItemsSumSen(r.items)
           expected == r.subtotal + (r.sst + r.service) + r.rounding
           total == IF r.total = 0 THEN expected ELSE r.total
           settled == [r EXCEPT !.total = total]
           net == ScaleItemsToNet(r.items, r.subtotal, sum)
<1>1. r.items \in Seq(Entries) /\ r.subtotal \in Int /\ sum \in Int /\ total \in Int
  BY EntriesSeq DEF Scanned
<1>2. SameItems(r.items, r.items) /\ SameItems(net, r.items)
  <2>1. SameItems(r.items, r.items)
    BY <1>1 DEF SameItems
  <2> HIDE DEF sum
  <2>2. SameItems(net, r.items)
    BY <1>1, ScaleType
  <2> QED
    BY <2>1, <2>2
<1>3. settled \in Scanned /\ settled.items = r.items /\ settled.subtotal = r.subtotal
  <2> HIDE DEF total
  <2> QED
    BY <1>1 DEF Scanned
<1>4. NormalizeParsedReceipt(r) \in {r, settled, [settled EXCEPT !.items = net]}
  <2>1. r.sst + r.service \in Int /\ r.subtotal \in Int /\ sum \in Int
    BY <1>1 DEF Scanned
  <2>2. CASE r.subtotal <= 0 \/ r.sst + r.service <= 0 \/ sum <= 0
    BY <2>2 DEF NormalizeParsedReceipt
  <2>3. CASE ~(r.subtotal <= 0 \/ r.sst + r.service <= 0 \/ sum <= 0)
    <3>1. r.subtotal > 0 /\ r.sst + r.service > 0 /\ sum > 0
      BY <2>1, <2>3
    <3>2. NormalizeParsedReceipt(r)
            = IF sum > settled.subtotal /\ SenClose(sum, settled.total) /\ SenClose(expected, settled.total)
              THEN [settled EXCEPT !.items = ScaleItemsToNet(settled.items, settled.subtotal, sum)]
              ELSE settled
      BY <2>3, <3>1 DEF NormalizeParsedReceipt
    <3>3. ScaleItemsToNet(settled.items, settled.subtotal, sum) = net
      BY <1>3
    <3> HIDE DEF settled, net, sum, expected
    <3> QED
      BY <3>2, <3>3
  <2> QED
    BY <2>2, <2>3
<1> HIDE DEF settled, net
<1>5. [settled EXCEPT !.items = net] \in Scanned /\ [settled EXCEPT !.items = net].items = net
  BY <1>2, <1>3 DEF Scanned, SameItems
<1> QED
  BY <1>2, <1>3, <1>4, <1>5

LEMMA EnrichType ==
  ASSUME NEW r \in Scanned
  PROVE  EnrichParsedReceipt(r) \in Scanned /\ EnrichParsedReceipt(r).items = r.items
<1> DEFINE sum == ItemsSumSen(r.items)
           subtotal == IF r.subtotal <= 0 /\ r.items # <<>> THEN sum ELSE r.subtotal
           left == r.total - subtotal - r.sst - r.service
           rounding == IF /\ r.rounding = 0 /\ r.total > 0 /\ subtotal > 0 /\ left \in 1..99
                       THEN left ELSE r.rounding
           s == [r EXCEPT !.subtotal = subtotal, !.rounding = rounding]
<1>1. r.items \in Seq(Entries) /\ sum \in Int /\ subtotal \in Int /\ left \in Int /\ rounding \in Int
  <2>1. r.items \in Seq(Entries) /\ sum \in Int
    BY EntriesSeq DEF Scanned
  <2> HIDE DEF sum
  <2>2. subtotal \in Int
    BY <2>1 DEF Scanned
  <2> HIDE DEF subtotal
  <2>3. left \in Int
    BY <2>2 DEF Scanned
  <2> HIDE DEF left
  <2> QED
    BY <2>1, <2>2, <2>3 DEF Scanned
<1> HIDE DEF sum, subtotal, rounding
<1>2. s \in Scanned /\ s.items = r.items /\ s.subtotal = subtotal
  BY <1>1 DEF Scanned
<1>3. EnrichParsedReceipt(r) \in {s, [s EXCEPT !.total = subtotal + TaxTotalSen(s)]}
  BY <1>2 DEF EnrichParsedReceipt, sum, subtotal, rounding, Scanned
<1> HIDE DEF s
<1>4. TaxTotalSen(s) \in Int
  BY <1>2 DEF TaxTotalSen, Scanned
<1> DEFINE total == subtotal + TaxTotalSen(s)
<1>5. [s EXCEPT !.total = total] \in Scanned /\ [s EXCEPT !.total = total].items = r.items
  <2>1. total \in Int
    BY <1>1, <1>4
  <2> HIDE DEF total
  <2> QED
    BY <1>2, <2>1 DEF Scanned
<1> QED
  BY <1>2, <1>3, <1>5

\* A sum is carried on from one part of a sequence to the next.
LEMMA SumAppend ==
  ASSUME NEW A, IsFiniteSet(A), NEW o \in Nat, NEW q \in Nat, A \cap ((o + 1)..(o + q)) = {},
         NEW g, \A x \in A : g[x] \in Int,
         NEW b, \A k \in 1..q : b[k] \in Int /\ g[o + k] = b[k]
  PROVE  SumFunctionOnSet(g, A \cup ((o + 1)..(o + q))) = SumFunctionOnSet(g, A) + SumFunctionOnSet(b, 1..q)
<1> DEFINE Upon(j) == A \cup ((o + 1)..(o + j))
           T == {j \in 0..q : /\ IsFiniteSet(Upon(j))
                              /\ SumFunctionOnSet(g, Upon(j))
                                   = SumFunctionOnSet(g, A) + SumFunctionOnSet(b, 1..j)}
<1>1. 0 \in T
  <2>1. Upon(0) = A /\ 1..0 = {}
    OBVIOUS
  <2>2. SumFunctionOnSet(g, A) \in Int /\ SumFunctionOnSet(b, {}) = 0
    BY SumType, SumEmpty
  <2> QED
    BY <2>1, <2>2
<1>2. ASSUME NEW j \in 0..q, j < q, j \in T PROVE j + 1 \in T
  <2> DEFINE x == o + (j + 1)
             S == Upon(j + 1)
             J == 1..(j + 1)
  <2>1. x \notin Upon(j) /\ S = Upon(j) \cup {x} /\ S \ {x} = Upon(j) /\ x \in S
    <3>1. x \notin A
      BY <1>2
    <3>2. x \notin (o + 1)..(o + j) /\ (o + 1)..x = ((o + 1)..(o + j)) \cup {x}
      BY <1>2
    <3> QED
      BY <3>1, <3>2
  <2>2. J \ {j + 1} = 1..j /\ j + 1 \in J /\ IsFiniteSet(J)
    BY <1>2, FS_Interval
  <2>3. \A y \in J : b[y] \in Int
    BY <1>2
  <2>4. \A y \in S : g[y] \in Int
    <3> SUFFICES ASSUME NEW y \in S PROVE g[y] \in Int
      OBVIOUS
    <3>1. CASE y \in A
      BY <3>1
    <3>2. CASE y \in (o + 1)..x
      <4>1. y - o \in 1..q /\ o + (y - o) = y
        BY <1>2, <3>2
      <4> QED
        BY <4>1
    <3> QED
      BY <3>1, <3>2
  <2>5. IsFiniteSet(Upon(j))
    BY <1>2
  <2> HIDE DEF S, J
  <2>6. IsFiniteSet(S)
    <3> HIDE DEF Upon
    <3> QED
      BY <2>1, <2>5, FS_AddElement
  <2>7. SumFunctionOnSet(b, J) = b[j + 1] + SumFunctionOnSet(b, J \ {j + 1})
    BY <2>2, <2>3, SumRemove
  <2>8. SumFunctionOnSet(g, S) = g[x] + SumFunctionOnSet(g, S \ {x})
    <3> HIDE DEF x
    <3> QED
      BY <2>1, <2>4, <2>6, SumRemove
  <2>9. g[x] = b[j + 1] /\ b[j + 1] \in Int
    BY <1>2
  <2>10. SumFunctionOnSet(g, A) \in Int
    BY SumType
  <2>11. SumFunctionOnSet(b, 1..j) \in Int
    <3> DEFINE K == 1..j
    <3>1. IsFiniteSet(K) /\ \A y \in K : b[y] \in Int
      BY <1>2, FS_Interval
    <3> HIDE DEF K
    <3>2. SumFunctionOnSet(b, K) \in Int
      BY <3>1, SumType
    <3> QED
      BY <3>2 DEF K
  <2>12. SumFunctionOnSet(g, Upon(j)) = SumFunctionOnSet(g, A) + SumFunctionOnSet(b, 1..j)
    BY <1>2
  <2> HIDE DEF Upon, x
  <2>13. SumFunctionOnSet(g, S) = SumFunctionOnSet(g, A) + SumFunctionOnSet(b, J)
    <3> DEFINE GA == SumFunctionOnSet(g, A)
               BJ == SumFunctionOnSet(b, 1..j)
    <3>1. SumFunctionOnSet(b, J) = b[j + 1] + BJ
      BY <2>2, <2>7
    <3>2. SumFunctionOnSet(g, S) = b[j + 1] + (GA + BJ)
      BY <2>1, <2>8, <2>9, <2>12
    <3>3. GA \in Int /\ BJ \in Int /\ b[j + 1] \in Int
      BY <2>9, <2>10, <2>11
    <3> HIDE DEF GA, BJ
    <3>4. SumFunctionOnSet(g, S) = GA + SumFunctionOnSet(b, J)
      BY <3>1, <3>2, <3>3
    <3> QED
      BY <3>4 DEF GA
  <2> QED
    BY <1>2, <2>6, <2>13 DEF S, J
<1>3. q \in T
  <2> HIDE DEF T
  <2>1. \A i \in 0..q : i \in T
    BY <1>1, <1>2, Upto
  <2> QED
    BY <2>1
<1> QED
  BY <1>3

-----------------------------------------------------------------------------
\* The rows of the split.
Rows == [name : STRING, line : Int]

LEMMA AsSeq ==
  ASSUME NEW S, NEW n \in Nat, NEW f \in [1..n -> S]
  PROVE  DOMAIN f = 1..n /\ f \in Seq(S) /\ Len(f) = n
OBVIOUS

LEMMA UnitsType ==
  ASSUME NEW it \in Entries
  PROVE  /\ Units(it) \in Seq(Rows) /\ Len(Units(it)) = it.qty /\ it.qty \in Nat \ {0} /\ it.line \in Int
         /\ \A n \in 1..it.qty : Units(it)[n].name = it.name /\ Units(it)[n].line \in Int
         /\ SumFunctionOnSet([n \in 1..it.qty |-> Units(it)[n].line], 1..it.qty) = it.line
         /\ \A n, m \in 1..it.qty : Units(it)[n].line - Units(it)[m].line < it.qty
<1> DEFINE qty == it.qty
           total == IF it.line = 0 THEN it.unit * it.qty ELSE it.line
           unit == GoDiv(total, qty)
           cost == [n \in 1..qty |-> IF n = qty THEN total - unit * (qty - 1) ELSE unit]
<1>1. /\ it.qty \in Nat \ {0} /\ it.name \in STRING /\ it.unit \in Int /\ it.line \in Int
      /\ it.line = 0 => it.unit = 0
  BY DEF Entries
<1>2. total = it.line /\ total \in Int
  BY <1>1
<1>3. unit \in Int
  BY <1>1, <1>2, GoDivBounds
<1>4. Units(it) = [n \in 1..qty |-> [name |-> it.name, line |-> cost[n]]]
  <2>1. ~(it.qty < 1)
    BY <1>1
  <2> QED
    BY <2>1 DEF Units
<1> HIDE DEF total, unit
<1>5. \A n \in 1..qty : cost[n] \in Int
  <2>1. unit * (qty - 1) \in Int
    BY <1>1, <1>3
  <2> QED
    BY <1>1, <1>2, <1>3, <2>1
<1> HIDE DEF cost
<1>6. \A n \in 1..qty : Units(it)[n] \in Rows /\ Units(it)[n].name = it.name /\ Units(it)[n].line = cost[n]
  BY <1>1, <1>4, <1>5 DEF Rows
<1>7. DOMAIN Units(it) = 1..qty /\ Units(it) \in Seq(Rows) /\ Len(Units(it)) = qty
  <2>1. Units(it) \in [1..qty -> Rows]
    BY <1>4, <1>6
  <2> QED
    BY <1>1, <2>1, AsSeq
<1>8. /\ SumFunction([n \in DOMAIN Units(it) |-> Units(it)[n].line]) = total
      /\ \A n, m \in DOMAIN Units(it) : Units(it)[n].line - Units(it)[m].line < it.qty
  BY <1>1, UnitsOfLine DEF total
<1>9. SumFunctionOnSet([n \in 1..qty |-> Units(it)[n].line], 1..qty) = total
  BY <1>7, <1>8 DEF SumFunction
<1> QED
  BY <1>1, <1>2, <1>5, <1>6, <1>7, <1>8, <1>9

RowSum(rs) == SumFunctionOnSet([n \in 1..Len(rs) |-> rs[n].line], 1..Len(rs))

\* The rows of an item are its units in a row, and no others bear its name.
Block(rs, it, o) ==
    /\ o + it.qty <= Len(rs)
    /\ \A k \in 1..it.qty : rs[o + k] = Units(it)[k]
    /\ \A k \in 1..Len(rs) : k \notin (o + 1)..(o + it.qty) => rs[k].name # it.name

LEMMA JoinedRows ==
  ASSUME NEW s \in Seq(Rows), NEW u \in Seq(Rows)
  PROVE  /\ s \o u \in Seq(Rows) /\ Len(s \o u) = Len(s) + Len(u)
         /\ \A k \in 1..Len(s) : (s \o u)[k] = s[k]
         /\ \A k \in 1..Len(u) : (s \o u)[Len(s) + k] = u[k]
OBVIOUS

LEMMA RowSumJoined ==
  ASSUME NEW s \in Seq(Rows), NEW it \in Entries
  PROVE  RowSum(s \o Units(it)) = RowSum(s) + it.line
<1> DEFINE u == Units(it)
           t == s \o u
           L == Len(s)
           q == it.qty
           g == [n \in 1..Len(t) |-> t[n].line]
           a == [n \in 1..L |-> s[n].line]
           b == [n \in 1..q |-> u[n].line]
           A == 1..L
<1>1. /\ u \in Seq(Rows) /\ Len(u) = q /\ q \in Nat \ {0}
      /\ \A n \in 1..q : u[n].line \in Int
      /\ SumFunctionOnSet(b, 1..q) = it.line
  BY UnitsType
<1>2. /\ t \in Seq(Rows) /\ Len(t) = L + q /\ L \in Nat
      /\ \A k \in 1..L : t[k] = s[k] /\ s[k] \in Rows
      /\ \A k \in 1..q : t[L + k] = u[k]
  <2> HIDE DEF u
  <2> QED
    BY <1>1, JoinedRows
<1> HIDE DEF t, u
<1>3. \A x \in A : g[x] \in Int /\ g[x] = a[x]
  <2> SUFFICES ASSUME NEW x \in 1..L PROVE g[x] \in Int /\ g[x] = a[x]
    OBVIOUS
  <2>1. x \in 1..Len(t)
    BY <1>1, <1>2
  <2>2. t[x] = s[x] /\ s[x].line \in Int
    BY <1>2 DEF Rows
  <2> QED
    BY <2>1, <2>2
<1>4. \A k \in 1..q : b[k] \in Int /\ g[L + k] = b[k]
  <2> SUFFICES ASSUME NEW k \in 1..q PROVE b[k] \in Int /\ g[L + k] = b[k]
    OBVIOUS
  <2>1. L + k \in 1..Len(t)
    BY <1>1, <1>2
  <2>2. t[L + k] = u[k]
    BY <1>2
  <2> QED
    BY <1>1, <2>1, <2>2
<1>5. IsFiniteSet(A) /\ A \cap ((L + 1)..(L + q)) = {} /\ A \cup ((L + 1)..(L + q)) = 1..(L + q)
  <2>1. IsFiniteSet(A)
    <3> HIDE DEF L
    <3> QED
      BY <1>2, FS_Interval
  <2>2. A \cap ((L + 1)..(L + q)) = {} /\ A \cup ((L + 1)..(L + q)) = 1..(L + q)
    BY <1>1, <1>2
  <2> QED
    BY <2>1, <2>2
<1> HIDE DEF g, a, b, L, q, A
<1>6. SumFunctionOnSet(g, A \cup ((L + 1)..(L + q))) = SumFunctionOnSet(g, A) + SumFunctionOnSet(b, 1..q)
  <2>1. L \in Nat /\ q \in Nat /\ IsFiniteSet(A) /\ A \cap ((L + 1)..(L + q)) = {}
    BY <1>1, <1>2, <1>5
  <2>2. \A x \in A : g[x] \in Int
    BY <1>3
  <2>3. \A k \in 1..q : b[k] \in Int /\ g[L + k] = b[k]
    BY <1>4
  <2> QED
    BY <2>1, <2>2, <2>3, SumAppend
<1>7. SumFunctionOnSet(g, A) = SumFunctionOnSet(a, A)
  BY <1>3, <1>5, SumSame
<1>8. RowSum(t) = SumFunctionOnSet(g, 1..(L + q)) /\ RowSum(s) = SumFunctionOnSet(a, A)
  BY <1>2 DEF RowSum, g, a, A, L
<1> QED
  BY <1>1, <1>5, <1>6, <1>7, <1>8 DEF t, u

\* The table after one more item.
LEMMA BlocksJoined ==
  ASSUME NEW s \in Seq(Rows), NEW it \in Entries, \A k \in 1..Len(s) : s[k].name # it.name
  PROVE  /\ Block(s \o Units(it), it, Len(s))
         /\ \A e \in Entries, o \in Nat :
               e.name # it.name /\ Block(s, e, o) => Block(s \o Units(it), e, o)
<1> DEFINE u == Units(it)
           t == s \o u
           L == Len(s)
<1>1. /\ u \in Seq(Rows) /\ Len(u) = it.qty /\ it.qty \in Nat \ {0}
      /\ \A n \in 1..it.qty : u[n].name = it.name
  BY UnitsType
<1>2. /\ t \in Seq(Rows) /\ Len(t) = L + it.qty /\ L \in Nat
      /\ \A k \in 1..L : t[k] = s[k]
      /\ \A k \in 1..it.qty : t[L + k] = u[k]
  <2> HIDE DEF u
  <2> QED
    BY <1>1, JoinedRows
<1> HIDE DEF t, u, L
<1>3. ASSUME NEW k \in 1..Len(t) PROVE k \in 1..L \/ (k - L \in 1..it.qty /\ t[k] = u[k - L])
  <2>1. CASE k > L
    <3>1. k - L \in 1..it.qty /\ L + (k - L) = k
      BY <1>1, <1>2, <2>1
    <3> QED
      BY <1>2, <3>1
  <2> QED
    BY <1>1, <1>2, <2>1
<1>4. Block(t, it, L)
  <2>1. ASSUME NEW k \in 1..Len(t), k \notin (L + 1)..(L + it.qty) PROVE t[k].name # it.name
    <3>1. k \in 1..L
      BY <1>1, <1>2, <2>1
    <3> QED
      BY <1>2, <3>1 DEF L
  <2> QED
    BY <1>1, <1>2, <2>1 DEF Block, u
<1>5. ASSUME NEW e \in Entries, NEW o \in Nat, e.name # it.name, Block(s, e, o) PROVE Block(t, e, o)
  <2>1. e.qty \in Nat \ {0}
    BY DEF Entries
  <2>2. o + e.qty <= L /\ o + e.qty <= Len(t)
    BY <1>1, <1>2, <1>5, <2>1 DEF Block, L
  <2>3. ASSUME NEW k \in 1..e.qty PROVE t[o + k] = Units(e)[k]
    <3>1. o + k \in 1..L
      BY <2>1, <2>2, <1>2
    <3> QED
      BY <1>2, <1>5, <3>1 DEF Block
  <2>4. ASSUME NEW k \in 1..Len(t), k \notin (o + 1)..(o + e.qty) PROVE t[k].name # e.name
    <3>1. CASE k \in 1..L
      BY <1>2, <1>5, <2>4, <3>1 DEF Block, L
    <3>2. CASE k - L \in 1..it.qty /\ t[k] = u[k - L]
      BY <1>1, <1>5, <3>2
    <3> QED
      BY <1>3, <3>1, <3>2
  <2> QED
    BY <2>2, <2>3, <2>4 DEF Block
<1> QED
  BY <1>4, <1>5 DEF t, u, L

LEMMA RowsSumType ==
  ASSUME NEW rs \in Seq(Rows)
  PROVE  ItemsSumSen(rs) \in Int
<1> DEFINE n == Len(rs)
           line == [i \in DOMAIN rs |-> rs[i].line]
           S == DOMAIN rs
<1>1. n \in Nat /\ S = 1..n /\ \A i \in S : rs[i] \in Rows
  OBVIOUS
<1>2. \A i \in S : line[i] \in Int
  BY <1>1 DEF Rows
<1> HIDE DEF n
<1>3. IsFiniteSet(S)
  BY <1>1, FS_Interval
<1> HIDE DEF line, S
<1>4. SumFunctionOnSet(line, S) \in Int
  BY <1>2, <1>3, SumType
<1> QED
  BY <1>4 DEF ItemsSumSen, SumFunction, line, S

LEMMA UnitsThroughStep ==
  ASSUME NEW items \in Seq(Entries), NEW n \in Nat, n <= Len(items)
  PROVE  /\ UnitsThrough(items, n) \in Nat
         /\ UnitsThrough(items, 0) = 0
         /\ n > 0 => UnitsThrough(items, n) = UnitsThrough(items, n - 1) + items[n].qty
<1> DEFINE L == Len(items)
           qty == [i \in DOMAIN items |-> items[i].qty]
           M == 1..n
<1>1. L \in Nat /\ DOMAIN items = 1..L /\ \A i \in 1..L : items[i].qty \in Nat
  <2>1. \A i \in DOMAIN items : items[i] \in Entries
    BY EntriesSeq
  <2> QED
    BY <2>1 DEF Entries
<1>2. \A i \in 1..L : qty[i] = items[i].qty /\ qty[i] \in Nat
  BY <1>1
<1>3. IsFiniteSet(M) /\ \A i \in M : i \in 1..L
  <2>1. IsFiniteSet(1..n)
    BY FS_Interval
  <2> QED
    BY <1>1, <2>1
<1> HIDE DEF qty, L
<1>4. \A i \in M : qty[i] \in Nat
  BY <1>2, <1>3
<1>5. SumFunctionOnSet(qty, M) \in Nat
  <2> HIDE DEF M
  <2> QED
    BY <1>3, <1>4, SumNat
<1>6. SumFunctionOnSet(qty, 1..0) = 0
  <2>1. 1..0 = {}
    OBVIOUS
  <2> QED
    BY <2>1, SumEmpty
<1>7. ASSUME n > 0 PROVE SumFunctionOnSet(qty, M) = SumFunctionOnSet(qty, 1..(n - 1)) + items[n].qty
  <2>1. n \in M /\ M \ {n} = 1..(n - 1) /\ \A i \in M : qty[i] \in Int
    BY <1>4, <1>7
  <2>2. qty[n] = items[n].qty /\ qty[n] \in Nat
    BY <1>2, <1>3, <2>1
  <2>3. SumFunctionOnSet(qty, M) = qty[n] + SumFunctionOnSet(qty, M \ {n})
    <3> HIDE DEF M
    <3> QED
      BY <1>3, <2>1, SumRemove
  <2>4. SumFunctionOnSet(qty, 1..(n - 1)) \in Nat
    <3> DEFINE K == M \ {n}
    <3>1. IsFiniteSet(K) /\ \A i \in K : qty[i] \in Nat
      BY <1>3, <1>4, FS_RemoveElement
    <3> HIDE DEF K
    <3>2. SumFunctionOnSet(qty, K) \in Nat
      BY <3>1, SumNat
    <3> QED
      BY <2>1, <3>2 DEF K
  <2> DEFINE rest == SumFunctionOnSet(qty, 1..(n - 1))
             whole == SumFunctionOnSet(qty, M)
  <2>5. rest \in Nat /\ whole = qty[n] + rest
    BY <2>1, <2>3, <2>4
  <2> HIDE DEF rest, whole
  <2>6. whole = rest + items[n].qty
    BY <2>2, <2>5
  <2> QED
    BY <2>6 DEF rest, whole
<1> QED
  BY <1>5, <1>6, <1>7 DEF UnitsThrough, qty

\* The rows of all units are blocks in the order of the items, and come to the same
\* amount.
LEMMA ExpandedRows ==
  ASSUME NEW items \in Seq(Entries), items # <<>>, Distinct(items)
  PROVE  LET rs == ExpandSplitItems(items)
         IN  /\ rs \in Seq(Rows) /\ RowSum(rs) = ItemsSumSen(items)
             /\ Len(rs) = UnitsThrough(items, Len(items))
             /\ \A i \in DOMAIN items : Block(rs, items[i], UnitsThrough(items, i - 1))
<1> DEFINE n == Len(items)
           seqs == [i \in DOMAIN items |-> Units(items[i])]
           line == [i \in 1..n |-> items[i].line]
<1>1. n \in Nat \ {0} /\ DOMAIN items = 1..n /\ \A i \in 1..n : items[i] \in Entries /\ items[i].line \in Int
  <2>1. n \in Nat /\ DOMAIN items = 1..n /\ \A i \in 1..n : items[i] \in Entries /\ items[i].line \in Int
    BY EntriesSeq
  <2>2. n # 0
    OBVIOUS
  <2> QED
    BY <2>1, <2>2
<1>2. seqs \in Seq(Seq(Rows)) /\ Len(seqs) = n
  <2>1. \A i \in 1..n : Units(items[i]) \in Seq(Rows)
    BY <1>1, UnitsType
  <2> QED
    BY <1>1, <2>1
<1>3. PICK f : Joins(f, seqs) /\ FlattenSeq(seqs) = f[n]
  <2> HIDE DEF seqs, n
  <2> QED
    BY <1>1, <1>2, FlattenIsJoined
<1> DEFINE h == [i \in 0..n |-> IF i = 0 THEN <<>> ELSE f[i]]
<1>4. h[0] = <<>> /\ h[n] = FlattenSeq(seqs)
  BY <1>1, <1>3
<1>5. ASSUME NEW m \in 0..n, m < n, h[m] \in Seq(Rows)
      PROVE  h[m + 1] = h[m] \o Units(items[m + 1])
  <2>1. m + 1 \in 1..n /\ seqs[m + 1] = Units(items[m + 1]) /\ Units(items[m + 1]) \in Seq(Rows)
    <3>1. m + 1 \in 1..n /\ items[m + 1] \in Entries
      BY <1>1, <1>5
    <3>2. Units(items[m + 1]) \in Seq(Rows)
      BY <3>1, UnitsType
    <3> QED
      BY <1>1, <3>1, <3>2
  <2>2. f[m + 1] = IF m + 1 = 1 THEN seqs[m + 1] ELSE f[(m + 1) - 1] \o seqs[m + 1]
    BY <1>2, <1>3, <2>1 DEF Joins
  <2>3. h[m + 1] = f[m + 1] /\ (m + 1) - 1 = m
    BY <1>1, <2>1
  <2> HIDE DEF seqs
  <2>4. CASE m = 0
    <3>1. h[m] = <<>> /\ h[m + 1] = Units(items[m + 1])
      BY <2>1, <2>2, <2>3, <2>4
    <3>2. \A u \in Seq(Rows) : <<>> \o u = u
      OBVIOUS
    <3> HIDE DEF h
    <3> QED
      BY <2>1, <3>1, <3>2
  <2>5. CASE m # 0
    <3>1. h[m] = f[m] /\ m + 1 # 1
      BY <2>5
    <3> QED
      BY <2>1, <2>2, <2>3, <3>1
  <2> QED
    BY <2>4, <2>5
<1> HIDE DEF h, n, seqs
<1> DEFINE Good(m) ==
             /\ h[m] \in Seq(Rows)
             /\ \A k \in 1..Len(h[m]) : \E i \in 1..m : h[m][k].name = items[i].name
             /\ RowSum(h[m]) = SumFunctionOnSet(line, 1..m)
             /\ Len(h[m]) = UnitsThrough(items, m)
             /\ \A i \in 1..m : Block(h[m], items[i], UnitsThrough(items, i - 1))
           T == {m \in 0..n : Good(m)}
<1>6. 0 \in T
  <2>1. h[0] \in Seq(Rows) /\ Len(h[0]) = 0 /\ 1..0 = {}
    BY <1>4
  <2>2. RowSum(h[0]) = 0 /\ SumFunctionOnSet(line, {}) = 0
    BY <2>1, SumEmpty DEF RowSum
  <2>3. UnitsThrough(items, 0) = 0
    BY <1>1, UnitsThroughStep DEF n
  <2>4. Good(0)
    BY <2>1, <2>2, <2>3
  <2> QED
    BY <1>1, <2>4
<1>7. ASSUME NEW m \in 0..n, m < n, m \in T PROVE m + 1 \in T
  <2> DEFINE s == h[m]
             it == items[m + 1]
             t == s \o Units(it)
  <2>1. m + 1 \in 1..n /\ it \in Entries /\ it.line \in Int
    BY <1>1, <1>7
  <2>2. Good(m)
    BY <1>7
  <2>3. h[m + 1] = t
    BY <1>5, <1>7, <2>2
  <2>4. \A i \in 1..m : items[i].name # it.name /\ items[i] \in Entries
    BY <1>1, <2>1 DEF Distinct
  <2>5. \A k \in 1..Len(s) : s[k].name # it.name
    BY <2>2, <2>4
  <2>6. /\ Units(it) \in Seq(Rows) /\ Len(Units(it)) = it.qty /\ it.qty \in Nat \ {0}
        /\ \A k \in 1..it.qty : Units(it)[k].name = it.name
    BY <2>1, UnitsType
  <2>7. /\ t \in Seq(Rows) /\ Len(t) = Len(s) + it.qty /\ Len(s) \in Nat
        /\ \A k \in 1..Len(s) : t[k] = s[k]
        /\ \A k \in 1..it.qty : t[Len(s) + k] = Units(it)[k]
    <3> DEFINE u == Units(it)
    <3>1. s \in Seq(Rows) /\ u \in Seq(Rows)
      BY <2>2, <2>6
    <3> HIDE DEF u, s
    <3>2. /\ s \o u \in Seq(Rows) /\ Len(s \o u) = Len(s) + Len(u)
          /\ \A k \in 1..Len(s) : (s \o u)[k] = s[k]
          /\ \A k \in 1..Len(u) : (s \o u)[Len(s) + k] = u[k]
      BY <3>1, JoinedRows
    <3>3. Len(s) \in Nat
      BY <3>1
    <3> QED
      BY <2>6, <3>2, <3>3 DEF u
  <2> HIDE DEF it, t
  <2>8. ASSUME NEW k \in 1..Len(t) PROVE \E i \in 1..(m + 1) : t[k].name = items[i].name
    <3>1. CASE k \in 1..Len(s)
      <4>1. t[k] = s[k] /\ \E i \in 1..m : s[k].name = items[i].name
        BY <2>2, <2>7, <3>1
      <4>2. 1..m \subseteq 1..(m + 1)
        BY <1>7
      <4> QED
        BY <4>1, <4>2
    <3>2. CASE k \notin 1..Len(s)
      <4>1. k - Len(s) \in 1..it.qty /\ Len(s) + (k - Len(s)) = k
        BY <2>6, <2>7, <3>2
      <4>2. t[k].name = it.name
        BY <2>6, <2>7, <4>1
      <4> QED
        BY <2>1, <4>2 DEF it
    <3> QED
      BY <3>1, <3>2
  <2>9. RowSum(t) = SumFunctionOnSet(line, 1..(m + 1))
    <3> DEFINE M == 1..(m + 1)
    <3>1. RowSum(t) = RowSum(s) + it.line
      BY <2>1, <2>2, RowSumJoined DEF t
    <3>2. IsFiniteSet(M) /\ m + 1 \in M /\ M \ {m + 1} = 1..m /\ \A i \in M : line[i] \in Int
      <4>1. m + 1 \in M /\ M \ {m + 1} = 1..m
        OBVIOUS
      <4>2. \A i \in M : line[i] \in Int
        BY <1>1, <2>1
      <4> QED
        BY <4>1, <4>2, FS_Interval
    <3>3. line[m + 1] = it.line
      BY <2>1 DEF it
    <3>4. IsFiniteSet(1..m)
      BY FS_Interval
    <3> HIDE DEF M, line
    <3>5. SumFunctionOnSet(line, M) = line[m + 1] + SumFunctionOnSet(line, M \ {m + 1})
      BY <3>2, SumRemove
    <3>6. SumFunctionOnSet(line, 1..m) \in Int
      <4> DEFINE K == M \ {m + 1}
      <4>1. IsFiniteSet(K) /\ \A i \in K : line[i] \in Int
        BY <3>2, <3>4
      <4> HIDE DEF K
      <4>2. SumFunctionOnSet(line, K) \in Int
        BY <4>1, SumType
      <4> QED
        BY <3>2, <4>2 DEF K
    <3>7. RowSum(s) = SumFunctionOnSet(line, 1..m)
      BY <2>2
    <3> HIDE DEF s
    <3>8. RowSum(t) = SumFunctionOnSet(line, M)
      <4> DEFINE before == SumFunctionOnSet(line, 1..m)
      <4>1. before \in Int /\ RowSum(t) = before + it.line
        BY <3>1, <3>6, <3>7
      <4>2. SumFunctionOnSet(line, M) = it.line + before
        BY <3>2, <3>3, <3>5
      <4> HIDE DEF before
      <4> QED
        BY <2>1, <4>1, <4>2
    <3> QED
      BY <3>8 DEF M
  <2>10. Len(t) = UnitsThrough(items, m + 1)
    <3>1. m + 1 \in Nat /\ m + 1 <= Len(items) /\ m + 1 > 0 /\ (m + 1) - 1 = m
      BY <1>1, <1>7 DEF n
    <3>2. UnitsThrough(items, m + 1) = UnitsThrough(items, m) + items[m + 1].qty
      BY <3>1, UnitsThroughStep
    <3> QED
      BY <2>2, <2>7, <3>2 DEF it
  <2>11. ASSUME NEW i \in 1..(m + 1) PROVE Block(t, items[i], UnitsThrough(items, i - 1))
    <3>1. /\ Block(t, it, Len(s))
          /\ \A e \in Entries, o \in Nat : e.name # it.name /\ Block(s, e, o) => Block(t, e, o)
      <4>1. s \in Seq(Rows)
        BY <2>2
      <4> HIDE DEF s
      <4> QED
        BY <2>1, <2>5, <4>1, BlocksJoined DEF t
    <3>2. CASE i = m + 1
      <4>1. i - 1 = m /\ Len(s) = UnitsThrough(items, m)
        BY <1>7, <2>2, <3>2
      <4> QED
        BY <3>1, <3>2, <4>1 DEF it
    <3>3. CASE i \in 1..m
      <4>1. Block(s, items[i], UnitsThrough(items, i - 1))
        BY <2>2, <3>3
      <4>2. UnitsThrough(items, i - 1) \in Nat
        <5>1. i - 1 \in Nat /\ i - 1 <= Len(items)
          BY <1>1, <1>7, <3>3 DEF n
        <5> QED
          BY <5>1, UnitsThroughStep
      <4> QED
        BY <2>4, <3>1, <3>3, <4>1, <4>2
    <3> QED
      BY <3>2, <3>3
  <2>12. Good(m + 1)
    BY <2>3, <2>7, <2>8, <2>9, <2>10, <2>11
  <2> QED
    BY <2>1, <2>12
<1>8. Good(n)
  <2> HIDE DEF T
  <2>1. \A i \in 0..n : i \in T
    BY <1>1, <1>6, <1>7, Upto
  <2>2. n \in T
    BY <1>1, <2>1
  <2> QED
    BY <2>2 DEF T
<1>9. ExpandSplitItems(items) = h[n]
  BY <1>4 DEF ExpandSplitItems, seqs
<1>10. ItemsSumSen(items) = SumFunctionOnSet(line, 1..n)
  BY <1>1 DEF ItemsSumSen, SumFunction
<1> HIDE DEF line
<1> QED
  BY <1>1, <1>8, <1>9, <1>10 DEF n

\* The server reads the rows of the form from the first on.
LEMMA PostedRows ==
  ASSUME NEW items \in Seq(Entries), items # <<>>, Distinct(items)
  PROVE  LET rs == ExpandSplitItems(items)
             ps == Posted(items)
         IN  /\ ps \in Seq(Rows) /\ Len(ps) \in Nat /\ Len(rs) \in Nat
             /\ Len(ps) = IF Len(rs) <= FormRows THEN Len(rs) ELSE FormRows
             /\ \A n \in 1..Len(ps) : n \in 1..Len(rs) /\ ps[n] = rs[n]
<1> DEFINE rs == ExpandSplitItems(items)
           ps == Posted(items)
<1>1. rs \in Seq(Rows)
  BY ExpandedRows
<1>2. ps = IF Len(rs) <= FormRows THEN rs ELSE SubSeq(rs, 1, FormRows)
  BY DEF Posted
<1>3. FormRows \in Nat \ {0}
  BY FormAssumption
<1> DEFINE Read ==
             /\ ps \in Seq(Rows) /\ Len(ps) \in Nat /\ Len(rs) \in Nat
             /\ Len(ps) = IF Len(rs) <= FormRows THEN Len(rs) ELSE FormRows
             /\ \A n \in 1..Len(ps) : n \in 1..Len(rs) /\ ps[n] = rs[n]
<1> HIDE DEF rs, ps
<1>4. ASSUME Len(rs) <= FormRows PROVE Read
  BY <1>1, <1>2, <1>4
<1>5. ASSUME ~(Len(rs) <= FormRows) PROVE Read
  <2> DEFINE q == SubSeq(rs, 1, FormRows)
  <2>1. Len(rs) \in Nat /\ FormRows < Len(rs)
    BY <1>1, <1>3, <1>5
  <2>2. q \in Seq(Rows) /\ Len(q) = FormRows /\ \A n \in 1..FormRows : q[n] = rs[n]
    BY <1>1, <1>3, <2>1
  <2>3. ps = q
    BY <1>2, <1>5
  <2> HIDE DEF q
  <2>4. \A n \in 1..FormRows : n \in 1..Len(rs)
    BY <1>3, <2>1
  <2> QED
    BY <1>3, <1>5, <2>1, <2>2, <2>3, <2>4
<1> QED
  BY <1>4, <1>5 DEF rs, ps

LEMMA RowsOfItem ==
  ASSUME NEW items \in Seq(Entries), items # <<>>, Distinct(items), NEW i \in DOMAIN items
  PROVE  LET ps == Posted(items)
             before == UnitsThrough(items, i - 1)
             of == {n \in DOMAIN ps : ps[n].name = items[i].name}
         IN  /\ of = ((before + 1)..(before + items[i].qty)) \intersect (1..FormRows)
             /\ before + items[i].qty <= FormRows =>
                  /\ SumFunction([n \in of |-> ps[n].line]) = items[i].line
                  /\ \A n, m \in of : ps[n].line - ps[m].line < items[i].qty
<1> DEFINE rs == ExpandSplitItems(items)
           ps == Posted(items)
           it == items[i]
           q == it.qty
           u == Units(it)
           o == UnitsThrough(items, i - 1)
<1>1. it \in Entries
  BY EntriesSeq
<1>2. rs \in Seq(Rows) /\ Block(rs, it, o)
  BY ExpandedRows
<1>3. o \in Nat
  <2>1. i - 1 \in Nat /\ i - 1 <= Len(items)
    OBVIOUS
  <2> QED
    BY <2>1, UnitsThroughStep
<1>4. /\ ps \in Seq(Rows) /\ Len(ps) \in Nat /\ Len(rs) \in Nat
      /\ Len(ps) = IF Len(rs) <= FormRows THEN Len(rs) ELSE FormRows
      /\ \A n \in 1..Len(ps) : n \in 1..Len(rs) /\ ps[n] = rs[n]
  BY PostedRows
<1>5. FormRows \in Nat
  BY FormAssumption
<1> HIDE DEF rs, ps, it, o
<1>6. /\ q \in Nat \ {0}
      /\ \A n \in 1..q : u[n].name = it.name /\ u[n].line \in Int
      /\ SumFunctionOnSet([n \in 1..q |-> u[n].line], 1..q) = it.line
      /\ \A n, m \in 1..q : u[n].line - u[m].line < q
  BY <1>1, UnitsType
<1> HIDE DEF u, q
<1>7. /\ o + q <= Len(rs) /\ \A k \in 1..q : rs[o + k] = u[k]
      /\ \A k \in 1..Len(rs) : k \notin (o + 1)..(o + q) => rs[k].name # it.name
  BY <1>2 DEF Block, q, u
<1> DEFINE of == {n \in DOMAIN ps : ps[n].name = it.name}
           g == [n \in of |-> ps[n].line]
           b == [n \in 1..q |-> u[n].line]
<1>8. ASSUME NEW n \in (o + 1)..(o + q)
      PROVE  n - o \in 1..q /\ n \in 1..Len(rs) /\ rs[n] = u[n - o] /\ rs[n].name = it.name
  <2>1. n - o \in 1..q /\ o + (n - o) = n
    BY <1>3, <1>6
  <2>2. n \in 1..Len(rs)
    BY <1>3, <1>4, <1>6, <1>7
  <2>3. rs[n] = u[n - o]
    BY <1>7, <2>1
  <2> QED
    BY <1>6, <2>1, <2>2, <2>3
<1>9. of = ((o + 1)..(o + q)) \intersect (1..FormRows)
  <2>1. DOMAIN ps = 1..Len(ps)
    BY <1>4
  <2>2. ASSUME NEW n \in of PROVE n \in (o + 1)..(o + q) /\ n \in 1..FormRows
    <3>1. n \in 1..Len(ps) /\ ps[n].name = it.name
      BY <2>1, <2>2
    <3>2. n \in 1..Len(rs) /\ rs[n].name = it.name
      BY <1>4, <3>1
    <3> QED
      BY <1>4, <1>5, <1>7, <3>1, <3>2
  <2>3. ASSUME NEW n \in (o + 1)..(o + q), n \in 1..FormRows PROVE n \in of
    <3>1. n \in 1..Len(rs) /\ rs[n].name = it.name
      BY <1>8
    <3>2. n \in 1..Len(ps)
      BY <1>4, <1>5, <2>3, <3>1
    <3> QED
      BY <1>4, <2>1, <3>1, <3>2
  <2> HIDE DEF of
  <2> QED
    BY <2>2, <2>3
<1>10. ASSUME o + q <= FormRows
       PROVE  /\ SumFunction(g) = it.line
              /\ \A n, m \in of : ps[n].line - ps[m].line < q
  <2>1. of = (o + 1)..(o + q)
    BY <1>3, <1>5, <1>6, <1>9, <1>10
  <2>2. \A n \in of : ps[n] = rs[n]
    BY <1>4
  <2>3. SumFunctionOnSet(g, of) = it.line
    <3>1. IsFiniteSet({}) /\ {} \cap ((o + 1)..(o + q)) = {} /\ {} \cup ((o + 1)..(o + q)) = of
      BY <2>1, FS_EmptySet
    <3>2. \A k \in 1..q : b[k] \in Int /\ g[o + k] = b[k]
      <4> SUFFICES ASSUME NEW k \in 1..q PROVE b[k] \in Int /\ g[o + k] = b[k]
        OBVIOUS
      <4>1. o + k \in (o + 1)..(o + q)
        BY <1>3, <1>6
      <4>2. o + k \in of /\ ps[o + k] = rs[o + k]
        BY <2>1, <2>2, <4>1
      <4> HIDE DEF of
      <4> QED
        BY <1>6, <1>7, <4>2
    <3>3. \A x \in {} : g[x] \in Int
      OBVIOUS
    <3> HIDE DEF g, b, of
    <3>4. SumFunctionOnSet(g, {} \cup ((o + 1)..(o + q))) = SumFunctionOnSet(g, {}) + SumFunctionOnSet(b, 1..q)
      <4>1. o \in Nat /\ q \in Nat
        BY <1>3, <1>6
      <4>2. IsFiniteSet({}) /\ {} \cap ((o + 1)..(o + q)) = {}
        BY <3>1
      <4> QED
        BY <3>2, <3>3, <4>1, <4>2, SumAppend
    <3>5. SumFunctionOnSet(g, {}) = 0
      BY SumEmpty
    <3>6. it.line \in Int
      BY <1>1 DEF Entries
    <3>7. SumFunctionOnSet(b, 1..q) = it.line
      BY <1>6 DEF b
    <3> QED
      BY <3>1, <3>4, <3>5, <3>6, <3>7
  <2>4. SumFunction(g) = it.line
    BY <2>3 DEF SumFunction
  <2>5. ASSUME NEW n \in of, NEW m \in of PROVE ps[n].line - ps[m].line < q
    <3>1. n - o \in 1..q /\ rs[n] = u[n - o] /\ m - o \in 1..q /\ rs[m] = u[m - o]
      BY <1>8, <2>1
    <3>2. ps[n] = rs[n] /\ ps[m] = rs[m]
      BY <2>2
    <3> QED
      BY <1>6, <3>1, <3>2
  <2> QED
    BY <2>4, <2>5
<1> QED
  BY <1>9, <1>10 DEF ps, it, q, o

\* Friends who share rows that cost nothing or more cover the bill.
LEMMA RowsCovered ==
  ASSUME NEW rs \in Seq(Rows), \A n \in DOMAIN rs : rs[n].line >= 0,
         NEW tax \in Int, NEW k \in Nat \ {0}
  PROVE  LET sub == ItemsSumSen(rs)
             each == Owed(ClaimedSen(DOMAIN rs, [n \in DOMAIN rs |-> rs[n].line], [n \in DOMAIN rs |-> k]), sub, tax)
         IN  CoversBill(k * each, sub, tax, k * Len(rs), k)
<1> DEFINE sub == ItemsSumSen(rs)
           line == [n \in DOMAIN rs |-> rs[n].line]
           S == DOMAIN rs
           each == Owed(ClaimedSen(S, line, [n \in S |-> k]), sub, tax)
<1>1. sub = SumFunction(line)
  BY DEF ItemsSumSen
<1>2. \A n \in S : rs[n].line \in Int /\ rs[n].line >= 0
  <2>1. \A n \in S : rs[n] \in Rows
    OBVIOUS
  <2> QED
    BY <2>1 DEF Rows
<1> HIDE DEF sub
<1>3. S = 1..Len(rs) /\ Len(rs) \in Nat
  OBVIOUS
<1>4. IsFiniteSet(S) /\ Cardinality(S) = Len(rs)
  <2> DEFINE n == Len(rs)
  <2>1. n \in Nat /\ S = 1..n
    BY <1>3
  <2> HIDE DEF n
  <2>2. IsFiniteSet(1..n) /\ Cardinality(1..n) = n
    BY <2>1, FS_Interval
  <2> QED
    BY <2>1, <2>2 DEF n
<1>5. \A n \in S : line[n] \in Nat
  BY <1>2
<1>6. sub = SumFunctionOnSet(line, S)
  BY <1>1 DEF SumFunction
<1> HIDE DEF line, S
<1>7. sub \in Nat
  BY <1>4, <1>5, <1>6, SumNat
<1>8. CASE sub > 0
  <2>1. CoversBill(k * Owed(ClaimedSen(S, line, [i \in S |-> k]), sub, tax), sub, tax, k * Cardinality(S), k)
    BY <1>4, <1>5, <1>6, <1>8, SharersCoverBill
  <2> QED
    BY <1>4, <2>1 DEF sub, line, S
<1>9. CASE sub = 0
  <2>1. each \in Int
    <3> DEFINE ns == [n \in S |-> k]
    <3>1. \A i \in S : line[i] \in Int /\ ns[i] \in Int
      BY <1>5
    <3> HIDE DEF ns
    <3>2. ClaimedSen(S, line, ns) \in Int
      BY <1>4, <3>1, ClaimedType
    <3> DEFINE claimed == ClaimedSen(S, line, ns)
    <3> HIDE DEF claimed
    <3>3. Owed(claimed, sub, tax) \in Int
      BY <1>7, <3>2, OwedType DEF claimed
    <3> QED
      BY <3>3 DEF claimed, ns
  <2> HIDE DEF each
  <2> DEFINE e == k * each
             N == k * Len(rs)
             d == Distance(tax, 0)
  <2>2. e \in Int /\ N \in Nat /\ d \in Nat
    <3>1. d \in Nat
      BY DEF Distance
    <3> QED
      BY <1>3, <2>1, <3>1
  <2> HIDE DEF e, N, d
  <2>3. 2 * Distance(e, 0 + tax) * 0 = 0
    BY <2>2 DEF Distance
  <2>4. N * (0 + d) >= 0
    BY <2>2
  <2>5. (IF tax < 0 THEN 3 ELSE 1) * 0 * k = 0
    OBVIOUS
  <2>6. N * (0 + d) \in Int
    BY <2>2
  <2>7. CoversBill(e, 0, tax, N, k)
    BY <2>3, <2>4, <2>5, <2>6 DEF CoversBill, d
  <2> QED
    BY <1>9, <2>7 DEF e, N, each, sub, line, S
<1> QED
  BY <1>7, <1>8, <1>9

-----------------------------------------------------------------------------
\* What the model may answer.

PaperItems == [name : STRING, unit : Nat, qty : Nat \ {0}, line : Nat]

LEMMA PaperIs ==
  ASSUME NEW p \in Printed
  PROVE  /\ p.subtotal \in Nat \ {0} /\ p.sst \in Nat /\ p.service \in Nat /\ p.rounding \in -2..2
         /\ p.total = p.subtotal + p.sst + p.service
         /\ p.items \in Seq(PaperItems) /\ p.items # <<>> /\ Distinct(p.items)
         /\ Len(p.items) \in Nat /\ DOMAIN p.items = 1..Len(p.items)
         /\ ItemsSumSen(p.items) \in {p.subtotal, p.total}
         /\ \A i \in DOMAIN p.items :
              /\ p.items[i] \in PaperItems /\ p.items[i].name # NoName
              /\ p.items[i].line = p.items[i].unit * p.items[i].qty
         /\ p.sst \notin 1..4 /\ p.service \notin 1..4
         /\ p.sst + p.service > 0 => p.sst + p.service + 2 <= (p.subtotal * 20) \div 100
<1>1. /\ p \in [subtotal : Nat, sst : Nat, service : Nat, rounding : -2..2, total : Nat,
                items : Seq(PaperItems)]
      /\ p.total = p.subtotal + p.sst + p.service
      /\ ItemsSumSen(p.items) \in {p.subtotal, p.total}
      /\ p.items # <<>> /\ Distinct(p.items)
      /\ \A i \in DOMAIN p.items : p.items[i].name # NoName /\ p.items[i].line = p.items[i].unit * p.items[i].qty
  BY PrintedAssumption DEF PaperItems, Distinct
<1>2. p.subtotal > 0 /\ {p.sst, p.service} \intersect 1..4 = {}
      /\ (p.sst + p.service > 0 => p.sst + p.service + 2 <= (p.subtotal * 20) \div 100)
  BY RatesAssumption
<1>3. p.items \in Seq(PaperItems)
  BY <1>1
<1>4. Len(p.items) \in Nat /\ DOMAIN p.items = 1..Len(p.items) /\ \A i \in DOMAIN p.items : p.items[i] \in PaperItems
  BY <1>3
<1>5. p.sst \notin 1..4 /\ p.service \notin 1..4
  BY <1>2
<1>6. p.subtotal \in Nat \ {0} /\ p.sst \in Nat /\ p.service \in Nat /\ p.rounding \in -2..2
  BY <1>1, <1>2
<1> QED
  BY <1>1, <1>2, <1>3, <1>4, <1>5, <1>6

\* The two taxes of a receipt as one figure.
LEMMA TaxesTogether ==
  ASSUME NEW a \in Nat, NEW v \in Nat, NEW w \in Nat, v \notin 1..4, w \notin 1..4
  PROVE  v + w \in Nat /\ a + v + w = a + (v + w) /\ (v + w > 0 => v + w >= 5)
OBVIOUS

\* The figures of a printed receipt, without its items.
LEMMA PaperFigures ==
  ASSUME NEW p \in Printed
  PROVE  /\ p.subtotal \in Nat \ {0} /\ p.sst \in Nat /\ p.service \in Nat /\ p.rounding \in -2..2
         /\ p.subtotal \in Int /\ p.sst \in Int /\ p.service \in Int /\ p.rounding \in Int /\ p.total \in Int
         /\ p.total = p.subtotal + p.sst + p.service
         /\ p.sst + p.service \in Nat /\ p.total = p.subtotal + (p.sst + p.service)
         /\ p.sst + p.service > 0 => p.sst + p.service >= 5
<1>1. /\ p.subtotal \in Nat \ {0} /\ p.sst \in Nat /\ p.service \in Nat /\ p.rounding \in -2..2
      /\ p.total = p.subtotal + p.sst + p.service /\ p.sst \notin 1..4 /\ p.service \notin 1..4
  BY PaperIs
<1>2. /\ p.sst + p.service \in Nat /\ p.subtotal + p.sst + p.service = p.subtotal + (p.sst + p.service)
      /\ p.sst + p.service > 0 => p.sst + p.service >= 5
  BY <1>1, TaxesTogether
<1>3. p.subtotal \in Int /\ p.sst \in Int /\ p.service \in Int /\ p.rounding \in Int /\ p.total \in Int
  BY <1>1
<1> QED
  BY <1>1, <1>2, <1>3

Answers ==
    [subtotal : Int, sst : Int, service : Int, rounding : Int, total : Int, tax : Int, items : Seq(Answered)]

Faithful(p) ==
    [subtotal |-> p.subtotal, sst |-> p.sst, service |-> p.service, rounding |-> p.rounding,
     total |-> p.total, tax |-> 0, items |-> p.items]

LEMMA FaithfulType ==
  ASSUME NEW p \in Printed
  PROVE  Faithful(p) \in Answers /\ p.items \in Seq(Answered)
<1>1. p.items \in Seq(PaperItems) /\ Len(p.items) \in Nat /\ DOMAIN p.items = 1..Len(p.items)
      /\ \A i \in DOMAIN p.items : p.items[i] \in PaperItems
  BY PaperIs
<1>2. PaperItems \subseteq Answered
  BY DEF PaperItems, Answered
<1>3. p.items \in Seq(Answered)
  BY <1>1, <1>2
<1>4. p.subtotal \in Int /\ p.sst \in Int /\ p.service \in Int /\ p.rounding \in Int /\ p.total \in Int
  BY PaperIs
<1> QED
  BY <1>3, <1>4 DEF Faithful, Answers

\* The items of an answer: those of the receipt, maybe one of them misread.
LEMMA MisreadItems ==
  ASSUME NEW p \in Printed, NEW i \in DOMAIN p.items, NEW it \in Answered,
         it.name = p.items[i].name \/ it.name = NoName
  PROVE  LET new == [p.items EXCEPT ![i] = it]
         IN  /\ new \in Seq(Answered) /\ DOMAIN new = DOMAIN p.items /\ Distinct(new)
             /\ [Faithful(p) EXCEPT !.items = new] \in Answers
<1> DEFINE new == [p.items EXCEPT ![i] = it]
<1>1. Faithful(p) \in Answers /\ p.items \in Seq(Answered)
  BY FaithfulType
<1>2. new \in Seq(Answered) /\ DOMAIN new = DOMAIN p.items
  BY <1>1
<1>3. Distinct(new)
  <2>1. Distinct(p.items) /\ \A j \in DOMAIN p.items : p.items[j].name # NoName
    BY PaperIs
  <2> QED
    BY <1>2, <2>1 DEF Distinct
<1> HIDE DEF new
<1>4. [Faithful(p) EXCEPT !.items = new] \in Answers
  BY <1>1, <1>2 DEF Answers
<1> QED
  BY <1>2, <1>3, <1>4 DEF new

UnitOnly(it) == [it EXCEPT !.line = 0]
Unnamed(it) == [it EXCEPT !.name = NoName]

LEMMA MisreadType ==
  ASSUME NEW it \in PaperItems, NEW v \in Int
  PROVE  /\ LineMisread(it, v) \in Answered /\ LineMisread(it, v).name = it.name
         /\ LineMisread(it, v).line = v /\ LineMisread(it, v).unit = 0 /\ LineMisread(it, v).qty = it.qty
         /\ UnitOnly(it) \in Answered /\ UnitOnly(it).name = it.name
         /\ UnitOnly(it).line = 0 /\ UnitOnly(it).unit = it.unit /\ UnitOnly(it).qty = it.qty
         /\ LineOnly(it) \in Answered /\ LineOnly(it).name = it.name
         /\ LineOnly(it).line = it.line /\ LineOnly(it).unit = 0 /\ LineOnly(it).qty = 0
         /\ Unnamed(it) \in Answered /\ Unnamed(it).name = NoName
<1>1. LineMisread(it, v) \in Answered /\ LineMisread(it, v).name = it.name
      /\ LineMisread(it, v).line = v /\ LineMisread(it, v).unit = 0 /\ LineMisread(it, v).qty = it.qty
  BY DEF PaperItems, Answered, LineMisread
<1>2. UnitOnly(it) \in Answered /\ UnitOnly(it).name = it.name
      /\ UnitOnly(it).line = 0 /\ UnitOnly(it).unit = it.unit /\ UnitOnly(it).qty = it.qty
  BY DEF PaperItems, Answered, UnitOnly
<1>3. LineOnly(it) \in Answered /\ LineOnly(it).name = it.name
      /\ LineOnly(it).line = it.line /\ LineOnly(it).unit = 0 /\ LineOnly(it).qty = 0
  BY DEF PaperItems, Answered, LineOnly
<1>4. Unnamed(it) \in Answered /\ Unnamed(it).name = NoName
  BY DEF PaperItems, Answered, Unnamed
<1> QED
  BY <1>1, <1>2, <1>3, <1>4

\* The figures misread, with all items as printed.
FigureSlips == Slips \ {"summary_as_line", "unit_only", "line_only", "unnamed"}

LEMMA FigureSlip ==
  ASSUME NEW p \in Printed, NEW s \in FigureSlips, NEW a \in Reading(s, p)
  PROVE  /\ a.items = p.items /\ a \in Answers
         /\ \/ s \in {"none", "legacy_tax"} /\ a.subtotal = p.subtotal /\ a.service = p.service
               /\ a.rounding = p.rounding /\ a.total = p.total
               /\ IF s = "none" THEN a.sst = p.sst /\ a.tax = 0 ELSE a.sst = 0 /\ a.tax = p.sst
            \/ s = "sst_as_service" /\ p.service = 0
               /\ a.subtotal = p.subtotal /\ a.sst = 0 /\ a.service = p.sst
               /\ a.rounding = p.rounding /\ a.total = p.total /\ a.tax = 0
            \/ s \in {"total_as_sst", "total_as_sst_sst_as_service"}
               /\ a.subtotal = p.subtotal /\ a.sst = p.total /\ a.rounding \in {0, p.rounding}
               /\ a.total \in {0, p.total, p.total + p.rounding} /\ a.tax = 0
               /\ IF s = "total_as_sst" THEN a.service = p.service ELSE p.service = 0 /\ a.service = p.sst
            \/ s \in {"payment_as_total", "no_rounding", "no_total", "no_total_no_rounding"}
               /\ a.subtotal = p.subtotal /\ a.sst = p.sst /\ a.service = p.service /\ a.tax = 0
               /\ a.rounding \in {0, p.rounding}
               /\ a.total = CASE s = "payment_as_total" -> p.total + p.rounding
                              [] s = "no_rounding" -> p.total
                              [] s \in {"no_total", "no_total_no_rounding"} -> 0
            \/ s = "no_subtotal" /\ a.subtotal = 0 /\ a.sst = p.sst /\ a.service = p.service
               /\ a.rounding = p.rounding /\ a.total = p.total /\ a.tax = 0
<1> DEFINE f == Faithful(p)
<1>1. /\ f.subtotal = p.subtotal /\ f.sst = p.sst /\ f.service = p.service /\ f.rounding = p.rounding
      /\ f.total = p.total /\ f.tax = 0 /\ f.items = p.items /\ f \in Answers
  BY FaithfulType DEF Faithful
<1>2. p.subtotal \in Int /\ p.sst \in Int /\ p.service \in Int /\ p.rounding \in Int /\ p.total \in Int
      /\ p.items \in Seq(Answered) /\ Payment(p) \in Int /\ Payment(p) = p.total + p.rounding
  <2>1. /\ p.subtotal \in Int /\ p.sst \in Int /\ p.service \in Int /\ p.rounding \in Int
        /\ p.total \in Int
    BY PaperFigures
  <2>2. p.items \in Seq(Answered)
    BY FaithfulType
  <2> HIDE DEF f
  <2> QED
    BY <2>1, <2>2 DEF Payment
<1>3. CASE s = "none"
  BY <1>1, <1>3 DEF Reading, Faithful
<1>4. CASE s = "legacy_tax"
  <2>1. a = [f EXCEPT !.tax = p.sst, !.sst = 0]
    BY <1>4 DEF Reading, Faithful
  <2> HIDE DEF f
  <2> QED
    BY <1>1, <1>2, <1>4, <2>1 DEF Answers
<1>5. CASE s = "sst_as_service"
  <2>1. p.service = 0 /\ a = [f EXCEPT !.service = p.sst, !.sst = 0]
    BY <1>5 DEF Reading, Faithful
  <2> HIDE DEF f
  <2> QED
    BY <1>1, <1>2, <1>5, <2>1 DEF Answers
<1>6. CASE s = "total_as_sst"
  BY <1>1, <1>2, <1>6 DEF Reading, TotalAsSst, Answers
<1>7. CASE s = "total_as_sst_sst_as_service"
  BY <1>1, <1>2, <1>7 DEF Reading, TotalAsSst, Answers
<1>8. CASE s = "payment_as_total"
  <2>1. \E d \in {0, p.rounding} : a = [f EXCEPT !.total = Payment(p), !.rounding = d]
    BY <1>8 DEF Reading, Faithful
  <2> HIDE DEF f
  <2> QED
    BY <1>1, <1>2, <1>8, <2>1 DEF Answers
<1>9. CASE s = "no_subtotal"
  BY <1>1, <1>2, <1>9 DEF Reading, Faithful, Answers
<1>10. CASE s = "no_rounding"
  BY <1>1, <1>2, <1>10 DEF Reading, Faithful, Answers
<1>11. CASE s = "no_total"
  BY <1>1, <1>2, <1>11 DEF Reading, Faithful, Answers
<1>12. CASE s = "no_total_no_rounding"
  <2>1. a = [f EXCEPT !.total = 0, !.rounding = 0]
    BY <1>12 DEF Reading, Faithful
  <2> HIDE DEF f
  <2> QED
    BY <1>1, <1>2, <1>12, <2>1 DEF Answers
<1> QED
  BY <1>3, <1>4, <1>5, <1>6, <1>7, <1>8, <1>9, <1>10, <1>11, <1>12 DEF FigureSlips, Slips

\* One item misread, with the figures as printed.
LEMMA ItemSlip ==
  ASSUME NEW p \in Printed, NEW s \in {"summary_as_line", "unit_only", "line_only", "unnamed"},
         NEW a \in Reading(s, p)
  PROVE  \E i \in DOMAIN p.items, it \in Answered :
           /\ a = [Faithful(p) EXCEPT !.items = [p.items EXCEPT ![i] = it]]
           /\ \/ s = "summary_as_line"
                 /\ \E v \in {p.subtotal, p.total, p.total + p.rounding} : it = LineMisread(p.items[i], v)
              \/ s = "unit_only" /\ it = UnitOnly(p.items[i])
              \/ s = "line_only" /\ it = LineOnly(p.items[i])
              \/ s = "unnamed" /\ it = Unnamed(p.items[i])
<1> DEFINE f == Faithful(p)
<1>1. f.items = p.items /\ f \in Answers /\ \A i \in DOMAIN p.items : p.items[i] \in PaperItems
  BY FaithfulType, PaperIs DEF Faithful
<1>2. p.subtotal \in Int /\ p.total \in Int /\ Payment(p) \in Int /\ Payment(p) = p.total + p.rounding
  <2>1. p.subtotal \in Int /\ p.sst \in Int /\ p.service \in Int /\ p.rounding \in Int
        /\ p.total = p.subtotal + p.sst + p.service
    BY PaperIs
  <2> QED
    BY <2>1 DEF Payment
<1> HIDE DEF f
<1>3. CASE s = "summary_as_line"
  <2>1. PICK i \in DOMAIN p.items, v \in {p.subtotal, p.total, Payment(p)} :
           a = [f EXCEPT !.items[i] = LineMisread(@, v)]
    BY <1>3 DEF Reading, Faithful, f
  <2> DEFINE it == LineMisread(p.items[i], v)
  <2>2. a = [f EXCEPT !.items = [p.items EXCEPT ![i] = it]]
    BY <1>1, <2>1 DEF Answers, LineMisread
  <2>3. it \in Answered
    BY <1>1, <1>2, MisreadType
  <2> HIDE DEF it
  <2>4. it = LineMisread(p.items[i], v) /\ v \in {p.subtotal, p.total, p.total + p.rounding}
    BY <1>2 DEF it
  <2> QED
    BY <1>3, <2>2, <2>3, <2>4 DEF f
<1>4. CASE s = "unit_only"
  <2>1. PICK i \in DOMAIN p.items : a = [f EXCEPT !.items[i].line = 0]
    BY <1>4 DEF Reading, Faithful, f
  <2> DEFINE it == UnitOnly(p.items[i])
  <2>2. a = [f EXCEPT !.items = [p.items EXCEPT ![i] = it]]
    BY <1>1, <2>1 DEF Answers, UnitOnly
  <2>3. it \in Answered
    BY <1>1, <1>2, MisreadType
  <2> HIDE DEF it
  <2>4. it = UnitOnly(p.items[i])
    BY DEF it
  <2> QED
    BY <1>4, <2>2, <2>3, <2>4 DEF f
<1>5. CASE s = "line_only"
  <2>1. PICK i \in DOMAIN p.items : a = [f EXCEPT !.items[i] = LineOnly(@)]
    BY <1>5 DEF Reading, Faithful, f
  <2> DEFINE it == LineOnly(p.items[i])
  <2>2. a = [f EXCEPT !.items = [p.items EXCEPT ![i] = it]]
    BY <1>1, <2>1 DEF Answers, LineOnly
  <2>3. it \in Answered
    BY <1>1, <1>2, MisreadType
  <2> HIDE DEF it
  <2>4. it = LineOnly(p.items[i])
    BY DEF it
  <2> QED
    BY <1>5, <2>2, <2>3, <2>4 DEF f
<1>6. CASE s = "unnamed"
  <2>1. PICK i \in DOMAIN p.items : a = [f EXCEPT !.items[i].name = NoName]
    BY <1>6 DEF Reading, Faithful, f
  <2> DEFINE it == Unnamed(p.items[i])
  <2>2. a = [f EXCEPT !.items = [p.items EXCEPT ![i] = it]]
    BY <1>1, <2>1 DEF Answers, Unnamed
  <2>3. it \in Answered
    BY <1>1, <1>2, MisreadType
  <2> HIDE DEF it
  <2>4. it = Unnamed(p.items[i])
    BY DEF it
  <2> QED
    BY <1>6, <2>2, <2>3, <2>4 DEF f
<1> QED
  BY <1>3, <1>4, <1>5, <1>6

LEMMA AnswerType ==
  ASSUME NEW p \in Printed, NEW s \in Slips, NEW a \in Reading(s, p)
  PROVE  a \in Answers /\ Distinct(a.items)
<1>1. CASE s \in FigureSlips
  BY <1>1, FigureSlip, PaperIs
<1>2. CASE s \notin FigureSlips
  <2>1. s \in {"summary_as_line", "unit_only", "line_only", "unnamed"}
    BY <1>2 DEF FigureSlips, Slips
  <2>2. PICK i \in DOMAIN p.items, it \in Answered :
           /\ a = [Faithful(p) EXCEPT !.items = [p.items EXCEPT ![i] = it]]
           /\ \/ s = "summary_as_line"
                 /\ \E v \in {p.subtotal, p.total, p.total + p.rounding} : it = LineMisread(p.items[i], v)
              \/ s = "unit_only" /\ it = UnitOnly(p.items[i])
              \/ s = "line_only" /\ it = LineOnly(p.items[i])
              \/ s = "unnamed" /\ it = Unnamed(p.items[i])
    BY <2>1, ItemSlip
  <2>3. p.items[i] \in PaperItems /\ p.subtotal \in Int /\ p.total \in Int /\ p.total + p.rounding \in Int
    <3>1. /\ p.items[i] \in PaperItems /\ p.subtotal \in Int /\ p.sst \in Int /\ p.service \in Int
          /\ p.rounding \in Int /\ p.total = p.subtotal + p.sst + p.service
      BY PaperIs
    <3> QED
      BY <3>1
  <2>4. it.name = p.items[i].name \/ it.name = NoName
    BY <2>2, <2>3, MisreadType
  <2>5. /\ Distinct([p.items EXCEPT ![i] = it])
        /\ [Faithful(p) EXCEPT !.items = [p.items EXCEPT ![i] = it]] \in Answers
    BY <2>4, MisreadItems
  <2>6. a.items = [p.items EXCEPT ![i] = it]
    <3> DEFINE new == [p.items EXCEPT ![i] = it]
    <3> HIDE DEF new
    <3>1. [Faithful(p) EXCEPT !.items = new].items = new
      BY DEF Faithful
    <3> QED
      BY <2>2, <3>1 DEF new
  <2> QED
    BY <2>2, <2>5, <2>6
<1> QED
  BY <1>1, <1>2

LEMMA MapType ==
  ASSUME NEW a \in Answers, Distinct(a.items)
  PROVE  MapLLMResponse(a) \in Scanned /\ Distinct(MapLLMResponse(a).items)
<1> DEFINE kept == FoldLeft(AddNamed, <<>>, a.items)
           sst == IF a.sst = 0 /\ a.tax > 0 THEN a.tax ELSE a.sst
<1>1. kept \in Seq(Entries) /\ Distinct(kept)
  <2>1. a.items \in Seq(Answered)
    BY DEF Answers
  <2> QED
    BY <2>1, NamedItems
<1>2. MapLLMResponse(a) = [subtotal |-> a.subtotal, sst |-> sst, service |-> a.service,
                           rounding |-> a.rounding, total |-> a.total, items |-> kept]
  BY DEF MapLLMResponse
<1>3. sst \in Int
  BY DEF Answers
<1> HIDE DEF kept, sst
<1> QED
  BY <1>1, <1>2, <1>3 DEF Answers, Scanned

-----------------------------------------------------------------------------
\* The answer after each call of the pipeline.

Totalled(a) == RepairMisassignedTotals(MapLLMResponse(a))
Lined(a) == RepairMisassignedLineItems(Totalled(a))
Netted(a) == NormalizeParsedReceipt(Lined(a))
Processed(a) == EnrichParsedReceipt(Netted(a))

Submitted(r) == [r EXCEPT !.subtotal = IF @ <= 0 THEN ItemsSumSen(Posted(r.items)) ELSE @]

LEMMA ProcessedType ==
  ASSUME NEW p \in Printed, NEW s \in Slips, NEW a \in Reading(s, p)
  PROVE  /\ a \in Answers /\ MapLLMResponse(a) \in Scanned /\ Totalled(a) \in Scanned /\ Lined(a) \in Scanned
         /\ Netted(a) \in Scanned /\ Processed(a) \in Scanned /\ Distinct(Processed(a).items)
         /\ Processed(a).items # <<>> =>
              /\ Submitted(Processed(a)) \in Scanned
              /\ Submitted(Processed(a)).items = Processed(a).items
<1>1. a \in Answers /\ MapLLMResponse(a) \in Scanned /\ Distinct(MapLLMResponse(a).items)
  BY AnswerType, MapType
<1>2. Totalled(a) \in Scanned /\ Distinct(Totalled(a).items)
  BY <1>1, TotalsType DEF Totalled
<1>3. Lined(a) \in Scanned /\ Distinct(Lined(a).items)
  <2>1. Lined(a) \in Scanned /\ SameItems(Lined(a).items, Totalled(a).items)
    BY <1>2, LinesType, RepairedSame DEF Lined
  <2> QED
    BY <1>2, <2>1, SameDistinct
<1>4. Netted(a) \in Scanned /\ Distinct(Netted(a).items)
  <2>1. Netted(a) \in Scanned /\ SameItems(Netted(a).items, Lined(a).items)
    BY <1>3, NormalizeType DEF Netted
  <2> QED
    BY <1>3, <2>1, SameDistinct
<1>5. Processed(a) \in Scanned /\ Distinct(Processed(a).items)
  BY <1>4, EnrichType DEF Processed
<1>6. ASSUME Processed(a).items # <<>>
      PROVE  Submitted(Processed(a)) \in Scanned /\ Submitted(Processed(a)).items = Processed(a).items
  <2> DEFINE r == Processed(a)
             ps == Posted(r.items)
             sum == ItemsSumSen(ps)
             subtotal == IF r.subtotal <= 0 THEN sum ELSE r.subtotal
  <2>1. r \in Scanned /\ Distinct(r.items) /\ r.items # <<>>
    BY <1>5, <1>6
  <2> HIDE DEF r
  <2>2. r.items \in Seq(Entries) /\ sum \in Int
    <3>1. r.items \in Seq(Entries)
      BY <2>1 DEF Scanned
    <3>2. ps \in Seq(Rows)
      BY <2>1, <3>1, PostedRows
    <3> HIDE DEF ps
    <3> QED
      BY <3>1, <3>2, RowsSumType
  <2>3. subtotal \in Int
    <3> HIDE DEF sum
    <3> QED
      BY <2>1, <2>2 DEF Scanned
  <2>4. Submitted(r) = [r EXCEPT !.subtotal = subtotal]
    BY DEF Submitted
  <2> HIDE DEF subtotal
  <2> QED
    BY <2>1, <2>3, <2>4 DEF r, Scanned
<1> QED
  BY <1>1, <1>2, <1>3, <1>4, <1>5, <1>6

\* Where the receipt in the pipeline is on its way from the answer a.
OnItsWay(a) ==
    /\ stage \in {"map", "totals", "lines", "normalize", "enrich", "validate",
                  "review", "created", "refused"}
    /\ stage = "map" => rec = a
    /\ stage = "totals" => rec = MapLLMResponse(a)
    /\ stage = "lines" => rec = Totalled(a)
    /\ stage = "normalize" => rec = Lined(a)
    /\ stage = "enrich" => rec = Netted(a)
    /\ stage \in {"validate", "review", "refused"} => rec = Processed(a)
    /\ stage = "created" => /\ rec = Submitted(Processed(a))
                            /\ Processed(a).items # <<>> /\ rec.items # <<>>
                            /\ rows = Posted(rec.items)
    /\ stage # "created" => rows = <<>>
    /\ warnings = IF stage \in {"review", "created", "refused"} THEN ValidateReceipt(Processed(a)) ELSE {}

\* The inductive invariant: the receipt is what the calls so far make of an answer
\* that the model may give.
Traced ==
    /\ paper \in Printed /\ slip \in Slips
    /\ \E a \in Reading(slip, paper) : OnItsWay(a)

LEMMA InitTraced == Init => Traced
BY DEF Init, Traced, OnItsWay

LEMMA NextTraced == Traced /\ [Next]_vars => Traced'
<1> SUFFICES ASSUME Traced, [Next]_vars PROVE Traced'
  OBVIOUS
<1>1. PICK a \in Reading(slip, paper) : OnItsWay(a)
  BY DEF Traced
<1>2. paper \in Printed /\ slip \in Slips
  BY DEF Traced
<1> SUFFICES paper' = paper /\ slip' = slip /\ OnItsWay(a)'
  BY <1>1, <1>2 DEF Traced
<1>3. CASE Map
  BY <1>1, <1>3 DEF Map, Call, OnItsWay
<1>4. CASE Totals
  BY <1>1, <1>4 DEF Totals, Call, OnItsWay, Totalled
<1>5. CASE LineItems
  BY <1>1, <1>5 DEF LineItems, Call, OnItsWay, Lined
<1>6. CASE Normalize
  BY <1>1, <1>6 DEF Normalize, Call, OnItsWay, Netted
<1>7. CASE Enrich
  BY <1>1, <1>7 DEF Enrich, Call, OnItsWay, Processed
<1>8. CASE Validate
  BY <1>1, <1>8 DEF Validate, Call, OnItsWay
<1>9. CASE Create
  <2>1. rec = Processed(a) /\ rec.items # <<>> /\ rec' = Submitted(rec)
        /\ stage = "review" /\ stage' = "created"
        /\ warnings' = warnings /\ rows' = Posted(rec.items)
        /\ paper' = paper /\ slip' = slip
    BY <1>1, <1>9 DEF Create, Call, OnItsWay, Submitted
  <2>2. rec'.items = rec.items
    BY <1>2, <2>1, ProcessedType
  <2> QED
    BY <1>1, <2>1, <2>2 DEF OnItsWay
<1>10. CASE Refuse
  BY <1>1, <1>10 DEF Refuse, Call, OnItsWay
<1>11. CASE UNCHANGED vars
  BY <1>1, <1>11 DEF vars, OnItsWay
<1> QED
  BY <1>3, <1>4, <1>5, <1>6, <1>7, <1>8, <1>9, <1>10, <1>11 DEF Next

\* At every stage the receipt is what the calls made so far give of an answer the model may read off
\* a printed receipt, and the warnings are those of that receipt.
THEOREM ReceiptTraced == Spec => []Traced
BY InitTraced, NextTraced, PTL DEF Spec

LEMMA CreatedIs ==
  ASSUME Traced, stage = "created"
  PROVE  /\ rows = Posted(rec.items) /\ rec.items # <<>>
         /\ rec \in Scanned /\ rec.items \in Seq(Entries) /\ Distinct(rec.items)
<1>1. PICK a \in Reading(slip, paper) : OnItsWay(a)
  BY DEF Traced
<1>2. rec = Submitted(Processed(a)) /\ Processed(a).items # <<>> /\ rec.items # <<>>
      /\ rows = Posted(rec.items)
  BY <1>1 DEF OnItsWay
<1>3. rec \in Scanned /\ rec.items = Processed(a).items /\ Distinct(Processed(a).items)
  BY <1>2, ProcessedType DEF Traced
<1> QED
  BY <1>2, <1>3 DEF Scanned

\* Prices and quantities stay whole at every call of the pipeline, whatever was read.
THEOREM ReceiptTyped == Spec => []TypeOK
<1> SUFFICES Traced => TypeOK
  BY ReceiptTraced, PTL
<1> SUFFICES ASSUME Traced PROVE TypeOK
  OBVIOUS
<1>1. PICK a \in Reading(slip, paper) : OnItsWay(a)
  BY DEF Traced
<1>2. /\ a \in Answers /\ MapLLMResponse(a) \in Scanned /\ Totalled(a) \in Scanned /\ Lined(a) \in Scanned
      /\ Netted(a) \in Scanned /\ Processed(a) \in Scanned /\ Distinct(Processed(a).items)
      /\ Processed(a).items # <<>> =>
           /\ Submitted(Processed(a)) \in Scanned
           /\ Submitted(Processed(a)).items = Processed(a).items
  BY ProcessedType DEF Traced
<1>3. stage # "map" => rec \in Scanned
  BY <1>1, <1>2 DEF OnItsWay
<1>4. rec \in Answers \/ rec \in Scanned
  BY <1>1, <1>2, <1>3 DEF OnItsWay
<1>5. {rec.subtotal, rec.sst, rec.service, rec.rounding, rec.total} \subseteq Int
  BY <1>4 DEF Answers, Scanned
<1>6. ASSUME NEW i \in DOMAIN rec.items
      PROVE  /\ {rec.items[i].unit, rec.items[i].line} \subseteq Int
             /\ stage # "map" => rec.items[i].name # NoName /\ rec.items[i].qty \in Nat \ {0}
  <2>1. CASE rec \in Scanned
    <3>1. rec.items \in Seq(Entries)
      BY <2>1 DEF Scanned
    <3>2. /\ rec.items[i].unit \in Int /\ rec.items[i].line \in Int
          /\ rec.items[i].name # NoName /\ rec.items[i].qty \in Nat \ {0}
      BY <3>1, EntriesSeq
    <3> QED
      BY <3>2
  <2>2. CASE rec \in Answers /\ stage = "map"
    <3>1. rec.items \in Seq(Answered)
      BY <2>2 DEF Answers
    <3>2. rec.items[i] \in Answered
      BY <3>1
    <3>3. rec.items[i].unit \in Int /\ rec.items[i].line \in Int
      BY <3>2 DEF Answered
    <3> QED
      BY <2>2, <3>3
  <2> QED
    BY <1>3, <1>4, <2>1, <2>2
<1>7. warnings \subseteq {"no_items", "no_total", "total_mismatch"}
  BY <1>1 DEF OnItsWay, ValidateReceipt
<1>8. \A n \in DOMAIN rows : rows[n].line \in Int
  <2>1. CASE stage = "created"
    <3>1. rows = Posted(rec.items) /\ rec.items # <<>> /\ rec.items \in Seq(Entries) /\ Distinct(rec.items)
      BY <2>1, CreatedIs
    <3>2. rows \in Seq(Rows)
      BY <3>1, PostedRows
    <3>3. \A n \in DOMAIN rows : rows[n] \in Rows
      BY <3>2
    <3> QED
      BY <3>3 DEF Rows
  <2>2. CASE stage # "created"
    BY <1>1, <2>2 DEF OnItsWay
  <2> QED
    BY <2>1, <2>2
<1>9. stage \in {"map", "totals", "lines", "normalize", "enrich", "validate",
                 "review", "created", "refused"}
  BY <1>1 DEF OnItsWay
<1> QED
  BY <1>5, <1>6, <1>7, <1>8, <1>9 DEF TypeOK

\* The rows of the split are one per unit, as many as the server reads of the form,
\* and come to what the item costs, for any quantities and prices and any length of
\* the form.
THEOREM ReceiptUnits == Spec => []UnitsAddUp
<1> SUFFICES Traced => UnitsAddUp
  BY ReceiptTraced, PTL
<1> SUFFICES ASSUME Traced, stage = "created", NEW i \in DOMAIN rec.items
             PROVE  LET it == rec.items[i]
                        before == UnitsThrough(rec.items, i - 1)
                        of == {n \in DOMAIN rows : rows[n].name = it.name}
                    IN  /\ of = ((before + 1)..(before + it.qty)) \intersect (1..FormRows)
                        /\ before + it.qty <= FormRows =>
                             /\ SumFunction([n \in of |-> rows[n].line]) = it.line
                             /\ \A n, m \in of : rows[n].line - rows[m].line < it.qty
  BY DEF UnitsAddUp
<1> QED
  BY CreatedIs, RowsOfItem

\* Friends who share every row cover the bill, however many they are, when no row
\* was lost.
THEOREM ReceiptShares == Spec => []SharesCoverBill
<1> SUFFICES Traced => SharesCoverBill
  BY ReceiptTraced, PTL
<1> SUFFICES ASSUME Traced, stage = "created", ItemsSumSen(rows) = rec.subtotal,
                    \A n \in DOMAIN rows : rows[n].line >= 0, NEW k \in 1..MaxSharers
             PROVE  LET each == Owed(ClaimedSen(DOMAIN rows, [n \in DOMAIN rows |-> rows[n].line],
                                                [n \in DOMAIN rows |-> k]),
                                     rec.subtotal, TaxTotalSen(rec))
                    IN  CoversBill(k * each, rec.subtotal, TaxTotalSen(rec), k * Len(rows), k)
  BY DEF SharesCoverBill
<1> DEFINE tax == TaxTotalSen(rec)
<1>1. rows = Posted(rec.items) /\ rec.items # <<>> /\ rec \in Scanned
      /\ rec.items \in Seq(Entries) /\ Distinct(rec.items)
  BY CreatedIs
<1>2. tax \in Int /\ k \in Nat \ {0}
  BY <1>1, SharersAssumption DEF Scanned, TaxTotalSen
<1>3. rows \in Seq(Rows)
  BY <1>1, PostedRows
<1> HIDE DEF tax
<1> QED
  BY <1>2, <1>3, RowsCovered DEF tax

-----------------------------------------------------------------------------
\* The figures.

\* The figures of r are those of the receipt p, the taxes maybe under one name.
ExactFigures(r, p) ==
    /\ r.subtotal = p.subtotal /\ r.sst + r.service = p.sst + p.service /\ r.sst >= 0 /\ r.service >= 0
    /\ r.rounding = p.rounding /\ r.total = p.total

\* They are, but for the rounding, which may be missing, counted twice or left out
\* of a missing total.
NearFigures(r, p) ==
    /\ r.subtotal = p.subtotal /\ r.rounding \in {0, p.rounding}
    /\ \/ r.sst + r.service = p.sst + p.service
       \/ r.sst + r.service = p.sst + p.service - p.rounding /\ r.rounding = p.rounding /\ r.total = p.total
    /\ r.total \in {0, p.total, p.total + p.rounding}

ExactSlips == {"none", "legacy_tax", "sst_as_service", "summary_as_line", "unit_only", "line_only", "unnamed"}
TotalSlips == {"total_as_sst", "total_as_sst_sst_as_service"}

LEMMA MappedFigures ==
  ASSUME NEW p \in Printed, NEW s \in Slips, NEW a \in Reading(s, p)
  PROVE  LET r == MapLLMResponse(a)
         IN  /\ s \in ExactSlips => ExactFigures(r, p)
             /\ s = "no_subtotal" => r.subtotal = 0 /\ r.sst = p.sst /\ r.service = p.service
                                     /\ r.rounding = p.rounding /\ r.total = p.total
             /\ s \in TotalSlips =>
                  /\ r.subtotal = p.subtotal /\ r.sst = p.total /\ r.rounding \in {0, p.rounding}
                  /\ r.total \in {0, p.total, p.total + p.rounding}
                  /\ r.service = p.service \/ (p.service = 0 /\ r.service = p.sst)
             /\ s \notin ExactSlips \cup TotalSlips \cup {"no_subtotal"} =>
                  /\ r.subtotal = p.subtotal /\ r.sst = p.sst /\ r.service = p.service
                  /\ r.rounding \in {0, p.rounding} /\ r.total \in {0, p.total, p.total + p.rounding}
<1> DEFINE r == MapLLMResponse(a)
<1>1. /\ r.subtotal = a.subtotal /\ r.service = a.service /\ r.rounding = a.rounding /\ r.total = a.total
      /\ r.sst = IF a.sst = 0 /\ a.tax > 0 THEN a.tax ELSE a.sst
  BY DEF MapLLMResponse
<1>2. /\ p.subtotal \in Nat \ {0} /\ p.sst \in Nat /\ p.service \in Nat /\ p.rounding \in -2..2
      /\ p.total = p.subtotal + p.sst + p.service
  BY PaperFigures
<1> HIDE DEF r
<1>3. CASE s \in FigureSlips
  <2>1. \/ s \in {"none", "legacy_tax"} /\ a.subtotal = p.subtotal /\ a.service = p.service
           /\ a.rounding = p.rounding /\ a.total = p.total
           /\ IF s = "none" THEN a.sst = p.sst /\ a.tax = 0 ELSE a.sst = 0 /\ a.tax = p.sst
        \/ s = "sst_as_service" /\ p.service = 0
           /\ a.subtotal = p.subtotal /\ a.sst = 0 /\ a.service = p.sst
           /\ a.rounding = p.rounding /\ a.total = p.total /\ a.tax = 0
        \/ s \in {"total_as_sst", "total_as_sst_sst_as_service"}
           /\ a.subtotal = p.subtotal /\ a.sst = p.total /\ a.rounding \in {0, p.rounding}
           /\ a.total \in {0, p.total, p.total + p.rounding} /\ a.tax = 0
           /\ IF s = "total_as_sst" THEN a.service = p.service ELSE p.service = 0 /\ a.service = p.sst
        \/ s \in {"payment_as_total", "no_rounding", "no_total", "no_total_no_rounding"}
           /\ a.subtotal = p.subtotal /\ a.sst = p.sst /\ a.service = p.service /\ a.tax = 0
           /\ a.rounding \in {0, p.rounding}
           /\ a.total = CASE s = "payment_as_total" -> p.total + p.rounding
                          [] s = "no_rounding" -> p.total
                          [] s \in {"no_total", "no_total_no_rounding"} -> 0
        \/ s = "no_subtotal" /\ a.subtotal = 0 /\ a.sst = p.sst /\ a.service = p.service
           /\ a.rounding = p.rounding /\ a.total = p.total /\ a.tax = 0
    BY <1>3, FigureSlip
  <2>2. CASE s \in {"none", "legacy_tax", "sst_as_service"}
    <3>1. ExactFigures(r, p)
      BY <1>1, <1>2, <2>1, <2>2 DEF ExactFigures
    <3> QED
      BY <2>2, <3>1 DEF ExactSlips, TotalSlips, r
  <2>3. CASE s \in TotalSlips
    <3>1. /\ r.subtotal = p.subtotal /\ r.sst = p.total /\ r.rounding \in {0, p.rounding}
          /\ r.total \in {0, p.total, p.total + p.rounding}
          /\ r.service = p.service \/ (p.service = 0 /\ r.service = p.sst)
      <4>1. s \in {"total_as_sst", "total_as_sst_sst_as_service"}
        BY <2>3 DEF TotalSlips
      <4>2. /\ a.subtotal = p.subtotal /\ a.sst = p.total /\ a.rounding \in {0, p.rounding}
            /\ a.total \in {0, p.total, p.total + p.rounding} /\ a.tax = 0
            /\ IF s = "total_as_sst" THEN a.service = p.service ELSE p.service = 0 /\ a.service = p.sst
        BY <2>1, <4>1
      <4>3. r.sst = a.sst
        BY <1>1, <4>2
      <4>4. r.subtotal = p.subtotal /\ r.sst = p.total /\ r.rounding \in {0, p.rounding}
        BY <1>1, <4>2, <4>3
      <4>5. r.total \in {0, p.total, p.total + p.rounding}
        BY <1>1, <4>2
      <4>6. r.service = p.service \/ (p.service = 0 /\ r.service = p.sst)
        BY <1>1, <4>2
      <4> QED
        BY <4>4, <4>5, <4>6
    <3> QED
      BY <2>3, <3>1 DEF ExactSlips, TotalSlips, r
  <2>4. CASE s \in {"payment_as_total", "no_rounding", "no_total", "no_total_no_rounding"}
    <3>1. /\ r.subtotal = p.subtotal /\ r.sst = p.sst /\ r.service = p.service
          /\ r.rounding \in {0, p.rounding} /\ r.total \in {0, p.total, p.total + p.rounding}
      BY <1>1, <2>1, <2>4
    <3> QED
      BY <2>4, <3>1 DEF ExactSlips, TotalSlips, r
  <2>5. CASE s = "no_subtotal"
    <3>1. r.subtotal = 0 /\ r.sst = p.sst /\ r.service = p.service
          /\ r.rounding = p.rounding /\ r.total = p.total
      BY <1>1, <2>1, <2>5
    <3> QED
      BY <2>5, <3>1 DEF ExactSlips, TotalSlips, r
  <2> QED
    BY <1>3, <2>2, <2>3, <2>4, <2>5 DEF FigureSlips, Slips, TotalSlips
<1>4. CASE s \notin FigureSlips
  <2>1. s \in {"summary_as_line", "unit_only", "line_only", "unnamed"}
    BY <1>4 DEF FigureSlips, Slips
  <2>2. \E new : a = [Faithful(p) EXCEPT !.items = new]
    BY <2>1, ItemSlip
  <2>3. a.subtotal = p.subtotal /\ a.sst = p.sst /\ a.service = p.service /\ a.rounding = p.rounding
        /\ a.total = p.total /\ a.tax = 0
    BY <2>2 DEF Faithful
  <2>4. ExactFigures(r, p)
    BY <1>1, <1>2, <2>3 DEF ExactFigures
  <2> QED
    BY <2>1, <2>4 DEF ExactSlips, TotalSlips, r
<1> QED
  BY <1>3, <1>4

\* Taxes of at most a fifth are not taken for a misplaced total.
LEMMA NothingMisassigned ==
  ASSUME NEW p \in Printed, NEW r \in Scanned, r.subtotal = p.subtotal,
         r.sst + r.service = p.sst + p.service, r.sst >= 0, r.service >= 0, r.rounding \in {0, p.rounding}
  PROVE  LET q == RepairMisassignedTotals(r)
         IN  /\ q.subtotal = r.subtotal /\ q.sst + q.service = r.sst + r.service
             /\ q.sst >= 0 /\ q.service >= 0
             /\ q.rounding = r.rounding /\ q.total = r.total
<1> DEFINE q == RelabelServiceTax(r)
<1>1. /\ q.subtotal = r.subtotal /\ q.sst + q.service = r.sst + r.service /\ q.sst >= 0 /\ q.service >= 0
      /\ q.rounding = r.rounding /\ q.total = r.total /\ q \in Scanned
  BY DEF RelabelServiceTax, WithFigures, Scanned
<1>2. /\ p.subtotal \in Nat \ {0} /\ p.sst \in Nat /\ p.service \in Nat /\ p.rounding \in -2..2
      /\ p.sst + p.service > 0 => p.sst + p.service + 2 <= (p.subtotal * 20) \div 100
  BY PaperIs
<1> HIDE DEF q
<1>3. q.sst \in Nat /\ q.service \in Nat /\ q.subtotal \in Nat \ {0} /\ q.rounding \in -2..2
      /\ (q.sst + q.service > 0 => q.sst + q.service + 2 <= (q.subtotal * 20) \div 100)
  BY <1>1, <1>2 DEF Scanned
<1>4. ~TaxInService(q)
  BY <1>3 DEF TaxInService
<1>5. ~TotalInSst(q)
  BY <1>3 DEF TotalInSst, ImpliedTax
<1>6. RepairMisassignedTotals(r) = q
  BY <1>1, <1>3, <1>4, <1>5 DEF RepairMisassignedTotals, q, Scanned
<1> QED
  BY <1>1, <1>6

LEMMA TotalRestored ==
  ASSUME NEW p \in Printed, p.sst + p.service > 0, NEW r \in Scanned,
         r.subtotal = p.subtotal, r.sst = p.total, r.rounding \in {0, p.rounding},
         r.total \in {0, p.total, p.total + p.rounding},
         r.service = p.service \/ (p.service = 0 /\ r.service = p.sst)
  PROVE  NearFigures(RepairMisassignedTotals(r), p) /\ RepairMisassignedTotals(r).total = p.total
<1> DEFINE x == p.sst
           v == p.service
           S == p.subtotal
           d == p.rounding
           q == RepairMisassignedTotals(r)
<1>1. /\ S \in Nat \ {0} /\ x \in Nat /\ v \in Nat /\ d \in -2..2 /\ x \notin 1..4 /\ v \notin 1..4
      /\ p.total = S + x + v /\ x + v > 0 /\ x + v + 2 <= (S * 20) \div 100
  BY PaperIs
<1>2. r.subtotal = S /\ r.sst = S + x + v /\ r.rounding \in {0, d} /\ r.total \in {0, S + x + v, S + x + v + d}
      /\ (r.service = v \/ (v = 0 /\ r.service = x))
  BY <1>1
<1> HIDE DEF x, v, S, d
<1>3. RelabelServiceTax(r) = r
  BY <1>1, <1>2 DEF RelabelServiceTax
<1> DEFINE left == r.total - r.sst
           rounding == IF r.rounding = 0 /\ left \in 1..100 THEN left ELSE r.rounding
<1>4. rounding \in {0, d} /\ (r.rounding = d => rounding = d)
  BY <1>1, <1>2
<1>5. ASSUME NEW sst, NEW service
      PROVE  /\ TotalFromSst(r, sst, service).subtotal = S /\ TotalFromSst(r, sst, service).sst = sst
             /\ TotalFromSst(r, sst, service).service = service
             /\ TotalFromSst(r, sst, service).rounding = rounding
             /\ TotalFromSst(r, sst, service).total = r.sst
  BY <1>2 DEF TotalFromSst, WithFigures
<1>6. CASE TaxInService(r)
  <2>1. RepairMisassignedTotals(r) = TotalFromSst(r, r.service, 0)
    BY <1>1, <1>2, <1>3, <1>6 DEF RepairMisassignedTotals
  <2>2. r.service = x + v
    BY <1>1, <1>2, <1>6 DEF TaxInService, SenClose
  <2>3. q.subtotal = S /\ q.sst = x + v /\ q.service = 0 /\ q.rounding = rounding /\ q.total = S + x + v
    BY <1>2, <1>5, <2>1, <2>2
  <2> HIDE DEF q, rounding
  <2>4. q.sst + q.service = x + v
    BY <1>1, <2>3
  <2> QED
    BY <1>1, <1>4, <2>3, <2>4 DEF NearFigures, q, x, v, S, d
<1>7. CASE ~TaxInService(r)
  <2>1. r.service = v /\ x # 0
    <3>1. r.service # x + v
      <4>1. SUFFICES ASSUME r.service = x + v PROVE FALSE
        OBVIOUS
      <4>2. r.service > 0 /\ r.service < r.subtotal \div 2
        BY <1>1, <1>2, <4>1
      <4>3. r.sst > r.subtotal /\ r.subtotal + r.service = r.sst
        BY <1>1, <1>2, <4>1
      <4> QED
        BY <1>1, <1>2, <1>7, <4>2, <4>3 DEF TaxInService, SenClose
    <3> QED
      BY <1>1, <1>2, <3>1
  <2>2. ImpliedTax(r) = x - r.rounding
    BY <1>1, <1>2, <2>1 DEF ImpliedTax
  <2>3. TotalInSst(r)
    <3>1. r.sst >= (r.subtotal * 95) \div 100
      BY <1>1, <1>2
    <3>2. ImpliedTax(r) \in 1..((r.subtotal * 20) \div 100)
      <4>1. x - r.rounding \in Int /\ 1 <= x - r.rounding /\ x - r.rounding <= x + v + 2
        BY <1>1, <1>2, <2>1
      <4>2. x - r.rounding <= (S * 20) \div 100
        BY <1>1, <4>1
      <4>3. r.subtotal * 20 = S * 20
        BY <1>2
      <4> QED
        BY <2>2, <4>1, <4>2, <4>3
    <3>3. r.total = 0 \/ SenClose(r.total, r.sst)
      BY <1>1, <1>2 DEF SenClose
    <3> QED
      BY <3>1, <3>2, <3>3 DEF TotalInSst
  <2>4. RepairMisassignedTotals(r) = TotalFromSst(r, ImpliedTax(r), r.service)
    BY <1>1, <1>2, <1>3, <1>7, <2>3 DEF RepairMisassignedTotals
  <2>5. q.subtotal = S /\ q.sst = x - r.rounding /\ q.service = v /\ q.rounding = rounding
        /\ q.total = S + x + v
    <3> DEFINE t == TotalFromSst(r, ImpliedTax(r), r.service)
    <3>1. /\ t.subtotal = S /\ t.sst = ImpliedTax(r) /\ t.service = r.service /\ t.rounding = rounding
          /\ t.total = r.sst
      BY <1>5
    <3>2. q = t
      BY <2>4
    <3> QED
      BY <1>2, <2>1, <2>2, <3>1, <3>2
  <2> HIDE DEF q, rounding
  <2>6. q.sst + q.service = x + v - r.rounding
    BY <1>1, <1>2, <2>5
  <2>7. \/ q.sst + q.service = x + v
        \/ q.sst + q.service = x + v - d /\ q.rounding = d
    BY <1>1, <1>2, <1>4, <2>5, <2>6
  <2> QED
    BY <1>1, <1>4, <2>5, <2>7 DEF NearFigures, q, x, v, S, d
<1> QED
  BY <1>6, <1>7

\* What repairMisassignedTotals leaves.
LEMMA TotalledFigures ==
  ASSUME NEW p \in Printed, NEW s \in Slips, NEW a \in Reading(s, p)
  PROVE  LET q == Totalled(a)
         IN  /\ s \in ExactSlips => ExactFigures(q, p)
             /\ s = "no_subtotal" => q.subtotal = 0 /\ q.sst = p.sst /\ q.service = p.service
                                     /\ q.rounding = p.rounding /\ q.total = p.total
             /\ s # "no_subtotal" =>
                  /\ q.subtotal = p.subtotal /\ q.total \in {0, p.total, p.total + p.rounding}
                  /\ p.sst + p.service > 0 => NearFigures(q, p)
<1> DEFINE r == MapLLMResponse(a)
           q == Totalled(a)
<1>1. r \in Scanned
  BY ProcessedType
<1>2. /\ s \in ExactSlips => ExactFigures(r, p)
      /\ s = "no_subtotal" => r.subtotal = 0 /\ r.sst = p.sst /\ r.service = p.service
                              /\ r.rounding = p.rounding /\ r.total = p.total
      /\ s \in TotalSlips =>
           /\ r.subtotal = p.subtotal /\ r.sst = p.total /\ r.rounding \in {0, p.rounding}
           /\ r.total \in {0, p.total, p.total + p.rounding}
           /\ r.service = p.service \/ (p.service = 0 /\ r.service = p.sst)
      /\ s \notin ExactSlips \cup TotalSlips \cup {"no_subtotal"} =>
           /\ r.subtotal = p.subtotal /\ r.sst = p.sst /\ r.service = p.service
           /\ r.rounding \in {0, p.rounding} /\ r.total \in {0, p.total, p.total + p.rounding}
  BY MappedFigures
<1>3. q = RepairMisassignedTotals(r)
  BY DEF Totalled
<1>4. /\ p.subtotal \in Nat \ {0} /\ p.sst \in Nat /\ p.service \in Nat /\ p.rounding \in -2..2
      /\ p.total = p.subtotal + p.sst + p.service
  BY PaperFigures
<1> HIDE DEF r, q
<1>5. CASE s \in ExactSlips
  <2>1. /\ r.subtotal = p.subtotal /\ r.sst + r.service = p.sst + p.service /\ r.sst >= 0 /\ r.service >= 0
        /\ r.rounding = p.rounding /\ r.total = p.total
    BY <1>2, <1>5 DEF ExactFigures
  <2>2. /\ q.subtotal = r.subtotal /\ q.sst + q.service = r.sst + r.service
        /\ q.sst >= 0 /\ q.service >= 0
        /\ q.rounding = r.rounding /\ q.total = r.total
    BY <1>1, <1>3, <2>1, NothingMisassigned
  <2>3. ExactFigures(q, p) /\ NearFigures(q, p)
    BY <2>1, <2>2 DEF ExactFigures, NearFigures
  <2> QED
    BY <1>5, <2>1, <2>2, <2>3 DEF ExactSlips, q
<1>6. CASE s = "no_subtotal"
  <2>1. q = r
    BY <1>2, <1>3, <1>6 DEF RepairMisassignedTotals
  <2> QED
    BY <1>2, <1>6, <2>1 DEF ExactSlips, q
<1>7. CASE s \in TotalSlips
  <2>1. CASE p.sst + p.service > 0
    <3>1. NearFigures(q, p)
      BY <1>1, <1>2, <1>3, <1>7, <2>1, TotalRestored
    <3> QED
      BY <1>7, <3>1 DEF NearFigures, ExactSlips, TotalSlips, q
  <2>2. CASE ~(p.sst + p.service > 0)
    <3>1. p.sst = 0 /\ p.service = 0 /\ p.total = p.subtotal
      BY <1>4, <2>2
    <3>2. RelabelServiceTax(r) = r
      BY <1>2, <1>4, <1>7, <3>1 DEF RelabelServiceTax
    <3>3. q \in {r, TotalFromSst(r, r.service, 0), TotalFromSst(r, ImpliedTax(r), r.service)}
      BY <1>2, <1>3, <1>4, <1>7, <3>2 DEF RepairMisassignedTotals
    <3>4. q.subtotal = p.subtotal /\ q.total \in {0, p.total, p.total + p.rounding}
      BY <1>2, <1>7, <3>3 DEF TotalFromSst, WithFigures
    <3> QED
      BY <1>7, <2>2, <3>4 DEF ExactSlips, TotalSlips, q
  <2> QED
    BY <2>1, <2>2
<1>8. CASE s \notin ExactSlips \cup TotalSlips \cup {"no_subtotal"}
  <2>1. /\ r.subtotal = p.subtotal /\ r.sst = p.sst /\ r.service = p.service
        /\ r.rounding \in {0, p.rounding} /\ r.total \in {0, p.total, p.total + p.rounding}
    BY <1>2, <1>8
  <2>2. /\ q.subtotal = r.subtotal /\ q.sst + q.service = r.sst + r.service
        /\ q.sst >= 0 /\ q.service >= 0
        /\ q.rounding = r.rounding /\ q.total = r.total
    BY <1>1, <1>3, <1>4, <2>1, NothingMisassigned
  <2>3. NearFigures(q, p)
    BY <2>1, <2>2 DEF NearFigures
  <2> QED
    BY <1>8, <2>1, <2>2, <2>3 DEF q
<1> QED
  BY <1>5, <1>6, <1>7, <1>8

\* What normalizeParsedReceipt does.
Gross(r) ==
    LET total == IF r.total = 0 THEN r.subtotal + TaxTotalSen(r) ELSE r.total
    IN  /\ r.subtotal > 0 /\ r.sst + r.service > 0 /\ ItemsSumSen(r.items) > r.subtotal
        /\ SenClose(ItemsSumSen(r.items), total) /\ SenClose(r.subtotal + TaxTotalSen(r), total)

LEMMA NormalizedIs ==
  ASSUME NEW r \in Scanned
  PROVE  LET n == NormalizeParsedReceipt(r)
         IN  /\ n.subtotal = r.subtotal /\ n.sst = r.sst /\ n.service = r.service /\ n.rounding = r.rounding
             /\ n.total \in {r.total, r.subtotal + TaxTotalSen(r)} /\ (r.total # 0 => n.total = r.total)
             /\ r.subtotal <= 0 => n = r
             /\ n.items = IF Gross(r) THEN ScaleItemsToNet(r.items, r.subtotal, ItemsSumSen(r.items)) ELSE r.items
<1> DEFINE sum == ItemsSumSen(r.items)
           expected == r.subtotal + (r.sst + r.service) + r.rounding
           total == IF r.total = 0 THEN expected ELSE r.total
           settled == [r EXCEPT !.total = total]
           net == ScaleItemsToNet(r.items, r.subtotal, sum)
           n == NormalizeParsedReceipt(r)
<1>1. sum \in Int /\ total \in Int /\ r.subtotal \in Int /\ expected = r.subtotal + TaxTotalSen(r)
  <2>1. r.items \in Seq(Entries) /\ sum \in Int
    BY EntriesSeq DEF Scanned
  <2> HIDE DEF sum
  <2> QED
    BY <2>1 DEF Scanned, TaxTotalSen
<1>2. /\ settled.subtotal = r.subtotal /\ settled.sst = r.sst /\ settled.service = r.service
      /\ settled.rounding = r.rounding /\ settled.total = total /\ settled.items = r.items
      /\ settled \in [subtotal : Int, sst : Int, service : Int, rounding : Int, total : Int, items : Seq(Entries)]
  <2> HIDE DEF total
  <2> QED
    BY <1>1 DEF Scanned
<1>3. CASE r.subtotal <= 0 \/ r.sst + r.service <= 0 \/ sum <= 0
  <2>1. n = r
    BY <1>1, <1>3 DEF NormalizeParsedReceipt, Scanned
  <2> HIDE DEF sum
  <2>2. ~Gross(r)
    BY <1>1, <1>3 DEF Gross, sum, Scanned
  <2> QED
    BY <2>1, <2>2
<1>4. CASE ~(r.subtotal <= 0 \/ r.sst + r.service <= 0 \/ sum <= 0)
  <2> DEFINE gross == sum > r.subtotal /\ SenClose(sum, total) /\ SenClose(expected, total)
             scaled == [settled EXCEPT !.items = net]
  <2>1. r.subtotal > 0 /\ r.sst + r.service > 0 /\ sum > 0
    <3> HIDE DEF sum
    <3> QED
      BY <1>1, <1>4 DEF Scanned
  <2>2. n = IF gross THEN scaled ELSE settled
    BY <1>2, <1>4, <2>1 DEF NormalizeParsedReceipt
  <2>3. Gross(r) <=> gross
    <3> HIDE DEF sum, total, expected
    <3>1. total = IF r.total = 0 THEN r.subtotal + TaxTotalSen(r) ELSE r.total
      BY <1>1 DEF total
    <3> QED
      BY <1>1, <2>1, <3>1 DEF Gross, sum
  <2> HIDE DEF settled, net
  <2>4. /\ scaled.subtotal = r.subtotal /\ scaled.sst = r.sst /\ scaled.service = r.service
        /\ scaled.rounding = r.rounding /\ scaled.total = total /\ scaled.items = net
    BY <1>2
  <2> HIDE DEF scaled, gross
  <2>5. /\ n.subtotal = r.subtotal /\ n.sst = r.sst /\ n.service = r.service
        /\ n.rounding = r.rounding /\ n.total = total /\ n.items = IF gross THEN net ELSE r.items
    BY <1>2, <2>2, <2>4
  <2> HIDE DEF n
  <2>6. total \in {r.total, r.subtotal + TaxTotalSen(r)} /\ (r.total # 0 => total = r.total)
    BY <1>1
  <2>7. ~(r.subtotal <= 0)
    BY <1>4
  <2> QED
    BY <2>3, <2>5, <2>6, <2>7 DEF n, net
<1> QED
  BY <1>3, <1>4

\* What enrichParsedReceipt does.
LEMMA EnrichedIs ==
  ASSUME NEW r \in Scanned
  PROVE  LET e == EnrichParsedReceipt(r)
             left == r.total - e.subtotal - r.sst - r.service
         IN  /\ e.sst = r.sst /\ e.service = r.service /\ e.items = r.items
             /\ e.subtotal = IF r.subtotal <= 0 /\ r.items # <<>> THEN ItemsSumSen(r.items) ELSE r.subtotal
             /\ e.rounding = IF r.rounding = 0 /\ r.total > 0 /\ e.subtotal > 0 /\ left \in 1..99
                             THEN left ELSE r.rounding
             /\ e.total = IF r.total <= 0 /\ e.subtotal > 0 THEN e.subtotal + TaxTotalSen(r) ELSE r.total
<1> DEFINE sum == ItemsSumSen(r.items)
           subtotal == IF r.subtotal <= 0 /\ r.items # <<>> THEN sum ELSE r.subtotal
           left == r.total - subtotal - r.sst - r.service
           rounding == IF /\ r.rounding = 0 /\ r.total > 0 /\ subtotal > 0 /\ left \in 1..99
                       THEN left ELSE r.rounding
           s == [r EXCEPT !.subtotal = subtotal, !.rounding = rounding]
           e == EnrichParsedReceipt(r)
<1>1. subtotal \in Int /\ left \in Int /\ rounding \in Int
  <2>1. r.items \in Seq(Entries) /\ sum \in Int
    BY EntriesSeq DEF Scanned
  <2> HIDE DEF sum
  <2>2. subtotal \in Int
    BY <2>1 DEF Scanned
  <2> HIDE DEF subtotal
  <2>3. left \in Int
    BY <2>2 DEF Scanned
  <2> HIDE DEF left
  <2> QED
    BY <2>1, <2>2, <2>3 DEF Scanned
<1> HIDE DEF sum, subtotal, rounding
<1>2. /\ s.subtotal = subtotal /\ s.sst = r.sst /\ s.service = r.service /\ s.rounding = rounding
      /\ s.total = r.total /\ s.items = r.items
      /\ s \in [subtotal : Int, sst : Int, service : Int, rounding : Int, total : Int, items : Seq(Entries)]
  BY <1>1 DEF Scanned
<1> DEFINE total == subtotal + TaxTotalSen(s)
           t == [s EXCEPT !.total = total]
<1>3. e = IF s.total <= 0 /\ subtotal > 0 THEN t ELSE s
  BY <1>2 DEF EnrichParsedReceipt, sum, subtotal, rounding
<1> HIDE DEF s
<1>4. /\ t.subtotal = subtotal /\ t.sst = r.sst /\ t.service = r.service /\ t.rounding = rounding
      /\ t.total = total /\ t.items = r.items
  BY <1>2
<1>5. r.total <= 0 => total = subtotal + TaxTotalSen(r)
  <2>1. r.total <= 0 => rounding = r.rounding
    BY DEF rounding, Scanned
  <2>2. TaxTotalSen(s) = r.sst + r.service + rounding
    BY <1>2 DEF TaxTotalSen
  <2> QED
    BY <2>1, <2>2 DEF TaxTotalSen
<1> HIDE DEF t, total, e
<1>6. /\ e.subtotal = subtotal /\ e.sst = r.sst /\ e.service = r.service /\ e.rounding = rounding
      /\ e.items = r.items
  BY <1>2, <1>3, <1>4
<1>7. e.total = IF r.total <= 0 /\ subtotal > 0 THEN subtotal + TaxTotalSen(r) ELSE r.total
  BY <1>2, <1>3, <1>4, <1>5
<1> QED
  BY <1>6, <1>7 DEF e, subtotal, sum, rounding

\* The figures on the review page, from those that repairMisassignedTotals leaves.
LEMMA LastFigures ==
  ASSUME NEW p \in Printed, NEW s \in Slips, NEW a \in Reading(s, p), Totalled(a).subtotal > 0
  PROVE  LET q == Totalled(a)
             e == Processed(a)
             left == q.total - q.subtotal - q.sst - q.service
         IN  /\ e.subtotal = q.subtotal /\ e.sst = q.sst /\ e.service = q.service
             /\ q.total = 0 => e.rounding = q.rounding /\ e.total = q.subtotal + TaxTotalSen(q)
             /\ q.total > 0 => /\ e.total = q.total
                               /\ e.rounding = IF q.rounding = 0 /\ left \in 1..99 THEN left ELSE q.rounding
<1> DEFINE q == Totalled(a)
           l == Lined(a)
           n == Netted(a)
           e == Processed(a)
<1>1. q \in Scanned /\ l \in Scanned /\ n \in Scanned
  BY ProcessedType
<1>2. /\ l.subtotal = q.subtotal /\ l.sst = q.sst /\ l.service = q.service
      /\ l.rounding = q.rounding /\ l.total = q.total
  BY <1>1, LinesType DEF Lined
<1>3. /\ n.subtotal = l.subtotal /\ n.sst = l.sst /\ n.service = l.service /\ n.rounding = l.rounding
      /\ n.total \in {l.total, l.subtotal + TaxTotalSen(l)} /\ (l.total # 0 => n.total = l.total)
  BY <1>1, NormalizedIs DEF Netted
<1>4. /\ e.sst = n.sst /\ e.service = n.service
      /\ e.subtotal = IF n.subtotal <= 0 /\ n.items # <<>> THEN ItemsSumSen(n.items) ELSE n.subtotal
      /\ e.rounding = IF n.rounding = 0 /\ n.total > 0 /\ e.subtotal > 0
                         /\ n.total - e.subtotal - n.sst - n.service \in 1..99
                      THEN n.total - e.subtotal - n.sst - n.service ELSE n.rounding
      /\ e.total = IF n.total <= 0 /\ e.subtotal > 0 THEN e.subtotal + TaxTotalSen(n) ELSE n.total
  BY <1>1, EnrichedIs DEF Processed
<1>5. q.subtotal \in Int /\ q.sst \in Int /\ q.service \in Int /\ q.rounding \in Int /\ q.total \in Int
      /\ q.subtotal > 0
  BY <1>1 DEF Scanned
<1> HIDE DEF q, l, n, e
<1>6. e.subtotal = q.subtotal /\ e.sst = q.sst /\ e.service = q.service
  BY <1>2, <1>3, <1>4, <1>5
<1>7. TaxTotalSen(l) = TaxTotalSen(q) /\ TaxTotalSen(n) = TaxTotalSen(q)
      /\ TaxTotalSen(q) = q.sst + q.service + q.rounding /\ TaxTotalSen(q) \in Int
  BY <1>2, <1>3, <1>5 DEF TaxTotalSen
<1>8. n.subtotal = q.subtotal /\ n.sst = q.sst /\ n.service = q.service /\ n.rounding = q.rounding
      /\ n.total \in {q.total, q.subtotal + TaxTotalSen(q)} /\ (q.total # 0 => n.total = q.total)
  BY <1>2, <1>3, <1>7
<1>9. ASSUME q.total = 0 PROVE e.rounding = q.rounding /\ e.total = q.subtotal + TaxTotalSen(q)
  <2>1. n.total > 0 => n.total - e.subtotal - n.sst - n.service = q.rounding
    BY <1>5, <1>6, <1>7, <1>8, <1>9
  <2>2. e.rounding = q.rounding
    BY <1>4, <1>5, <1>8, <2>1
  <2>3. e.total = q.subtotal + TaxTotalSen(q)
    <3>1. e.subtotal + TaxTotalSen(n) = q.subtotal + TaxTotalSen(q) /\ e.subtotal > 0
      BY <1>5, <1>6, <1>7
    <3>2. e.total = IF n.total <= 0 THEN q.subtotal + TaxTotalSen(q) ELSE n.total
      BY <1>4, <3>1
    <3>3. n.total \in {0, q.subtotal + TaxTotalSen(q)}
      BY <1>8, <1>9
    <3> QED
      BY <1>5, <1>7, <3>2, <3>3
  <2> QED
    BY <2>2, <2>3
<1> DEFINE left == q.total - q.subtotal - q.sst - q.service
<1>10. ASSUME q.total > 0
       PROVE  /\ e.total = q.total
              /\ e.rounding = IF q.rounding = 0 /\ left \in 1..99 THEN left ELSE q.rounding
  <2>1. n.total = q.total
    BY <1>5, <1>8, <1>10
  <2>2. n.total - e.subtotal - n.sst - n.service = left
    BY <1>5, <1>6, <1>8, <2>1
  <2>3. e.total = q.total
    BY <1>4, <1>5, <1>10, <2>1
  <2> HIDE DEF left
  <2>4. e.rounding = IF q.rounding = 0 /\ left \in 1..99 THEN left ELSE q.rounding
    BY <1>4, <1>5, <1>6, <1>8, <1>10, <2>1, <2>2
  <2> QED
    BY <2>3, <2>4
<1> QED
  BY <1>6, <1>9, <1>10 DEF q, e

\* Figures read exactly stay so.
LEMMA ExactStay ==
  ASSUME NEW p \in Printed, NEW s \in ExactSlips, NEW a \in Reading(s, p)
  PROVE  ExactFigures(Processed(a), p)
<1> DEFINE q == Totalled(a)
           e == Processed(a)
           left == q.total - q.subtotal - q.sst - q.service
<1>1. s \in Slips
  BY DEF ExactSlips, Slips
<1>2. ExactFigures(q, p)
  BY <1>1, TotalledFigures
<1>3. /\ p.subtotal \in Nat \ {0} /\ p.sst \in Nat /\ p.service \in Nat /\ p.rounding \in -2..2
      /\ p.total = p.subtotal + p.sst + p.service
  BY PaperFigures
<1>4. q.subtotal > 0
  BY <1>2, <1>3 DEF ExactFigures
<1>5. /\ e.subtotal = q.subtotal /\ e.sst = q.sst /\ e.service = q.service
      /\ q.total > 0 => /\ e.total = q.total
                        /\ e.rounding = IF q.rounding = 0 /\ left \in 1..99 THEN left ELSE q.rounding
  BY <1>1, <1>4, LastFigures
<1>6. q \in Scanned
  BY <1>1, ProcessedType
<1> HIDE DEF q, e
<1>7. left = 0 /\ q.total > 0
  <2>1. /\ q.total = p.total /\ q.subtotal = p.subtotal /\ q.sst + q.service = p.sst + p.service
    BY <1>2 DEF ExactFigures
  <2>2. q.sst \in Int /\ q.service \in Int
    BY <1>6 DEF Scanned
  <2>3. p.subtotal > 0 /\ p.subtotal \in Int /\ p.sst + p.service \in Nat
        /\ p.total = p.subtotal + (p.sst + p.service)
    BY PaperFigures
  <2> QED
    BY <2>1, <2>2, <2>3
<1> HIDE DEF left
<1>8. e.rounding = q.rounding /\ e.total = q.total
  BY <1>5, <1>7
<1> QED
  BY <1>2, <1>5, <1>8 DEF ExactFigures, e

\* Figures near the printed ones stay near: the total is the printed one or the
\* payment, the taxes with rounding or without.
LEMMA NearStay ==
  ASSUME NEW p \in Printed, NEW s \in Slips, NEW a \in Reading(s, p),
         p.sst + p.service > 0, NearFigures(Totalled(a), p)
  PROVE  LET e == Processed(a)
         IN  /\ e.subtotal = p.subtotal /\ e.total \in {p.total, p.total + p.rounding}
             /\ TaxTotalSen(e) \in {p.sst + p.service, p.sst + p.service + p.rounding}
<1> DEFINE q == Totalled(a)
           e == Processed(a)
           left == q.total - q.subtotal - q.sst - q.service
           x == p.sst + p.service
           d == p.rounding
<1>1. p.subtotal \in Nat \ {0} /\ x \in Nat /\ x >= 5 /\ d \in -2..2 /\ p.total = p.subtotal + x
  <2>1. /\ p.subtotal \in Nat \ {0} /\ x \in Nat /\ (x > 0 => x >= 5) /\ d \in -2..2
        /\ p.total = p.subtotal + x
    BY PaperFigures
  <2>2. x > 0
    OBVIOUS
  <2> HIDE DEF x, d
  <2> QED
    BY <2>1, <2>2
<1>2. /\ q.subtotal = p.subtotal /\ q.rounding \in {0, d}
      /\ \/ q.sst + q.service = x
         \/ q.sst + q.service = x - d /\ q.rounding = d /\ q.total = p.total
      /\ q.total \in {0, p.total, p.total + d}
  <2>1. NearFigures(q, p)
    OBVIOUS
  <2> HIDE DEF q
  <2>2. q.subtotal = p.subtotal /\ q.rounding \in {0, d} /\ q.total \in {0, p.total, p.total + d}
    BY <2>1 DEF NearFigures
  <2>3. \/ q.sst + q.service = x
        \/ q.sst + q.service = x - d /\ q.rounding = d /\ q.total = p.total
    <3>1. p.sst \in Nat /\ p.service \in Nat /\ d \in Int
      BY PaperFigures
    <3>2. p.sst + p.service - p.rounding = x - d
      BY <3>1
    <3> QED
      BY <2>1, <3>2 DEF NearFigures
  <2> QED
    BY <2>2, <2>3
<1>3. q \in Scanned /\ e \in Scanned
  BY ProcessedType
<1>4. q.subtotal > 0
  BY <1>1, <1>2
<1>5. /\ e.subtotal = q.subtotal /\ e.sst = q.sst /\ e.service = q.service
      /\ q.total = 0 => e.rounding = q.rounding /\ e.total = q.subtotal + TaxTotalSen(q)
      /\ q.total > 0 => /\ e.total = q.total
                        /\ e.rounding = IF q.rounding = 0 /\ left \in 1..99 THEN left ELSE q.rounding
  BY <1>4, LastFigures
<1>6. q.sst \in Int /\ q.service \in Int /\ q.rounding \in Int /\ q.total \in Int
  BY <1>3 DEF Scanned
<1>7. TaxTotalSen(q) = q.sst + q.service + q.rounding /\ TaxTotalSen(e) = e.sst + e.service + e.rounding
  BY DEF TaxTotalSen
<1> HIDE DEF q, e, x, d
<1> DEFINE y == q.sst + q.service
<1>8. y \in Int /\ TaxTotalSen(q) = y + q.rounding /\ left = q.total - p.subtotal - y
  BY <1>1, <1>2, <1>6, <1>7
<1>9. TaxTotalSen(e) = y + e.rounding
  BY <1>5, <1>7
<1>10. /\ q.rounding \in {0, d}
       /\ \/ y = x
          \/ y = x - d /\ q.rounding = d /\ q.total = p.total
  BY <1>2
<1> HIDE DEF y, left
<1>11. CASE q.total = 0
  <2>1. y = x
    BY <1>1, <1>10, <1>11
  <2> QED
    BY <1>1, <1>2, <1>5, <1>8, <1>9, <1>11, <2>1 DEF e, x, d
<1>12. CASE q.total > 0
  <2>1. e.total = q.total /\ e.rounding = IF q.rounding = 0 /\ left \in 1..99 THEN left ELSE q.rounding
    BY <1>5, <1>12
  <2>2. CASE y = x
    <3>1. left \in {0, d}
      BY <1>1, <1>2, <1>8, <1>12, <2>2
    <3>2. e.rounding \in {0, d}
      BY <1>10, <2>1, <3>1
    <3> QED
      BY <1>1, <1>2, <1>5, <1>9, <1>12, <2>1, <2>2, <3>2 DEF e, x, d
  <2>3. CASE y = x - d /\ q.rounding = d /\ q.total = p.total
    <3>1. left = d
      BY <1>1, <1>8, <2>3
    <3>2. e.rounding = d
      BY <2>1, <2>3, <3>1
    <3> QED
      BY <1>1, <1>2, <1>5, <1>9, <2>1, <2>3, <3>2 DEF e, x, d
  <2> QED
    BY <1>10, <2>2, <2>3
<1>13. q.total = 0 \/ q.total > 0
  BY <1>1, <1>2
<1> QED
  BY <1>11, <1>12, <1>13

-----------------------------------------------------------------------------
\* The lines.

SameLines(new, old) ==
    DOMAIN new = DOMAIN old /\ \A i \in DOMAIN old : new[i].line = old[i].line

LEMMA SameLinesSum ==
  ASSUME NEW new, NEW old, SameLines(new, old)
  PROVE  ItemsSumSen(new) = ItemsSumSen(old)
BY DEF SameLines, ItemsSumSen

LEMMA MapPaperItem ==
  ASSUME NEW it \in PaperItems, it.line = it.unit * it.qty
  PROVE  MapItem(it) = it
<1> DEFINE qty == IF it.qty < 1 THEN 1 ELSE it.qty
           line == IF it.line = 0 THEN it.unit * qty ELSE it.line
           unit == IF it.unit = 0 THEN GoDiv(line, qty) ELSE it.unit
<1>1. it.unit \in Nat /\ it.qty \in Nat \ {0} /\ it.line \in Nat
      /\ it = [name |-> it.name, unit |-> it.unit, qty |-> it.qty, line |-> it.line]
  BY DEF PaperItems
<1>2. qty = it.qty
  BY <1>1
<1>3. line = it.line
  BY <1>2
<1>4. unit = it.unit
  <2>1. CASE it.unit = 0
    <3>1. it.unit * it.qty = 0
      BY <1>1, <2>1
    <3>2. line = 0
      BY <1>3, <3>1
    <3>3. GoDiv(0, it.qty) = 0
      BY <1>1, GoDivZero
    <3> HIDE DEF qty, line
    <3> QED
      BY <1>2, <2>1, <3>2, <3>3
  <2> QED
    BY <2>1
<1>5. MapItem(it) = [name |-> it.name, qty |-> qty, line |-> line, unit |-> unit]
  BY DEF MapItem
<1> HIDE DEF qty, line, unit
<1> QED
  BY <1>1, <1>2, <1>3, <1>4, <1>5

LEMMA MappedLine ==
  ASSUME NEW it \in PaperItems, it.line = it.unit * it.qty
  PROVE  /\ MapItem(UnitOnly(it)).line = it.line
         /\ MapItem(LineOnly(it)).line = it.line
         /\ \A v \in Nat : MapItem(LineMisread(it, v)).line = v
<1>1. it.unit \in Nat /\ it.qty \in Nat \ {0} /\ it.line \in Nat
  BY DEF PaperItems
<1>2. MapItem(UnitOnly(it)).line = it.line
  BY <1>1 DEF UnitOnly, MapItem
<1>3. MapItem(LineOnly(it)).line = it.line
  BY <1>1 DEF LineOnly, MapItem
<1>4. ASSUME NEW v \in Nat PROVE MapItem(LineMisread(it, v)).line = v
  BY <1>1 DEF LineMisread, MapItem
<1> QED
  BY <1>2, <1>3, <1>4

\* Lines that the model read right are right after mapLLMResponse.
LEMMA FigureSlipItems ==
  ASSUME NEW p \in Printed, NEW s \in FigureSlips, NEW a \in Reading(s, p)
  PROVE  MapLLMResponse(a).items = p.items
<1>1. /\ p.items \in Seq(PaperItems)
      /\ \A i \in DOMAIN p.items : /\ p.items[i] \in PaperItems /\ p.items[i].name # NoName
                                   /\ p.items[i].line = p.items[i].unit * p.items[i].qty
  BY PaperIs
<1>2. a.items = p.items /\ p.items \in Seq(Answered)
  BY FigureSlip, FaithfulType
<1>3. FoldLeft(AddNamed, <<>>, p.items) = [i \in DOMAIN p.items |-> MapItem(p.items[i])]
  BY <1>1, <1>2, NamedItems
<1>4. \A i \in DOMAIN p.items : MapItem(p.items[i]) = p.items[i]
  BY <1>1, MapPaperItem
<1>5. p.items = [i \in DOMAIN p.items |-> p.items[i]]
  BY <1>1
<1>6. FoldLeft(AddNamed, <<>>, p.items) = p.items
  BY <1>3, <1>4, <1>5
<1> QED
  BY <1>2, <1>6 DEF MapLLMResponse

\* With one item misread, so is its line.
LEMMA ItemSlipItems ==
  ASSUME NEW p \in Printed, NEW i \in DOMAIN p.items, NEW it \in Answered, it.name # NoName,
         NEW a, a = [Faithful(p) EXCEPT !.items = [p.items EXCEPT ![i] = it]]
  PROVE  LET m == MapLLMResponse(a).items
         IN  /\ DOMAIN m = DOMAIN p.items /\ m[i].line = MapItem(it).line
             /\ \A j \in DOMAIN p.items \ {i} : m[j].line = p.items[j].line
<1> DEFINE its == [p.items EXCEPT ![i] = it]
           m == MapLLMResponse(a).items
<1>1. /\ p.items \in Seq(PaperItems)
      /\ \A j \in DOMAIN p.items : /\ p.items[j] \in PaperItems /\ p.items[j].name # NoName
                                   /\ p.items[j].line = p.items[j].unit * p.items[j].qty
  BY PaperIs
<1>2. p.items \in Seq(Answered)
  BY FaithfulType
<1>3. its \in Seq(Answered) /\ DOMAIN its = DOMAIN p.items /\ its[i] = it
      /\ \A j \in DOMAIN p.items \ {i} : its[j] = p.items[j]
  BY <1>2
<1>4. a.items = its
  BY DEF Faithful
<1> HIDE DEF its
<1>5. \A j \in DOMAIN its : its[j].name # NoName
  BY <1>1, <1>3
<1>6. FoldLeft(AddNamed, <<>>, its) = [j \in DOMAIN its |-> MapItem(its[j])]
  BY <1>3, <1>5, NamedItems
<1>7. m = [j \in DOMAIN its |-> MapItem(its[j])]
  BY <1>4, <1>6 DEF MapLLMResponse
<1>8. \A j \in DOMAIN p.items : MapItem(p.items[j]) = p.items[j]
  BY <1>1, MapPaperItem
<1> HIDE DEF m
<1>9. DOMAIN m = DOMAIN its /\ \A j \in DOMAIN its : m[j] = MapItem(its[j])
  BY <1>7
<1>10. m[i] = MapItem(it) /\ \A j \in DOMAIN p.items \ {i} : m[j] = p.items[j]
  BY <1>3, <1>8, <1>9
<1> QED
  BY <1>3, <1>9, <1>10 DEF m

LEMMA NotRepaired ==
  ASSUME NEW r \in Scanned, r.total >= ItemsSumSen(r.items)
  PROVE  RepairMisassignedLineItems(r) = r
<1> SUFFICES ASSUME RepairMisassignedLineItems(r) # r PROVE FALSE
  OBVIOUS
<1>1. PICK i \in DOMAIN r.items : Repairs(r, i)
  BY FirstRepaired
<1>2. r.total < ItemsSumSen(r.items)
  BY <1>1, AfterRepair
<1>3. r.items \in Seq(Entries) /\ r.total \in Int
  BY DEF Scanned
<1>4. ItemsSumSen(r.items) \in Int
  BY <1>3, EntriesSeq
<1> HIDE DEF ItemsSumSen
<1> QED
  BY <1>2, <1>3, <1>4

\* Changed lines add up to the total, and to less than before.
LEMMA LinesSum ==
  ASSUME NEW r \in Scanned
  PROVE  LET l == RepairMisassignedLineItems(r)
         IN  \/ l = r
             \/ /\ r.total > 0 /\ ItemsSumSen(l.items) = r.total /\ r.total < ItemsSumSen(r.items)
                /\ \E i \in DOMAIN r.items : /\ \A j \in DOMAIN r.items \ {i} : l.items[j].line = r.items[j].line
                                             /\ l.items[i].line >= 50
<1> DEFINE l == RepairMisassignedLineItems(r)
<1> SUFFICES ASSUME l # r
             PROVE  /\ r.total > 0 /\ ItemsSumSen(l.items) = r.total /\ r.total < ItemsSumSen(r.items)
                    /\ \E i \in DOMAIN r.items : /\ \A j \in DOMAIN r.items \ {i} : l.items[j].line = r.items[j].line
                                                 /\ l.items[i].line >= 50
  OBVIOUS
<1>1. r.total > 0 /\ \E i \in DOMAIN r.items : l = RepairedAt(r, i) /\ Repairs(r, i)
  BY FirstRepaired
<1>2. PICK i \in DOMAIN r.items : l = RepairedAt(r, i) /\ Repairs(r, i)
  BY <1>1
<1>3. /\ l.items = [r.items EXCEPT ![i] = WithLine(@, Inferred(r, i))] /\ l.items[i].line = Inferred(r, i)
      /\ ItemsSumSen(l.items) = r.total /\ r.total < ItemsSumSen(r.items)
  BY <1>2, AfterRepair
<1>4. Inferred(r, i) >= 50
  BY <1>2 DEF Repairs
<1> HIDE DEF l
<1>5. \A j \in DOMAIN r.items \ {i} : l.items[j].line = r.items[j].line
  BY <1>3
<1> QED
  BY <1>1, <1>3, <1>4, <1>5

\* What the paper's prices add up to without one of them.
LEMMA Others ==
  ASSUME NEW p \in Printed, NEW i \in DOMAIN p.items
  PROVE  LET rest == ItemsSumSen(p.items) - p.items[i].line
         IN  /\ rest \in Nat
             /\ Len(p.items) > 1 /\ (\A j \in DOMAIN p.items : p.items[j].line > 52) => rest > 52
<1> DEFINE n == Len(p.items)
           I == 1..n
           line == [j \in I |-> p.items[j].line]
<1>1. n \in Nat /\ DOMAIN p.items = I /\ \A j \in DOMAIN p.items : p.items[j] \in PaperItems
  BY PaperIs
<1>2. \A j \in I : line[j] \in Nat
  BY <1>1 DEF PaperItems
<1>3. ItemsSumSen(p.items) = SumFunctionOnSet(line, I)
  BY <1>1 DEF ItemsSumSen, SumFunction
<1>4. IsFiniteSet(I)
  <2> HIDE DEF n
  <2> QED
    BY <1>1, FS_Interval
<1>5. line[i] = p.items[i].line /\ i \in I
  BY <1>1
<1>6. \A j \in I : line[j] = p.items[j].line
  OBVIOUS
<1>7. 1 \in I /\ (n > 1 => 2 \in I)
  BY <1>1, <1>5
<1> HIDE DEF line, I
<1> DEFINE J == I \ {i}
           rest == SumFunctionOnSet(line, J)
<1>8. IsFiniteSet(J)
  BY <1>4, FS_RemoveElement
<1>9. SumFunctionOnSet(line, I) = line[i] + rest
  <2>1. \A j \in I : line[j] \in Int
    BY <1>2
  <2> HIDE DEF J
  <2> QED
    BY <1>4, <1>5, <2>1, SumRemove DEF J
<1>10. rest \in Nat
  <2>1. \A j \in J : line[j] \in Nat
    BY <1>2
  <2> HIDE DEF J
  <2> QED
    BY <1>8, <2>1, SumNat
<1>11. ASSUME n > 1, \A j \in DOMAIN p.items : p.items[j].line > 52 PROVE rest > 52
  <2>1. PICK k \in J : line[k] > 52
    <3>1. CASE i = 1
      BY <1>1, <1>6, <1>7, <1>11, <3>1
    <3>2. CASE i # 1
      BY <1>1, <1>6, <1>7, <1>11, <3>2
    <3> QED
      BY <3>1, <3>2
  <2> DEFINE K == J \ {k}
  <2>2. IsFiniteSet(K)
    BY <1>8, FS_RemoveElement
  <2>3. \A j \in K : line[j] \in Nat
    BY <1>2
  <2>4. \A j \in J : line[j] \in Int
    BY <1>2
  <2>5. SumFunctionOnSet(line, K) \in Nat
    <3> HIDE DEF K
    <3> QED
      BY <2>2, <2>3, SumNat
  <2>6. rest = line[k] + SumFunctionOnSet(line, K)
    <3> HIDE DEF J
    <3> QED
      BY <1>8, <2>4, SumRemove
  <2>7. line[k] \in Nat
    BY <1>2
  <2> HIDE DEF K, rest
  <2> QED
    BY <2>1, <2>5, <2>6, <2>7
<1>12. ItemsSumSen(p.items) - p.items[i].line = rest
  <2>1. line[i] \in Int
    BY <1>2, <1>5
  <2> HIDE DEF rest
  <2> QED
    BY <1>3, <1>5, <1>9, <1>10, <2>1
<1> HIDE DEF rest
<1> QED
  BY <1>10, <1>11, <1>12

LEMMA NotEmpty ==
  ASSUME NEW A, NEW B, NEW new \in Seq(A), NEW old \in Seq(B), DOMAIN new = DOMAIN old, old # <<>>
  PROVE  new # <<>>
OBVIOUS

\* The figures of a receipt and of what the model read of it are near the same prices.
LEMMA SameSummary ==
  ASSUME NEW p \in Printed, NEW q, ExactFigures(q, p), NEW amt
  PROVE  IsSummaryLineAmount(amt, q) <=> IsSummaryLineAmount(amt, p)
<1>1. q.subtotal = p.subtotal /\ q.sst + q.service = p.sst + p.service /\ q.rounding = p.rounding
      /\ q.total = p.total
  BY DEF ExactFigures
<1>2. TaxTotalSen(q) = TaxTotalSen(p)
  BY <1>1 DEF TaxTotalSen
<1>3. SummaryFigures(q) = SummaryFigures(p)
  BY <1>1, <1>2 DEF SummaryFigures
<1> QED
  BY <1>3 DEF IsSummaryLineAmount

\* Repairable, as an operator of the receipt.
CanRepair(p) ==
    /\ Len(p.items) > 1
    /\ \A i \in DOMAIN p.items :
          /\ p.items[i].line > 52
          /\ ~IsSummaryLineAmount(p.items[i].line, p)
          /\ ItemsSumSen(p.items) - p.items[i].line > p.sst + p.service

\* A summary figure on a line is replaced by what is missing from the total.
LEMMA SummaryLineRepaired ==
  ASSUME NEW p \in Printed, CanRepair(p), NEW a \in Reading("summary_as_line", p)
  PROVE  LET l == Lined(a)
         IN  /\ DOMAIN l.items = DOMAIN p.items /\ ItemsSumSen(l.items) = p.total
             /\ \E i \in DOMAIN p.items :
                  /\ l.items[i].line = p.items[i].line + (p.total - ItemsSumSen(p.items))
                  /\ \A j \in DOMAIN p.items \ {i} : l.items[j].line = p.items[j].line
<1> DEFINE q == Totalled(a)
           l == Lined(a)
           sum == ItemsSumSen(p.items)
           S == p.subtotal
           T == p.total
           x == p.sst + p.service
           d == p.rounding
<1>1. PICK i \in DOMAIN p.items, it \in Answered :
        /\ a = [Faithful(p) EXCEPT !.items = [p.items EXCEPT ![i] = it]]
        /\ \E v \in {S, T, T + d} : it = LineMisread(p.items[i], v)
  BY ItemSlip
<1>2. PICK v \in {S, T, T + d} : it = LineMisread(p.items[i], v)
  BY <1>1
<1>3. /\ S \in Nat \ {0} /\ x \in Nat /\ d \in -2..2 /\ T = S + x /\ (x > 0 => x >= 5)
      /\ sum \in {S, T} /\ Len(p.items) \in Nat /\ DOMAIN p.items = 1..Len(p.items)
      /\ p.items[i] \in PaperItems /\ p.items[i].name # NoName
      /\ p.items[i].line = p.items[i].unit * p.items[i].qty
  <2>1. /\ S \in Nat \ {0} /\ p.sst \in Nat /\ p.service \in Nat /\ d \in -2..2
        /\ T = S + p.sst + p.service /\ p.sst \notin 1..4 /\ p.service \notin 1..4
        /\ sum \in {S, T} /\ Len(p.items) \in Nat /\ DOMAIN p.items = 1..Len(p.items)
        /\ p.items[i] \in PaperItems /\ p.items[i].name # NoName
        /\ p.items[i].line = p.items[i].unit * p.items[i].qty
    BY PaperIs
  <2>2. x \in Nat /\ T = S + x /\ (x > 0 => x >= 5)
    BY PaperFigures
  <2> QED
    BY <2>1, <2>2
<1> DEFINE line == p.items[i].line
           rest == sum - line
<1>4. line \in Nat /\ line > 52 /\ rest \in Nat /\ rest > 52 /\ rest > x /\ Len(p.items) > 1 /\ sum = line + rest
  <2>1. Len(p.items) > 1 /\ (\A j \in DOMAIN p.items : p.items[j].line > 52) /\ rest > x
    BY DEF CanRepair
  <2>2. rest \in Nat /\ rest > 52
    BY <2>1, Others
  <2>3. line \in Nat /\ sum \in Nat
    BY <1>3 DEF PaperItems
  <2> HIDE DEF sum
  <2> QED
    BY <2>1, <2>2, <2>3
<1>5. v \in Nat /\ v > 0
  <2> HIDE DEF sum, line, S, T, x, d
  <2> QED
    BY <1>3, <1>4
<1>6. q \in Scanned /\ q.items = MapLLMResponse(a).items /\ ExactFigures(q, p)
  <2>1. "summary_as_line" \in Slips /\ "summary_as_line" \in ExactSlips
    BY DEF Slips, ExactSlips
  <2>2. MapLLMResponse(a) \in Scanned /\ q \in Scanned
    BY <2>1, ProcessedType
  <2>3. ExactFigures(q, p)
    BY <2>1, TotalledFigures
  <2> QED
    BY <2>2, <2>3, TotalsType DEF Totalled
<1>7. /\ DOMAIN q.items = DOMAIN p.items /\ q.items[i].line = v
      /\ \A j \in DOMAIN p.items \ {i} : q.items[j].line = p.items[j].line
  <2>1. it.name # NoName
    BY <1>2, <1>3 DEF LineMisread
  <2>2. MapItem(it).line = v
    BY <1>2, <1>3, <1>5, MappedLine
  <2>3. LET m == MapLLMResponse(a).items
        IN  /\ DOMAIN m = DOMAIN p.items /\ m[i].line = MapItem(it).line
            /\ \A j \in DOMAIN p.items \ {i} : m[j].line = p.items[j].line
    BY <1>1, <2>1, ItemSlipItems
  <2> QED
    BY <1>6, <2>2, <2>3
<1>8. ItemsSumSen(q.items) = rest + v
  <2> DEFINE N == 1..Len(p.items)
             old == [j \in N |-> p.items[j].line]
             new == [j \in N |-> q.items[j].line]
  <2>1. sum = SumFunctionOnSet(old, N) /\ ItemsSumSen(q.items) = SumFunctionOnSet(new, N)
    BY <1>3, <1>7 DEF ItemsSumSen, SumFunction
  <2>2. IsFiniteSet(N)
    <3> DEFINE n == Len(p.items)
    <3>1. n \in Int /\ 1 \in Int
      BY <1>3
    <3> HIDE DEF n
    <3> QED
      BY <3>1, FS_Interval
  <2>3. \A j \in N : p.items[j].line \in Int
    <3>1. \A j \in DOMAIN p.items : p.items[j] \in PaperItems
      BY PaperIs
    <3>2. \A it0 \in PaperItems : it0.line \in Int
      BY DEF PaperItems
    <3> QED
      BY <1>3, <3>1, <3>2
  <2>4. i \in N /\ new[i] = v /\ old[i] = line /\ \A j \in N \ {i} : new[j] = old[j]
    BY <1>3, <1>7
  <2>5. \A j \in N : old[j] \in Int /\ new[j] \in Int
    <3>1. \A j \in N : old[j] \in Int
      BY <2>3
    <3> HIDE DEF N, old, new
    <3> QED
      BY <1>5, <2>4, <3>1
  <2> HIDE DEF N, old, new
  <2>6. SumFunctionOnSet(new, N) = SumFunctionOnSet(old, N) + (new[i] - old[i])
    <3>1. i \in N /\ \A j \in N \ {i} : new[j] = old[j]
      BY <2>4
    <3>2. \A j \in N : old[j] \in Int /\ new[j] \in Int
      BY <2>5
    <3> QED
      BY <2>2, <3>1, <3>2, SumChange
  <2>7. ItemsSumSen(q.items) = sum + (v - line)
    BY <2>1, <2>4, <2>6
  <2> HIDE DEF sum, line
  <2> QED
    BY <1>3, <1>4, <1>5, <2>7
<1>9. q.total = T /\ q.subtotal = S /\ q.rounding = d
  BY <1>6 DEF ExactFigures
<1>10. Inferred(q, i) = T - rest
  <2> HIDE DEF rest, sum, T
  <2>1. T \in Int
    BY <1>3 DEF T
  <2> QED
    BY <1>4, <1>5, <1>7, <1>8, <1>9, <2>1 DEF Inferred
<1> HIDE DEF q, l
<1>11. Repairs(q, i)
  <2>1. IsSummaryLineAmount(v, q)
    <3>1. v \in SummaryFigures(q)
      <4>1. q.total > 0
        BY <1>3, <1>9
      <4> QED
        BY <1>9, <4>1 DEF SummaryFigures
    <3>2. SenClose(v, v)
      BY <1>5 DEF SenClose
    <3> QED
      BY <1>5, <3>1, <3>2 DEF IsSummaryLineAmount
  <2> DEFINE z == Inferred(q, i)
  <2>2. z >= 50 /\ z < v
    <3> HIDE DEF rest, sum, line, S, T, x, d, z
    <3>1. z = T - rest
      BY <1>10 DEF z
    <3>2. z = line \/ z = line + x
      BY <1>3, <1>4, <3>1
    <3>3. z >= 50
      BY <1>3, <1>4, <3>2
    <3>4. z < S /\ z < S + x - 52
      BY <1>3, <1>4, <3>1
    <3>5. z < v
      <4>1. v >= S \/ v >= S + x + d
        BY <1>2, <1>3
      <4>2. z \in Int
        BY <1>3, <1>4, <3>2
      <4>3. CASE x = 0
        BY <1>3, <1>5, <3>4, <4>1, <4>2, <4>3
      <4>4. CASE x >= 5
        BY <1>3, <1>5, <3>4, <4>1, <4>2, <4>4
      <4> QED
        BY <1>3, <4>3, <4>4
    <3> QED
      BY <3>3, <3>5
  <2> QED
    BY <1>7, <2>1, <2>2 DEF Repairs
<1>12. \A j \in DOMAIN q.items \ {i} : ~Repairs(q, j)
  <2>1. \A j \in DOMAIN p.items : ~IsSummaryLineAmount(p.items[j].line, p)
    BY DEF CanRepair
  <2>2. \A j \in DOMAIN p.items : ~IsSummaryLineAmount(p.items[j].line, q)
    BY <1>6, <2>1, SameSummary
  <2> QED
    BY <1>7, <2>2 DEF Repairs
<1>13. l = RepairedAt(q, i)
  <2>1. l = RepairMisassignedLineItems(q)
    BY DEF l, q, Lined
  <2>2. i \in DOMAIN q.items
    BY <1>7
  <2>3. ~(Len(q.items) < 2 \/ q.total <= 0)
    <3>1. q.items \in Seq(Entries)
      BY <1>6 DEF Scanned
    <3>2. Len(q.items) \in Nat /\ DOMAIN q.items = 1..Len(q.items)
      BY <3>1, EntriesSeq
    <3>3. Len(q.items) = Len(p.items)
      <4> DEFINE n == Len(q.items)
                 m == Len(p.items)
      <4>1. n \in Nat /\ m \in Nat /\ 1..n = 1..m
        BY <1>3, <1>7, <3>2
      <4> HIDE DEF n, m
      <4>2. n = m
        BY <4>1
      <4> QED
        BY <4>2 DEF n, m
    <3> QED
      BY <1>3, <1>4, <1>9, <3>2, <3>3
  <2>4. \E k \in DOMAIN q.items : l = RepairedAt(q, k) /\ Repairs(q, k)
    BY <1>6, <1>11, <2>1, <2>2, <2>3, FirstRepaired
  <2> QED
    BY <1>12, <2>4
<1>14. /\ l.items[i].line = Inferred(q, i) /\ DOMAIN l.items = DOMAIN q.items /\ ItemsSumSen(l.items) = q.total
       /\ l.items = [q.items EXCEPT ![i] = WithLine(@, Inferred(q, i))]
  <2>1. i \in DOMAIN q.items
    BY <1>7
  <2> QED
    BY <1>6, <1>11, <1>13, <2>1, AfterRepair
<1>15. \A j \in DOMAIN p.items \ {i} : l.items[j].line = p.items[j].line
  BY <1>7, <1>14
<1>16. l.items[i].line = line + (T - sum)
  <2> HIDE DEF sum, line, T
  <2>1. T \in Int /\ sum \in Int
    BY <1>3 DEF T
  <2>2. T - (sum - line) = line + (T - sum)
    BY <1>4, <2>1
  <2> QED
    BY <1>10, <1>14, <2>2 DEF rest
<1> QED
  BY <1>7, <1>9, <1>14, <1>15, <1>16 DEF l

\* The lines that mapLLMResponse leaves, for every mistake but a lost name or a
\* summary figure.
LEMMA LinesMapped ==
  ASSUME NEW p \in Printed, NEW s \in Slips, s \notin {"unnamed", "summary_as_line"}, NEW a \in Reading(s, p)
  PROVE  SameLines(Totalled(a).items, p.items)
<1>1. Totalled(a).items = MapLLMResponse(a).items
  BY ProcessedType, TotalsType DEF Totalled
<1>2. CASE s \in FigureSlips
  <2>1. MapLLMResponse(a).items = p.items
    BY <1>2, FigureSlipItems
  <2> QED
    BY <1>1, <2>1 DEF SameLines
<1>3. CASE s \notin FigureSlips
  <2>1. s \in {"unit_only", "line_only"}
    BY <1>3 DEF FigureSlips
  <2>2. PICK i \in DOMAIN p.items, it \in Answered :
          /\ a = [Faithful(p) EXCEPT !.items = [p.items EXCEPT ![i] = it]]
          /\ it = UnitOnly(p.items[i]) \/ it = LineOnly(p.items[i])
    BY <2>1, ItemSlip
  <2>3. /\ p.items[i] \in PaperItems /\ p.items[i].name # NoName
        /\ p.items[i].line = p.items[i].unit * p.items[i].qty
    BY PaperIs
  <2>4. it.name # NoName
    BY <2>2, <2>3 DEF UnitOnly, LineOnly, PaperItems
  <2>5. MapItem(it).line = p.items[i].line
    BY <2>2, <2>3, MappedLine
  <2>6. LET m == MapLLMResponse(a).items
        IN  /\ DOMAIN m = DOMAIN p.items /\ m[i].line = MapItem(it).line
            /\ \A j \in DOMAIN p.items \ {i} : m[j].line = p.items[j].line
    BY <2>2, <2>4, ItemSlipItems
  <2> QED
    BY <1>1, <2>5, <2>6 DEF SameLines
<1> QED
  BY <1>2, <1>3

\* Prices are no less than 0 and add up to something.
LEMMA PaperLines ==
  ASSUME NEW p \in Printed
  PROVE  /\ \A i \in DOMAIN p.items : p.items[i].line \in Nat
         /\ ItemsSumSen(p.items) \in Nat \ {0}
<1>1. /\ p.subtotal \in Nat \ {0} /\ p.sst \in Nat /\ p.service \in Nat /\ p.total = p.subtotal + p.sst + p.service
      /\ ItemsSumSen(p.items) \in {p.subtotal, p.total}
      /\ \A i \in DOMAIN p.items : p.items[i] \in PaperItems
  BY PaperIs
<1> HIDE DEF ItemsSumSen
<1>2. ItemsSumSen(p.items) \in Nat \ {0}
  BY <1>1
<1> QED
  BY <1>1, <1>2 DEF PaperItems

\* The lines before normalizeParsedReceipt: none is negative, and they add up to
\* what the paper's do or to the total.
LEMMA LinesBefore ==
  ASSUME NEW p \in Printed, NEW s \in Slips, s # "unnamed", s = "summary_as_line" => CanRepair(p),
         NEW a \in Reading(s, p)
  PROVE  LET l == Lined(a)
             sum == ItemsSumSen(p.items)
         IN  /\ DOMAIN l.items = DOMAIN p.items /\ \A i \in DOMAIN l.items : l.items[i].line \in Nat
             /\ \/ ItemsSumSen(l.items) = sum
                \/ /\ ItemsSumSen(l.items) = l.total /\ l.total > 0
                   /\ l.total < sum \/ l.total = p.total
<1> DEFINE q == Totalled(a)
           l == Lined(a)
           sum == ItemsSumSen(p.items)
<1>1. q \in Scanned /\ l \in Scanned /\ l = RepairMisassignedLineItems(q)
  BY ProcessedType DEF Lined
<1>2. l.total = q.total
  BY <1>1, LinesType
<1>3. \A i \in DOMAIN p.items : p.items[i].line \in Nat
  BY PaperLines
<1>4. sum \in Nat \ {0} /\ ItemsSumSen(l.items) \in Int
  <2>1. l.items \in Seq(Entries)
    BY <1>1 DEF Scanned
  <2> QED
    BY <2>1, PaperLines, EntriesSeq
<1> HIDE DEF q, l
<1>5. CASE s # "summary_as_line"
  <2>1. DOMAIN q.items = DOMAIN p.items /\ \A i \in DOMAIN p.items : q.items[i].line = p.items[i].line
    BY <1>5, LinesMapped DEF SameLines, q
  <2>2. ItemsSumSen(q.items) = sum
    BY <1>5, LinesMapped, SameLinesSum DEF q
  <2>3. \/ l = q
        \/ /\ q.total > 0 /\ ItemsSumSen(l.items) = q.total /\ q.total < ItemsSumSen(q.items)
           /\ \E i \in DOMAIN q.items : /\ \A j \in DOMAIN q.items \ {i} : l.items[j].line = q.items[j].line
                                        /\ l.items[i].line >= 50
    BY <1>1, LinesSum
  <2>4. DOMAIN l.items = DOMAIN q.items
    BY <1>1, LinesType
  <2>5. \A i \in DOMAIN l.items : l.items[i].line \in Int
    <3>1. l.items \in Seq(Entries)
      BY <1>1 DEF Scanned
    <3> QED
      BY <3>1, EntriesSeq
  <2>6. \A i \in DOMAIN l.items : l.items[i].line \in Nat
    BY <1>3, <2>1, <2>3, <2>4, <2>5
  <2>7. \/ ItemsSumSen(l.items) = sum
        \/ ItemsSumSen(l.items) = l.total /\ l.total > 0 /\ l.total < sum
    BY <1>2, <2>2, <2>3
  <2> QED
    BY <2>1, <2>4, <2>6, <2>7 DEF l
<1>6. CASE s = "summary_as_line"
  <2>1. a \in Reading("summary_as_line", p) /\ CanRepair(p)
    BY <1>6
  <2>2. /\ DOMAIN l.items = DOMAIN p.items /\ ItemsSumSen(l.items) = p.total
        /\ \E i \in DOMAIN p.items :
             /\ l.items[i].line = p.items[i].line + (p.total - sum)
             /\ \A j \in DOMAIN p.items \ {i} : l.items[j].line = p.items[j].line
    BY <2>1, SummaryLineRepaired DEF l
  <2>3. /\ p.subtotal \in Nat \ {0} /\ p.sst \in Nat /\ p.service \in Nat
        /\ p.total = p.subtotal + p.sst + p.service /\ sum \in {p.subtotal, p.total}
    BY PaperIs
  <2>4. p.total - sum \in Nat /\ p.total > 0
    <3> HIDE DEF sum
    <3> QED
      BY <2>3
  <2>5. \A i \in DOMAIN l.items : l.items[i].line \in Nat
    <3> DEFINE more == p.total - sum
    <3>1. PICK i \in DOMAIN p.items :
            /\ l.items[i].line = p.items[i].line + more
            /\ \A j \in DOMAIN p.items \ {i} : l.items[j].line = p.items[j].line
      BY <2>2
    <3>2. more \in Nat
      BY <2>4
    <3> HIDE DEF more
    <3>3. l.items[i].line \in Nat
      BY <1>3, <3>1, <3>2
    <3> QED
      BY <1>3, <2>2, <3>1, <3>3
  <2>6. l.total = p.total
    <3>1. s \in ExactSlips
      BY <1>6 DEF ExactSlips
    <3>2. ExactFigures(q, p)
      BY <3>1, TotalledFigures DEF q
    <3> QED
      BY <1>2, <3>2 DEF ExactFigures
  <2> QED
    BY <2>2, <2>4, <2>5, <2>6 DEF l
<1> QED
  BY <1>5, <1>6

\* Lines that include a tax of at most a fifth are scaled to the subtotal exactly.
LEMMA LinesScaled ==
  ASSUME NEW items \in Seq(Entries), \A i \in DOMAIN items : items[i].line \in Nat,
         NEW net \in Nat \ {0}, ItemsSumSen(items) > 0, ItemsSumSen(items) <= 2 * net
  PROVE  LET new == ScaleItemsToNet(items, net, ItemsSumSen(items))
         IN  /\ ItemsSumSen(new) = net
             /\ \A i \in DOMAIN items :
                  2 * (new[i].line - RoundDiv(items[i].line * net, ItemsSumSen(items)))
                      \in -Len(items) .. Len(items)
<1> DEFINE n == Len(items)
           N == 1..n
           gross == ItemsSumSen(items)
<1>1. /\ n \in Nat /\ DOMAIN items = N /\ gross \in Int
      /\ \A i \in N : items[i] = [name |-> items[i].name, qty |-> items[i].qty,
                                  line |-> items[i].line, unit |-> items[i].unit]
      /\ \A i \in N : items[i].qty \in Nat
  BY EntriesSeq
<1>2. Priced(items)
  BY <1>1 DEF Priced
<1>3. \E i \in DOMAIN items : items[i].line > 0
  <2> SUFFICES ASSUME \A i \in DOMAIN items : ~(items[i].line > 0) PROVE FALSE
    OBVIOUS
  <2> DEFINE line == [i \in N |-> items[i].line]
  <2>1. \A i \in N : line[i] = 0
    BY <1>1
  <2>2. gross = SumFunctionOnSet(line, N)
    BY <1>1 DEF ItemsSumSen, SumFunction
  <2>3. IsFiniteSet(N)
    <3>1. n \in Int /\ 1 \in Int
      BY <1>1
    <3> HIDE DEF n
    <3> QED
      BY <3>1, FS_Interval
  <2> HIDE DEF line, N
  <2>4. SumFunctionOnSet(line, N) = 0 * Cardinality(N)
    BY <2>1, <2>3, SumConstant
  <2>5. Cardinality(N) \in Nat
    BY <2>3, FS_CardinalityType
  <2>6. gross = 0
    <3>1. 0 * Cardinality(N) = 0
      BY <2>5
    <3> QED
      BY <2>2, <2>4, <3>1
  <2> HIDE DEF gross
  <2> QED
    BY <2>6 DEF gross
<1>4. PICK i \in DOMAIN items : items[i].line > 0
  BY <1>3
<1>5. RoundDiv(items[i].line * net, gross) > 0
  <2> DEFINE part == items[i].line * net
  <2>1. part \in Nat /\ part >= net
    <3> DEFINE l == items[i].line
    <3>1. l \in Nat /\ l >= 1
      BY <1>4
    <3> HIDE DEF l
    <3>2. l * net = net + (l - 1) * net
      BY <3>1
    <3>3. (l - 1) * net \in Nat
      BY <3>1
    <3>4. l * net \in Nat /\ l * net >= net
      BY <3>2, <3>3
    <3> QED
      BY <3>4 DEF l
  <2>2. gross \in Nat /\ gross > 0 /\ gross <= 2 * net
    BY <1>1
  <2> HIDE DEF part, gross
  <2>3. RoundDiv(part, gross) = (part + gross \div 2) \div gross
    BY <2>1, <2>2 DEF RoundDiv, GoDiv
  <2>4. part + gross \div 2 >= gross
    BY <2>1, <2>2
  <2> DEFINE m == part + gross \div 2
  <2>5. m \in Nat /\ m >= gross
    BY <2>1, <2>2, <2>4
  <2> HIDE DEF m
  <2>6. m \div gross > 0
    BY <2>2, <2>5
  <2> QED
    BY <2>3, <2>6 DEF m, part
<1> HIDE DEF gross
<1>6. \E k \in DOMAIN items : RoundDiv(items[k].line * net, gross) > 0
  BY <1>5
<1> HIDE DEF n, N
<1> QED
  BY <1>2, <1>6, ScaledToNet DEF gross

\* Prices that include the tax are told from net ones after the repairs, and only
\* they are.
LEMMA GrossIsInclusive ==
  ASSUME NEW p \in Printed, NEW s \in Slips, s \notin {"unnamed", "no_subtotal"},
         s = "summary_as_line" => CanRepair(p), NEW a \in Reading(s, p)
  PROVE  LET l == Lined(a)
         IN  /\ l.subtotal = p.subtotal
             /\ Gross(l) => ItemsSumSen(l.items) > 0 /\ ItemsSumSen(l.items) <= 2 * p.subtotal
             /\ ~Gross(l) => SenClose(ItemsSumSen(l.items), p.subtotal)
<1> DEFINE q == Totalled(a)
           l == Lined(a)
           sum == ItemsSumSen(l.items)
           old == ItemsSumSen(p.items)
           S == p.subtotal
           T == p.total
           x == p.sst + p.service
           d == p.rounding
<1>1. /\ S \in Nat \ {0} /\ x \in Nat /\ d \in -2..2 /\ T = S + x /\ (x > 0 => x >= 5 /\ x + 2 <= (S * 20) \div 100)
      /\ old \in {S, T}
  <2>1. /\ S \in Nat \ {0} /\ p.sst \in Nat /\ p.service \in Nat /\ d \in -2..2
        /\ T = S + p.sst + p.service /\ p.sst \notin 1..4 /\ p.service \notin 1..4
        /\ (x > 0 => x + 2 <= (S * 20) \div 100) /\ old \in {S, T}
    BY PaperIs
  <2>2. x \in Nat /\ T = S + x /\ (x > 0 => x >= 5)
    BY PaperFigures
  <2> HIDE DEF S, T, x, d, old
  <2> QED
    BY <2>1, <2>2
<1>2. q \in Scanned /\ l \in Scanned /\ sum \in Int
  <2>1. q \in Scanned /\ l \in Scanned
    BY ProcessedType
  <2>2. l.items \in Seq(Entries)
    BY <2>1 DEF Scanned
  <2> QED
    BY <2>1, <2>2, EntriesSeq
<1>3. /\ l.subtotal = q.subtotal /\ l.sst = q.sst /\ l.service = q.service
      /\ l.rounding = q.rounding /\ l.total = q.total
  BY <1>2, LinesType DEF Lined
<1>4. q.subtotal = S /\ q.total \in {0, T, T + d} /\ (x > 0 => NearFigures(q, p))
  BY TotalledFigures
<1>5. \/ sum = old
      \/ sum = l.total /\ l.total > 0 /\ (l.total < old \/ l.total = T)
  BY LinesBefore
<1>6. l.subtotal = S /\ TaxTotalSen(l) = l.sst + l.service + l.rounding
  BY <1>3, <1>4 DEF TaxTotalSen
<1>7. l.sst \in Int /\ l.service \in Int /\ l.rounding \in Int /\ l.total \in Int
  BY <1>2 DEF Scanned
<1> DEFINE y == l.sst + l.service
           total == IF l.total = 0 THEN S + (y + l.rounding) ELSE l.total
<1>8. Gross(l) <=> y > 0 /\ sum > S /\ SenClose(sum, total) /\ SenClose(S + (y + l.rounding), total)
  <2> HIDE DEF sum, S
  <2>1. TaxTotalSen(l) = y + l.rounding
    BY <1>6
  <2>2. S > 0 /\ l.subtotal = S
    BY <1>1, <1>6
  <2> HIDE DEF y
  <2> QED
    BY <2>1, <2>2 DEF Gross, sum, y
<1>9. y \in Int
  BY <1>7
<1>10. ASSUME x > 0
       PROVE  /\ l.rounding \in {0, d} /\ l.total \in {0, T, T + d}
              /\ y = x \/ (y = x - d /\ l.rounding = d /\ l.total = T)
  <2>1. NearFigures(q, p)
    BY <1>4, <1>10
  <2>2. q.rounding \in {0, d} /\ q.total \in {0, T, T + d}
    BY <2>1 DEF NearFigures
  <2>3. \/ q.sst + q.service = x
        \/ q.sst + q.service = x - d /\ q.rounding = d /\ q.total = T
    <3>1. p.sst \in Nat /\ p.service \in Nat /\ d \in Int
      BY PaperFigures
    <3>2. p.sst + p.service - p.rounding = x - d
      BY <3>1
    <3> QED
      BY <2>1, <3>2 DEF NearFigures
  <2> QED
    BY <1>3, <2>2, <2>3
<1> HIDE DEF q, l, sum, old, S, T, x, d, y
<1>11. CASE x = 0
  <2>1. T = S /\ old = S
    BY <1>1, <1>11
  <2>2. sum <= S /\ SenClose(sum, S)
    BY <1>1, <1>2, <1>3, <1>4, <1>5, <2>1 DEF SenClose
  <2>3. ~Gross(l)
    BY <1>1, <1>2, <1>8, <2>2
  <2> QED
    BY <1>6, <2>2, <2>3 DEF l, sum, S
<1>12. ASSUME x > 0 PROVE sum = S \/ sum = T \/ (sum = T + d /\ l.total = T + d)
  BY <1>1, <1>2, <1>5, <1>7, <1>10, <1>12
<1>13. CASE x > 0 /\ sum = S
  <2>1. ~Gross(l) /\ SenClose(sum, S)
    BY <1>1, <1>8, <1>13 DEF SenClose
  <2> QED
    BY <1>6, <2>1 DEF l, sum, S
<1>14. CASE x > 0 /\ sum # S
  <2>1. sum = T \/ (sum = T + d /\ l.total = T + d)
    BY <1>12, <1>14
  <2>2. y > 0 /\ sum > S
    BY <1>1, <1>9, <1>10, <1>14, <2>1
  <2>3. S + (y + l.rounding) \in {T, T + d} /\ total \in {T, T + d}
    BY <1>1, <1>7, <1>9, <1>10, <1>14
  <2>5. SenClose(sum, total) /\ SenClose(S + (y + l.rounding), total)
    BY <1>1, <2>1, <2>3 DEF SenClose
  <2>6. Gross(l)
    BY <1>8, <2>2, <2>5
  <2>7. sum > 0 /\ sum <= 2 * S
    BY <1>1, <1>14, <2>1
  <2> QED
    BY <1>6, <2>6, <2>7 DEF l, sum, S
<1> QED
  BY <1>1, <1>11, <1>13, <1>14

\* The lines on the review page add up to its subtotal.
LEMMA LinesAfter ==
  ASSUME NEW p \in Printed, NEW s \in Slips, s # "unnamed", s = "summary_as_line" => CanRepair(p),
         NEW a \in Reading(s, p)
  PROVE  SenClose(ItemsSumSen(Processed(a).items), Processed(a).subtotal) /\ Processed(a).subtotal > 0
<1> DEFINE l == Lined(a)
           n == Netted(a)
           e == Processed(a)
           sum == ItemsSumSen(l.items)
<1>1. l \in Scanned /\ n \in Scanned /\ l.items \in Seq(Entries) /\ sum \in Int
  <2>1. l \in Scanned /\ n \in Scanned
    BY ProcessedType
  <2>2. l.items \in Seq(Entries)
    BY <2>1 DEF Scanned
  <2> QED
    BY <2>1, <2>2, EntriesSeq
<1>2. e.items = n.items
      /\ e.subtotal = IF n.subtotal <= 0 /\ n.items # <<>> THEN ItemsSumSen(n.items) ELSE n.subtotal
  BY <1>1, EnrichedIs DEF Processed
<1>3. /\ n.subtotal = l.subtotal /\ (l.subtotal <= 0 => n = l)
      /\ n.items = IF Gross(l) THEN ScaleItemsToNet(l.items, l.subtotal, sum) ELSE l.items
  BY <1>1, NormalizedIs DEF Netted
<1>4. p.subtotal \in Nat \ {0}
  BY PaperFigures
<1>5. CASE s = "no_subtotal"
  <2>1. l.subtotal = 0
    <3>1. Totalled(a).subtotal = 0 /\ Totalled(a) \in Scanned
      BY <1>5, TotalledFigures, ProcessedType
    <3> QED
      BY <3>1, LinesType DEF Lined
  <2>2. l.items # <<>>
    <3>1. DOMAIN l.items = DOMAIN p.items
      BY <1>5, LinesBefore
    <3>2. p.items # <<>> /\ p.items \in Seq(PaperItems)
      BY PaperIs
    <3> QED
      BY <1>1, <3>1, <3>2, NotEmpty
  <2>3. n = l
    BY <1>3, <2>1
  <2>4. e.subtotal = sum /\ e.items = l.items
    BY <1>2, <2>1, <2>2, <2>3
  <2>5. sum > 0
    <3> DEFINE old == ItemsSumSen(p.items)
    <3>1. sum = old \/ (sum = l.total /\ l.total > 0)
      BY <1>5, LinesBefore
    <3>2. old \in {p.subtotal, p.total} /\ p.total = p.subtotal + p.sst + p.service
          /\ p.sst \in Nat /\ p.service \in Nat
      BY PaperIs
    <3> HIDE DEF old, sum
    <3> QED
      BY <1>4, <3>1, <3>2
  <2> HIDE DEF e, l
  <2>6. ItemsSumSen(e.items) = sum
    BY <2>4
  <2> HIDE DEF sum
  <2> QED
    BY <1>1, <2>4, <2>5, <2>6 DEF SenClose, e
<1>6. CASE s # "no_subtotal"
  <2>1. /\ l.subtotal = p.subtotal
        /\ Gross(l) => sum > 0 /\ sum <= 2 * p.subtotal
        /\ ~Gross(l) => SenClose(sum, p.subtotal)
    BY <1>6, GrossIsInclusive
  <2>2. e.subtotal = p.subtotal
    BY <1>2, <1>3, <1>4, <2>1
  <2>3. CASE Gross(l)
    <3>1. \A i \in DOMAIN l.items : l.items[i].line \in Nat
      BY LinesBefore
    <3>2. sum > 0 /\ sum <= 2 * p.subtotal
      BY <2>1, <2>3
    <3>3. ItemsSumSen(ScaleItemsToNet(l.items, p.subtotal, sum)) = p.subtotal
      BY <1>1, <1>4, <3>1, <3>2, LinesScaled
    <3>4. e.items = ScaleItemsToNet(l.items, p.subtotal, sum)
      BY <1>2, <1>3, <2>1, <2>3
    <3>5. ItemsSumSen(e.items) = p.subtotal
      BY <3>3, <3>4
    <3> HIDE DEF e
    <3> QED
      BY <1>4, <2>2, <3>5 DEF SenClose, e
  <2>4. CASE ~Gross(l)
    <3>1. ItemsSumSen(e.items) = sum
      BY <1>2, <1>3, <2>4
    <3> HIDE DEF e, sum
    <3> QED
      BY <1>4, <2>1, <2>2, <2>4, <3>1 DEF e
  <2> QED
    BY <2>3, <2>4
<1> QED
  BY <1>5, <1>6

-----------------------------------------------------------------------------
\* What the review page shows.

LEMMA ShownIs ==
  ASSUME Traced, Shown
  PROVE  \E a \in Reading(slip, paper) :
           LET e == Processed(a)
           IN  /\ e \in Scanned /\ warnings = ValidateReceipt(e)
               /\ rec.sst = e.sst /\ rec.service = e.service /\ rec.rounding = e.rounding
               /\ rec.total = e.total /\ rec.items = e.items
               /\ rec.subtotal = e.subtotal \/ e.subtotal <= 0
<1>1. PICK a \in Reading(slip, paper) : OnItsWay(a)
  BY DEF Traced
<1> DEFINE e == Processed(a)
<1>2. e \in Scanned
  BY ProcessedType DEF Traced
<1>3. warnings = ValidateReceipt(e) /\ (rec = e \/ rec = Submitted(e))
  BY <1>1 DEF Shown, OnItsWay
<1> HIDE DEF e
<1>4. CASE rec = e
  BY <1>2, <1>3, <1>4 DEF e
<1>5. CASE rec = Submitted(e)
  <2> DEFINE subtotal == IF e.subtotal <= 0 THEN ItemsSumSen(Posted(e.items)) ELSE e.subtotal
  <2>1. rec = [e EXCEPT !.subtotal = subtotal]
    BY <1>5 DEF Submitted
  <2> HIDE DEF subtotal
  <2>2. /\ rec.sst = e.sst /\ rec.service = e.service /\ rec.rounding = e.rounding
        /\ rec.total = e.total /\ rec.items = e.items /\ rec.subtotal = subtotal
    BY <1>2, <2>1 DEF Scanned
  <2>3. subtotal = e.subtotal \/ e.subtotal <= 0
    BY DEF subtotal
  <2> QED
    BY <1>2, <1>3, <2>2, <2>3 DEF e
<1> QED
  BY <1>3, <1>4, <1>5

\* A receipt read without its subtotal adds up, or is warned of when its prices
\* include the tax.
LEMMA NoSubtotal ==
  ASSUME NEW p \in Printed, p.sst + p.service > 0, NEW a \in Reading("no_subtotal", p)
  PROVE  LET e == Processed(a)
         IN  /\ e.total = p.total /\ TaxTotalSen(e) = p.sst + p.service + p.rounding
             /\ e.subtotal = p.subtotal \/ TotalMismatch(e)
<1> DEFINE q == Totalled(a)
           l == Lined(a)
           e == Processed(a)
           old == ItemsSumSen(p.items)
           S == p.subtotal
           T == p.total
           x == p.sst + p.service
           d == p.rounding
<1>1. "no_subtotal" \in Slips /\ "no_subtotal" \notin {"unnamed", "summary_as_line"}
  BY DEF Slips
<1>2. q \in Scanned /\ l \in Scanned /\ Netted(a) \in Scanned
  BY <1>1, ProcessedType
<1>3. /\ q.subtotal = 0 /\ q.sst = p.sst /\ q.service = p.service
      /\ q.rounding = d /\ q.total = T
  BY <1>1, TotalledFigures
<1>4. /\ S \in Nat \ {0} /\ p.sst \in Nat /\ p.service \in Nat /\ x \in Nat /\ x >= 5 /\ d \in -2..2
      /\ T = S + x /\ old \in {S, T} /\ p.items # <<>> /\ p.items \in Seq(PaperItems)
  <2>1. /\ S \in Nat \ {0} /\ p.sst \in Nat /\ p.service \in Nat /\ d \in -2..2
        /\ T = S + p.sst + p.service /\ p.sst \notin 1..4 /\ p.service \notin 1..4 /\ old \in {S, T}
        /\ p.items # <<>> /\ p.items \in Seq(PaperItems)
    BY PaperIs
  <2>2. x \in Nat /\ x >= 5 /\ T = S + x
    <3>1. x \in Nat /\ T = S + x /\ (x > 0 => x >= 5)
      BY PaperFigures
    <3> HIDE DEF S, T
    <3> QED
      BY <3>1
  <2> QED
    BY <2>1, <2>2
<1>5. SameLines(q.items, p.items)
  BY <1>1, LinesMapped
<1>6. ItemsSumSen(q.items) = old
  BY <1>5, SameLinesSum
<1>7. l = q
  <2>1. q.total >= ItemsSumSen(q.items)
    <3> HIDE DEF q, old
    <3> QED
      BY <1>3, <1>4, <1>6
  <2> QED
    BY <1>2, <2>1, NotRepaired DEF Lined
<1>8. Netted(a) = q
  <2>1. l.subtotal <= 0
    BY <1>3, <1>7
  <2> QED
    BY <1>2, <1>7, <2>1, NormalizedIs DEF Netted
<1>9. q.items # <<>>
  <2>1. DOMAIN q.items = DOMAIN p.items
    BY <1>5 DEF SameLines
  <2> QED
    <3>1. q.items \in Seq(Entries)
      BY <1>2 DEF Scanned
    <3> QED
      BY <1>4, <2>1, <3>1, NotEmpty
<1>10. LET left == q.total - e.subtotal - q.sst - q.service
       IN  /\ e.sst = q.sst /\ e.service = q.service /\ e.items = q.items
           /\ e.subtotal = IF q.subtotal <= 0 /\ q.items # <<>> THEN ItemsSumSen(q.items) ELSE q.subtotal
           /\ e.rounding = IF q.rounding = 0 /\ q.total > 0 /\ e.subtotal > 0 /\ left \in 1..99
                           THEN left ELSE q.rounding
           /\ e.total = IF q.total <= 0 /\ e.subtotal > 0 THEN e.subtotal + TaxTotalSen(q) ELSE q.total
  BY <1>2, <1>8, EnrichedIs DEF Processed
<1> DEFINE left == T - e.subtotal - p.sst - p.service
<1>11. e.sst = p.sst /\ e.service = p.service /\ e.subtotal = old /\ ItemsSumSen(e.items) = old
  BY <1>3, <1>6, <1>9, <1>10
<1>12. /\ e.rounding = IF d = 0 /\ T > 0 /\ e.subtotal > 0 /\ left \in 1..99 THEN left ELSE d
       /\ e.total = IF T <= 0 /\ e.subtotal > 0 THEN e.subtotal + TaxTotalSen(q) ELSE T
  BY <1>3, <1>10
<1> HIDE DEF q, l, e, old, S, T, d
<1>13. e.total = T
  BY <1>4, <1>12
<1>14. left \notin 1..99
  <2>1. T \in Int /\ old \in Int
    BY <1>4
  <2>2. left = (T - old) - x
    <3>1. left = T - old - p.sst - p.service
      BY <1>11
    <3>2. p.sst \in Int /\ p.service \in Int
      BY <1>4
    <3> HIDE DEF left
    <3> QED
      BY <2>1, <3>1, <3>2
  <2>3. (T - old) - x \in Int /\ (T - old) - x <= 0
    BY <1>4, <2>1
  <2> QED
    BY <2>2, <2>3
<1> HIDE DEF left
<1>15. e.rounding = d
  BY <1>12, <1>14
<1>16. TaxTotalSen(e) = x + d
  BY <1>11, <1>15 DEF TaxTotalSen
<1> HIDE DEF x
<1>17. old = S \/ TotalMismatch(e)
  <2>1. CASE old = T
    BY <1>4, <1>11, <1>13, <1>16, <2>1 DEF TotalMismatch, SenClose
  <2> QED
    BY <1>4, <2>1
<1> QED
  BY <1>11, <1>13, <1>16, <1>17 DEF e, S, T, x, d

\* Figures that were misread come back on the review page or are warned of, for
\* every receipt whose taxes the repairs can tell from rounding.
THEOREM ReceiptFigures == Spec => []FiguresRestoredOrWarned
<1> SUFFICES Traced => FiguresRestoredOrWarned
  BY ReceiptTraced, PTL
<1> SUFFICES ASSUME Traced, Shown, Taxed, warnings = {}
             PROVE  /\ SenClose(rec.subtotal, paper.subtotal)
                    /\ SenClose(rec.total, paper.total)
                    /\ SenClose(TaxTotalSen(rec), TaxTotalSen(paper))
  BY DEF FiguresRestoredOrWarned
<1>1. PICK a \in Reading(slip, paper) :
        LET e == Processed(a)
        IN  /\ e \in Scanned /\ warnings = ValidateReceipt(e)
            /\ rec.sst = e.sst /\ rec.service = e.service /\ rec.rounding = e.rounding
            /\ rec.total = e.total /\ rec.items = e.items
            /\ rec.subtotal = e.subtotal \/ e.subtotal <= 0
  BY ShownIs
<1> DEFINE e == Processed(a)
           S == paper.subtotal
           T == paper.total
           x == paper.sst + paper.service
           d == paper.rounding
<1>2. paper \in Printed /\ slip \in Slips /\ x > 0
  BY DEF Traced, Taxed
<1>3. S \in Nat \ {0} /\ x \in Nat /\ T \in Nat /\ d \in -2..2 /\ TaxTotalSen(paper) = x + d
  <2>1. /\ S \in Nat \ {0} /\ paper.sst \in Nat /\ paper.service \in Nat /\ d \in -2..2
        /\ T = S + paper.sst + paper.service
    BY <1>2, PaperIs
  <2> QED
    BY <2>1 DEF TaxTotalSen
<1>4. e.subtotal = S /\ e.total \in {T, T + d} /\ TaxTotalSen(e) \in {x, x + d}
  <2>1. CASE slip = "no_subtotal"
    <3>1. /\ e.total = T /\ TaxTotalSen(e) = x + d
          /\ e.subtotal = S \/ TotalMismatch(e)
      BY <1>2, <2>1, NoSubtotal
    <3>2. ~TotalMismatch(e)
      BY <1>1 DEF ValidateReceipt
    <3> QED
      BY <3>1, <3>2
  <2>2. CASE slip # "no_subtotal"
    <3>1. NearFigures(Totalled(a), paper)
      BY <1>2, <2>2, TotalledFigures
    <3> QED
      BY <1>2, <3>1, NearStay
  <2> QED
    BY <2>1, <2>2
<1>5. TaxTotalSen(rec) = TaxTotalSen(e) /\ rec.total = e.total
  BY <1>1 DEF TaxTotalSen
<1>6. rec.subtotal = S
  <2>1. rec.subtotal = e.subtotal \/ e.subtotal <= 0
    BY <1>1
  <2> HIDE DEF e
  <2> QED
    BY <1>3, <1>4, <2>1
<1> HIDE DEF e, S, T, x, d
<1>7. SenClose(rec.subtotal, S) /\ SenClose(rec.total, T) /\ SenClose(TaxTotalSen(rec), x + d)
  BY <1>3, <1>4, <1>5, <1>6 DEF SenClose
<1> QED
  BY <1>3, <1>7 DEF S, T

LEMMA CanRepairPaper == Repairable <=> CanRepair(paper)
BY DEF Repairable, CanRepair

\* Lines shown without a warning add up to the subtotal, for every receipt within
\* the rates that the repairs expect.
THEOREM ReceiptLines == Spec => []LinesAddUp
<1> SUFFICES Traced => LinesAddUp
  BY ReceiptTraced, PTL
<1> SUFFICES ASSUME Traced, Shown, slip # "unnamed", slip = "summary_as_line" => Repairable
             PROVE  SenClose(ItemsSumSen(rec.items), rec.subtotal)
  BY DEF LinesAddUp
<1>1. PICK a \in Reading(slip, paper) :
        LET e == Processed(a)
        IN  /\ e \in Scanned /\ warnings = ValidateReceipt(e)
            /\ rec.sst = e.sst /\ rec.service = e.service /\ rec.rounding = e.rounding
            /\ rec.total = e.total /\ rec.items = e.items
            /\ rec.subtotal = e.subtotal \/ e.subtotal <= 0
  BY ShownIs
<1> DEFINE e == Processed(a)
           sum == ItemsSumSen(e.items)
<1>2. paper \in Printed /\ slip \in Slips
  BY DEF Traced
<1>3. SenClose(sum, e.subtotal) /\ e.subtotal > 0
  BY <1>2, CanRepairPaper, LinesAfter
<1>4. ItemsSumSen(rec.items) = sum /\ (rec.subtotal = e.subtotal \/ e.subtotal <= 0) /\ e.subtotal \in Int
  BY <1>1 DEF Scanned
<1> HIDE DEF sum, e
<1> QED
  BY <1>3, <1>4

\* A line that picked up a summary figure has its menu price again, however the
\* others are priced.
THEOREM ReceiptPrices == Spec => []InclusivePriceRestored
<1> SUFFICES Traced => InclusivePriceRestored
  BY ReceiptTraced, PTL
<1> SUFFICES ASSUME Traced, stage = "normalize", slip = "summary_as_line", ~NetPrices, Repairable,
                    NEW i \in DOMAIN paper.items
             PROVE  SenClose(rec.items[i].line, paper.items[i].line)
  BY DEF InclusivePriceRestored
<1>1. PICK a \in Reading(slip, paper) : OnItsWay(a)
  BY DEF Traced
<1>2. paper \in Printed /\ rec = Lined(a)
  BY <1>1 DEF Traced, OnItsWay
<1>3. \E k \in DOMAIN paper.items :
        /\ rec.items[k].line = paper.items[k].line + (paper.total - ItemsSumSen(paper.items))
        /\ \A j \in DOMAIN paper.items \ {k} : rec.items[j].line = paper.items[j].line
  <2>1. a \in Reading("summary_as_line", paper) /\ CanRepair(paper)
    BY CanRepairPaper
  <2> QED
    BY <1>2, <2>1, SummaryLineRepaired
<1>4. ItemsSumSen(paper.items) = paper.total /\ paper.total \in Nat
  <2>1. /\ paper.subtotal \in Nat /\ paper.sst \in Nat /\ paper.service \in Nat
        /\ paper.total = paper.subtotal + paper.sst + paper.service
        /\ ItemsSumSen(paper.items) \in {paper.subtotal, paper.total}
    BY <1>2, PaperIs
  <2>2. paper.total \in Nat
    BY <2>1
  <2> QED
    BY <2>1, <2>2 DEF NetPrices
<1>5. \A j \in DOMAIN paper.items : paper.items[j].line \in Nat
  BY <1>2, PaperLines
<1> DEFINE more == paper.total - ItemsSumSen(paper.items)
<1>6. more = 0
  <2> DEFINE T == paper.total
  <2>1. T - T = 0
    BY <1>4
  <2> QED
    BY <1>4, <2>1
<1> HIDE DEF more
<1>7. PICK k \in DOMAIN paper.items :
        /\ rec.items[k].line = paper.items[k].line + more
        /\ \A j \in DOMAIN paper.items \ {k} : rec.items[j].line = paper.items[j].line
  BY <1>3 DEF more
<1>8. rec.items[i].line = paper.items[i].line
  BY <1>5, <1>6, <1>7
<1> QED
  BY <1>5, <1>8 DEF SenClose

\* A correct reading comes through the repairs unharmed, for every receipt within
\* the rates that they expect.
THEOREM ReceiptKept == Spec => []CorrectReadingKept
<1> SUFFICES Traced => CorrectReadingKept
  BY ReceiptTraced, PTL
<1> SUFFICES ASSUME Traced, Shown, slip = "none"
             PROVE  /\ warnings = {}
                    /\ rec.subtotal = paper.subtotal /\ rec.total = paper.total
                    /\ TaxTotalSen(rec) = TaxTotalSen(paper)
                    /\ ItemsSumSen(rec.items) = rec.subtotal
                    /\ IF NetPrices
                       THEN rec.items = paper.items
                       ELSE \A i \in DOMAIN paper.items :
                              2 * (rec.items[i].line - RoundDiv(paper.items[i].line * paper.subtotal, paper.total))
                                  \in -Len(paper.items)..Len(paper.items)
  BY DEF CorrectReadingKept
<1>1. PICK a \in Reading(slip, paper) :
        LET e == Processed(a)
        IN  /\ e \in Scanned /\ warnings = ValidateReceipt(e)
            /\ rec.sst = e.sst /\ rec.service = e.service /\ rec.rounding = e.rounding
            /\ rec.total = e.total /\ rec.items = e.items
            /\ rec.subtotal = e.subtotal \/ e.subtotal <= 0
  BY ShownIs
<1> DEFINE q == Totalled(a)
           l == Lined(a)
           n == Netted(a)
           e == Processed(a)
           old == ItemsSumSen(paper.items)
           S == paper.subtotal
           T == paper.total
           x == paper.sst + paper.service
           d == paper.rounding
<1>2. paper \in Printed /\ slip \in Slips /\ slip \in ExactSlips
      /\ slip \in FigureSlips /\ slip \notin {"unnamed", "no_subtotal", "summary_as_line"}
  BY DEF Traced, Slips, ExactSlips, FigureSlips
<1>3. q \in Scanned /\ l \in Scanned /\ n \in Scanned
  BY <1>2, ProcessedType
<1>4. q.items = paper.items
  BY <1>2, FigureSlipItems, ProcessedType, TotalsType DEF Totalled
<1>5. /\ S \in Nat \ {0} /\ x \in Nat /\ d \in -2..2 /\ T = S + x /\ old \in {S, T}
      /\ paper.items # <<>> /\ T \in Nat
  <2>1. /\ S \in Nat \ {0} /\ paper.sst \in Nat /\ paper.service \in Nat /\ d \in -2..2
        /\ T = S + paper.sst + paper.service /\ old \in {S, T} /\ paper.items # <<>>
    BY <1>2, PaperIs
  <2> HIDE DEF old
  <2> QED
    BY <2>1
<1>6. ExactFigures(q, paper) /\ ExactFigures(e, paper)
  BY <1>2, TotalledFigures, ExactStay
<1>7. l = q
  <2>1. q.total >= ItemsSumSen(q.items)
    <3>1. q.total = T /\ ItemsSumSen(q.items) = old
      BY <1>4, <1>6 DEF ExactFigures
    <3> HIDE DEF q, old
    <3> QED
      BY <1>5, <3>1
  <2> QED
    BY <1>3, <2>1, NotRepaired DEF Lined
<1>8. n.items = IF Gross(l) THEN ScaleItemsToNet(paper.items, S, old) ELSE paper.items
  <2>1. l.items = paper.items /\ l.subtotal = S
    BY <1>4, <1>6, <1>7 DEF ExactFigures
  <2> QED
    BY <1>3, <2>1, NormalizedIs DEF Netted
<1>9. e.items = n.items
  BY <1>3, EnrichedIs DEF Processed
<1>10. l.items = paper.items /\ l.subtotal = S /\ l.sst + l.service = x /\ l.rounding = d /\ l.total = T
  BY <1>4, <1>6, <1>7 DEF ExactFigures
<1>11. TaxTotalSen(l) = x + d
  BY <1>10 DEF TaxTotalSen
<1>12. Gross(l) <=> ~NetPrices
  <2>1. NetPrices <=> old = S
    BY DEF NetPrices
  <2>2. Gross(l) <=> S > 0 /\ x > 0 /\ old > S /\ SenClose(old, T) /\ SenClose(S + (x + d), T)
    <3>1. l.total # 0
      BY <1>5, <1>10
    <3> QED
      BY <1>10, <1>11, <3>1 DEF Gross
  <2> HIDE DEF old, S, T, x, d
  <2> QED
    BY <1>5, <2>1, <2>2 DEF SenClose
<1>13. rec.subtotal = S /\ rec.total = T /\ TaxTotalSen(rec) = x + d
  <2>1. e.subtotal = S /\ e.total = T /\ e.sst + e.service = x /\ e.rounding = d
    BY <1>6 DEF ExactFigures
  <2>2. rec.subtotal = S
    BY <1>1, <1>5, <2>1
  <2> QED
    BY <1>1, <2>1, <2>2 DEF TaxTotalSen
<1>14. TaxTotalSen(paper) = x + d
  BY DEF TaxTotalSen
<1>15. /\ ItemsSumSen(rec.items) = S
       /\ IF NetPrices
          THEN rec.items = paper.items
          ELSE \A i \in DOMAIN paper.items :
                 2 * (rec.items[i].line - RoundDiv(paper.items[i].line * S, T))
                     \in -Len(paper.items)..Len(paper.items)
  <2>1. CASE NetPrices
    <3>1. rec.items = paper.items
      BY <1>1, <1>8, <1>9, <1>12, <2>1
    <3> QED
      BY <2>1, <3>1 DEF NetPrices
  <2>2. CASE ~NetPrices
    <3>1. old = T
      BY <1>5, <2>2 DEF NetPrices
    <3>2. old > 0 /\ old <= 2 * S
      BY <1>2, <1>7, <1>10, <1>12, <2>2, GrossIsInclusive
    <3>3. paper.items \in Seq(Entries)
      BY <1>3, <1>4 DEF Scanned
    <3>4. \A i \in DOMAIN paper.items : paper.items[i].line \in Nat
      BY <1>2, PaperLines
    <3>5. /\ ItemsSumSen(ScaleItemsToNet(paper.items, S, old)) = S
          /\ \A i \in DOMAIN paper.items :
               2 * (ScaleItemsToNet(paper.items, S, old)[i].line - RoundDiv(paper.items[i].line * S, old))
                   \in -Len(paper.items)..Len(paper.items)
      BY <1>5, <3>2, <3>3, <3>4, LinesScaled
    <3>6. rec.items = ScaleItemsToNet(paper.items, S, old)
      BY <1>1, <1>8, <1>9, <1>12, <2>2
    <3> QED
      BY <2>2, <3>1, <3>5, <3>6
  <2> QED
    BY <2>1, <2>2
<1>16. warnings = {}
  <2>1. e.items # <<>>
    <3>1. DOMAIN l.items = DOMAIN n.items /\ n.items \in Seq(Entries)
      <4>1. SameItems(n.items, l.items)
        BY <1>3, NormalizeType DEF Netted
      <4> QED
        BY <4>1 DEF SameItems
    <3>2. paper.items \in Seq(PaperItems)
      BY <1>2, PaperIs
    <3> QED
      BY <1>5, <1>9, <1>10, <3>1, <3>2, NotEmpty
  <2>2. e.subtotal = S /\ e.total = T /\ TaxTotalSen(e) = x + d
    BY <1>6 DEF ExactFigures, TaxTotalSen
  <2> HIDE DEF e, S, T, x, d
  <2>3. ~(e.total <= 0)
    BY <1>5, <2>2
  <2>4. ~TotalMismatch(e)
    BY <1>5, <2>2 DEF TotalMismatch, SenClose
  <2> QED
    BY <1>1, <2>1, <2>3, <2>4 DEF ValidateReceipt, e
<1> QED
  BY <1>13, <1>14, <1>15, <1>16

=============================================================================
