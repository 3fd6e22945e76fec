----------------------------- MODULE SumTheorems -----------------------------
(***************************************************************************)
(* Sums over finite sets.  A sum is defined by recursion over subsets       *)
(* (MapThenSumSet); the facts below are what the proofs about tallies,       *)
(* spending and voting power need of it.  Inductions are written as "there   *)
(* is no least counterexample".                                            *)
(***************************************************************************)
EXTENDS Integers, FiniteSets, FiniteSetsExt, FiniteSetTheorems, WellFoundedInduction, TLAPS

Pick(s) == CHOOSE x \in s : TRUE

\* it[s] is the sum of f over s, for every subset s of A.
IsSum(f, A, it) ==
    it = [s \in SUBSET A |-> IF s = {} THEN 0 ELSE f[Pick(s)] + it[s \ {Pick(s)}]]

(* Every nonempty set of natural numbers has a least one.                    *)
LEMMA LeastNat == ASSUME NEW T \in SUBSET Nat, T # {} PROVE \E x \in T : \A y \in T : x <= y
  <1> DEFINE R == {ss \in Nat \X Nat : ss[1] < ss[2]}
  <1>1. IsWellFoundedOn(R, Nat)
    BY NatLessThanWellFounded, Zenon DEF OpToRel
  <1>2. PICK x \in T : \A y \in T : ~(<<y, x>> \in R)
    <2> HIDE DEF R
    <2>1. QED
      BY <1>1, WFMin, Zenon
  <1>3. ASSUME NEW y \in T PROVE x <= y
    <2>1. x \in Nat /\ y \in Nat /\ <<y, x>> \in Nat \X Nat
      OBVIOUS
    <2>2. ~(y < x)
      BY <1>2, <2>1
    <2>3. QED
      BY <2>1, <2>2
  <1>4. QED
    BY <1>3

(* A set of natural numbers with 0 and the successor of each of its members   *)
(* has all natural numbers.                                                  *)
LEMMA Inductive ==
    ASSUME NEW I \in SUBSET Nat, 0 \in I, \A n \in I : n + 1 \in I PROVE I = Nat
  <1> SUFFICES ASSUME Nat \ I # {} PROVE FALSE
    OBVIOUS
  <1>1. PICK n \in Nat \ I : \A m \in Nat \ I : n <= m
    BY LeastNat
  <1>2. n # 0 /\ n - 1 \in Nat /\ (n - 1) + 1 = n
    BY <1>1
  <1>3. n - 1 \in I
    BY <1>1, <1>2
  <1>4. QED
    BY <1>1, <1>2, <1>3

(* Something is picked from a nonempty set.                                  *)
LEMMA PickOne == ASSUME NEW s, s # {} PROVE Pick(s) \in s
  BY DEF Pick

(* The picked element leaves a smaller set.                                  *)
LEMMA PickLeaves ==
    ASSUME NEW A, IsFiniteSet(A), NEW s \in SUBSET A, s # {}
    PROVE  \E x \in s, r \in SUBSET A :
              /\ x = Pick(s) /\ r = s \ {x}
              /\ Cardinality(s) \in Nat /\ Cardinality(r) \in Nat
              /\ Cardinality(r) = Cardinality(s) - 1
  <1>1. PICK x \in s : x = Pick(s)
    BY PickOne
  <1>2. PICK r \in SUBSET A : r = s \ {x}
    OBVIOUS
  <1>3. IsFiniteSet(s) /\ IsFiniteSet(r)
    BY FS_Subset
  <1>4. Cardinality(s) \in Nat /\ Cardinality(r) \in Nat
    BY <1>3, FS_CardinalityType
  <1>5. Cardinality(r) = Cardinality(s) - 1
    BY <1>2, <1>3, FS_RemoveElement
  <1>6. QED
    BY <1>1, <1>2, <1>4, <1>5

(* What IsSum says set by set.                                               *)
LEMMA SumEmpty == ASSUME NEW f, NEW A, NEW it, IsSum(f, A, it) PROVE it[{}] = 0
  BY DEF IsSum

LEMMA SumStep ==
    ASSUME NEW f, NEW A, NEW it, IsSum(f, A, it), NEW s \in SUBSET A, s # {},
           NEW x, x = Pick(s), NEW r, r = s \ {x}
    PROVE  it[s] = f[x] + it[r]
  <1>1. \A q \in SUBSET A : it[q] = IF q = {} THEN 0 ELSE f[Pick(q)] + it[q \ {Pick(q)}]
    BY DEF IsSum
  <1>2. QED
    BY <1>1

(* Every function has a sum over the subsets of a finite set.                *)
LEMMA SumExists == ASSUME NEW f, NEW A, IsFiniteSet(A) PROVE \E it : IsSum(f, A, it)
  <1> DEFINE Small(n) == {s \in SUBSET A : Cardinality(s) <= n}
             UpTo(n, it) == it = [s \in Small(n) |->
                IF s = {} THEN 0 ELSE f[Pick(s)] + it[s \ {Pick(s)}]]
             I == {n \in Nat : \E it : UpTo(n, it)}
  <1>1. \A s \in SUBSET A : IsFiniteSet(s) /\ Cardinality(s) \in Nat
    BY FS_Subset, FS_CardinalityType
  <1>2. 0 \in I
    <2>1. \A s \in Small(0) : s = {}
      BY <1>1, FS_EmptySet
    <2>2. UpTo(0, [s \in Small(0) |-> 0])
      BY <2>1
    <2>3. QED
      BY <2>2
  <1>3. ASSUME NEW n \in I PROVE n + 1 \in I
    <2>1. PICK it : UpTo(n, it)
      OBVIOUS
    <2> DEFINE val(s) == IF s = {} THEN 0 ELSE f[Pick(s)] + it[s \ {Pick(s)}]
               jt == [s \in Small(n + 1) |-> val(s)]
    <2>2. \A s \in Small(n) : s \in Small(n + 1) /\ it[s] = val(s)
      <3>1. \A s \in Small(n) : s \in Small(n + 1)
        BY <1>1
      <3>2. \A s \in Small(n) : it[s] = val(s)
        BY <2>1
      <3>3. QED
        BY <3>1, <3>2
    <2>3. \A s \in Small(n) : jt[s] = it[s]
      BY <2>2
    <2>4. \A s \in Small(n + 1) : s # {} => s \ {Pick(s)} \in Small(n)
      <3> SUFFICES ASSUME NEW s \in Small(n + 1), s # {} PROVE s \ {Pick(s)} \in Small(n)
        OBVIOUS
      <3>1. PICK x \in s, r \in SUBSET A :
               /\ x = Pick(s) /\ r = s \ {x}
               /\ Cardinality(s) \in Nat /\ Cardinality(r) \in Nat
               /\ Cardinality(r) = Cardinality(s) - 1
        BY PickLeaves
      <3>2. Cardinality(r) <= n
        BY <3>1
      <3>3. QED
        BY <3>1, <3>2
    <2>5. \A s \in Small(n + 1) : jt[s] = IF s = {} THEN 0 ELSE f[Pick(s)] + jt[s \ {Pick(s)}]
      BY <2>3, <2>4
    <2>6. UpTo(n + 1, jt)
      <3> HIDE DEF val
      <3>1. jt = [s \in Small(n + 1) |-> jt[s]]
        OBVIOUS
      <3> HIDE DEF jt, Small
      <3>2. QED
        BY <2>5, <3>1
    <2>7. n + 1 \in Nat
      OBVIOUS
    <2> HIDE DEF UpTo, jt
    <2>8. QED
      BY <2>6, <2>7
  <1>4. PICK n \in Nat : n = Cardinality(A)
    BY FS_CardinalityType
  <1>5. n \in I
    <2>1. I \in SUBSET Nat
      OBVIOUS
    <2> HIDE DEF I
    <2>2. QED
      BY <1>2, <1>3, <2>1, Inductive
  <1>6. Small(n) = SUBSET A
    BY <1>1, <1>4, FS_Subset
  <1>7. PICK it : UpTo(n, it)
    BY <1>5
  <1>8. QED
    BY <1>6, <1>7 DEF IsSum

(* Induction on the size of a subset.                                        *)
LEMMA BySize ==
    ASSUME NEW A, IsFiniteSet(A), NEW P \in SUBSET SUBSET A, {} \in P,
           \A n \in Nat : (\A q \in SUBSET A : Cardinality(q) = n => q \in P)
                             => \A s \in SUBSET A : Cardinality(s) = n + 1 => s \in P
    PROVE  P = SUBSET A
  <1> DEFINE I == {n \in Nat : \A s \in SUBSET A : Cardinality(s) = n => s \in P}
  <1>1. \A s \in SUBSET A : IsFiniteSet(s) /\ Cardinality(s) \in Nat
    BY FS_Subset, FS_CardinalityType
  <1>2. 0 \in I
    BY <1>1, FS_EmptySet
  <1>3. ASSUME NEW n \in I PROVE n + 1 \in I
    <2>1. n \in Nat /\ n + 1 \in Nat /\ \A q \in SUBSET A : Cardinality(q) = n => q \in P
      OBVIOUS
    <2>2. \A s \in SUBSET A : Cardinality(s) = n + 1 => s \in P
      BY <2>1, Zenon
    <2>3. QED
      BY <2>1, <2>2
  <1>4. I = Nat
    <2>1. I \in SUBSET Nat
      OBVIOUS
    <2> HIDE DEF I
    <2>2. QED
      BY <1>2, <1>3, <2>1, Inductive
  <1>5. \A s \in SUBSET A : s \in P
    BY <1>1, <1>4
  <1>6. QED
    BY <1>5

(* A property of subsets that passes from a set without its picked element to *)
(* the set holds of all subsets of a finite set.                             *)
LEMMA ByPicking ==
    ASSUME NEW A, IsFiniteSet(A), NEW P \in SUBSET SUBSET A, {} \in P,
           \A s \in SUBSET A, x \in A, r \in P :
              s # {} /\ x \in s /\ x = Pick(s) /\ r = s \ {x} => s \in P
    PROVE  P = SUBSET A
  <1>1. ASSUME NEW n \in Nat, \A q \in SUBSET A : Cardinality(q) = n => q \in P,
               NEW s \in SUBSET A, Cardinality(s) = n + 1
        PROVE  s \in P
    <2>1. s # {}
      BY <1>1, FS_EmptySet
    <2>2. PICK x \in s, r \in SUBSET A :
             /\ x = Pick(s) /\ r = s \ {x}
             /\ Cardinality(s) \in Nat /\ Cardinality(r) \in Nat
             /\ Cardinality(r) = Cardinality(s) - 1
      BY <2>1, PickLeaves
    <2>3. Cardinality(r) = n
      BY <1>1, <2>2
    <2>4. r \in P /\ x \in A
      BY <1>1, <2>3
    <2>5. QED
      BY <2>1, <2>2, <2>4
  <1>2. QED
    BY <1>1, BySize, Zenon

(* The sums of two functions that agree on B agree on the subsets of B.       *)
LEMMA SumAgrees ==
    ASSUME NEW f, NEW A, NEW it, IsSum(f, A, it), IsFiniteSet(A),
           NEW g, NEW B \in SUBSET A, NEW jt, IsSum(g, B, jt), \A x \in B : f[x] = g[x]
    PROVE  \A s \in SUBSET B : jt[s] = it[s]
  <1> DEFINE P == {s \in SUBSET B : jt[s] = it[s]}
  <1>1. IsFiniteSet(B)
    BY FS_Subset
  <1>2. {} \in P
    BY SumEmpty
  <1>3. ASSUME NEW s \in SUBSET B, NEW x \in B, NEW r \in P, s # {}, x = Pick(s), r = s \ {x}
        PROVE  s \in P
    <2>1. jt[s] = g[x] + jt[r]
      BY <1>3, SumStep
    <2>2. s \in SUBSET A
      OBVIOUS
    <2>3. it[s] = f[x] + it[r]
      BY <1>3, <2>2, SumStep
    <2>4. QED
      BY <2>1, <2>3
  <1>4. P = SUBSET B
    <2>1. P \in SUBSET SUBSET B
      OBVIOUS
    <2> HIDE DEF P
    <2>2. QED
      BY <1>1, <1>2, <1>3, <2>1, ByPicking
  <1>5. QED
    BY <1>4

(* A sum of integers is an integer.                                          *)
LEMMA SumInteger ==
    ASSUME NEW A, IsFiniteSet(A), NEW f, \A x \in A : f[x] \in Int, NEW it, IsSum(f, A, it)
    PROVE  \A s \in SUBSET A : it[s] \in Int
  <1> DEFINE P == {s \in SUBSET A : it[s] \in Int}
  <1>1. {} \in P
    BY SumEmpty
  <1>2. ASSUME NEW s \in SUBSET A, NEW x \in A, NEW r \in P, s # {}, x = Pick(s), r = s \ {x}
        PROVE  s \in P
    <2>1. it[s] = f[x] + it[r]
      BY <1>2, SumStep
    <2>2. QED
      BY <2>1
  <1>3. P = SUBSET A
    <2>1. P \in SUBSET SUBSET A
      OBVIOUS
    <2> HIDE DEF P
    <2>2. QED
      BY <1>1, <1>2, <2>1, ByPicking
  <1>4. QED
    BY <1>3

(* An element is added to a sum whichever elements were picked before it.     *)
LEMMA SumAdd ==
    ASSUME NEW A, IsFiniteSet(A), NEW f, \A x \in A : f[x] \in Int, NEW it, IsSum(f, A, it)
    PROVE  \A s \in SUBSET A, a \in A : a \notin s => it[s \cup {a}] = it[s] + f[a]
  <1> DEFINE Adds(s) == \A a \in A : a \notin s => it[s \cup {a}] = it[s] + f[a]
             P == {s \in SUBSET A : Adds(s)}
  <1>1. \A s \in SUBSET A : IsFiniteSet(s) /\ Cardinality(s) \in Nat /\ it[s] \in Int
    BY FS_Subset, FS_CardinalityType, SumInteger
  <1>2. {} \in P
    <2> SUFFICES ASSUME NEW a \in A PROVE it[{a}] = it[{}] + f[a]
      OBVIOUS
    <2>1. Pick({a}) = a /\ {a} \ {a} = {} /\ {a} # {} /\ {a} \in SUBSET A
      BY PickOne
    <2>2. it[{a}] = f[a] + it[{}] /\ it[{}] = 0
      BY <2>1, SumStep, SumEmpty
    <2>3. QED
      BY <2>2
  <1>3. ASSUME NEW n \in Nat, \A q \in SUBSET A : Cardinality(q) = n => q \in P,
               NEW s \in SUBSET A, Cardinality(s) = n + 1
        PROVE  s \in P
    <2> SUFFICES ASSUME NEW a \in A, a \notin s PROVE it[s \cup {a}] = it[s] + f[a]
      OBVIOUS
    <2>1. \A q \in SUBSET A, b \in A : Cardinality(q) = n /\ b \notin q => it[q \cup {b}] = it[q] + f[b]
      BY <1>3
    <2> HIDE DEF P, Adds
    <2>2. PICK t \in SUBSET A : t = s \cup {a} /\ t # {}
      OBVIOUS
    <2>3. PICK x \in t : x = Pick(t)
      BY <2>2, PickOne
    <2>4. PICK u \in SUBSET A : u = t \ {x}
      OBVIOUS
    <2>5. it[t] = f[x] + it[u]
      <3>1. t # {}
        BY <2>2
      <3>2. QED
        BY <2>3, <2>4, <3>1, SumStep
    <2>6. it[u] \in Int /\ f[x] \in Int /\ f[a] \in Int /\ it[s] \in Int /\ IsFiniteSet(s)
      BY <1>1
    <2>7. CASE x = a
      <3>1. u = s
        BY <2>2, <2>4, <2>7
      <3>2. QED
        BY <2>2, <2>5, <2>6, <2>7, <3>1
    <2>8. CASE x # a
      <3>1. PICK r \in SUBSET A : r = s \ {x}
        OBVIOUS
      <3>2. x \in s /\ x \in A /\ s = r \cup {x} /\ x \notin r /\ a \notin r
        BY <2>2, <2>8, <3>1
      <3>3. Cardinality(r) = n
        <4>1. Cardinality(r) = Cardinality(s) - 1
          BY <2>6, <3>1, <3>2, FS_RemoveElement
        <4>2. QED
          BY <1>3, <4>1
      <3>4. it[s] = it[r] + f[x]
        BY <2>1, <3>2, <3>3
      <3>5. it[r \cup {a}] = it[r] + f[a]
        BY <2>1, <3>2, <3>3
      <3>6. u = r \cup {a}
        BY <2>2, <2>4, <2>8, <3>1
      <3>7. it[r] \in Int
        BY <1>1
      <3>8. QED
        BY <2>2, <2>5, <2>6, <3>4, <3>5, <3>6, <3>7
    <2>9. QED
      BY <2>7, <2>8
  <1>4. P = SUBSET A
    <2>1. P \in SUBSET SUBSET A
      OBVIOUS
    <2> HIDE DEF P
    <2>2. QED
      BY <1>2, <1>3, <2>1, BySize, Zenon
  <1>5. QED
    BY <1>4

-----------------------------------------------------------------------------
(* Functions and their totals.                                              *)

\* The sum of all values of f.
Total(f) == (CHOOSE it : IsSum(f, DOMAIN f, it))[DOMAIN f]

\* A function with integer values on the finite set A.
Summable(f, A) == IsFiniteSet(A) /\ DOMAIN f = A /\ \A x \in A : f[x] \in Int

(* The total is the sum over the whole domain.                               *)
LEMMA TotalIs ==
    ASSUME NEW f, NEW A, IsFiniteSet(A), DOMAIN f = A, NEW it, IsSum(f, A, it)
    PROVE  Total(f) = it[A]
  <1>1. PICK jt : jt = CHOOSE i : IsSum(f, A, i)
    OBVIOUS
  <1>2. IsSum(f, A, jt)
    BY <1>1, Zenon
  <1>3. jt[A] = it[A]
    BY <1>2, SumAgrees
  <1>4. QED
    BY <1>1, <1>3, Zenon DEF Total

(* The sum over the empty set, and of integers.                              *)
LEMMA TotalEmpty == ASSUME NEW f, DOMAIN f = {} PROVE Total(f) = 0
  <1>1. IsFiniteSet({})
    BY FS_EmptySet
  <1>2. PICK it : IsSum(f, {}, it)
    BY <1>1, SumExists
  <1>3. QED
    BY <1>1, <1>2, TotalIs, SumEmpty

LEMMA TotalInteger == ASSUME NEW f, NEW A, Summable(f, A) PROVE Total(f) \in Int
  <1>1. PICK it : IsSum(f, A, it)
    BY SumExists DEF Summable
  <1>2. QED
    BY <1>1, TotalIs, SumInteger DEF Summable

(* A sum of zeros.                                                           *)
LEMMA TotalZero ==
    ASSUME NEW A, IsFiniteSet(A), NEW f, DOMAIN f = A, \A x \in A : f[x] = 0
    PROVE  Total(f) = 0
  <1>1. PICK it : IsSum(f, A, it)
    BY SumExists
  <1> DEFINE P == {s \in SUBSET A : it[s] = 0}
  <1>2. {} \in P
    BY <1>1, SumEmpty
  <1>3. ASSUME NEW s \in SUBSET A, NEW x \in A, NEW r \in P, s # {}, x \in s, x = Pick(s), r = s \ {x}
        PROVE  s \in P
    <2>1. it[s] = f[x] + it[r]
      BY <1>1, <1>3, SumStep
    <2>2. QED
      BY <2>1
  <1> HIDE DEF P
  <1>4. P \in SUBSET SUBSET A
    BY DEF P
  <1>5. P = SUBSET A
    BY <1>2, <1>3, <1>4, ByPicking
  <1>6. it[A] = 0
    BY <1>5 DEF P
  <1>7. QED
    BY <1>1, <1>6, TotalIs

(* A sum of natural numbers is not negative.                                  *)
LEMMA TotalNat ==
    ASSUME NEW A, IsFiniteSet(A), NEW f \in [A -> Nat]
    PROVE  Total(f) >= 0
  <1>1. PICK it : IsSum(f, A, it)
    BY SumExists
  <1> DEFINE P == {s \in SUBSET A : it[s] \in Nat}
  <1>2. {} \in P
    BY <1>1, SumEmpty
  <1>3. ASSUME NEW s \in SUBSET A, NEW x \in A, NEW r \in P, s # {}, x = Pick(s), r = s \ {x}
        PROVE  s \in P
    <2>1. it[s] = f[x] + it[r]
      BY <1>1, <1>3, SumStep
    <2>2. QED
      BY <2>1
  <1> HIDE DEF P
  <1>4. P \in SUBSET SUBSET A
    BY DEF P
  <1>5. P = SUBSET A
    BY <1>2, <1>3, <1>4, ByPicking
  <1>6. it[A] \in Nat
    BY <1>5 DEF P
  <1>7. QED
    BY <1>1, <1>6, TotalIs

(* One more element.                                                         *)
LEMMA TotalAdd ==
    ASSUME NEW f, NEW A, Summable(f, A), NEW a, a \notin A,
           NEW B, B = A \cup {a}, NEW g, Summable(g, B), \A x \in A : f[x] = g[x]
    PROVE  Total(g) = Total(f) + g[a]
  <1>2. PICK it : IsSum(g, B, it)
    BY SumExists DEF Summable
  <1>3. PICK jt : IsSum(f, A, jt)
    BY SumExists DEF Summable
  <1>4. A \in SUBSET B /\ a \in B
    OBVIOUS
  <1>5. jt[A] = it[A]
    <2>1. \A x \in A : g[x] = f[x]
      OBVIOUS
    <2>2. IsFiniteSet(B) /\ A \in SUBSET A
      BY DEF Summable
    <2>3. \A s \in SUBSET A : jt[s] = it[s]
      BY <1>2, <1>3, <1>4, <2>1, <2>2, SumAgrees
    <2>4. QED
      BY <2>2, <2>3
  <1>6. it[A \cup {a}] = it[A] + g[a]
    BY <1>2, <1>4, SumAdd DEF Summable
  <1>7. Total(g) = it[B] /\ Total(f) = jt[A]
    BY <1>2, <1>3, TotalIs DEF Summable
  <1>8. QED
    BY <1>5, <1>6, <1>7

(* One value changed.                                                        *)
LEMMA TotalChange ==
    ASSUME NEW A, NEW f, Summable(f, A), NEW g, Summable(g, A), NEW a \in A,
           \A x \in A : x # a => f[x] = g[x]
    PROVE  Total(g) = Total(f) - f[a] + g[a]
  <1>1. PICK B \in SUBSET A : B = A \ {a}
    OBVIOUS
  <1>2. PICK h : h = [x \in B |-> f[x]]
    OBVIOUS
  <1>3. IsFiniteSet(B)
    BY FS_Subset DEF Summable
  <1>4. Summable(h, B) /\ a \notin B /\ A = B \cup {a}
    BY <1>1, <1>2, <1>3 DEF Summable
  <1>5. Total(f) = Total(h) + f[a]
    <2>1. \A x \in B : h[x] = f[x]
      BY <1>2
    <2>2. QED
      BY <1>4, <2>1, TotalAdd
  <1>6. Total(g) = Total(h) + g[a]
    <2>1. \A x \in B : h[x] = g[x]
      BY <1>1, <1>2
    <2>2. QED
      BY <1>4, <2>1, TotalAdd
  <1>7. Total(h) \in Int /\ f[a] \in Int /\ g[a] \in Int
    BY <1>4, TotalInteger DEF Summable
  <1>8. QED
    BY <1>5, <1>6, <1>7

(* Zeros add nothing.                                                        *)
LEMMA TotalSubset ==
    ASSUME NEW f, NEW A, Summable(f, A), NEW B \in SUBSET A, NEW g, DOMAIN g = B,
           \A x \in B : f[x] = g[x], \A x \in A \ B : f[x] = 0
    PROVE  Total(g) = Total(f)
  <1>1. IsFiniteSet(A) /\ IsFiniteSet(B)
    BY FS_Subset DEF Summable
  <1>2. PICK it : IsSum(f, A, it)
    BY <1>1, SumExists
  <1>3. PICK jt : IsSum(g, B, jt)
    BY <1>1, SumExists
  <1>4. jt[B] = it[B]
    <2>1. \A s \in SUBSET B : jt[s] = it[s]
      BY <1>1, <1>2, <1>3, SumAgrees
    <2>2. QED
      BY <2>1
  <1> DEFINE P == {s \in SUBSET A : it[B \cup s] = it[B]}
  <1>5. {} \in P
    <2>1. B \cup {} = B
      OBVIOUS
    <2>2. QED
      BY <2>1
  <1>6. ASSUME NEW s \in SUBSET A, NEW x \in A, NEW r \in P, s # {}, x \in s, x = Pick(s), r = s \ {x}
        PROVE  s \in P
    <2>1. CASE x \in B
      <3>1. B \cup s = B \cup r
        BY <1>6, <2>1
      <3>2. QED
        BY <3>1
    <2>2. CASE x \notin B
      <3>1. PICK q \in SUBSET A : q = B \cup r
        OBVIOUS
      <3>2. x \notin q /\ B \cup s = q \cup {x} /\ f[x] = 0
        BY <1>6, <2>2, <3>1
      <3>3. it[q \cup {x}] = it[q] + f[x]
        BY <1>1, <1>2, <3>2, SumAdd DEF Summable
      <3>4. it[q] \in Int
        BY <1>1, <1>2, SumInteger DEF Summable
      <3>5. it[q] = it[B]
        BY <3>1
      <3>6. it[q \cup {x}] = it[B]
        BY <3>2, <3>3, <3>4, <3>5
      <3>7. QED
        BY <3>2, <3>6
    <2>3. QED
      BY <2>1, <2>2
  <1> HIDE DEF P
  <1>7. P \in SUBSET SUBSET A
    BY DEF P
  <1>8. P = SUBSET A
    BY <1>1, <1>5, <1>6, <1>7, ByPicking
  <1>9. it[A] = it[B]
    <2>1. B \cup A = A /\ A \in P
      BY <1>8
    <2>2. QED
      BY <2>1 DEF P
  <1>10. QED
    BY <1>1, <1>2, <1>3, <1>4, <1>9, TotalIs DEF Summable

(* The sum of a sum of functions.                                            *)
LEMMA TotalPlus ==
    ASSUME NEW A, NEW f, Summable(f, A), NEW g, Summable(g, A), NEW h, Summable(h, A),
           \A x \in A : h[x] = f[x] + g[x]
    PROVE  Total(h) = Total(f) + Total(g)
  <1>1. IsFiniteSet(A)
    BY DEF Summable
  <1>2. PICK it : IsSum(f, A, it)
    BY <1>1, SumExists
  <1>3. PICK jt : IsSum(g, A, jt)
    BY <1>1, SumExists
  <1>4. PICK kt : IsSum(h, A, kt)
    BY <1>1, SumExists
  <1> DEFINE P == {s \in SUBSET A : kt[s] = it[s] + jt[s]}
  <1>5. {} \in P
    BY <1>2, <1>3, <1>4, SumEmpty
  <1>6. ASSUME NEW s \in SUBSET A, NEW x \in A, NEW r \in P, s # {}, x = Pick(s), r = s \ {x}
        PROVE  s \in P
    <2>1. it[s] = f[x] + it[r] /\ jt[s] = g[x] + jt[r] /\ kt[s] = h[x] + kt[r]
      BY <1>2, <1>3, <1>4, <1>6, SumStep
    <2>2. it[r] \in Int /\ jt[r] \in Int /\ f[x] \in Int /\ g[x] \in Int
      BY <1>1, <1>2, <1>3, SumInteger DEF Summable
    <2>3. kt[r] = it[r] + jt[r] /\ h[x] = f[x] + g[x]
      OBVIOUS
    <2>4. QED
      BY <2>1, <2>2, <2>3
  <1> HIDE DEF P
  <1>7. P \in SUBSET SUBSET A
    BY DEF P
  <1>8. P = SUBSET A
    BY <1>1, <1>5, <1>6, <1>7, ByPicking
  <1>9. kt[A] = it[A] + jt[A]
    BY <1>8 DEF P
  <1>10. QED
    BY <1>1, <1>2, <1>3, <1>4, <1>9, TotalIs DEF Summable

(* A sum of multiples.                                                       *)
LEMMA TotalTimes ==
    ASSUME NEW A, NEW f, Summable(f, A), NEW c \in Int, NEW h, DOMAIN h = A,
           \A x \in A : h[x] = f[x] * c
    PROVE  Total(h) = Total(f) * c
  <1>1. IsFiniteSet(A)
    BY DEF Summable
  <1>2. PICK it : IsSum(f, A, it)
    BY <1>1, SumExists
  <1>3. PICK jt : IsSum(h, A, jt)
    BY <1>1, SumExists
  <1> DEFINE P == {s \in SUBSET A : jt[s] = it[s] * c}
  <1>4. {} \in P
    BY <1>2, <1>3, SumEmpty
  <1>5. ASSUME NEW s \in SUBSET A, NEW x \in A, NEW r \in P, s # {}, x = Pick(s), r = s \ {x}
        PROVE  s \in P
    <2>1. it[s] = f[x] + it[r] /\ jt[s] = h[x] + jt[r]
      BY <1>2, <1>3, <1>5, SumStep
    <2>2. PICK u \in Int, v \in Int : u = it[r] /\ v = f[x]
      BY <1>1, <1>2, SumInteger DEF Summable
    <2>3. jt[r] = u * c /\ h[x] = v * c
      BY <2>2
    <2>4. (v + u) * c = v * c + u * c
      OBVIOUS
    <2>5. QED
      BY <2>1, <2>2, <2>3, <2>4
  <1> HIDE DEF P
  <1>6. P \in SUBSET SUBSET A
    BY DEF P
  <1>7. P = SUBSET A
    BY <1>1, <1>4, <1>5, <1>6, ByPicking
  <1>8. jt[A] = it[A] * c
    BY <1>7 DEF P
  <1>9. QED
    BY <1>1, <1>2, <1>3, <1>8, TotalIs DEF Summable

(* A sum of ones counts them.                                                *)
LEMMA TotalOnes ==
    ASSUME NEW A, IsFiniteSet(A), NEW f \in [A -> Nat], \A x \in A : f[x] <= 1
    PROVE  Total(f) = Cardinality({x \in A : f[x] > 0})
  <1>1. PICK it : IsSum(f, A, it)
    BY SumExists
  <1> DEFINE Ones(s) == {x \in s : f[x] > 0}
             P == {s \in SUBSET A : it[s] = Cardinality(Ones(s))}
  <1>2. {} \in P
    <2>1. Ones({}) = {}
      OBVIOUS
    <2>2. it[{}] = 0
      BY <1>1, SumEmpty
    <2>3. QED
      BY <2>1, <2>2, FS_EmptySet
  <1>3. ASSUME NEW s \in SUBSET A, NEW x \in A, NEW r \in P, s # {}, x \in s, x = Pick(s), r = s \ {x}
        PROVE  s \in P
    <2>1. it[s] = f[x] + it[r] /\ it[r] = Cardinality(Ones(r))
      BY <1>1, <1>3, SumStep
    <2>2. IsFiniteSet(Ones(r)) /\ Cardinality(Ones(r)) \in Nat
      <3>1. Ones(r) \subseteq A
        OBVIOUS
      <3>2. QED
        BY <3>1, FS_Subset, FS_CardinalityType
    <2>3. CASE f[x] = 0
      <3>1. Ones(s) = Ones(r)
        BY <1>3, <2>3
      <3> HIDE DEF Ones
      <3>2. QED
        BY <2>1, <2>2, <2>3, <3>1
    <2>4. CASE f[x] = 1
      <3>1. Ones(s) = Ones(r) \cup {x} /\ x \notin Ones(r)
        BY <1>3, <2>4
      <3> HIDE DEF Ones
      <3>2. Cardinality(Ones(s)) = Cardinality(Ones(r)) + 1
        BY <2>2, <3>1, FS_AddElement
      <3>3. QED
        BY <2>1, <2>2, <2>4, <3>2
    <2>5. f[x] = 0 \/ f[x] = 1
      <3>1. f[x] \in Nat /\ f[x] <= 1
        OBVIOUS
      <3>2. QED
        BY <3>1
    <2>6. QED
      BY <2>3, <2>4, <2>5
  <1> HIDE DEF P
  <1>4. P \in SUBSET SUBSET A
    BY DEF P
  <1>5. P = SUBSET A
    BY <1>2, <1>3, <1>4, ByPicking
  <1>6. it[A] = Cardinality({x \in A : f[x] > 0})
    BY <1>5 DEF P
  <1>7. QED
    BY <1>1, <1>6, TotalIs

(* A sum does not depend on how what is added is numbered.                    *)
LEMMA TotalReindex ==
    ASSUME NEW A, IsFiniteSet(A), NEW B, NEW g, Summable(g, B), NEW h \in [A -> B],
           \A x, y \in A : h[x] = h[y] => x = y, \A y \in B : \E x \in A : h[x] = y,
           NEW f, DOMAIN f = A, \A x \in A : f[x] = g[h[x]]
    PROVE  Total(f) = Total(g)
  <1>1. PICK it : IsSum(f, A, it)
    BY SumExists
  <1>2. PICK jt : IsSum(g, B, jt)
    BY SumExists DEF Summable
  <1> DEFINE Img(s) == {h[x] : x \in s}
             P == {s \in SUBSET A : it[s] = jt[Img(s)]}
  <1>3. {} \in P
    <2>1. ASSUME NEW y \in Img({}) PROVE FALSE
      OBVIOUS
    <2> HIDE DEF Img
    <2>2. Img({}) = {}
      BY <2>1
    <2>3. QED
      BY <1>1, <1>2, <2>2, SumEmpty
  <1>4. ASSUME NEW s \in SUBSET A, NEW x \in A, NEW r \in P, s # {}, x \in s, x = Pick(s), r = s \ {x}
        PROVE  s \in P
    <2>1. it[s] = f[x] + it[r]
      BY <1>1, <1>4, SumStep
    <2>2. PICK q \in SUBSET B : q = Img(r)
      <3>1. \A z \in Img(r) : z \in B
        OBVIOUS
      <3>2. QED
        BY <3>1, Zenon
    <2>3. PICK y \in B : y = h[x]
      OBVIOUS
    <2>4. y \notin q /\ Img(s) = q \cup {y}
      BY <1>4, <2>2, <2>3
    <2>5. it[r] = jt[q]
      BY <2>2
    <2> HIDE DEF Img
    <2>6. jt[q \cup {y}] = jt[q] + g[y]
      BY <1>2, <2>4, SumAdd DEF Summable
    <2>7. jt[q] \in Int /\ g[y] \in Int
      BY <1>2, SumInteger DEF Summable
    <2>8. f[x] = g[y]
      BY <2>3
    <2>9. it[s] = jt[q \cup {y}]
      BY <2>1, <2>5, <2>6, <2>7, <2>8
    <2>10. QED
      BY <2>4, <2>9, Zenon
  <1>5. Img(A) = B
    OBVIOUS
  <1> HIDE DEF Img, P
  <1>6. P \in SUBSET SUBSET A
    BY DEF P
  <1>7. P = SUBSET A
    BY <1>3, <1>4, <1>6, ByPicking
  <1>8. it[A] = jt[B]
    BY <1>5, <1>7 DEF P
  <1>9. QED
    BY <1>1, <1>2, <1>8, TotalIs DEF Summable
=============================================================================
