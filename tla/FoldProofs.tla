----------------------------- MODULE FoldProofs -----------------------------
(***************************************************************************)
(* Facts about sums over finite sets, about enumerating finite sets of     *)
(* numbers and about folds over sequences, that the proofs about the       *)
(* modules need.  A sum is the operator SumFunctionOnSet of the community  *)
(* modules and a fold their FoldLeft; both are defined by recursion on     *)
(* sets.  The induction is over sets of numbers: a set that holds 0 and    *)
(* with each number the next holds all of them, which follows from every   *)
(* set of numbers having a least element, which is what the library says   *)
(* of the order of the numbers being well-founded.                         *)
(***************************************************************************)
EXTENDS Integers, FiniteSetTheorems, WellFoundedInduction, Functions, FiniteSetsExt, TLAPS

(* Every set of numbers that is not empty has a least element.             *)
LEMMA LeastNat ==
  ASSUME NEW T, T \subseteq Nat, T # {}
  PROVE  \E n \in T : \A m \in T : n <= m
<1> DEFINE R == {ss \in Nat \X Nat : ss[1] < ss[2]}
<1>1. IsWellFoundedOn(R, Nat)
  BY NatLessThanWellFounded, Zenon DEF OpToRel
<1> HIDE DEF R
<1>2. PICK n \in T : \A m \in T : ~ (<<m, n>> \in R)
  BY <1>1, WFMin
<1>3. \A m \in T : ~ (m < n)
  BY <1>2 DEF R
<1>. QED
  BY <1>3

(* Induction: a set that holds 0 and with each number the next.            *)
LEMMA InductionOnNat ==
  ASSUME NEW T, 0 \in T, \A n \in Nat : n \in T => n + 1 \in T
  PROVE  Nat \subseteq T
<1> SUFFICES ASSUME NEW k \in Nat, k \notin T PROVE FALSE
  OBVIOUS
<1>1. PICK n \in Nat \ T : \A m \in Nat \ T : n <= m
  BY LeastNat
<1>2. n # 0 /\ n - 1 \in Nat
  BY <1>1
<1>3. n - 1 \in T
  BY <1>1, <1>2
<1>. QED
  BY <1>1, <1>2, <1>3

(* The element of a set that the recursion takes out.                      *)
Chosen(s) == CHOOSE x \in s : TRUE

(* What is chosen from a set is in it.                                     *)
LEMMA ChosenIn == ASSUME NEW s, s # {} PROVE Chosen(s) \in s
  BY DEF Chosen

(* The body of the recursive function that sums, and the function on the   *)
(* subsets of S.                                                           *)
SumBody(f, g, s) == IF s = {} THEN 0 ELSE f[Chosen(s)] + g[s \ {Chosen(s)}]
Summing(f, S) == CHOOSE g : g = [s \in SUBSET S |-> SumBody(f, g, s)]

(* The sum of the community modules is the value of the recursive function *)
(* at the whole set.                                                       *)
LEMMA SumIsSumming ==
  ASSUME NEW S, NEW f
  PROVE  SumFunctionOnSet(f, S) = Summing(f, S)[S]
  BY DEF SumFunctionOnSet, FoldFunctionOnSet, MapThenFoldSet, Summing, SumBody, Chosen

(* The sizes of the subsets of a finite set, and that taking an element    *)
(* out makes one smaller.                                                  *)
LEMMA Smaller ==
  ASSUME NEW S, IsFiniteSet(S), NEW s \in SUBSET S
  PROVE  /\ Cardinality(s) \in Nat /\ Cardinality(s) <= Cardinality(S)
         /\ Cardinality(s) = 0 <=> s = {}
         /\ s # {} => /\ Chosen(s) \in s
                      /\ s \ {Chosen(s)} \in SUBSET S
                      /\ Cardinality(s \ {Chosen(s)}) = Cardinality(s) - 1
<1>1. IsFiniteSet(s) /\ Cardinality(s) <= Cardinality(S)
  BY FS_Subset
<1>2. Cardinality(s) \in Nat
  BY <1>1, FS_CardinalityType
<1>3. Cardinality(s) = 0 <=> s = {}
  BY <1>1, FS_EmptySet
<1>4. ASSUME s # {}
      PROVE  /\ Chosen(s) \in s /\ s \ {Chosen(s)} \in SUBSET S
             /\ Cardinality(s \ {Chosen(s)}) = Cardinality(s) - 1
  <2>1. Chosen(s) \in s
    BY <1>4, ChosenIn
  <2>. QED
    BY <1>1, <2>1, FS_RemoveElement
<1>. QED
  BY <1>1, <1>2, <1>3, <1>4

(* A set of size 0 is empty.                                               *)
LEMMA NoElements ==
  ASSUME NEW S, IsFiniteSet(S), NEW s \in SUBSET S, Cardinality(s) <= 0
  PROVE  s = {}
<1>1. Cardinality(s) \in Nat /\ (Cardinality(s) = 0 <=> s = {})
  BY Smaller
<1>. QED
  BY <1>1

(* The recursive function is what its recursion says: a function that      *)
(* satisfies the recursion exists. It is built for the subsets of one size *)
(* after the other.                                                        *)
LEMMA SummingExists ==
  ASSUME NEW S, IsFiniteSet(S), NEW f
  PROVE  Summing(f, S) = [s \in SUBSET S |-> SumBody(f, Summing(f, S), s)]
<1> DEFINE Good(g, n) == \A s \in SUBSET S : Cardinality(s) <= n => g[s] = SumBody(f, g, s)
           T == {n \in Nat : \E g : Good(g, n)}
<1>1. 0 \in T
  <2> DEFINE g == [s \in SUBSET S |-> 0]
  <2>1. ASSUME NEW s \in SUBSET S, Cardinality(s) <= 0
        PROVE  g[s] = SumBody(f, g, s)
    <3>1. s = {}
      BY <2>1, NoElements
    <3>. QED
      BY <3>1 DEF SumBody
  <2>2. Good(g, 0)
    BY <2>1
  <2> HIDE DEF g, Good
  <2>. QED
    BY <2>2
<1>2. ASSUME NEW n \in Nat, n \in T PROVE n + 1 \in T
  <2>1. PICK g : Good(g, n)
    BY <1>2
  <2> DEFINE h == [s \in SUBSET S |-> IF Cardinality(s) <= n THEN g[s] ELSE SumBody(f, g, s)]
  <2>2. ASSUME NEW s \in SUBSET S, Cardinality(s) <= n + 1
        PROVE  h[s] = SumBody(f, h, s)
    <3>1. h[s] = SumBody(f, g, s)
      BY <2>1
    <3>2. CASE s = {}
      BY <3>1, <3>2 DEF SumBody
    <3>3. CASE s # {}
      <4>1. s \ {Chosen(s)} \in SUBSET S /\ Cardinality(s \ {Chosen(s)}) <= n
        BY <2>2, <3>3, Smaller
      <4>2. h[s \ {Chosen(s)}] = g[s \ {Chosen(s)}]
        BY <4>1
      <4>. QED
        BY <3>1, <3>3, <4>2 DEF SumBody
    <3>. QED
      BY <3>2, <3>3
  <2>3. Good(h, n + 1)
    BY <2>2
  <2> HIDE DEF h, Good
  <2>. QED
    BY <2>3
<1>3. Nat \subseteq T
  <2> HIDE DEF T
  <2>. QED
    BY <1>1, <1>2, InductionOnNat
<1>4. PICK g : Good(g, Cardinality(S))
  BY <1>3, FS_CardinalityType
<1> DEFINE h == [s \in SUBSET S |-> g[s]]
<1>5. ASSUME NEW s \in SUBSET S PROVE h[s] = SumBody(f, h, s)
  <2>1. g[s] = SumBody(f, g, s)
    BY <1>4, Smaller
  <2>. QED
    BY <2>1, Smaller DEF SumBody
<1>6. h = [s \in SUBSET S |-> SumBody(f, h, s)]
  BY <1>5
<1>. QED
  BY <1>6 DEF Summing

(* The sum over no elements is 0.                                          *)
LEMMA SumOfEmpty ==
  ASSUME NEW f
  PROVE  SumFunctionOnSet(f, {}) = 0
<1>1. IsFiniteSet({})
  BY FS_EmptySet
<1>2. Summing(f, {}) = [s \in SUBSET {} |-> SumBody(f, Summing(f, {}), s)]
  BY <1>1, SummingExists
<1>3. Summing(f, {})[{}] = SumBody(f, Summing(f, {}), {})
  BY <1>2
<1>. QED
  BY <1>3, SumIsSumming DEF SumBody

(* What the recursive function gives for a subset does not depend on the   *)
(* set it was defined on.                                                  *)
LEMMA SummingAgrees ==
  ASSUME NEW S, IsFiniteSet(S), NEW f, NEW s \in SUBSET S
  PROVE  Summing(f, S)[s] = Summing(f, s)[s]
<1> DEFINE T == {n \in Nat : \A t, u \in SUBSET S : \A v \in SUBSET (t \cap u) :
                    Cardinality(v) <= n => Summing(f, t)[v] = Summing(f, u)[v]}
<1>1. ASSUME NEW t \in SUBSET S, NEW v \in SUBSET t
      PROVE  Summing(f, t)[v] = SumBody(f, Summing(f, t), v)
  <2>1. Summing(f, t) = [w \in SUBSET t |-> SumBody(f, Summing(f, t), w)]
    BY FS_Subset, SummingExists
  <2>. QED
    BY <2>1
<1>2. 0 \in T
  <2> SUFFICES ASSUME NEW t \in SUBSET S, NEW u \in SUBSET S, NEW v \in SUBSET (t \cap u),
                      Cardinality(v) <= 0
               PROVE  Summing(f, t)[v] = Summing(f, u)[v]
    OBVIOUS
  <2>1. v = {}
    BY NoElements
  <2>. QED
    BY <1>1, <2>1 DEF SumBody
<1>3. ASSUME NEW n \in Nat, n \in T PROVE n + 1 \in T
  <2> SUFFICES ASSUME NEW t \in SUBSET S, NEW u \in SUBSET S, NEW v \in SUBSET (t \cap u),
                      Cardinality(v) <= n + 1
               PROVE  Summing(f, t)[v] = Summing(f, u)[v]
    OBVIOUS
  <2>1. Summing(f, t)[v] = SumBody(f, Summing(f, t), v) /\ Summing(f, u)[v] = SumBody(f, Summing(f, u), v)
    BY <1>1
  <2>2. CASE v = {}
    BY <2>1, <2>2 DEF SumBody
  <2>3. CASE v # {}
    <3>1. /\ v \ {Chosen(v)} \in SUBSET (t \cap u)
          /\ Cardinality(v \ {Chosen(v)}) <= n
      BY <2>3, Smaller
    <3>2. Summing(f, t)[v \ {Chosen(v)}] = Summing(f, u)[v \ {Chosen(v)}]
      BY <1>3, <3>1
    <3>. QED
      BY <2>1, <2>3, <3>2 DEF SumBody
  <2>. QED
    BY <2>2, <2>3
<1>4. Nat \subseteq T
  <2> HIDE DEF T
  <2>. QED
    BY <1>2, <1>3, InductionOnNat
<1>5. Cardinality(s) \in Nat
  BY Smaller
<1>. QED
  BY <1>4, <1>5

(* The recursion: the sum over a set is the value at the element the       *)
(* operator chooses plus the sum over the others.                          *)
LEMMA SumOfNonempty ==
  ASSUME NEW S, IsFiniteSet(S), NEW f, S # {}
  PROVE  SumFunctionOnSet(f, S) = f[Chosen(S)] + SumFunctionOnSet(f, S \ {Chosen(S)})
<1>1. Summing(f, S) = [s \in SUBSET S |-> SumBody(f, Summing(f, S), s)]
  BY SummingExists
<1>2. Summing(f, S)[S] = f[Chosen(S)] + Summing(f, S)[S \ {Chosen(S)}]
  BY <1>1 DEF SumBody
<1>3. Summing(f, S)[S \ {Chosen(S)}] = Summing(f, S \ {Chosen(S)})[S \ {Chosen(S)}]
  BY SummingAgrees
<1>. QED
  BY <1>2, <1>3, SumIsSumming

(* A sum of numbers is a number of the kind.                               *)
LEMMA SumType ==
  ASSUME NEW S, IsFiniteSet(S), NEW f, NEW V \in {Nat, Int}, \A i \in S : f[i] \in V
  PROVE  SumFunctionOnSet(f, S) \in V
<1> DEFINE T == {n \in Nat : \A s \in SUBSET S : Cardinality(s) = n => SumFunctionOnSet(f, s) \in V}
<1>1. 0 \in T
  <2>1. ASSUME NEW s \in SUBSET S, Cardinality(s) = 0
        PROVE  s = {}
    <3>1. Cardinality(s) <= 0
      BY <2>1
    <3>. QED
      BY <3>1, NoElements
  <2>2. 0 \in V
    OBVIOUS
  <2>. QED
    BY <2>1, <2>2, SumOfEmpty
<1>2. ASSUME NEW n \in Nat, n \in T PROVE n + 1 \in T
  <2> SUFFICES ASSUME NEW s \in SUBSET S, Cardinality(s) = n + 1
               PROVE  SumFunctionOnSet(f, s) \in V
    OBVIOUS
  <2>1. /\ s # {} /\ Chosen(s) \in S
        /\ s \ {Chosen(s)} \in SUBSET S /\ Cardinality(s \ {Chosen(s)}) = n
    <3>1. s # {}
      BY FS_EmptySet
    <3>. QED
      BY <3>1, Smaller
  <2>2. SumFunctionOnSet(f, s) = f[Chosen(s)] + SumFunctionOnSet(f, s \ {Chosen(s)})
    BY <2>1, SumOfNonempty, FS_Subset
  <2>3. SumFunctionOnSet(f, s \ {Chosen(s)}) \in V /\ f[Chosen(s)] \in V
    BY <1>2, <2>1
  <2>. QED
    BY <2>2, <2>3
<1>3. Nat \subseteq T
  <2> HIDE DEF T
  <2>. QED
    BY <1>1, <1>2, InductionOnNat
<1>4. Cardinality(S) \in Nat
  BY FS_CardinalityType
<1>. QED
  BY <1>3, <1>4

(* And every element may be taken out first, not only the one that the     *)
(* operator chooses.                                                       *)
LEMMA SumTakeOut ==
  ASSUME NEW S, IsFiniteSet(S), NEW f, \A i \in S : f[i] \in Int, NEW a \in S
  PROVE  SumFunctionOnSet(f, S) = f[a] + SumFunctionOnSet(f, S \ {a})
<1> DEFINE T == {n \in Nat : \A s \in SUBSET S : Cardinality(s) = n =>
                    \A b \in s : SumFunctionOnSet(f, s) = f[b] + SumFunctionOnSet(f, s \ {b})}
<1>1. 0 \in T
  BY Smaller
<1>2. ASSUME NEW n \in Nat, n \in T PROVE n + 1 \in T
  <2> SUFFICES ASSUME NEW s \in SUBSET S, Cardinality(s) = n + 1, NEW b \in s
               PROVE  SumFunctionOnSet(f, s) = f[b] + SumFunctionOnSet(f, s \ {b})
    OBVIOUS
  <2> DEFINE c == Chosen(s)
  <2>1. IsFiniteSet(s) /\ c \in s
    BY FS_Subset, Smaller
  <2>2. SumFunctionOnSet(f, s) = f[c] + SumFunctionOnSet(f, s \ {c})
    BY <2>1, SumOfNonempty
  <2>3. CASE b = c
    BY <2>2, <2>3
  <2>4. CASE b # c
    <3> HIDE DEF c
    <3>1. /\ s \ {c} \in SUBSET S /\ Cardinality(s \ {c}) = n /\ b \in s \ {c}
          /\ s \ {b} \in SUBSET S /\ Cardinality(s \ {b}) = n /\ c \in s \ {b}
      <4>1. ASSUME NEW x \in s PROVE Cardinality(s \ {x}) = n
        <5>1. Cardinality(s \ {x}) = Cardinality(s) - 1
          BY <2>1, FS_RemoveElement
        <5>. QED
          BY <5>1
      <4>. QED
        BY <2>1, <2>4, <4>1
    <3>2. SumFunctionOnSet(f, s \ {c}) = f[b] + SumFunctionOnSet(f, (s \ {c}) \ {b})
      BY <1>2, <3>1
    <3>3. SumFunctionOnSet(f, s \ {b}) = f[c] + SumFunctionOnSet(f, (s \ {b}) \ {c})
      BY <1>2, <3>1
    <3>4. (s \ {c}) \ {b} = (s \ {b}) \ {c}
      OBVIOUS
    <3>5. SumFunctionOnSet(f, (s \ {b}) \ {c}) \in Int
      <4>1. IsFiniteSet((s \ {b}) \ {c}) /\ \A i \in (s \ {b}) \ {c} : f[i] \in Int
        BY <2>1, FS_Subset
      <4>. QED
        BY <4>1, SumType
    <3>6. f[b] \in Int /\ f[c] \in Int
      BY <2>1
    <3> DEFINE rest == SumFunctionOnSet(f, (s \ {b}) \ {c})
    <3>7. /\ SumFunctionOnSet(f, s) = f[c] + (f[b] + rest)
          /\ SumFunctionOnSet(f, s \ {b}) = f[c] + rest
      BY <2>2, <3>2, <3>3, <3>4
    <3> HIDE DEF rest
    <3>8. rest \in Int
      BY <3>5 DEF rest
    <3>. QED
      BY <3>6, <3>7, <3>8
  <2>. QED
    BY <2>3, <2>4
<1>3. Nat \subseteq T
  <2> HIDE DEF T
  <2>. QED
    BY <1>1, <1>2, InductionOnNat
<1>4. Cardinality(S) \in Nat
  BY FS_CardinalityType
<1>. QED
  BY <1>3, <1>4

(* The sum depends only on the values at the elements.                     *)
LEMMA SumSame ==
  ASSUME NEW S, IsFiniteSet(S), NEW f, NEW g, \A i \in S : f[i] = g[i]
  PROVE  SumFunctionOnSet(f, S) = SumFunctionOnSet(g, S)
<1> DEFINE T == {n \in Nat : \A s \in SUBSET S : Cardinality(s) = n
                                => SumFunctionOnSet(f, s) = SumFunctionOnSet(g, s)}
<1>1. 0 \in T
  <2>1. ASSUME NEW s \in SUBSET S, Cardinality(s) = 0 PROVE s = {}
    BY <2>1, Smaller
  <2>. QED
    BY <2>1, SumOfEmpty
<1>2. ASSUME NEW n \in Nat, n \in T PROVE n + 1 \in T
  <2> SUFFICES ASSUME NEW s \in SUBSET S, Cardinality(s) = n + 1
               PROVE  SumFunctionOnSet(f, s) = SumFunctionOnSet(g, s)
    OBVIOUS
  <2>1. /\ s # {} /\ Chosen(s) \in S
        /\ s \ {Chosen(s)} \in SUBSET S /\ Cardinality(s \ {Chosen(s)}) = n
    <3>1. s # {}
      BY FS_EmptySet
    <3>. QED
      BY <3>1, Smaller
  <2>2. /\ SumFunctionOnSet(f, s) = f[Chosen(s)] + SumFunctionOnSet(f, s \ {Chosen(s)})
        /\ SumFunctionOnSet(g, s) = g[Chosen(s)] + SumFunctionOnSet(g, s \ {Chosen(s)})
    BY <2>1, SumOfNonempty, FS_Subset
  <2>3. SumFunctionOnSet(f, s \ {Chosen(s)}) = SumFunctionOnSet(g, s \ {Chosen(s)})
    BY <1>2, <2>1
  <2>. QED
    BY <2>1, <2>2, <2>3
<1>3. Nat \subseteq T
  <2> HIDE DEF T
  <2>. QED
    BY <1>1, <1>2, InductionOnNat
<1>4. Cardinality(S) \in Nat
  BY FS_CardinalityType
<1>. QED
  BY <1>3, <1>4

(* A change at one element changes the sum by as much.                     *)
LEMMA SumOfChanged ==
  ASSUME NEW S, IsFiniteSet(S), NEW f, NEW g, NEW a \in S,
         \A i \in S : f[i] \in Int, \A i \in S \ {a} : g[i] = f[i], g[a] \in Int
  PROVE  SumFunctionOnSet(g, S) = SumFunctionOnSet(f, S) + (g[a] - f[a])
<1>1. SumFunctionOnSet(f, S) = f[a] + SumFunctionOnSet(f, S \ {a})
  BY SumTakeOut
<1>2. \A i \in S : g[i] \in Int
  OBVIOUS
<1>3. SumFunctionOnSet(g, S) = g[a] + SumFunctionOnSet(g, S \ {a})
  BY <1>2, SumTakeOut
<1>4. IsFiniteSet(S \ {a})
  BY FS_Subset
<1>5. SumFunctionOnSet(g, S \ {a}) = SumFunctionOnSet(f, S \ {a})
  BY <1>4, SumSame
<1>6. SumFunctionOnSet(f, S \ {a}) \in Int
  BY <1>4, SumType
<1> DEFINE rest == SumFunctionOnSet(f, S \ {a})
<1>7. SumFunctionOnSet(f, S) = f[a] + rest /\ SumFunctionOnSet(g, S) = g[a] + rest /\ rest \in Int
  BY <1>1, <1>3, <1>5, <1>6
<1>8. f[a] \in Int
  OBVIOUS
<1> HIDE DEF rest
<1>. QED
  BY <1>7, <1>8

(* One more at one element is one more in the sum.                         *)
LEMMA SumOfOneMore ==
  ASSUME NEW S, IsFiniteSet(S), NEW f, NEW g, NEW a \in S,
         \A i \in S : f[i] \in Int /\ g[i] = IF i = a THEN f[i] + 1 ELSE f[i]
  PROVE  SumFunctionOnSet(g, S) = SumFunctionOnSet(f, S) + 1
<1>1. /\ \A i \in S : f[i] \in Int
      /\ \A i \in S \ {a} : g[i] = f[i]
      /\ g[a] \in Int /\ g[a] - f[a] = 1
  OBVIOUS
<1>2. SumFunctionOnSet(g, S) = SumFunctionOnSet(f, S) + (g[a] - f[a])
  BY <1>1, SumOfChanged
<1>. QED
  BY <1>1, <1>2

(* The sum over a sequence that one number is appended to.                 *)
LEMMA SumOfLonger ==
  ASSUME NEW n \in Nat, NEW f, NEW g, \A i \in 1 .. n : f[i] \in Int /\ g[i] = f[i], g[n + 1] \in Int
  PROVE  SumFunctionOnSet(g, 1 .. n + 1) = SumFunctionOnSet(f, 1 .. n) + g[n + 1]
<1>1. IsFiniteSet(1 .. n) /\ IsFiniteSet(1 .. n + 1)
  BY FS_Interval
<1>2. n + 1 \in 1 .. n + 1 /\ (1 .. n + 1) \ {n + 1} = 1 .. n /\ \A i \in 1 .. n + 1 : g[i] \in Int
  OBVIOUS
<1>3. SumFunctionOnSet(g, 1 .. n + 1) = g[n + 1] + SumFunctionOnSet(g, (1 .. n + 1) \ {n + 1})
  BY <1>1, <1>2, SumTakeOut
<1>4. SumFunctionOnSet(g, 1 .. n) = SumFunctionOnSet(f, 1 .. n)
  BY <1>1, SumSame
<1>5. SumFunctionOnSet(f, 1 .. n) \in Int
  BY <1>1, SumType
<1> DEFINE sum == SumFunctionOnSet(f, 1 .. n)
<1>6. SumFunctionOnSet(g, 1 .. n + 1) = g[n + 1] + sum /\ sum \in Int
  BY <1>2, <1>3, <1>4, <1>5
<1>7. g[n + 1] \in Int
  OBVIOUS
<1>. QED
  BY <1>6, <1>7

(* Numbers that are no larger have a sum that is no larger.                *)
LEMMA SumMonotone ==
  ASSUME NEW S, IsFiniteSet(S), NEW f, NEW g, \A i \in S : f[i] \in Int /\ g[i] \in Int /\ f[i] <= g[i]
  PROVE  SumFunctionOnSet(f, S) <= SumFunctionOnSet(g, S)
<1> DEFINE T == {n \in Nat : \A s \in SUBSET S : Cardinality(s) = n
                                => SumFunctionOnSet(f, s) <= SumFunctionOnSet(g, s)}
<1>1. 0 \in T
  <2>1. ASSUME NEW s \in SUBSET S, Cardinality(s) = 0 PROVE s = {}
    BY <2>1, Smaller
  <2>. QED
    BY <2>1, SumOfEmpty
<1>2. ASSUME NEW n \in Nat, n \in T PROVE n + 1 \in T
  <2> SUFFICES ASSUME NEW s \in SUBSET S, Cardinality(s) = n + 1
               PROVE  SumFunctionOnSet(f, s) <= SumFunctionOnSet(g, s)
    OBVIOUS
  <2> DEFINE c == Chosen(s)
             t == s \ {c}
  <2>1. c \in S /\ c \in s /\ t \in SUBSET S /\ Cardinality(t) = n /\ IsFiniteSet(s) /\ IsFiniteSet(t)
    <3>1. s # {}
      BY FS_EmptySet
    <3>2. c \in S /\ c \in s /\ t \in SUBSET S /\ Cardinality(t) = n
      BY <3>1, Smaller
    <3>. QED
      BY <3>2, FS_Subset
  <2>2. SumFunctionOnSet(f, s) = f[c] + SumFunctionOnSet(f, t)
    BY <2>1, SumOfNonempty
  <2>3. SumFunctionOnSet(g, s) = g[c] + SumFunctionOnSet(g, t)
    BY <2>1, SumOfNonempty
  <2>4. SumFunctionOnSet(f, t) <= SumFunctionOnSet(g, t)
    BY <1>2, <2>1
  <2>5. SumFunctionOnSet(f, t) \in Int /\ SumFunctionOnSet(g, t) \in Int
    BY <2>1, SumType
  <2>6. f[c] \in Int /\ g[c] \in Int /\ f[c] <= g[c]
    BY <2>1
  <2> HIDE DEF c, t
  <2>. QED
    BY <2>2, <2>3, <2>4, <2>5, <2>6
<1>3. Nat \subseteq T
  <2> HIDE DEF T
  <2>. QED
    BY <1>1, <1>2, InductionOnNat
<1>4. Cardinality(S) \in Nat
  BY FS_CardinalityType
<1>. QED
  BY <1>3, <1>4

(* A sum of numbers up to M is at most M for every element.                *)
LEMMA SumBounded ==
  ASSUME NEW S, IsFiniteSet(S), NEW M \in Nat, NEW f, \A i \in S : f[i] \in 0 .. M
  PROVE  SumFunctionOnSet(f, S) \in 0 .. M * Cardinality(S)
<1> DEFINE T == {n \in Nat : \A s \in SUBSET S : Cardinality(s) = n
                                => SumFunctionOnSet(f, s) \in 0 .. M * n}
<1>1. 0 \in T
  <2>1. ASSUME NEW s \in SUBSET S, Cardinality(s) = 0 PROVE s = {}
    BY <2>1, Smaller
  <2>2. 0 \in 0 .. M * 0
    OBVIOUS
  <2>. QED
    BY <2>1, <2>2, SumOfEmpty
<1>2. ASSUME NEW n \in Nat, n \in T PROVE n + 1 \in T
  <2> SUFFICES ASSUME NEW s \in SUBSET S, Cardinality(s) = n + 1
               PROVE  SumFunctionOnSet(f, s) \in 0 .. M * (n + 1)
    OBVIOUS
  <2> DEFINE c == Chosen(s)
             t == s \ {c}
  <2>1. c \in S /\ c \in s /\ t \in SUBSET S /\ Cardinality(t) = n /\ IsFiniteSet(s)
    <3>1. s # {}
      BY FS_EmptySet
    <3>2. c \in S /\ c \in s /\ t \in SUBSET S /\ Cardinality(t) = n
      BY <3>1, Smaller
    <3>. QED
      BY <3>2, FS_Subset
  <2>2. SumFunctionOnSet(f, s) = f[c] + SumFunctionOnSet(f, t)
    BY <2>1, SumOfNonempty
  <2>3. SumFunctionOnSet(f, t) \in 0 .. M * n
    BY <1>2, <2>1
  <2>4. f[c] \in 0 .. M
    BY <2>1
  <2> HIDE DEF c, t
  <2>5. M * (n + 1) = M * n + M /\ M * n \in Nat
    OBVIOUS
  <2>. QED
    BY <2>2, <2>3, <2>4, <2>5
<1>3. Nat \subseteq T
  <2> HIDE DEF T
  <2>. QED
    BY <1>1, <1>2, InductionOnNat
<1>4. Cardinality(S) \in Nat
  BY FS_CardinalityType
<1>. QED
  BY <1>3, <1>4

(* A finite set of numbers that is not empty has a greatest element.       *)
LEMMA GreatestNat ==
  ASSUME NEW S, IsFiniteSet(S), S \subseteq Nat, S # {}
  PROVE  \E n \in S : \A m \in S : m <= n
<1> DEFINE T == {n \in Nat : \A s \in SUBSET S : Cardinality(s) = n /\ s # {}
                                => \E x \in s : \A y \in s : y <= x}
<1>1. 0 \in T
  <2>1. ASSUME NEW s \in SUBSET S, Cardinality(s) = 0
        PROVE  s = {}
    <3>1. Cardinality(s) <= 0
      BY <2>1
    <3>. QED
      BY <3>1, NoElements
  <2>. QED
    BY <2>1
<1>2. ASSUME NEW n \in Nat, n \in T PROVE n + 1 \in T
  <2> SUFFICES ASSUME NEW s \in SUBSET S, Cardinality(s) = n + 1, s # {}
               PROVE  \E x \in s : \A y \in s : y <= x
    OBVIOUS
  <2> DEFINE c == Chosen(s)
  <2>1. c \in s /\ s \ {c} \in SUBSET S /\ Cardinality(s \ {c}) = n
    <3>1. c \in s /\ s \ {c} \in SUBSET S /\ Cardinality(s \ {c}) = Cardinality(s) - 1
      BY Smaller
    <3>. QED
      BY <3>1
  <2> HIDE DEF c
  <2>2. CASE s \ {c} = {}
    BY <2>1, <2>2
  <2>3. CASE s \ {c} # {}
    <3>1. PICK x \in s \ {c} : \A y \in s \ {c} : y <= x
      BY <1>2, <2>1, <2>3
    <3>2. x \in Nat /\ c \in Nat
      BY <2>1
    <3>3. CASE c <= x
      BY <3>1, <3>3
    <3>4. CASE x <= c
      <4>1. ASSUME NEW y \in s PROVE y <= c
        <5>1. y \in Nat /\ (y = c \/ y <= x)
          BY <3>1
        <5>. QED
          BY <3>2, <3>4, <5>1
      <4>. QED
        BY <2>1, <4>1
    <3>. QED
      BY <3>2, <3>3, <3>4
  <2>. QED
    BY <2>2, <2>3
<1>3. Nat \subseteq T
  <2> HIDE DEF T
  <2>. QED
    BY <1>1, <1>2, InductionOnNat
<1>4. Cardinality(S) \in Nat
  BY FS_CardinalityType
<1>. QED
  BY <1>3, <1>4

(* In increasing order.                                                    *)
Ascending(s) == \A i, j \in DOMAIN s : i < j => s[i] < s[j]

(* A finite set of numbers can be enumerated in increasing order.          *)
LEMMA AscendingExists ==
  ASSUME NEW S, IsFiniteSet(S), S \subseteq Nat
  PROVE  \E s \in [1 .. Cardinality(S) -> S] : Ascending(s)
<1> DEFINE T == {n \in Nat : \A U \in SUBSET S : Cardinality(U) = n =>
                    \E s \in [1 .. n -> U] : Ascending(s)}
<1>1. 0 \in T
  <2> SUFFICES ASSUME NEW U \in SUBSET S, Cardinality(U) = 0
               PROVE  \E s \in [1 .. 0 -> U] : Ascending(s)
    OBVIOUS
  <2> DEFINE s == [i \in 1 .. 0 |-> i]
  <2>1. s \in [1 .. 0 -> U] /\ Ascending(s)
    BY DEF Ascending
  <2>. QED
    BY <2>1
<1>2. ASSUME NEW n \in Nat, n \in T PROVE n + 1 \in T
  <2> SUFFICES ASSUME NEW U \in SUBSET S, Cardinality(U) = n + 1
               PROVE  \E s \in [1 .. n + 1 -> U] : Ascending(s)
    OBVIOUS
  <2>1. IsFiniteSet(U) /\ U \subseteq Nat
    BY FS_Subset
  <2>2. U # {}
    BY FS_EmptySet
  <2>3. PICK g \in U : \A m \in U : m <= g
    BY <2>1, <2>2, GreatestNat
  <2>4. Cardinality(U \ {g}) = n
    <3>1. Cardinality(U \ {g}) = Cardinality(U) - 1
      BY <2>1, FS_RemoveElement
    <3>. QED
      BY <3>1
  <2>5. PICK r \in [1 .. n -> U \ {g}] : Ascending(r)
    BY <1>2, <2>4
  <2> DEFINE s == [i \in 1 .. n + 1 |-> IF i = n + 1 THEN g ELSE r[i]]
  <2>6. s \in [1 .. n + 1 -> U]
    BY <2>5
  <2>7. ASSUME NEW i \in 1 .. n + 1, NEW j \in 1 .. n + 1, i < j
        PROVE  s[i] < s[j]
    <3>1. CASE j = n + 1
      <4>1. s[j] = g /\ s[i] = r[i] /\ r[i] \in U \ {g}
        BY <2>5, <2>7, <3>1
      <4>2. g \in Nat /\ r[i] \in Nat /\ r[i] <= g /\ r[i] # g
        BY <2>1, <2>3, <4>1
      <4> HIDE DEF s
      <4>. QED
        BY <4>1, <4>2
    <3>2. CASE j # n + 1
      <4>1. s[j] = r[j] /\ s[i] = r[i] /\ i \in 1 .. n /\ j \in 1 .. n
        BY <2>7, <3>2
      <4>. QED
        BY <2>5, <2>7, <4>1 DEF Ascending
    <3>. QED
      BY <3>1, <3>2
  <2>8. Ascending(s)
    BY <2>7 DEF Ascending
  <2>. QED
    BY <2>6, <2>8
<1>3. Nat \subseteq T
  <2> HIDE DEF T
  <2>. QED
    BY <1>1, <1>2, InductionOnNat
<1>4. Cardinality(S) \in Nat
  BY FS_CardinalityType
<1>. QED
  BY <1>3, <1>4

-----------------------------------------------------------------------------
(* The operator Max of the community modules gives the largest number of a *)
(* finite set.                                                             *)
LEMMA LargestIn ==
  ASSUME NEW s, IsFiniteSet(s), s \subseteq Nat, s # {}
  PROVE  Max(s) \in s /\ \A m \in s : m <= Max(s)
<1>1. PICK n \in s : \A m \in s : m <= n
  BY GreatestNat
<1>2. \A m \in s : n >= m
  BY <1>1
<1>. QED
  BY <1>2 DEF Max

(* A number of a set that no other exceeds is its Max.                     *)
LEMMA LargestIs ==
  ASSUME NEW s, s \subseteq Nat, NEW n \in s, \A m \in s : m <= n
  PROVE  Max(s) = n
<1>1. \A m \in s : n >= m
  OBVIOUS
<1>2. Max(s) \in s /\ \A m \in s : Max(s) >= m
  BY <1>1, Zenon DEF Max
<1>3. Max(s) \in Nat /\ n \in Nat /\ Max(s) >= n /\ n >= Max(s)
  BY <1>1, <1>2
<1>. QED
  BY <1>3

(* Taking the largest out of a finite set of numbers makes it smaller.     *)
LEMMA WithoutLargest ==
  ASSUME NEW S, IsFiniteSet(S), S \subseteq Nat, NEW s \in SUBSET S
  PROVE  /\ Cardinality(s) \in Nat /\ Cardinality(s) <= Cardinality(S)
         /\ s # {} => /\ Max(s) \in S
                      /\ s \ {Max(s)} \in SUBSET S
                      /\ Cardinality(s \ {Max(s)}) = Cardinality(s) - 1
<1>1. IsFiniteSet(s) /\ Cardinality(s) <= Cardinality(S)
  BY FS_Subset
<1>2. Cardinality(s) \in Nat
  BY <1>1, FS_CardinalityType
<1>3. ASSUME s # {} PROVE Max(s) \in s
  <2>1. s \subseteq Nat
    OBVIOUS
  <2>. QED
    BY <1>1, <1>3, <2>1, LargestIn
<1>4. ASSUME s # {} PROVE Cardinality(s \ {Max(s)}) = Cardinality(s) - 1
  BY <1>1, <1>3, <1>4, FS_RemoveElement
<1>. QED
  BY <1>1, <1>2, <1>3, <1>4

(* The positions before the last of the first n.                           *)
LEMMA PositionsBefore ==
  ASSUME NEW n \in Nat, n > 0
  PROVE  1 .. n # {} /\ Max(1 .. n) = n /\ (1 .. n) \ {n} = 1 .. n - 1
<1>1. n \in 1 .. n /\ 1 .. n \subseteq Nat /\ \A m \in 1 .. n : m <= n
  OBVIOUS
<1>2. Max(1 .. n) = n
  BY <1>1, LargestIs
<1>3. ASSUME NEW m PROVE m \in (1 .. n) \ {n} <=> m \in 1 .. n - 1
  OBVIOUS
<1>4. (1 .. n) \ {n} = 1 .. n - 1
  BY <1>3, Zenon
<1>. QED
  BY <1>1, <1>2, <1>4

(* A fold over the positions of a sequence is defined by recursion on sets *)
(* of positions, the largest being taken out first.                        *)
Folding(g, S, A, base, step) ==
    /\ g \in [SUBSET S -> A]
    /\ \A s \in SUBSET S : g[s] = IF s = {} THEN base ELSE step[<<g[s \ {Max(s)}], Max(s)>>]

(* If the step, given as a function, stays in a set of values, there is    *)
(* such a function: it is built for one size of sets after the other.      *)
LEMMA FoldingExists ==
  ASSUME NEW S, IsFiniteSet(S), S \subseteq Nat, NEW A, NEW base \in A, NEW step \in [A \X S -> A]
  PROVE  \E g : Folding(g, S, A, base, step)
<1> DEFINE Body(g, s) == IF s = {} THEN base ELSE step[<<g[s \ {Max(s)}], Max(s)>>]
           Good(g, n) == \A s \in SUBSET S : Cardinality(s) <= n => g[s] \in A /\ g[s] = Body(g, s)
           T == {n \in Nat : \E g : Good(g, n)}
<1>0. ASSUME NEW s \in SUBSET S
      PROVE  /\ Cardinality(s) \in Nat /\ Cardinality(s) <= Cardinality(S)
             /\ s # {} => /\ Max(s) \in S
                          /\ s \ {Max(s)} \in SUBSET S
                          /\ Cardinality(s \ {Max(s)}) = Cardinality(s) - 1
  BY WithoutLargest
<1>1. 0 \in T
  <2> DEFINE g == [s \in SUBSET S |-> base]
  <2>1. ASSUME NEW s \in SUBSET S, Cardinality(s) <= 0
        PROVE  g[s] \in A /\ g[s] = Body(g, s)
    <3>1. s = {}
      BY <2>1, NoElements
    <3>. QED
      BY <3>1
  <2>2. Good(g, 0)
    BY <2>1
  <2> HIDE DEF g, Good
  <2>. QED
    BY <2>2
<1>2. ASSUME NEW n \in Nat, n \in T PROVE n + 1 \in T
  <2>1. PICK g : Good(g, n)
    BY <1>2
  <2> DEFINE h == [s \in SUBSET S |-> IF Cardinality(s) <= n THEN g[s] ELSE Body(g, s)]
  <2>2. ASSUME NEW s \in SUBSET S, Cardinality(s) <= n + 1
        PROVE  h[s] \in A /\ h[s] = Body(h, s)
    <3>1. h[s] = Body(g, s)
      BY <2>1
    <3>2. CASE s = {}
      BY <3>1, <3>2
    <3>3. CASE s # {}
      <4>1. s \ {Max(s)} \in SUBSET S /\ Cardinality(s \ {Max(s)}) <= n /\ Max(s) \in S
        BY <1>0, <2>2, <3>3
      <4>2. h[s \ {Max(s)}] = g[s \ {Max(s)}] /\ g[s \ {Max(s)}] \in A
        BY <2>1, <4>1
      <4>3. h[s] = Body(h, s)
        BY <3>1, <3>3, <4>2
      <4>4. Body(g, s) \in A
        BY <3>3, <4>1, <4>2
      <4>. QED
        BY <3>1, <4>3, <4>4
    <3>. QED
      BY <3>2, <3>3
  <2>3. Good(h, n + 1)
    BY <2>2
  <2> HIDE DEF h, Good
  <2>. QED
    BY <2>3
<1>3. Nat \subseteq T
  <2> HIDE DEF T
  <2>. QED
    BY <1>1, <1>2, InductionOnNat
<1>4. PICK g : Good(g, Cardinality(S))
  <2>1. Cardinality(S) \in Nat
    BY <1>0
  <2>. QED
    BY <1>3, <2>1
<1> DEFINE h == [s \in SUBSET S |-> g[s]]
<1>5. ASSUME NEW s \in SUBSET S PROVE h[s] \in A /\ h[s] = Body(h, s)
  <2>1. g[s] \in A /\ g[s] = Body(g, s)
    BY <1>0, <1>4
  <2>. QED
    BY <1>0, <2>1
<1>6. h \in [SUBSET S -> A]
  BY <1>5
<1>. QED
  BY <1>5, <1>6 DEF Folding
=============================================================================
