-------------------------- MODULE NodeLoadingProofs --------------------------
(***************************************************************************)
(* That a history is bounded and keeps every request once, for every       *)
(* duration and however many ticks are late; that an update fails only     *)
(* after a pause; and that it chooses right.                               *)
(*                                                                         *)
(* Sums over places and the insertion sort are recursive functions.  What  *)
(* they compute is proved by induction over the natural numbers, which is  *)
(* stated for sets (SetInduction): the provers can instantiate a set where *)
(* they cannot instantiate a predicate.                                    *)
(***************************************************************************)
EXTENDS NodeLoading, FiniteSetTheorems, TLAPS

\* Induction, over the members of a set of numbers: < is well-founded.
LEMMA SetInduction ==
  ASSUME NEW T, 0 \in T, \A n \in Nat : n \in T => n + 1 \in T
  PROVE  \A n \in Nat : n \in T
<1>. DEFINE Rest == Nat \ T
            R == OpToRel(<, Nat)
<1>1. IsWellFoundedOn(R, Nat)
  BY NatLessThanWellFounded DEF OpToRel
<1>2. \A m, n \in Nat : m < n => <<m, n>> \in R
  BY DEF OpToRel
<1>. HIDE DEF R
<1>3. ASSUME Rest # {} PROVE FALSE
  <2>1. PICK m \in Rest : \A k \in Rest : <<k, m>> \notin R
    <3>1. Rest \subseteq Nat
      OBVIOUS
    <3>. HIDE DEF Rest
    <3>. QED
      BY <1>1, <1>3, <3>1, WFMin
  <2>2. m \in Nat /\ m \notin T /\ m # 0
    OBVIOUS
  <2>3. m - 1 \in Nat /\ m - 1 < m /\ m = (m - 1) + 1
    BY <2>2
  <2>4. m - 1 \notin Rest
    BY <1>2, <2>1, <2>2, <2>3
  <2>. QED
    BY <2>2, <2>3, <2>4
<1>. QED
  BY <1>3

\* The element of a set that a sum takes next.
Pick(s) == CHOOSE x \in s : TRUE

\* g has the sum of f over each subset of S.
SumsOf(f, S, g) ==
  g = [s \in SUBSET S |-> IF s = {} THEN 0 ELSE f[Pick(s)] + g[s \ {Pick(s)}]]

\* A sum is defined by recursion over the subsets.
LEMMA SumUnfolds ==
  ASSUME NEW f, NEW S
  PROVE  SumFunctionOnSet(f, S) = (CHOOSE g : SumsOf(f, S, g))[S]
BY DEF SumFunctionOnSet, FoldFunctionOnSet, MapThenFoldSet, SumsOf, Pick

\* It is one of them.
LEMMA PickIn ==
  ASSUME NEW s, s # {}
  PROVE  Pick(s) \in s
BY DEF Pick

\* A finite set and a smaller one.
LEMMA Smaller ==
  ASSUME NEW S, IsFiniteSet(S), NEW x \in S
  PROVE  /\ IsFiniteSet(S \ {x})
         /\ Cardinality(S) \in Nat \ {0}
         /\ Cardinality(S \ {x}) = Cardinality(S) - 1
<1>1. IsFiniteSet(S \ {x}) /\ Cardinality(S \ {x}) = Cardinality(S) - 1
  BY FS_RemoveElement
<1>2. Cardinality(S) \in Nat /\ Cardinality(S) # 0
  BY FS_CardinalityType, FS_EmptySet
<1>. QED
  BY <1>1, <1>2

\* There is such a g for a finite set: it is made for the sets of no more than n
\* elements, for one n after the other.
LEMMA SumsExist ==
  ASSUME NEW f, NEW S, IsFiniteSet(S)
  PROVE  \E g : SumsOf(f, S, g)
<1>. DEFINE Sets(n) == {s \in SUBSET S : Cardinality(s) <= n}
            Upto(n, g) == g = [s \in Sets(n) |-> IF s = {} THEN 0 ELSE f[Pick(s)] + g[s \ {Pick(s)}]]
            T == {n \in Nat : \E g : Upto(n, g)}
<1>0. \A s \in SUBSET S : IsFiniteSet(s) /\ Cardinality(s) \in Nat /\ Cardinality(s) <= Cardinality(S)
  BY FS_Subset, FS_CardinalityType
<1>00. \A s \in SUBSET S : s # {} => /\ s \ {Pick(s)} \in SUBSET S
                                    /\ Cardinality(s \ {Pick(s)}) = Cardinality(s) - 1
  BY <1>0, PickIn, Smaller
<1>1. 0 \in T
  <2>. DEFINE g == [s \in Sets(0) |-> 0]
  <2>1. \A s \in Sets(0) : s = {}
    BY <1>0, FS_EmptySet
  <2>2. Upto(0, g)
    BY <2>1
  <2>. HIDE DEF g, Upto
  <2>. QED
    BY <2>2
<1>2. ASSUME NEW n \in Nat, n \in T PROVE n + 1 \in T
  <2>1. PICK g : Upto(n, g)
    BY <1>2
  <2>. DEFINE h == [s \in Sets(n + 1) |-> IF s = {} THEN 0 ELSE f[Pick(s)] + g[s \ {Pick(s)}]]
  <2>2. Sets(n) \subseteq Sets(n + 1)
    BY <1>0
  <2>3. \A s \in Sets(n + 1) : s # {} => s \ {Pick(s)} \in Sets(n)
    BY <1>0, <1>00
  <2>4. \A s \in Sets(n) : h[s] = g[s]
    <3>1. \A s \in Sets(n) : g[s] = IF s = {} THEN 0 ELSE f[Pick(s)] + g[s \ {Pick(s)}]
      <4>. HIDE DEF Sets, h
      <4>. QED BY <2>1, Zenon
    <3>. HIDE DEF Sets
    <3>. QED
      BY <2>2, <3>1
  <2>5. Upto(n + 1, h)
    <3>1. \A s \in Sets(n + 1) : s # {} => h[s \ {Pick(s)}] = g[s \ {Pick(s)}]
      BY <2>3, <2>4
    <3>. HIDE DEF Sets
    <3>. QED
      BY <3>1
  <2>. HIDE DEF h, Upto
  <2>. QED
    BY <2>5
<1>3. \A n \in Nat : n \in T
  <2>. HIDE DEF T
  <2>. QED
    BY <1>1, <1>2, SetInduction
<1>4. Cardinality(S) \in Nat
  BY FS_CardinalityType
<1>5. PICK g : Upto(Cardinality(S), g)
  BY <1>3, <1>4
<1>6. Sets(Cardinality(S)) = SUBSET S
  BY <1>0
<1>7. SumsOf(f, S, g)
  <2>. HIDE DEF Sets
  <2>. QED
    BY <1>5, <1>6 DEF SumsOf
<1>. QED
  BY <1>7

\* Two functions that agree have the same sums.
LEMMA SumsAgree ==
  ASSUME NEW f, NEW S, NEW g, SumsOf(f, S, g),
         NEW f2, NEW S2, NEW g2, SumsOf(f2, S2, g2),
         NEW A, IsFiniteSet(A), A \subseteq S, A \subseteq S2,
         \A x \in A : f[x] = f2[x]
  PROVE  g[A] = g2[A]
<1>. DEFINE T == {n \in Nat : \A s \in SUBSET A : Cardinality(s) = n => g[s] = g2[s]}
<1>0. \A s \in SUBSET A : /\ s \in SUBSET S /\ s \in SUBSET S2
                          /\ IsFiniteSet(s) /\ Cardinality(s) \in Nat
  BY FS_Subset, FS_CardinalityType
<1>01. \A s \in SUBSET S : g[s] = IF s = {} THEN 0 ELSE f[Pick(s)] + g[s \ {Pick(s)}]
  BY Zenon DEF SumsOf
<1>02. \A s \in SUBSET S2 : g2[s] = IF s = {} THEN 0 ELSE f2[Pick(s)] + g2[s \ {Pick(s)}]
  BY Zenon DEF SumsOf
<1>1. 0 \in T
  BY <1>0, <1>01, <1>02, FS_EmptySet
<1>2. ASSUME NEW n \in Nat, n \in T PROVE n + 1 \in T
  <2>. SUFFICES ASSUME NEW s \in SUBSET A, Cardinality(s) = n + 1
                PROVE  g[s] = g2[s]
    OBVIOUS
  <2>1. s # {} /\ Pick(s) \in s
    BY <1>0, PickIn, FS_EmptySet
  <2>2. Cardinality(s \ {Pick(s)}) = n /\ s \ {Pick(s)} \in SUBSET A
    BY <1>0, <2>1, Smaller
  <2>3. g[s \ {Pick(s)}] = g2[s \ {Pick(s)}]
    BY <1>2, <2>2
  <2>. QED
    BY <1>0, <1>01, <1>02, <2>1, <2>3
<1>3. \A n \in Nat : n \in T
  <2>. HIDE DEF T
  <2>. QED
    BY <1>1, <1>2, SetInduction
<1>4. Cardinality(A) \in Nat
  BY FS_CardinalityType
<1>. QED
  BY <1>3, <1>4

\* A sum can be read off any such g.
LEMMA SumIs ==
  ASSUME NEW f, NEW S, IsFiniteSet(S), NEW g, SumsOf(f, S, g), NEW A \in SUBSET S
  PROVE  SumFunctionOnSet(f, A) = g[A]
<1>. DEFINE h == CHOOSE h : SumsOf(f, A, h)
<1>1. IsFiniteSet(A)
  BY FS_Subset
<1>2. SumsOf(f, A, h)
  BY <1>1, SumsExist
<1>. HIDE DEF h
<1>3. h[A] = g[A]
  BY <1>1, <1>2, SumsAgree
<1>4. SumFunctionOnSet(f, A) = h[A]
  BY SumUnfolds DEF h
<1>. QED
  BY <1>3, <1>4

\* So a sum is one value, and the sum of the rest.
LEMMA SumPick ==
  ASSUME NEW f, NEW S, IsFiniteSet(S)
  PROVE  SumFunctionOnSet(f, S) =
           IF S = {} THEN 0 ELSE f[Pick(S)] + SumFunctionOnSet(f, S \ {Pick(S)})
<1>1. PICK g : SumsOf(f, S, g)
  BY SumsExist
<1>2. \A s \in SUBSET S : g[s] = IF s = {} THEN 0 ELSE f[Pick(s)] + g[s \ {Pick(s)}]
  BY <1>1, Zenon DEF SumsOf
<1>3. \A s \in SUBSET S : SumFunctionOnSet(f, s) = g[s]
  BY <1>1, SumIs
<1>. QED
  BY <1>2, <1>3

\* Numbers add up to a number.
LEMMA SumType ==
  ASSUME NEW S, IsFiniteSet(S), NEW f, \A x \in S : f[x] \in Nat
  PROVE  SumFunctionOnSet(f, S) \in Nat
<1>. DEFINE T == {n \in Nat : \A s \in SUBSET S : Cardinality(s) = n => SumFunctionOnSet(f, s) \in Nat}
<1>0. \A s \in SUBSET S : IsFiniteSet(s) /\ Cardinality(s) \in Nat
  BY FS_Subset, FS_CardinalityType
<1>1. 0 \in T
  BY <1>0, SumPick, FS_EmptySet
<1>2. ASSUME NEW n \in Nat, n \in T PROVE n + 1 \in T
  <2>. SUFFICES ASSUME NEW s \in SUBSET S, Cardinality(s) = n + 1
                PROVE  SumFunctionOnSet(f, s) \in Nat
    OBVIOUS
  <2>1. s # {} /\ Pick(s) \in s
    BY <1>0, PickIn, FS_EmptySet
  <2>2. Cardinality(s \ {Pick(s)}) = n /\ s \ {Pick(s)} \in SUBSET S
    BY <1>0, <2>1, Smaller
  <2>3. SumFunctionOnSet(f, s \ {Pick(s)}) \in Nat /\ f[Pick(s)] \in Nat
    BY <1>2, <2>1, <2>2
  <2>4. SumFunctionOnSet(f, s) = f[Pick(s)] + SumFunctionOnSet(f, s \ {Pick(s)})
    BY <1>0, <2>1, SumPick
  <2>. QED
    BY <2>3, <2>4
<1>3. \A n \in Nat : n \in T
  <2>. HIDE DEF T
  <2>. QED
    BY <1>1, <1>2, SetInduction
<1>. QED
  BY <1>0, <1>3

\* Any element may be added last.
LEMMA SumAdd ==
  ASSUME NEW S, IsFiniteSet(S), NEW f, \A y \in S : f[y] \in Nat, NEW x \in S
  PROVE  SumFunctionOnSet(f, S) = f[x] + SumFunctionOnSet(f, S \ {x})
<1>. DEFINE T == {n \in Nat : \A s \in SUBSET S : \A z \in s : Cardinality(s) = n =>
                    SumFunctionOnSet(f, s) = f[z] + SumFunctionOnSet(f, s \ {z})}
<1>0. \A s \in SUBSET S : IsFiniteSet(s) /\ Cardinality(s) \in Nat /\ SumFunctionOnSet(f, s) \in Nat
  BY FS_Subset, FS_CardinalityType, SumType
<1>1. 0 \in T
  BY <1>0, FS_EmptySet
<1>2. ASSUME NEW n \in Nat, n \in T PROVE n + 1 \in T
  <2>. SUFFICES ASSUME NEW s \in SUBSET S, NEW z \in s, Cardinality(s) = n + 1
                PROVE  SumFunctionOnSet(f, s) = f[z] + SumFunctionOnSet(f, s \ {z})
    OBVIOUS
  <2>. DEFINE y == Pick(s)
  <2>1. y \in s
    BY PickIn
  <2>2. SumFunctionOnSet(f, s) = f[y] + SumFunctionOnSet(f, s \ {y})
    BY <1>0, <2>1, SumPick
  <2>3. CASE y = z
    BY <2>2, <2>3
  <2>4. CASE y # z
    <3>. HIDE DEF y
    <3>1. /\ Cardinality(s \ {y}) = n /\ s \ {y} \in SUBSET S /\ z \in s \ {y}
          /\ Cardinality(s \ {z}) = n /\ s \ {z} \in SUBSET S /\ y \in s \ {z}
      BY <1>0, <2>1, <2>4, Smaller
    <3>2. SumFunctionOnSet(f, s \ {y}) = f[z] + SumFunctionOnSet(f, (s \ {y}) \ {z})
      BY <1>2, <3>1
    <3>3. SumFunctionOnSet(f, s \ {z}) = f[y] + SumFunctionOnSet(f, (s \ {z}) \ {y})
      BY <1>2, <3>1
    <3>4. (s \ {z}) \ {y} = (s \ {y}) \ {z}
      OBVIOUS
    <3>5. f[y] \in Nat /\ f[z] \in Nat /\ SumFunctionOnSet(f, (s \ {y}) \ {z}) \in Nat
      BY <1>0, <2>1, <3>1
    <3>. QED
      BY <2>2, <3>2, <3>3, <3>4, <3>5
  <2>. QED
    BY <2>3, <2>4
<1>3. \A n \in Nat : n \in T
  <2>. HIDE DEF T
  <2>. QED
    BY <1>1, <1>2, SetInduction
<1>. QED
  BY <1>0, <1>3

\* The sums of two functions with the same values, of one a place further, are equal.
LEMMA SumMoved ==
  ASSUME NEW A \in SUBSET Int, IsFiniteSet(A), NEW f, NEW g,
         \A x \in A : f[x] \in Nat /\ g[x + 1] = f[x]
  PROVE  SumFunctionOnSet(g, {x + 1 : x \in A}) = SumFunctionOnSet(f, A)
<1>. DEFINE Moved(s) == {x + 1 : x \in s}
            T == {n \in Nat : \A s \in SUBSET A : Cardinality(s) = n =>
                    IsFiniteSet(Moved(s)) /\ SumFunctionOnSet(g, Moved(s)) = SumFunctionOnSet(f, s)}
<1>0. \A s \in SUBSET A : IsFiniteSet(s) /\ Cardinality(s) \in Nat
  BY FS_Subset, FS_CardinalityType
<1>1. 0 \in T
  <2>. SUFFICES ASSUME NEW s \in SUBSET A, Cardinality(s) = 0
                PROVE  IsFiniteSet(Moved(s)) /\ SumFunctionOnSet(g, Moved(s)) = SumFunctionOnSet(f, s)
    OBVIOUS
  <2>1. s = {} /\ Moved(s) = {}
    BY <1>0, FS_EmptySet
  <2>2. IsFiniteSet({})
    BY FS_EmptySet
  <2>. QED
    BY <2>1, <2>2, SumPick
<1>2. ASSUME NEW n \in Nat, n \in T PROVE n + 1 \in T
  <2>. SUFFICES ASSUME NEW s \in SUBSET A, Cardinality(s) = n + 1
                PROVE  IsFiniteSet(Moved(s)) /\ SumFunctionOnSet(g, Moved(s)) = SumFunctionOnSet(f, s)
    OBVIOUS
  <2>0. s # {}
    BY <1>0, FS_EmptySet
  <2>1. PICK x \in s : TRUE
    BY <2>0
  <2>2. Cardinality(s \ {x}) = n /\ s \ {x} \in SUBSET A
    BY <1>0, <2>1, Smaller
  <2>. DEFINE B == Moved(s \ {x})
              C == Moved(s)
              z == x + 1
  <2>3. IsFiniteSet(B) /\ SumFunctionOnSet(g, B) = SumFunctionOnSet(f, s \ {x})
    BY <1>2, <2>2
  <2>4. C = B \cup {z} /\ C \ {z} = B /\ z \in C
    BY <2>1
  <2>5. \A y \in C : g[y] \in Nat
    BY <2>1
  <2>6. SumFunctionOnSet(f, s) = f[x] + SumFunctionOnSet(f, s \ {x})
    BY <1>0, <2>1, SumAdd
  <2>7. g[z] = f[x]
    BY <2>1
  <2>8. IsFiniteSet(C) /\ SumFunctionOnSet(g, C) = SumFunctionOnSet(f, s)
    <3>. HIDE DEF B, C, z
    <3>1. IsFiniteSet(C)
      BY <2>3, <2>4, FS_AddElement
    <3>2. SumFunctionOnSet(g, C) = g[z] + SumFunctionOnSet(g, B)
      BY <2>4, <2>5, <3>1, SumAdd
    <3>. QED
      BY <2>3, <2>6, <2>7, <3>1, <3>2
  <2>. QED
    BY <2>8
<1>3. \A n \in Nat : n \in T
  <2>. HIDE DEF T
  <2>. QED
    BY <1>1, <1>2, SetInduction
<1>. QED
  BY <1>0, <1>3

\* Functions that agree have the same sums.
LEMMA SumSame ==
  ASSUME NEW S, IsFiniteSet(S), NEW f, NEW g, \A x \in S : f[x] = g[x]
  PROVE  SumFunctionOnSet(f, S) = SumFunctionOnSet(g, S)
<1>1. PICK h : SumsOf(f, S, h)
  BY SumsExist
<1>2. PICK k : SumsOf(g, S, k)
  BY SumsExist
<1>3. h[S] = k[S]
  BY <1>1, <1>2, SumsAgree
<1>. QED
  BY <1>1, <1>2, <1>3, SumIs

\* Nothing adds up to nothing.
LEMMA SumOfZeros ==
  ASSUME NEW S, IsFiniteSet(S), NEW f, \A x \in S : f[x] = 0
  PROVE  SumFunctionOnSet(f, S) = 0
<1>. DEFINE T == {n \in Nat : \A s \in SUBSET S : Cardinality(s) = n => SumFunctionOnSet(f, s) = 0}
<1>0. \A s \in SUBSET S : IsFiniteSet(s) /\ Cardinality(s) \in Nat
  BY FS_Subset, FS_CardinalityType
<1>1. 0 \in T
  BY <1>0, SumPick, FS_EmptySet
<1>2. ASSUME NEW n \in Nat, n \in T PROVE n + 1 \in T
  <2>. SUFFICES ASSUME NEW s \in SUBSET S, Cardinality(s) = n + 1
                PROVE  SumFunctionOnSet(f, s) = 0
    OBVIOUS
  <2>1. s # {} /\ Pick(s) \in s
    BY <1>0, PickIn, FS_EmptySet
  <2>2. Cardinality(s \ {Pick(s)}) = n /\ s \ {Pick(s)} \in SUBSET S
    BY <1>0, <2>1, Smaller
  <2>3. SumFunctionOnSet(f, s \ {Pick(s)}) = 0 /\ f[Pick(s)] = 0
    BY <1>2, <2>1, <2>2
  <2>. QED
    BY <1>0, <2>1, <2>3, SumPick
<1>3. \A n \in Nat : n \in T
  <2>. HIDE DEF T
  <2>. QED
    BY <1>1, <1>2, SetInduction
<1>. QED
  BY <1>0, <1>3

-----------------------------------------------------------------------------

Entry == [rps : Nat, t : Nat]

HistoryType ==
  /\ now \in Nat
  /\ reqCount \in Nat
  /\ reqs \in Seq(Nat)
  /\ hist \in Seq(Entry)

\* Between two entries lie as many seconds as there are entries from one to the other.
Spaced(h) == \A i, j \in 1 .. Len(h) : i <= j => h[j].t - h[i].t >= j - i

\* All were made by now, and before now if a tick is under way.
Past ==
  /\ \A i \in 1 .. Len(hist) : hist[i].t <= now
  /\ reqs # <<>> => \A i \in 1 .. Len(hist) : hist[i].t < now

HistoryInv == HistoryType /\ Spaced(hist) /\ Past /\ HistoryBounded

-----------------------------------------------------------------------------

\* An entry has a time.
LEMMA EntryTime ==
  ASSUME NEW h \in Seq(Entry), NEW i \in 1 .. Len(h)
  PROVE  h[i].t \in Nat
<1>1. h[i] \in Entry
  OBVIOUS
<1>. QED
  BY <1>1 DEF Entry

\* A tick starts in a later second than that of the last entry.
LEMMA LastIsLatest ==
  ASSUME HistoryInv, hist # <<>>, Last(hist).t < now
  PROVE  \A i \in 1 .. Len(hist) : hist[i].t < now
<1>1. Len(hist) \in 1 .. Len(hist)
  BY DEF HistoryInv, HistoryType
<1>2. \A i \in 1 .. Len(hist) : hist[Len(hist)].t - hist[i].t >= Len(hist) - i
  BY <1>1 DEF HistoryInv, Spaced
<1>3. \A i \in 1 .. Len(hist) : hist[i].t \in Nat
  BY EntryTime DEF HistoryInv, HistoryType
<1>. QED
  BY <1>1, <1>2, <1>3 DEF HistoryInv, HistoryType, Last

\* An entry made after all others is a second or more from each.
LEMMA AppendSpaced ==
  ASSUME HistoryInv, NEW e \in Entry, e.t = now,
         \A i \in 1 .. Len(hist) : hist[i].t < now
  PROVE  /\ Append(hist, e) \in Seq(Entry)
         /\ Spaced(Append(hist, e))
         /\ \A i \in 1 .. Len(Append(hist, e)) : Append(hist, e)[i].t <= now
         /\ Len(Append(hist, e)) = Len(hist) + 1
<1>. DEFINE h == Append(hist, e)
<1>1. h \in Seq(Entry) /\ Len(h) = Len(hist) + 1
  BY DEF HistoryInv, HistoryType
<1>2. \A i \in 1 .. Len(hist) : h[i] = hist[i]
  BY DEF HistoryInv, HistoryType
<1>3. h[Len(hist) + 1] = e
  BY DEF HistoryInv, HistoryType
<1>4. \A i \in 1 .. Len(hist) : hist[i].t \in Nat /\ hist[i].t < now /\ now \in Nat
  BY EntryTime DEF HistoryInv, HistoryType
<1>5. ASSUME NEW i \in 1 .. Len(hist)
      PROVE  now - hist[i].t >= Len(hist) + 1 - i
  <2>1. Len(hist) \in 1 .. Len(hist) /\ Len(hist) \in Nat
    BY DEF HistoryInv, HistoryType
  <2>2. hist[Len(hist)].t - hist[i].t >= Len(hist) - i
    BY <2>1 DEF HistoryInv, Spaced
  <2>. QED
    BY <1>4, <2>1, <2>2
<1>6. Spaced(h)
  <2>. SUFFICES ASSUME NEW i \in 1 .. Len(h), NEW j \in 1 .. Len(h), i <= j
                PROVE  h[j].t - h[i].t >= j - i
    BY DEF Spaced
  <2>1. CASE j \in 1 .. Len(hist)
    <3>1. i \in 1 .. Len(hist)
      BY <2>1
    <3>2. hist[j].t - hist[i].t >= j - i
      BY <2>1, <3>1 DEF HistoryInv, Spaced
    <3>. QED
      BY <1>2, <2>1, <3>1, <3>2
  <2>2. CASE j = Len(hist) + 1
    <3>1. CASE i = j
      BY <1>3, <2>2, <3>1 DEF HistoryInv, HistoryType
    <3>2. CASE i # j
      <4>1. i \in 1 .. Len(hist)
        BY <2>2, <3>2, <1>1
      <4>. QED
        BY <1>2, <1>3, <1>5, <2>2, <4>1
    <3>. QED
      BY <3>1, <3>2
  <2>. QED
    BY <1>1, <2>1, <2>2 DEF HistoryInv, HistoryType
<1>7. \A i \in 1 .. Len(h) : h[i].t <= now
  BY <1>1, <1>2, <1>3, <1>4 DEF HistoryInv, HistoryType
<1>. QED
  BY <1>1, <1>6, <1>7

\* Without its first entry a history is as it was.
LEMMA TailSpaced ==
  ASSUME NEW h \in Seq(Entry), h # <<>>, Spaced(h)
  PROVE  /\ Tail(h) \in Seq(Entry)
         /\ Len(Tail(h)) = Len(h) - 1
         /\ Spaced(Tail(h))
         /\ \A i \in 1 .. Len(Tail(h)) : Tail(h)[i] = h[i + 1]
<1>1. Tail(h) \in Seq(Entry) /\ Len(Tail(h)) = Len(h) - 1
  OBVIOUS
<1>2. \A i \in 1 .. Len(Tail(h)) : Tail(h)[i] = h[i + 1] /\ i + 1 \in 1 .. Len(h)
  BY <1>1
<1>3. Spaced(Tail(h))
  <2>. SUFFICES ASSUME NEW i \in 1 .. Len(Tail(h)), NEW j \in 1 .. Len(Tail(h)), i <= j
                PROVE  Tail(h)[j].t - Tail(h)[i].t >= j - i
    BY DEF Spaced
  <2>1. h[j + 1].t - h[i + 1].t >= (j + 1) - (i + 1)
    BY <1>2 DEF Spaced
  <2>. QED
    BY <1>2, <2>1
<1>. QED
  BY <1>1, <1>2, <1>3

-----------------------------------------------------------------------------

\* The history is empty.
LEMMA InitHistory == Init => HistoryInv
BY ConstantsAssumption DEF Init, HistoryInv, HistoryType, Spaced, Past, HistoryBounded, Entry

\* push: where nothing is dropped, all entries fit into the duration.
LEMMA PushKeeps == HistoryInv /\ push => HistoryInv'
<1>. SUFFICES ASSUME HistoryInv, push
              PROVE  HistoryInv'
  OBVIOUS
<1>. DEFINE e == [rps |-> reqs[1], t |-> now]
            entries == Append(hist, e)
<1>1. reqs # <<>> /\ reqs[1] \in Nat /\ e \in Entry /\ e.t = now
  BY DEF push, HistoryInv, HistoryType, Entry
<1>2. /\ entries \in Seq(Entry)
      /\ Spaced(entries)
      /\ \A i \in 1 .. Len(entries) : entries[i].t <= now
      /\ Len(entries) = Len(hist) + 1
  BY <1>1, AppendSpaced DEF HistoryInv, Past
<1>3. entries # <<>> /\ entries[Len(entries)] = e /\ Len(entries) \in Nat \ {0}
  BY <1>1 DEF HistoryInv, HistoryType
<1>4. now' = now /\ reqCount' = reqCount /\ reqs' = <<>>
  BY DEF push
<1>5. MaxHistoryDuration \in Nat
  BY ConstantsAssumption
<1>6. CASE now - entries[1].t > MaxHistoryDuration
  <2>1. hist' = Tail(entries)
    BY <1>6 DEF push
  <2>2. /\ Tail(entries) \in Seq(Entry)
        /\ Len(Tail(entries)) = Len(entries) - 1
        /\ Spaced(Tail(entries))
        /\ \A i \in 1 .. Len(Tail(entries)) : Tail(entries)[i] = entries[i + 1]
    BY <1>2, <1>3, TailSpaced
  <2>3. \A i \in 1 .. Len(hist') : hist'[i].t <= now
    BY <1>2, <1>3, <2>1, <2>2
  <2>4. Len(hist') = Len(hist)
    BY <1>2, <2>1, <2>2 DEF HistoryInv, HistoryType
  <2>5. HistoryType'
    <3>1. hist' \in Seq(Entry)
      BY <2>1, <2>2
    <3>. QED
      BY <1>4, <3>1 DEF HistoryInv, HistoryType, Entry
  <2>6. Past'
    BY <1>4, <2>3 DEF Past
  <2>7. Spaced(hist)'
    BY <2>1, <2>2 DEF Spaced
  <2>8. HistoryBounded'
    BY <2>4 DEF HistoryInv, HistoryBounded
  <2>. QED
    BY <2>5, <2>6, <2>7, <2>8 DEF HistoryInv
<1>7. CASE ~(now - entries[1].t > MaxHistoryDuration)
  <2>1. hist' = entries
    BY <1>7 DEF push
  <2>2. now - entries[1].t >= Len(entries) - 1
    BY <1>1, <1>2, <1>3 DEF Spaced
  <2>3. entries[1].t \in Nat /\ now \in Nat
    BY <1>2, <1>3, EntryTime DEF HistoryInv, HistoryType
  <2>4. Len(entries) <= MaxHistoryDuration + 1
    BY <1>3, <1>5, <1>7, <2>2, <2>3
  <2>. QED
    BY <1>2, <1>4, <2>1, <2>4 DEF HistoryInv, HistoryType, Past, Spaced, HistoryBounded
<1>. QED
  BY <1>6, <1>7

\* Calc starts a tick only in a later second.
LEMMA CalcKeeps == HistoryInv /\ Calc => HistoryInv'
<1>. SUFFICES ASSUME HistoryInv, Calc
              PROVE  HistoryInv'
  OBVIOUS
<1>1. \A i \in 1 .. Len(hist) : hist[i].t < now
  <2>1. CASE hist = <<>>
    BY <2>1
  <2>2. CASE hist # <<>>
    BY <2>2, LastIsLatest DEF Calc
  <2>. QED
    BY <2>1, <2>2
<1>2. now' = now /\ hist' = hist /\ reqs' = <<reqCount>> /\ reqCount' = 0
  BY DEF Calc
<1>3. HistoryType' /\ Spaced(hist)' /\ HistoryBounded'
  BY <1>2 DEF HistoryInv, HistoryType, Spaced, HistoryBounded
<1>4. Past'
  BY <1>1, <1>2 DEF Past, HistoryInv
<1>. QED
  BY <1>3, <1>4 DEF HistoryInv

\* Time moves away from the entries.
LEMMA AdvanceKeeps == HistoryInv /\ Advance => HistoryInv'
<1>. SUFFICES ASSUME HistoryInv, Advance
              PROVE  HistoryInv'
  OBVIOUS
<1>1. now' = now + 1 /\ hist' = hist /\ reqs' = reqs /\ reqCount' = reqCount
  BY DEF Advance, rates
<1>2. HistoryType' /\ Spaced(hist)' /\ HistoryBounded'
  BY <1>1 DEF HistoryInv, HistoryType, Spaced, HistoryBounded
<1>3. \A i \in 1 .. Len(hist) : hist[i].t \in Nat
  BY EntryTime DEF HistoryInv, HistoryType
<1>4. Past'
  BY <1>1, <1>3 DEF Past, HistoryInv, HistoryType
<1>. QED
  BY <1>2, <1>4 DEF HistoryInv

\* Counting and probing leave clock, history and tick alone.
LEMMA SameHistory ==
  ASSUME HistoryInv, now' = now, hist' = hist, reqs' = reqs, reqCount' \in Nat
  PROVE  HistoryInv'
BY DEF HistoryInv, HistoryType, Spaced, Past, HistoryBounded

\* Every step keeps it.
LEMMA NextHistory == HistoryInv /\ [Next]_vars => HistoryInv'
<1>. SUFFICES ASSUME HistoryInv, [Next]_vars
              PROVE  HistoryInv'
  OBVIOUS
<1>0. reqCount \in Nat
  BY DEF HistoryInv, HistoryType
<1>1. CASE AddAPICmdCount
  BY <1>0, <1>1, SameHistory DEF AddAPICmdCount
<1>2. CASE Calc
  BY <1>2, CalcKeeps
<1>3. CASE push
  BY <1>3, PushKeeps
<1>4. CASE Advance
  BY <1>4, AdvanceKeeps
<1>5. CASE UpdateNodeLoading
  BY <1>0, <1>5, SameHistory DEF UpdateNodeLoading, rates
<1>6. CASE \E p \in Peers : Skip(p) \/ \E avg \in PeerAverages : Ask(p, avg)
  BY <1>0, <1>6, SameHistory DEF Skip, Ask, rates
<1>7. CASE calcNodeLoading
  BY <1>0, <1>7, SameHistory DEF calcNodeLoading, rates
<1>8. CASE UNCHANGED vars
  BY <1>0, <1>8, SameHistory DEF vars, rates
<1>. QED
  BY <1>1, <1>2, <1>3, <1>4, <1>5, <1>6, <1>7, <1>8 DEF Next

\* A history has at most one entry more than its duration has seconds, whatever
\* the duration, and whenever the ticks that push to it come.
THEOREM HistoriesBounded == Spec => []HistoryBounded
<1>1. HistoryInv => HistoryBounded
  BY DEF HistoryInv
<1>. QED
  BY <1>1, InitHistory, NextHistory, PTL DEF Spec

-----------------------------------------------------------------------------

\* The rates of a history, by their places.
Rps(h) == [i \in DOMAIN h |-> h[i].rps]

\* There are finitely many places, and rates, to add up.
LEMMA PlacesMade ==
  ASSUME NEW h \in Seq(Entry), NEW s \in Int
  PROVE  /\ MadeSince(h, s) \in SUBSET (1 .. Len(h))
         /\ IsFiniteSet(MadeSince(h, s))
         /\ \A i \in MadeSince(h, s) : Rps(h)[i] \in Nat
         /\ rpsSum(h, s) = SumFunctionOnSet(Rps(h), MadeSince(h, s))
         /\ rpsSum(h, s) \in Nat
<1>1. MadeSince(h, s) \in SUBSET (1 .. Len(h))
  BY DEF MadeSince
<1>2. IsFiniteSet(1 .. Len(h))
  BY FS_Interval
<1>3. IsFiniteSet(MadeSince(h, s))
  BY <1>1, <1>2, FS_Subset
<1>4. \A i \in MadeSince(h, s) : Rps(h)[i] \in Nat
  <2>1. \A i \in 1 .. Len(h) : h[i] \in Entry
    OBVIOUS
  <2>. QED
    BY <1>1, <2>1 DEF Rps, Entry
<1>5. rpsSum(h, s) = SumFunctionOnSet(Rps(h), MadeSince(h, s))
  BY DEF rpsSum, Rps
<1>. QED
  BY <1>1, <1>3, <1>4, <1>5, SumType

\* An entry that is appended counts if it was made since.
LEMMA RpsAppend ==
  ASSUME NEW h \in Seq(Entry), NEW e \in Entry, NEW s \in Int
  PROVE  rpsSum(Append(h, e), s) = rpsSum(h, s) + IF s <= e.t THEN e.rps ELSE 0
<1>. DEFINE g == Append(h, e)
            n == Len(h) + 1
            A == MadeSince(h, s)
            B == MadeSince(g, s)
<1>1. g \in Seq(Entry) /\ DOMAIN g = 1 .. n /\ DOMAIN h = 1 .. Len(h) /\ Len(h) \in Nat
  OBVIOUS
<1>2. \A i \in 1 .. Len(h) : g[i] = h[i]
  OBVIOUS
<1>3. g[n] = e
  OBVIOUS
<1>4. A \subseteq 1 .. Len(h) /\ n \notin A
  BY <1>1 DEF MadeSince
<1>5. B = IF s <= e.t THEN A \cup {n} ELSE A
  <2>. HIDE DEF g
  <2>. QED
    BY <1>1, <1>2, <1>3 DEF MadeSince
<1>6. \A i \in A : Rps(g)[i] = Rps(h)[i]
  BY <1>1, <1>2, <1>4 DEF Rps
<1>7. Rps(g)[n] = e.rps /\ e.rps \in Nat
  BY <1>1, <1>3 DEF Rps, Entry
<1>8. IsFiniteSet(A) /\ IsFiniteSet(B) /\ \A i \in B : Rps(g)[i] \in Nat
  BY <1>1, PlacesMade
<1>9. rpsSum(g, s) = SumFunctionOnSet(Rps(g), B) /\ rpsSum(h, s) = SumFunctionOnSet(Rps(h), A)
      /\ rpsSum(h, s) \in Nat
  BY <1>1, PlacesMade
<1>10. SumFunctionOnSet(Rps(g), A) = SumFunctionOnSet(Rps(h), A)
  BY <1>6, <1>8, SumSame
<1>. HIDE DEF g, A, B, n
<1>11. ASSUME s <= e.t
       PROVE  rpsSum(g, s) = rpsSum(h, s) + e.rps
  <2>1. SumFunctionOnSet(Rps(g), B) = Rps(g)[n] + SumFunctionOnSet(Rps(g), B \ {n})
    BY <1>5, <1>8, <1>11, SumAdd
  <2>2. B \ {n} = A
    BY <1>4, <1>5, <1>11
  <2>3. SumFunctionOnSet(Rps(g), B \ {n}) = rpsSum(h, s)
    BY <1>9, <1>10, <2>2, Zenon
  <2>. QED
    BY <1>7, <1>9, <2>1, <2>3
<1>12. ASSUME ~(s <= e.t)
       PROVE  rpsSum(g, s) = rpsSum(h, s) + 0
  BY <1>5, <1>9, <1>10, <1>12
<1>. QED
  BY <1>11, <1>12 DEF g

\* So does the first, which Tail takes away.
LEMMA RpsTail ==
  ASSUME NEW h \in Seq(Entry), h # <<>>, NEW s \in Int
  PROVE  rpsSum(h, s) = rpsSum(Tail(h), s) + IF s <= h[1].t THEN h[1].rps ELSE 0
<1>. DEFINE g == Tail(h)
            A == MadeSince(g, s)
            B == MadeSince(h, s)
            M == {i + 1 : i \in A}
<1>1. /\ g \in Seq(Entry) /\ DOMAIN g = 1 .. Len(h) - 1 /\ Len(h) \in Nat \ {0}
      /\ DOMAIN h = 1 .. Len(h)
  OBVIOUS
<1>2. \A i \in 1 .. Len(h) - 1 : g[i] = h[i + 1]
  OBVIOUS
<1>3. A \subseteq 1 .. Len(h) - 1 /\ 1 \notin M
  BY <1>1 DEF MadeSince
<1>4. B = IF s <= h[1].t THEN M \cup {1} ELSE M
  <2>. HIDE DEF g
  <2>1. \A j \in 2 .. Len(h) : j \in M <=> s <= h[j].t
    <3>1. \A j \in 2 .. Len(h) : j - 1 \in 1 .. Len(h) - 1 /\ (j - 1) + 1 = j
      BY <1>1
    <3>2. \A i \in 1 .. Len(h) - 1 : i \in A <=> s <= h[i + 1].t
      BY <1>1, <1>2 DEF MadeSince
    <3>3. \A j \in 2 .. Len(h) : j \in M <=> j - 1 \in A
      <4>. HIDE DEF A
      <4>. QED
        BY <1>1, <1>3
    <3>. QED
      BY <3>1, <3>2, <3>3
  <2>2. M \subseteq 2 .. Len(h)
    BY <1>1, <1>3
  <2>3. B \subseteq 1 .. Len(h) /\ \A j \in 1 .. Len(h) : j \in B <=> s <= h[j].t
    BY <1>1 DEF MadeSince
  <2>4. \A j \in 1 .. Len(h) : j = 1 \/ j \in 2 .. Len(h)
    BY <1>1
  <2>5. 1 \in 1 .. Len(h) /\ 2 .. Len(h) \subseteq 1 .. Len(h)
    BY <1>1
  <2>. HIDE DEF M, B
  <2>6. CASE s <= h[1].t
    BY <2>1, <2>2, <2>3, <2>4, <2>5, <2>6, Zenon
  <2>7. CASE ~(s <= h[1].t)
    BY <2>1, <2>2, <2>3, <2>4, <2>5, <2>7, Zenon
  <2>. QED
    BY <2>6, <2>7, Zenon
<1>5. \A i \in A : Rps(g)[i] \in Nat /\ Rps(h)[i + 1] = Rps(g)[i]
  <2>1. \A i \in A : Rps(g)[i] \in Nat
    BY <1>1, PlacesMade
  <2>2. \A i \in 1 .. Len(h) - 1 : i + 1 \in 1 .. Len(h)
    BY <1>1
  <2>. QED
    BY <1>1, <1>2, <1>3, <2>1, <2>2 DEF Rps
<1>6. Rps(h)[1] = h[1].rps /\ h[1] \in Entry /\ h[1].rps \in Nat
  <2>1. 1 \in DOMAIN h /\ h[1] \in Entry
    BY <1>1
  <2>. QED
    BY <2>1 DEF Rps, Entry
<1>7. IsFiniteSet(A) /\ IsFiniteSet(B) /\ \A i \in B : Rps(h)[i] \in Nat
  BY <1>1, PlacesMade
<1>8. /\ rpsSum(h, s) = SumFunctionOnSet(Rps(h), B)
      /\ rpsSum(g, s) = SumFunctionOnSet(Rps(g), A)
      /\ rpsSum(g, s) \in Nat
  BY <1>1, PlacesMade
<1>9. SumFunctionOnSet(Rps(h), M) = SumFunctionOnSet(Rps(g), A)
  <2>. DEFINE a == Rps(g)
              b == Rps(h)
  <2>1. A \in SUBSET Int
    BY <1>1, <1>3
  <2>2. \A i \in A : a[i] \in Nat /\ b[i + 1] = a[i]
    BY <1>5
  <2>. HIDE DEF A, a, b
  <2>3. SumFunctionOnSet(b, {i + 1 : i \in A}) = SumFunctionOnSet(a, A)
    BY <1>7, <2>1, <2>2, SumMoved
  <2>. QED
    BY <2>3, Zenon DEF a, b
<1>. HIDE DEF g, A, B, M
<1>10. ASSUME s <= h[1].t
       PROVE  rpsSum(h, s) = rpsSum(g, s) + h[1].rps
  <2>1. SumFunctionOnSet(Rps(h), B) = Rps(h)[1] + SumFunctionOnSet(Rps(h), B \ {1})
    BY <1>4, <1>7, <1>10, SumAdd
  <2>2. B \ {1} = M
    BY <1>3, <1>4, <1>10
  <2>3. SumFunctionOnSet(Rps(h), B \ {1}) = rpsSum(g, s)
    BY <1>8, <1>9, <2>2, Zenon
  <2>. QED
    BY <1>6, <1>8, <2>1, <2>3
<1>11. ASSUME ~(s <= h[1].t)
       PROVE  rpsSum(h, s) = rpsSum(g, s) + 0
  BY <1>4, <1>8, <1>9, <1>11
<1>. QED
  BY <1>10, <1>11 DEF g

-----------------------------------------------------------------------------
(* No request is lost and none counted twice.                              *)

\* Nothing was counted after now, and at most one count is on its way.
CountType ==
  /\ now \in 0 .. MaxTime
  /\ counted \in [0 .. MaxTime -> Nat]
  /\ Len(reqs) <= 1
  /\ \A t \in 0 .. MaxTime : t > now => counted[t] = 0

\* What a tick has taken.
Taken == IF reqs = <<>> THEN 0 ELSE reqs[1]

RequestsInv == HistoryInv /\ CountType /\ RequestsKeptOnce

\* Both sides are numbers.
LEMMA SidesInNat ==
  ASSUME HistoryType, CountType, NEW s \in Nat
  PROVE  CountedSince(s) \in Nat /\ Taken \in Nat /\ rpsSum(hist, s) \in Nat /\ KeptSince(s) \in Nat
<1>1. CountedSince(s) \in Nat
  <2>. DEFINE S == s .. MaxTime
  <2>0. s \in Int /\ MaxTime \in Int
    BY ConstantsAssumption
  <2>1. IsFiniteSet(S) /\ \A t \in S : counted[t] \in Nat
    <3>1. IsFiniteSet(S)
      BY <2>0, FS_Interval
    <3>2. S \subseteq 0 .. MaxTime
      BY <2>0
    <3>. QED
      BY <3>1, <3>2 DEF CountType
  <2>2. CountedSince(s) = SumFunctionOnSet(counted, S)
    BY DEF CountedSince
  <2>. HIDE DEF S
  <2>. QED
    BY <2>1, <2>2, SumType
<1>2. rpsSum(hist, s) \in Nat
  BY PlacesMade DEF HistoryType
<1>3. Taken \in Nat
  BY DEF HistoryType, Taken
<1>4. KeptSince(s) = reqCount + Taken + rpsSum(hist, s)
  BY DEF KeptSince, Taken
<1>. QED
  BY <1>1, <1>2, <1>3, <1>4 DEF HistoryType

\* Nothing has been counted.
LEMMA InitRequests == Init => RequestsInv
<1>. SUFFICES ASSUME Init
              PROVE  RequestsInv
  OBVIOUS
<1>1. HistoryInv
  BY InitHistory
<1>2. CountType
  BY ConstantsAssumption DEF Init, CountType
<1>3. now = 0 /\ 0 \in Nat /\ MaxTime \in Nat
  BY ConstantsAssumption DEF Init
<1>4. CountedSince(0) = 0
  <2>1. IsFiniteSet(0 .. MaxTime) /\ \A t \in 0 .. MaxTime : counted[t] = 0
    BY <1>3, FS_Interval DEF Init
  <2>. QED
    BY <2>1, SumOfZeros DEF CountedSince
<1>5. KeptSince(0) = 0
  <2>1. MadeSince(hist, 0) = {}
    BY DEF Init, MadeSince
  <2>2. rpsSum(hist, 0) = 0
    BY <2>1, SumPick, FS_EmptySet DEF rpsSum
  <2>. QED
    BY <2>2 DEF Init, KeptSince, Taken
<1>6. RequestsKeptOnce
  BY <1>3, <1>4, <1>5 DEF RequestsKeptOnce
<1>. QED
  BY <1>1, <1>2, <1>6 DEF RequestsInv

\* A request that is counted is counted on both sides.
LEMMA CountingKeeps ==
  ASSUME RequestsInv, AddAPICmdCount
  PROVE  CountType' /\ RequestsKeptOnce'
<1>1. /\ now' = now /\ reqs' = reqs /\ hist' = hist
      /\ reqCount' = reqCount + 1
      /\ counted' = [counted EXCEPT ![now] = @ + 1]
  BY DEF AddAPICmdCount
<1>2. HistoryType /\ CountType /\ now \in 0 .. MaxTime
  BY DEF RequestsInv, HistoryInv, CountType
<1>3. /\ counted'[now] = counted[now] + 1
      /\ \A t \in 0 .. MaxTime : t # now => counted'[t] = counted[t]
      /\ counted' \in [0 .. MaxTime -> Nat]
  BY <1>1, <1>2 DEF CountType
<1>4. CountType'
  BY <1>1, <1>2, <1>3 DEF CountType
<1>5. ASSUME NEW s \in 0 .. now
      PROVE  CountedSince(s)' = CountedSince(s) + 1
  <2>. DEFINE S == s .. MaxTime
  <2>1. IsFiniteSet(S) /\ S \subseteq 0 .. MaxTime /\ now \in S
    BY <1>2, FS_Interval, ConstantsAssumption
  <2>2. \A t \in S : counted[t] \in Nat /\ counted'[t] \in Nat
    BY <1>2, <1>3, <2>1 DEF CountType
  <2>3. IsFiniteSet(S \ {now}) /\ \A t \in S \ {now} : counted'[t] = counted[t]
    BY <1>3, <2>1, FS_RemoveElement
  <2>. DEFINE c == counted
              d == counted'
              n == now
  <2>. HIDE DEF S, c, d, n
  <2>4. SumFunctionOnSet(c, S) = c[n] + SumFunctionOnSet(c, S \ {n})
    BY <2>1, <2>2, SumAdd DEF c, d, n
  <2>5. SumFunctionOnSet(d, S) = d[n] + SumFunctionOnSet(d, S \ {n})
    BY <2>1, <2>2, SumAdd DEF c, d, n
  <2>6. SumFunctionOnSet(d, S \ {n}) = SumFunctionOnSet(c, S \ {n})
    BY <2>3, SumSame DEF c, d, n
  <2>7. SumFunctionOnSet(c, S \ {n}) \in Nat
    BY <2>1, <2>2, <2>3, SumType DEF c, d, n
  <2>8. d[n] = c[n] + 1 /\ c[n] \in Nat
    BY <1>3, <2>1, <2>2 DEF c, d, n
  <2>9. SumFunctionOnSet(d, S) = SumFunctionOnSet(c, S) + 1
    BY <2>4, <2>5, <2>6, <2>7, <2>8
  <2>. QED
    BY <2>9, <1>1 DEF CountedSince, S, c, d
<1>6. ASSUME NEW s \in Nat
      PROVE  KeptSince(s)' = KeptSince(s) + 1
  <2>1. Taken' = Taken /\ rpsSum(hist, s)' = rpsSum(hist, s)
    BY <1>1 DEF Taken, rpsSum, MadeSince
  <2>2. reqCount \in Nat /\ Taken \in Nat /\ rpsSum(hist, s) \in Nat
    BY <1>2, SidesInNat DEF HistoryType
  <2>3. /\ KeptSince(s) = reqCount + Taken + rpsSum(hist, s)
        /\ KeptSince(s)' = reqCount' + Taken' + rpsSum(hist, s)'
    BY DEF KeptSince, Taken
  <2>. QED
    BY <1>1, <2>1, <2>2, <2>3
<1>7. \A s \in 0 .. now : CountedSince(s) \in Nat /\ KeptSince(s) \in Nat /\ s \in Nat
  BY <1>2, SidesInNat
<1>8. 0 \in 0 .. now
  BY <1>2
<1>9. RequestsKeptOnce
  BY DEF RequestsInv
<1>10. /\ KeptSince(0)' <= CountedSince(0)'
       /\ \A s \in 0 .. now : now - s <= MaxHistoryDuration => CountedSince(s)' <= KeptSince(s)'
  BY <1>5, <1>6, <1>7, <1>8, <1>9 DEF RequestsKeptOnce
<1>11. RequestsKeptOnce'
  BY <1>1, <1>10 DEF RequestsKeptOnce
<1>. QED
  BY <1>4, <1>11

\* A tick takes the count, and leaves none.
LEMMA CalcKeepsRequests ==
  ASSUME RequestsInv, Calc
  PROVE  CountType' /\ RequestsKeptOnce'
<1>1. /\ now' = now /\ hist' = hist /\ counted' = counted
      /\ reqs = <<>> /\ reqs' = <<reqCount>> /\ reqCount' = 0
  BY DEF Calc
<1>2. HistoryType /\ CountType
  BY DEF RequestsInv, HistoryInv
<1>3. CountType'
  BY <1>1, <1>2 DEF CountType
<1>4. ASSUME NEW s \in Nat
      PROVE  KeptSince(s)' = KeptSince(s) /\ CountedSince(s)' = CountedSince(s)
  <2>1. Taken = 0 /\ Taken' = reqCount
    BY <1>1 DEF Taken
  <2>2. rpsSum(hist, s)' = rpsSum(hist, s) /\ CountedSince(s)' = CountedSince(s)
    BY <1>1 DEF rpsSum, MadeSince, CountedSince
  <2>3. /\ KeptSince(s) = reqCount + Taken + rpsSum(hist, s)
        /\ KeptSince(s)' = reqCount' + Taken' + rpsSum(hist, s)'
    BY DEF KeptSince, Taken
  <2>4. reqCount \in Nat /\ rpsSum(hist, s) \in Nat
    BY <1>2, SidesInNat DEF HistoryType
  <2>. QED
    BY <1>1, <2>1, <2>2, <2>3, <2>4
<1>5. 0 .. now \subseteq Nat
  OBVIOUS
<1>. QED
  BY <1>1, <1>3, <1>4, <1>5 DEF RequestsInv, RequestsKeptOnce

\* A push moves what the tick has taken into the history; the entry that goes is
\* older than a history reaches back.
LEMMA PushKeepsRequests ==
  ASSUME RequestsInv, push
  PROVE  CountType' /\ RequestsKeptOnce'
<1>. DEFINE e == [rps |-> reqs[1], t |-> now]
            entries == Append(hist, e)
<1>1. /\ now' = now /\ counted' = counted /\ reqCount' = reqCount
      /\ reqs # <<>> /\ reqs' = <<>>
  BY DEF push
<1>2. HistoryType /\ CountType /\ now \in Nat
  BY DEF RequestsInv, HistoryInv, HistoryType
<1>3. CountType'
  BY <1>1, <1>2 DEF CountType
<1>4. e \in Entry /\ e.t = now /\ e.rps = Taken /\ hist \in Seq(Entry)
  <2>1. reqs[1] \in Nat
    BY <1>1, <1>2 DEF HistoryType
  <2>. QED
    BY <1>1, <1>2, <2>1 DEF HistoryType, Entry, Taken
<1>5. entries \in Seq(Entry) /\ entries # <<>> /\ entries[1] \in Entry
  <2>. HIDE DEF e
  <2>1. entries \in Seq(Entry) /\ Len(entries) = Len(hist) + 1 /\ Len(hist) \in Nat
    BY <1>4
  <2>. HIDE DEF entries
  <2>. QED
    BY <2>1
<1>6. entries[1].t \in Nat /\ entries[1].rps \in Nat
  BY <1>5 DEF Entry
<1>7. hist' = IF now - entries[1].t > MaxHistoryDuration THEN Tail(entries) ELSE entries
  BY DEF push
<1>8. MaxHistoryDuration \in Nat
  BY ConstantsAssumption
<1>9. ASSUME NEW s \in 0 .. now
      PROVE  /\ KeptSince(s)' <= KeptSince(s) /\ KeptSince(s)' \in Int
             /\ now - s <= MaxHistoryDuration => KeptSince(s)' = KeptSince(s)
  <2>0. s \in Nat /\ s \in Int /\ s <= now
    OBVIOUS
  <2>1. rpsSum(entries, s) = rpsSum(hist, s) + Taken
    <3>. HIDE DEF e
    <3>. QED
      BY <1>4, <2>0, RpsAppend
  <2>. DEFINE first == IF s <= entries[1].t THEN entries[1].rps ELSE 0
  <2>2. rpsSum(entries, s) = rpsSum(Tail(entries), s) + first
    <3>. HIDE DEF entries
    <3>. QED
      BY <1>5, <2>0, RpsTail
  <2>3. first \in Nat /\ (s > entries[1].t => first = 0)
    <3>. HIDE DEF entries
    <3>. QED
      BY <1>6, <2>0
  <2>4. rpsSum(hist, s) \in Nat /\ reqCount \in Nat /\ Taken \in Nat
    BY <1>2, <2>0, SidesInNat DEF HistoryType
  <2>5. rpsSum(entries, s) \in Nat /\ rpsSum(Tail(entries), s) \in Nat
    <3>1. Tail(entries) \in Seq(Entry)
      <4>. HIDE DEF entries
      <4>. QED
        BY <1>5
    <3>. HIDE DEF entries
    <3>. QED
      BY <1>5, <2>0, <3>1, PlacesMade
  <2>6. /\ KeptSince(s) = reqCount + Taken + rpsSum(hist, s)
        /\ KeptSince(s)' = reqCount' + Taken' + rpsSum(hist, s)'
    BY DEF KeptSince, Taken
  <2>7. Taken' = 0
    BY <1>1 DEF Taken
  <2>8. rpsSum(hist, s)' = rpsSum(hist', s)
    BY DEF rpsSum, MadeSince
  <2>9. CASE now - entries[1].t > MaxHistoryDuration
    <3>1. rpsSum(hist', s) = rpsSum(Tail(entries), s)
      BY <1>7, <2>9
    <3>2. now - s <= MaxHistoryDuration => s > entries[1].t
      <4>. HIDE DEF entries
      <4>. QED
        BY <1>2, <1>6, <1>8, <2>0, <2>9
    <3>. HIDE DEF entries, first
    <3>. QED
      BY <1>1, <2>1, <2>2, <2>3, <2>4, <2>5, <2>6, <2>7, <2>8, <3>1, <3>2
  <2>10. CASE ~(now - entries[1].t > MaxHistoryDuration)
    <3>1. rpsSum(hist', s) = rpsSum(entries, s)
      BY <1>7, <2>10
    <3>. HIDE DEF entries, first
    <3>. QED
      BY <1>1, <2>1, <2>4, <2>5, <2>6, <2>7, <2>8, <3>1
  <2>. QED
    BY <2>9, <2>10
<1>10. \A s \in 0 .. now : CountedSince(s)' = CountedSince(s) /\ CountedSince(s) \in Nat /\ KeptSince(s) \in Nat
  BY <1>1, <1>2, SidesInNat DEF CountedSince
<1>11. KeptSince(0)' <= KeptSince(0) /\ KeptSince(0)' \in Int
  BY <1>2, <1>9
<1>12. 0 \in 0 .. now
  BY <1>2
<1>13. RequestsKeptOnce'
  <2>1. KeptSince(0)' <= CountedSince(0)'
    BY <1>10, <1>11, <1>12 DEF RequestsInv, RequestsKeptOnce
  <2>2. \A s \in 0 .. now : now - s <= MaxHistoryDuration => CountedSince(s)' <= KeptSince(s)'
    BY <1>9, <1>10 DEF RequestsInv, RequestsKeptOnce
  <2>. QED
    BY <1>1, <2>1, <2>2 DEF RequestsKeptOnce
<1>. QED
  BY <1>3, <1>13

\* Of the second that begins nothing has been counted.
LEMMA AdvanceKeepsRequests ==
  ASSUME RequestsInv, Advance
  PROVE  CountType' /\ RequestsKeptOnce'
<1>1. /\ now' = now + 1 /\ now < MaxTime
      /\ hist' = hist /\ counted' = counted /\ reqCount' = reqCount /\ reqs' = reqs
  BY DEF Advance, rates
<1>2. HistoryType /\ CountType /\ now \in Nat /\ MaxTime \in Nat /\ MaxHistoryDuration \in Nat
  BY ConstantsAssumption DEF RequestsInv, HistoryInv, HistoryType
<1>3. CountType'
  BY <1>1, <1>2 DEF CountType
<1>4. ASSUME NEW s \in Nat
      PROVE  KeptSince(s)' = KeptSince(s) /\ CountedSince(s)' = CountedSince(s)
  BY <1>1 DEF KeptSince, rpsSum, MadeSince, CountedSince
<1>5. CountedSince(now + 1) = 0
  <2>. DEFINE S == now + 1 .. MaxTime
  <2>1. IsFiniteSet(S)
    BY <1>2, FS_Interval
  <2>2. \A t \in S : counted[t] = 0
    BY <1>2 DEF CountType
  <2>. HIDE DEF S
  <2>3. SumFunctionOnSet(counted, S) = 0
    BY <2>1, <2>2, SumOfZeros
  <2>. QED
    BY <2>3 DEF S, CountedSince
<1>6. KeptSince(now + 1) \in Nat /\ now + 1 \in Nat
  BY <1>2, SidesInNat
<1>7. \A s \in 0 .. now' : s = now + 1 \/ s \in 0 .. now
  BY <1>1, <1>2
<1>8. \A s \in 0 .. now : s \in Nat /\ (now' - s <= MaxHistoryDuration => now - s <= MaxHistoryDuration)
  BY <1>1, <1>2
<1>9. ASSUME NEW s \in 0 .. now', now' - s <= MaxHistoryDuration
      PROVE  CountedSince(s)' <= KeptSince(s)'
  <2>1. CASE s = now + 1
    BY <1>4, <1>5, <1>6, <2>1
  <2>2. CASE s \in 0 .. now
    BY <1>4, <1>8, <1>9, <2>2 DEF RequestsInv, RequestsKeptOnce
  <2>. QED
    BY <1>7, <2>1, <2>2
<1>10. KeptSince(0)' <= CountedSince(0)'
  BY <1>4 DEF RequestsInv, RequestsKeptOnce
<1>. QED
  BY <1>3, <1>9, <1>10 DEF RequestsKeptOnce

\* Probing counts nothing.
LEMMA SameRequests ==
  ASSUME RequestsInv, now' = now, rates' = rates
  PROVE  CountType' /\ RequestsKeptOnce'
BY DEF RequestsInv, CountType, RequestsKeptOnce, KeptSince, CountedSince, rpsSum, MadeSince, rates

\* Every step keeps both sides.
LEMMA NextRequests == RequestsInv /\ [Next]_vars => RequestsInv'
<1>. SUFFICES ASSUME RequestsInv, [Next]_vars
              PROVE  RequestsInv'
  OBVIOUS
<1>0. HistoryInv'
  BY NextHistory DEF RequestsInv
<1>1. CASE AddAPICmdCount
  BY <1>0, <1>1, CountingKeeps DEF RequestsInv
<1>2. CASE Calc
  BY <1>0, <1>2, CalcKeepsRequests DEF RequestsInv
<1>3. CASE push
  BY <1>0, <1>3, PushKeepsRequests DEF RequestsInv
<1>4. CASE Advance
  BY <1>0, <1>4, AdvanceKeepsRequests DEF RequestsInv
<1>5. CASE UpdateNodeLoading
  BY <1>0, <1>5, SameRequests DEF UpdateNodeLoading, RequestsInv
<1>6. CASE \E p \in Peers : Skip(p) \/ \E avg \in PeerAverages : Ask(p, avg)
  BY <1>0, <1>6, SameRequests DEF Skip, Ask, RequestsInv
<1>7. CASE calcNodeLoading
  BY <1>0, <1>7, SameRequests DEF calcNodeLoading, RequestsInv
<1>8. CASE UNCHANGED vars
  BY <1>0, <1>8, SameRequests DEF vars, RequestsInv
<1>. QED
  BY <1>1, <1>2, <1>3, <1>4, <1>5, <1>6, <1>7, <1>8 DEF Next

\* Though the count is swapped for zero before it is pushed, while commands go on
\* being counted, and though pushes drop entries, each request that was counted as
\* long ago as a history reaches back is kept, and none twice.
THEOREM RequestsKept == Spec => []RequestsKeptOnce
<1>1. RequestsInv => RequestsKeptOnce
  BY DEF RequestsInv
<1>. QED
  BY <1>1, InitRequests, NextRequests, PTL DEF Spec

-----------------------------------------------------------------------------
(* The sort.                                                               *)

\* What avgRPS and the peers answer.
Fraction == {a \in [sum : Nat, count : Nat] : a.count = 0 => a.sum = 0}

\* A set of numbers up to n has a largest.
LEMMA LargestExists ==
  ASSUME NEW n \in Nat, NEW S \in SUBSET (0 .. n), S # {}
  PROVE  Max(S) \in S /\ \A y \in S : Max(S) >= y
<1>. DEFINE T == {m \in Nat : \A s \in SUBSET (0 .. m) : s # {} => \E x \in s : \A y \in s : x >= y}
<1>1. 0 \in T
  <2>. SUFFICES ASSUME NEW s \in SUBSET (0 .. 0), s # {}
                PROVE  \E x \in s : \A y \in s : x >= y
    OBVIOUS
  <2>1. \A x \in 0 .. 0 : x = 0
    OBVIOUS
  <2>2. s = {0}
    <3>1. \A x \in s : x = 0
      BY <2>1
    <3>. QED
      BY <3>1, Zenon
  <2>. QED
    BY <2>2
<1>2. ASSUME NEW m \in Nat, m \in T PROVE m + 1 \in T
  <2>. SUFFICES ASSUME NEW s \in SUBSET (0 .. m + 1), s # {}
                PROVE  \E x \in s : \A y \in s : x >= y
    OBVIOUS
  <2>1. CASE m + 1 \in s
    BY <2>1
  <2>2. CASE m + 1 \notin s
    <3>1. s \in SUBSET (0 .. m)
      BY <2>2
    <3>. QED
      BY <1>2, <3>1
  <2>. QED
    BY <2>1, <2>2
<1>3. \A m \in Nat : m \in T
  <2>. HIDE DEF T
  <2>. QED
    BY <1>1, <1>2, SetInduction
<1>4. \E x \in S : \A y \in S : x >= y
  BY <1>3
<1>. QED
  BY <1>4 DEF Max

\* g has the insertions of the loads at each set of places.
InsertionsOf(loads, S, g) ==
  g = [s \in SUBSET S |-> IF s = {} THEN <<>> ELSE Insert(g[s \ {Max(s)}], loads[Max(s)])]

LEMMA SortUnfolds ==
  ASSUME NEW loads
  PROVE  SortFunc(loads) = (CHOOSE g : InsertionsOf(loads, DOMAIN loads, g))[DOMAIN loads]
BY DEF SortFunc, FoldLeft, MapThenFoldSet, InsertionsOf

\* There is such a g.
LEMMA InsertionsExist ==
  ASSUME NEW n \in Nat, NEW loads
  PROVE  \E g : InsertionsOf(loads, 1 .. n, g)
<1>. DEFINE S == 1 .. n
            Sets(m) == {s \in SUBSET S : Cardinality(s) <= m}
            Upto(m, g) == g = [s \in Sets(m) |-> IF s = {} THEN <<>> ELSE Insert(g[s \ {Max(s)}], loads[Max(s)])]
            T == {m \in Nat : \E g : Upto(m, g)}
<1>0. IsFiniteSet(S) /\ Cardinality(S) \in Nat
  BY FS_Interval, FS_CardinalityType
<1>01. \A s \in SUBSET S : s # {} => Max(s) \in s
  BY LargestExists
<1>. HIDE DEF S
<1>02. \A s \in SUBSET S : IsFiniteSet(s) /\ Cardinality(s) \in Nat /\ Cardinality(s) <= Cardinality(S)
  BY <1>0, FS_Subset, FS_CardinalityType
<1>03. \A s \in SUBSET S : s # {} => /\ s \ {Max(s)} \in SUBSET S
                                    /\ Cardinality(s \ {Max(s)}) = Cardinality(s) - 1
  BY <1>01, <1>02, Smaller
<1>1. 0 \in T
  <2>. DEFINE g == [s \in Sets(0) |-> <<>>]
  <2>1. \A s \in Sets(0) : s = {}
    BY <1>02, FS_EmptySet
  <2>2. Upto(0, g)
    BY <2>1
  <2>. HIDE DEF g, Upto
  <2>. QED
    BY <2>2
<1>2. ASSUME NEW m \in Nat, m \in T PROVE m + 1 \in T
  <2>1. PICK g : Upto(m, g)
    BY <1>2
  <2>. DEFINE h == [s \in Sets(m + 1) |-> IF s = {} THEN <<>> ELSE Insert(g[s \ {Max(s)}], loads[Max(s)])]
  <2>2. Sets(m) \subseteq Sets(m + 1)
    BY <1>02
  <2>3. \A s \in Sets(m + 1) : s # {} => s \ {Max(s)} \in Sets(m)
    BY <1>02, <1>03
  <2>4. \A s \in Sets(m) : h[s] = g[s]
    <3>1. \A s \in Sets(m) : g[s] = IF s = {} THEN <<>> ELSE Insert(g[s \ {Max(s)}], loads[Max(s)])
      <4>. HIDE DEF Sets, h
      <4>. QED
        BY <2>1, Zenon
    <3>. HIDE DEF Sets
    <3>. QED
      BY <2>2, <3>1
  <2>5. Upto(m + 1, h)
    <3>1. \A s \in Sets(m + 1) : s # {} => h[s \ {Max(s)}] = g[s \ {Max(s)}]
      BY <2>3, <2>4
    <3>. HIDE DEF Sets
    <3>. QED
      BY <3>1
  <2>. HIDE DEF h, Upto
  <2>. QED
    BY <2>5
<1>3. \A m \in Nat : m \in T
  <2>. HIDE DEF T
  <2>. QED
    BY <1>1, <1>2, SetInduction
<1>5. PICK g : Upto(Cardinality(S), g)
  BY <1>0, <1>3
<1>6. Sets(Cardinality(S)) = SUBSET S
  BY <1>02
<1>7. InsertionsOf(loads, S, g)
  <2>. HIDE DEF Sets
  <2>. QED
    BY <1>5, <1>6 DEF InsertionsOf
<1>. QED
  BY <1>7 DEF S

\* The sort inserts one load after the other.
LEMMA SortSteps ==
  ASSUME NEW U, NEW loads \in Seq(U)
  PROVE  \E h : /\ h[0] = <<>>
                /\ \A k \in 0 .. Len(loads) - 1 : h[k + 1] = Insert(h[k], loads[k + 1])
                /\ SortFunc(loads) = h[Len(loads)]
<1>. DEFINE n == Len(loads)
            S == 1 .. n
            g == CHOOSE g : InsertionsOf(loads, S, g)
            h == [k \in 0 .. n |-> g[1 .. k]]
<1>1. n \in Nat /\ DOMAIN loads = S
  OBVIOUS
<1>2. InsertionsOf(loads, S, g)
  BY <1>1, InsertionsExist
<1>3. SortFunc(loads) = g[S]
  BY <1>1, SortUnfolds
<1>. HIDE DEF g
<1>4. \A s \in SUBSET S : g[s] = IF s = {} THEN <<>> ELSE Insert(g[s \ {Max(s)}], loads[Max(s)])
  <2>. HIDE DEF S
  <2>. QED
    BY <1>2, Zenon DEF InsertionsOf
<1>5. h[0] = <<>>
  <2>1. 1 .. 0 = {}
    OBVIOUS
  <2>2. g[{}] = <<>>
    BY <1>4
  <2>. QED
    BY <1>1, <2>1, <2>2
<1>6. ASSUME NEW k \in 0 .. n - 1
      PROVE  h[k + 1] = Insert(h[k], loads[k + 1])
  <2>. DEFINE s == 1 .. k + 1
  <2>1. s \in SUBSET S /\ s # {} /\ s \ {k + 1} = 1 .. k
    <3>1. k \in Nat /\ k + 1 <= n
      BY <1>1
    <3>2. s \subseteq S
      BY <1>1, <3>1
    <3>3. 1 \in s
      BY <3>1
    <3>4. \A i : i \in s \ {k + 1} <=> i \in 1 .. k
      BY <3>1
    <3>5. s \ {k + 1} = 1 .. k
      <4>. HIDE DEF s
      <4>. QED
        BY <3>4, Zenon
    <3>. QED
      BY <3>2, <3>3, <3>5, Zenon
  <2>2. Max(s) = k + 1
    <3>1. s \in SUBSET (0 .. k + 1) /\ k + 1 \in Nat /\ k + 1 \in s
      BY <1>1
    <3>2. Max(s) \in s /\ Max(s) >= k + 1
      BY <2>1, <3>1, LargestExists
    <3>. QED
      BY <3>1, <3>2
  <2>3. g[s] = Insert(g[1 .. k], loads[k + 1])
    <3>. HIDE DEF s, S
    <3>. QED
      BY <1>4, <2>1, <2>2
  <2>4. k \in 0 .. n /\ k + 1 \in 0 .. n
    BY <1>1
  <2>5. h[k] = g[1 .. k] /\ h[k + 1] = g[1 .. k + 1]
    BY <2>4
  <2>. HIDE DEF h
  <2>. QED
    BY <2>3, <2>5
<1>7. SortFunc(loads) = h[n]
  BY <1>1, <1>3
<1>. HIDE DEF h
<1>. QED
  BY <1>5, <1>6, <1>7

-----------------------------------------------------------------------------
(* Its order.                                                              *)

\* x is no more than y.
Leq(x, y) == ~Less(y, x)

\* A factor may be cancelled.
LEMMA CancelFactor ==
  ASSUME NEW a \in Int, NEW b \in Int, NEW c \in Nat \ {0}, a * c <= b * c
  PROVE  a <= b
<1>. SUFFICES ASSUME a > b
              PROVE  FALSE
  OBVIOUS
<1>. DEFINE d == a - b
<1>1. d \in Nat /\ d >= 1 /\ a = b + d
  OBVIOUS
<1>2. a * c = b * c + d * c
  <2>. HIDE DEF d
  <2>. QED
    BY <1>1
<1>3. d * c >= 1
  <2>. HIDE DEF d
  <2>. QED
    BY <1>1
<1>4. b * c \in Int /\ d * c \in Int
  OBVIOUS
<1>. QED
  BY <1>2, <1>3, <1>4

\* A bound may be multiplied.
LEMMA TimesFactor ==
  ASSUME NEW a \in Int, NEW b \in Int, NEW c \in Nat, a <= b
  PROVE  a * c <= b * c
<1>. DEFINE d == b - a
<1>1. d \in Nat /\ b = a + d
  OBVIOUS
<1>. HIDE DEF d
<1>2. b * c = a * c + d * c /\ d * c \in Nat /\ a * c \in Int
  BY <1>1
<1>. QED
  BY <1>2

\* Fractions are ordered, through a number.
LEMMA LeqTransitive ==
  ASSUME NEW x \in Fraction, NEW y \in Fraction, NEW z \in Fraction,
         ~NaN(y), Leq(x, y), Leq(y, z)
  PROVE  Leq(x, z)
<1>. DEFINE a == x.sum
            b == x.count
            c == y.sum
            d == y.count
            e == z.sum
            f == z.count
<1>1. a \in Nat /\ b \in Nat /\ c \in Nat /\ d \in Nat \ {0} /\ e \in Nat /\ f \in Nat
  BY DEF Fraction, NaN
<1>2. ~(c * b < a * d) /\ ~(e * d < c * f)
  BY DEF Leq, Less
<1>3. SUFFICES ~(e * b < a * f)
  BY DEF Leq, Less
<1>. HIDE DEF a, b, c, d, e, f
<1>4. a * d <= c * b /\ c * f <= e * d
  BY <1>1, <1>2
<1>5. (a * d) * f <= (c * b) * f
  BY <1>1, <1>4, TimesFactor
<1>6. (c * f) * b <= (e * d) * b
  BY <1>1, <1>4, TimesFactor
<1>7. /\ (a * d) * f = (a * f) * d
      /\ (c * b) * f = (c * f) * b
      /\ (e * d) * b = (e * b) * d
  BY <1>1
<1>8. /\ (a * f) * d \in Int /\ (c * f) * b \in Int /\ (e * b) * d \in Int
      /\ a * f \in Int /\ e * b \in Int
  BY <1>1
<1>9. (a * f) * d <= (e * b) * d
  BY <1>5, <1>6, <1>7, <1>8
<1>10. a * f <= e * b
  BY <1>1, <1>8, <1>9, CancelFactor
<1>. QED
  BY <1>8, <1>10

\* What is less is no more, and what is not a number is never less, nor anything
\* less than it.
LEMMA LessIs ==
  ASSUME NEW x \in Fraction, NEW y \in Fraction
  PROVE  /\ Leq(x, x)
         /\ Less(x, y) => Leq(x, y) /\ ~NaN(x) /\ ~NaN(y)
         /\ Equal(x, y) => Leq(x, y) /\ Leq(y, x)
         /\ Equal(x, x) <=> ~NaN(x)
<1>. DEFINE a == x.sum
            b == x.count
            c == y.sum
            d == y.count
<1>1. /\ a \in Nat /\ b \in Nat /\ c \in Nat /\ d \in Nat
      /\ b = 0 => a = 0
      /\ d = 0 => c = 0
  BY DEF Fraction
<1>2. /\ Less(x, y) <=> a * d < c * b
      /\ Leq(x, y) <=> ~(c * b < a * d)
      /\ Leq(y, x) <=> ~(a * d < c * b)
      /\ Leq(x, x) <=> ~(a * b < a * b)
      /\ Equal(x, y) <=> b # 0 /\ d # 0 /\ a * d = c * b
      /\ Equal(x, x) <=> b # 0 /\ a * b = a * b
      /\ NaN(x) <=> b = 0
      /\ NaN(y) <=> d = 0
  BY DEF Less, Leq, Equal, NaN
<1>. HIDE DEF a, b, c, d
<1>3. a * d \in Int /\ c * b \in Int /\ a * b \in Int
  BY <1>1
<1>4. b = 0 => a * d = 0 /\ c * b = 0
  BY <1>1
<1>5. d = 0 => a * d = 0 /\ c * b = 0
  BY <1>1
<1>. QED
  BY <1>2, <1>3, <1>4, <1>5

-----------------------------------------------------------------------------
(* One insertion.                                                          *)

\* Where a load goes, and where it leaves the others.
LEMMA InsertIs ==
  ASSUME NEW U, NEW s \in Seq(U), NEW x \in U
  PROVE  /\ Insert(s, x) \in Seq(U)
         /\ Len(Insert(s, x)) = Len(s) + 1
         /\ \E at \in 1 .. Len(s) + 1 :
              /\ \A i \in 1 .. at - 1 : Insert(s, x)[i] = s[i]
              /\ Insert(s, x)[at] = x
              /\ \A i \in at .. Len(s) : Insert(s, x)[i + 1] = s[i] /\ Less(x.avg, s[i].avg)
              /\ at > 1 => ~Less(x.avg, s[at - 1].avg)
<1>. DEFINE stays == {i \in DOMAIN s : ~Less(x.avg, s[i].avg)}
            at == IF stays = {} THEN 1 ELSE Max(stays) + 1
            r == SubSeq(s, 1, at - 1) \o <<x>> \o SubSeq(s, at, Len(s))
<1>1. Insert(s, x) = r
  BY DEF Insert, InsertAt
<1>2. /\ at \in 1 .. Len(s) + 1
      /\ \A i \in at .. Len(s) : Less(x.avg, s[i].avg)
      /\ at > 1 => ~Less(x.avg, s[at - 1].avg)
  <2>1. stays \in SUBSET (0 .. Len(s)) /\ Len(s) \in Nat /\ DOMAIN s = 1 .. Len(s)
    OBVIOUS
  <2>2. CASE stays = {}
    BY <2>1, <2>2
  <2>3. CASE stays # {}
    <3>1. Max(stays) \in stays /\ \A y \in stays : Max(stays) >= y
      BY <2>1, <2>3, LargestExists
    <3>2. at = Max(stays) + 1
      BY <2>3
    <3>3. Max(stays) \in 1 .. Len(s) /\ ~Less(x.avg, s[Max(stays)].avg)
      BY <2>1, <3>1
    <3>4. at - 1 = Max(stays) /\ at \in 1 .. Len(s) + 1
      <4>. DEFINE m == Max(stays)
      <4>. HIDE DEF m, at
      <4>. QED
        BY <2>1, <3>2, <3>3 DEF m
    <3>5. ASSUME NEW i \in at .. Len(s)
          PROVE  Less(x.avg, s[i].avg)
      <4>1. i \in DOMAIN s /\ ~(Max(stays) >= i)
        <5>. DEFINE m == Max(stays)
        <5>. HIDE DEF m, at
        <5>. QED
          BY <2>1, <3>2, <3>3 DEF m
      <4>2. i \notin stays
        BY <3>1, <4>1
      <4>. QED
        BY <4>1, <4>2
    <3>. QED
      BY <3>3, <3>4, <3>5
  <2>. QED
    BY <2>2, <2>3
<1>. HIDE DEF at
<1>3. /\ r \in Seq(U)
      /\ Len(r) = Len(s) + 1
      /\ \A i \in 1 .. at - 1 : r[i] = s[i]
      /\ r[at] = x
      /\ \A i \in at .. Len(s) : r[i + 1] = s[i]
  <2>. DEFINE front == SubSeq(s, 1, at - 1)
              back == SubSeq(s, at, Len(s))
  <2>1. /\ front \in Seq(U) /\ Len(front) = at - 1
        /\ \A i \in 1 .. at - 1 : front[i] = s[i]
    BY <1>2
  <2>2. /\ back \in Seq(U) /\ Len(back) = Len(s) - at + 1
        /\ \A i \in 1 .. Len(s) - at + 1 : back[i] = s[at + i - 1]
    BY <1>2
  <2>. DEFINE upto == front \o <<x>>
  <2>. HIDE DEF front, back
  <2>3. /\ upto \in Seq(U) /\ Len(upto) = at
        /\ \A i \in 1 .. at - 1 : upto[i] = s[i]
        /\ upto[at] = x
    BY <1>2, <2>1
  <2>4. r = upto \o back
    BY DEF front, back
  <2>. HIDE DEF upto, r
  <2>5. /\ r \in Seq(U) /\ Len(r) = Len(s) + 1
        /\ \A i \in 1 .. at : r[i] = upto[i]
        /\ \A i \in 1 .. Len(s) - at + 1 : r[at + i] = back[i]
    <3>1. /\ upto \o back \in Seq(U) /\ Len(upto \o back) = Len(upto) + Len(back)
          /\ \A i \in 1 .. Len(upto) : (upto \o back)[i] = upto[i]
          /\ \A i \in 1 .. Len(back) : (upto \o back)[Len(upto) + i] = back[i]
      BY <2>2, <2>3
    <3>2. Len(upto) = at /\ Len(back) = Len(s) - at + 1 /\ at + (Len(s) - at + 1) = Len(s) + 1
      BY <1>2, <2>2, <2>3
    <3>. QED
      BY <2>4, <3>1, <3>2
  <2>6. ASSUME NEW i \in at .. Len(s)
        PROVE  r[i + 1] = s[i]
    <3>1. /\ i - at + 1 \in 1 .. Len(s) - at + 1
          /\ at + (i - at + 1) = i + 1 /\ at + (i - at + 1) - 1 = i
      BY <1>2
    <3>. QED
      BY <2>2, <2>5, <3>1
  <2>7. at \in 1 .. at /\ \A i \in 1 .. at - 1 : i \in 1 .. at
    BY <1>2
  <2>. QED
    BY <2>3, <2>5, <2>6, <2>7
<1>. HIDE DEF r
<1>. QED
  BY <1>1, <1>2, <1>3

\* The loads are those of before and the new one.
LEMMA InsertAdds ==
  ASSUME NEW U, NEW s \in Seq(U), NEW x \in U
  PROVE  Range(Insert(s, x)) = Range(s) \cup {x}
<1>. DEFINE r == Insert(s, x)
            n == Len(s)
<1>1. r \in Seq(U) /\ Len(r) = n + 1 /\ n \in Nat
  BY InsertIs
<1>2. PICK at \in 1 .. n + 1 :
         /\ \A i \in 1 .. at - 1 : r[i] = s[i]
         /\ r[at] = x
         /\ \A i \in at .. n : r[i + 1] = s[i] /\ Less(x.avg, s[i].avg)
         /\ at > 1 => ~Less(x.avg, s[at - 1].avg)
  BY InsertIs
<1>. HIDE DEF r
<1>3. DOMAIN r = 1 .. n + 1 /\ DOMAIN s = 1 .. n
  BY <1>1
<1>4. ASSUME NEW j \in 1 .. n + 1
      PROVE  r[j] = x \/ \E i \in 1 .. n : r[j] = s[i]
  <2>1. CASE j < at
    <3>1. j \in 1 .. at - 1 /\ j \in 1 .. n
      BY <1>1, <1>2, <2>1
    <3>. QED
      BY <1>2, <3>1
  <2>2. CASE j = at
    BY <1>2, <2>2
  <2>3. CASE j > at
    <3>1. j - 1 \in at .. n /\ j - 1 \in 1 .. n /\ (j - 1) + 1 = j
      BY <1>1, <1>2, <2>3
    <3>. QED
      BY <1>2, <3>1
  <2>4. j < at \/ j = at \/ j > at
    BY <1>1, <1>2
  <2>. QED
    BY <2>1, <2>2, <2>3, <2>4, Zenon
<1>5. ASSUME NEW i \in 1 .. n
      PROVE  \E j \in 1 .. n + 1 : r[j] = s[i]
  <2>1. CASE i < at
    <3>1. i \in 1 .. at - 1 /\ i \in 1 .. n + 1
      BY <1>1, <1>2, <2>1
    <3>. QED
      BY <1>2, <3>1
  <2>2. CASE i >= at
    <3>1. i \in at .. n /\ i + 1 \in 1 .. n + 1
      BY <1>1, <1>2, <2>2
    <3>. QED
      BY <1>2, <3>1
  <2>. QED
    BY <1>1, <1>2, <2>1, <2>2
<1>6. at \in 1 .. n + 1 /\ r[at] = x
  BY <1>2
<1>. HIDE DEF n
<1>7. \A y : y \in Range(r) <=> y \in Range(s) \/ y = x
  <2>1. ASSUME NEW y \in Range(r)
        PROVE  y \in Range(s) \/ y = x
    <3>1. PICK j \in 1 .. n + 1 : y = r[j]
      BY <1>3, Zenon DEF Range
    <3>. QED
      BY <1>3, <1>4, <3>1, Zenon DEF Range
  <2>2. ASSUME NEW y \in Range(s)
        PROVE  y \in Range(r)
    <3>1. PICK i \in 1 .. n : y = s[i]
      BY <1>3, Zenon DEF Range
    <3>. QED
      BY <1>3, <1>5, <3>1, Zenon DEF Range
  <2>3. x \in Range(r)
    BY <1>3, <1>6, Zenon DEF Range
  <2>. QED
    BY <2>1, <2>2, <2>3, Zenon
<1>8. Range(r) = Range(s) \cup {x}
  BY <1>7, Zenon
<1>. QED
  BY <1>8 DEF r

\* The loads of a sequence have averages.
Averaged(U) == \A u \in U : u.avg \in Fraction

\* A first that is not a number stays the first, and no other gets there.
LEMMA InsertKeepsFirst ==
  ASSUME NEW U, Averaged(U), NEW s \in Seq(U), s # <<>>, NEW x \in U
  PROVE  NaN(Insert(s, x)[1].avg) <=> NaN(s[1].avg)
<1>. DEFINE r == Insert(s, x)
            n == Len(s)
<1>1. PICK at \in 1 .. n + 1 :
         /\ \A i \in 1 .. at - 1 : r[i] = s[i]
         /\ r[at] = x
         /\ \A i \in at .. n : r[i + 1] = s[i] /\ Less(x.avg, s[i].avg)
         /\ at > 1 => ~Less(x.avg, s[at - 1].avg)
  BY InsertIs
<1>2. n \in Nat \ {0} /\ s[1] \in U /\ s[1].avg \in Fraction /\ x.avg \in Fraction
  BY DEF Averaged
<1>. HIDE DEF r
<1>3. ASSUME at > 1
      PROVE  NaN(r[1].avg) <=> NaN(s[1].avg)
  <2>1. 1 \in 1 .. at - 1
    BY <1>1, <1>2, <1>3
  <2>2. r[1] = s[1]
    BY <1>1, <2>1
  <2>. QED
    BY <2>2, Zenon
<1>4. ASSUME at = 1
      PROVE  NaN(r[1].avg) <=> NaN(s[1].avg)
  <2>1. 1 \in at .. n
    BY <1>2, <1>4
  <2>2. Less(x.avg, s[1].avg) /\ r[1] = x
    BY <1>1, <1>4, <2>1
  <2>3. ~NaN(x.avg) /\ ~NaN(s[1].avg)
    BY <1>2, <2>2, LessIs
  <2>. QED
    BY <2>2, <2>3, Zenon
<1>5. NaN(r[1].avg) <=> NaN(s[1].avg)
  <2>1. at > 1 \/ at = 1
    BY <1>1, <1>2
  <2>. QED
    BY <1>3, <1>4, <2>1, Zenon
<1>. QED
  BY <1>5 DEF r

Sorted(s) == \A i, j \in 1 .. Len(s) : i <= j => Leq(s[i].avg, s[j].avg)

\* Numbers stay in order.
LEMMA InsertSorts ==
  ASSUME NEW U, Averaged(U), \A u \in U : ~NaN(u.avg),
         NEW s \in Seq(U), Sorted(s), NEW x \in U
  PROVE  Sorted(Insert(s, x))
<1>. DEFINE r == Insert(s, x)
            n == Len(s)
<1>1. r \in Seq(U) /\ Len(r) = n + 1 /\ n \in Nat
  BY InsertIs
<1>2. PICK at \in 1 .. n + 1 :
         /\ \A i \in 1 .. at - 1 : r[i] = s[i]
         /\ r[at] = x
         /\ \A i \in at .. n : r[i + 1] = s[i] /\ Less(x.avg, s[i].avg)
         /\ at > 1 => ~Less(x.avg, s[at - 1].avg)
  BY InsertIs
<1>. HIDE DEF r
<1>3. \A i \in 1 .. n : s[i] \in U /\ s[i].avg \in Fraction /\ ~NaN(s[i].avg)
  BY DEF Averaged
<1>4. x.avg \in Fraction /\ ~NaN(x.avg)
  BY DEF Averaged
<1>5. \A i \in 1 .. at - 1 : Leq(s[i].avg, x.avg)
  <2>. SUFFICES ASSUME NEW i \in 1 .. at - 1
                PROVE  Leq(s[i].avg, x.avg)
    OBVIOUS
  <2>1. at > 1 /\ at - 1 \in 1 .. n /\ i \in 1 .. n /\ i <= at - 1
    BY <1>1
  <2>2. Leq(s[at - 1].avg, x.avg)
    BY <1>2, <2>1 DEF Leq
  <2>3. Leq(s[i].avg, s[at - 1].avg)
    BY <2>1 DEF Sorted
  <2>. QED
    BY <1>3, <1>4, <2>1, <2>2, <2>3, LeqTransitive
<1>6. \A i \in at .. n : Leq(x.avg, s[i].avg)
  <2>. SUFFICES ASSUME NEW i \in at .. n
                PROVE  Leq(x.avg, s[i].avg)
    OBVIOUS
  <2>1. i \in 1 .. n
    BY <1>1
  <2>. QED
    BY <1>2, <1>3, <1>4, <2>1, LessIs
<1>7. ASSUME NEW i \in 1 .. n + 1, NEW j \in 1 .. n + 1, i <= j
      PROVE  Leq(r[i].avg, r[j].avg)
  <2>1. CASE i < at /\ j < at
    <3>1. i \in 1 .. at - 1 /\ j \in 1 .. at - 1 /\ i \in 1 .. n /\ j \in 1 .. n
      BY <1>1, <2>1
    <3>. QED
      BY <1>2, <1>7, <3>1 DEF Sorted
  <2>2. CASE i < at /\ j = at
    <3>1. i \in 1 .. at - 1
      BY <1>1, <2>2
    <3>. QED
      BY <1>2, <1>5, <2>2, <3>1
  <2>3. CASE i < at /\ j > at
    <3>1. /\ i \in 1 .. at - 1 /\ i \in 1 .. n
          /\ j - 1 \in at .. n /\ j - 1 \in 1 .. n /\ (j - 1) + 1 = j /\ i <= j - 1
      BY <1>1, <2>3
    <3>. QED
      BY <1>2, <3>1 DEF Sorted
  <2>4. CASE i = at /\ j = at
    BY <1>2, <1>4, <2>4, LessIs
  <2>5. CASE i = at /\ j > at
    <3>1. j - 1 \in at .. n /\ (j - 1) + 1 = j
      BY <1>1, <2>5
    <3>. QED
      BY <1>2, <1>6, <2>5, <3>1
  <2>6. CASE i > at /\ j > at
    <3>1. /\ i - 1 \in at .. n /\ i - 1 \in 1 .. n /\ (i - 1) + 1 = i
          /\ j - 1 \in at .. n /\ j - 1 \in 1 .. n /\ (j - 1) + 1 = j
          /\ i - 1 <= j - 1
      BY <1>1, <1>7, <2>6
    <3>. QED
      BY <1>2, <3>1 DEF Sorted
  <2>. QED
    BY <1>1, <1>7, <2>1, <2>2, <2>3, <2>4, <2>5, <2>6
<1>8. Sorted(r)
  BY <1>1, <1>7 DEF Sorted
<1>. QED
  BY <1>8 DEF r

-----------------------------------------------------------------------------
(* What the sort makes of the loads.                                       *)

\* As many, and the same; a first that is not a number is still the first.
LEMMA SortKeeps ==
  ASSUME NEW U, Averaged(U), NEW loads \in Seq(U), loads # <<>>
  PROVE  /\ SortFunc(loads) \in Seq(U)
         /\ Len(SortFunc(loads)) = Len(loads)
         /\ Range(SortFunc(loads)) = Range(loads)
         /\ NaN(SortFunc(loads)[1].avg) <=> NaN(loads[1].avg)
<1>. DEFINE n == Len(loads)
            Part(k) == {loads[i] : i \in 1 .. k}
<1>1. n \in Nat \ {0} /\ \A i \in 1 .. n : loads[i] \in U
  OBVIOUS
<1>2. PICK h : /\ h[0] = <<>>
               /\ \A k \in 0 .. n - 1 : h[k + 1] = Insert(h[k], loads[k + 1])
               /\ SortFunc(loads) = h[n]
  BY SortSteps
<1>. DEFINE Good(k) == /\ h[k] \in Seq(U) /\ Len(h[k]) = k
                       /\ Range(h[k]) = Part(k)
                       /\ k > 0 => (NaN(h[k][1].avg) <=> NaN(loads[1].avg))
            T == {k \in Nat : k <= n => Good(k)}
<1>3. 0 \in T
  <2>1. h[0] \in Seq(U) /\ Len(h[0]) = 0 /\ Range(h[0]) = Part(0)
    BY <1>2 DEF Range
  <2>. HIDE DEF Part
  <2>. QED
    BY <2>1
<1>4. ASSUME NEW k \in Nat, k \in T PROVE k + 1 \in T
  <2>. SUFFICES ASSUME k + 1 <= n
                PROVE  Good(k + 1)
    OBVIOUS
  <2>1. k \in 0 .. n - 1 /\ k + 1 \in 1 .. n /\ k <= n
    BY <1>1
  <2>2. h[k] \in Seq(U) /\ Len(h[k]) = k /\ Range(h[k]) = Part(k)
        /\ (k > 0 => (NaN(h[k][1].avg) <=> NaN(loads[1].avg)))
    BY <1>4, <2>1
  <2>. DEFINE s == h[k]
              x == loads[k + 1]
  <2>3. h[k + 1] = Insert(s, x) /\ x \in U
    BY <1>1, <1>2, <2>1
  <2>4. Part(k + 1) = Part(k) \cup {x}
    <3>1. \A i : i \in 1 .. k + 1 <=> i \in 1 .. k \/ i = k + 1
      OBVIOUS
    <3>. QED
      BY <3>1
  <2>. HIDE DEF s, x, Part, T
  <2>5. s \in Seq(U) /\ Len(s) = k /\ Range(s) = Part(k)
    BY <2>2 DEF s
  <2>6. Insert(s, x) \in Seq(U) /\ Len(Insert(s, x)) = k + 1
    <3>1. s \in Seq(U) /\ x \in U
      BY <2>3, <2>5
    <3>2. Insert(s, x) \in Seq(U) /\ Len(Insert(s, x)) = Len(s) + 1
      BY <3>1, InsertIs
    <3>. QED
      BY <2>5, <3>2
  <2>7. Range(Insert(s, x)) = Part(k + 1)
    <3>1. Range(Insert(s, x)) = Range(s) \cup {x}
      BY <2>3, <2>5, InsertAdds
    <3>. QED
      BY <2>4, <2>5, <3>1
  <2>8. NaN(Insert(s, x)[1].avg) <=> NaN(loads[1].avg)
    <3>1. CASE k = 0
      <4>1. PICK at \in 1 .. k + 1 : Insert(s, x)[at] = x
        BY <2>3, <2>5, InsertIs
      <4>2. at = 1
        BY <3>1
      <4>. QED
        BY <3>1, <4>1, <4>2 DEF x
    <3>2. CASE k > 0
      <4>1. s # <<>>
        BY <2>5, <3>2
      <4>2. NaN(Insert(s, x)[1].avg) <=> NaN(s[1].avg)
        BY <2>3, <2>5, <4>1, InsertKeepsFirst
      <4>. QED
        BY <2>2, <3>2, <4>2 DEF s
    <3>. QED
      BY <3>1, <3>2
  <2>. QED
    BY <2>3, <2>6, <2>7, <2>8
<1>5. \A k \in Nat : k \in T
  <2>. HIDE DEF T
  <2>. QED
    BY <1>3, <1>4, SetInduction
<1>6. Good(n)
  <2>1. n \in T
    BY <1>1, <1>5
  <2>2. n <= n
    BY <1>1
  <2>. HIDE DEF Good
  <2>. QED
    BY <2>1, <2>2
<1>7. Part(n) = Range(loads)
  BY DEF Range
<1>. QED
  BY <1>1, <1>2, <1>6, <1>7

\* Numbers are sorted.
LEMMA SortSorts ==
  ASSUME NEW U, Averaged(U), \A u \in U : ~NaN(u.avg), NEW loads \in Seq(U)
  PROVE  Sorted(SortFunc(loads))
<1>. DEFINE n == Len(loads)
<1>1. n \in Nat /\ \A i \in 1 .. n : loads[i] \in U
  OBVIOUS
<1>2. PICK h : /\ h[0] = <<>>
               /\ \A k \in 0 .. n - 1 : h[k + 1] = Insert(h[k], loads[k + 1])
               /\ SortFunc(loads) = h[n]
  BY SortSteps
<1>. DEFINE T == {k \in Nat : k <= n => h[k] \in Seq(U) /\ Sorted(h[k])}
<1>3. 0 \in T
  <2>1. h[0] \in Seq(U) /\ Len(h[0]) = 0
    BY <1>2
  <2>2. Sorted(h[0])
    BY <2>1 DEF Sorted
  <2>. QED
    BY <2>1, <2>2
<1>4. ASSUME NEW k \in Nat, k \in T PROVE k + 1 \in T
  <2>. SUFFICES ASSUME k + 1 <= n
                PROVE  h[k + 1] \in Seq(U) /\ Sorted(h[k + 1])
    OBVIOUS
  <2>1. k \in 0 .. n - 1 /\ k + 1 \in 1 .. n /\ k <= n
    BY <1>1
  <2>. DEFINE s == h[k]
              x == loads[k + 1]
  <2>2. s \in Seq(U) /\ Sorted(s) /\ h[k + 1] = Insert(s, x) /\ x \in U
    BY <1>1, <1>2, <1>4, <2>1
  <2>. HIDE DEF s, x, T
  <2>3. Insert(s, x) \in Seq(U)
    BY <2>2, InsertIs
  <2>4. Sorted(Insert(s, x))
    BY <2>2, InsertSorts
  <2>. QED
    BY <2>2, <2>3, <2>4
<1>5. \A k \in Nat : k \in T
  <2>. HIDE DEF T
  <2>. QED
    BY <1>3, <1>4, SetInduction
<1>. QED
  BY <1>1, <1>2, <1>5

-----------------------------------------------------------------------------
(* An update.                                                              *)

\* An answer of a peer, or the node's own average.
Load ==
  [node : Peers, avg : Fraction] \cup [node : {Self}, avg : Fraction, quiet : BOOLEAN]

LoadsType ==
  phase = "asking" => nodeLoads \in Seq(Load) /\ nodeLoads # <<>>

\* What the node has of itself is not a number after a pause only.
QuietIsNaN ==
  phase = "asking" => (nodeLoads[1].quiet <=> NaN(nodeLoads[1].avg))

LoadsInv == HistoryInv /\ LoadsType /\ QuietIsNaN

\* A load has an average.
LEMMA LoadAverage == Averaged(Load)
BY DEF Averaged, Load

\* The last entry is the latest: where it is too old for an average all are.
LEMMA OwnAverage ==
  ASSUME HistoryInv
  PROVE  avgRPS \in Fraction /\ (Quiet <=> NaN(avgRPS))
<1>1. CASE hist = <<>>
  <2>1. avgRPS = [sum |-> 0, count |-> 1] /\ ~Quiet
    BY <1>1 DEF avgRPS, Quiet
  <2>. QED
    BY <2>1 DEF Fraction, NaN
<1>2. CASE hist # <<>>
  <2>. DEFINE since == now - AvgRPSDuration
              S == MadeSince(hist, since)
              total == rpsSum(hist, since)
              n == Len(hist)
  <2>1. now \in Nat /\ AvgRPSDuration \in Nat /\ since \in Int /\ hist \in Seq(Entry)
    BY ConstantsAssumption DEF HistoryInv, HistoryType
  <2>2. IsFiniteSet(S) /\ total \in Nat /\ S \in SUBSET (1 .. n)
    BY <2>1, PlacesMade
  <2>3. avgRPS = [sum |-> total, count |-> Cardinality(S)]
    BY <1>2 DEF avgRPS
  <2>4. Cardinality(S) \in Nat /\ (Cardinality(S) = 0 <=> S = {})
    <3>. HIDE DEF S
    <3>. QED
      BY <2>2, FS_CardinalityType, FS_EmptySet
  <2>5. S = {} => total = 0
    BY SumPick, FS_EmptySet DEF rpsSum
  <2>6. avgRPS \in Fraction
    <3>. HIDE DEF S, total
    <3>. QED
      BY <2>2, <2>3, <2>4, <2>5 DEF Fraction
  <2>7. n \in 1 .. n /\ Last(hist) = hist[n]
    BY <1>2, <2>1 DEF Last
  <2>8. \A i \in 1 .. n : hist[i].t \in Nat /\ hist[i].t <= hist[n].t
    <3>1. \A i \in 1 .. n : hist[i].t \in Nat
      BY <2>1, EntryTime
    <3>2. \A i \in 1 .. n : i <= n /\ n - i >= 0
      BY <2>7
    <3>3. \A i \in 1 .. n : hist[n].t - hist[i].t >= n - i
      BY <2>7, <3>2 DEF HistoryInv, Spaced
    <3>. QED
      BY <2>7, <3>1, <3>2, <3>3
  <2>9. S = {} <=> now - hist[n].t > AvgRPSDuration
    <3>1. ASSUME now - hist[n].t > AvgRPSDuration, NEW i \in S
          PROVE  FALSE
      <4>1. i \in 1 .. n /\ since <= hist[i].t
        BY <2>2 DEF MadeSince
      <4>. QED
        BY <2>1, <2>7, <2>8, <3>1, <4>1
    <3>2. ASSUME ~(now - hist[n].t > AvgRPSDuration)
          PROVE  n \in S
      <4>1. since <= hist[n].t
        BY <2>1, <2>7, <2>8, <3>2
      <4>. QED
        BY <2>1, <2>7, <4>1 DEF MadeSince
    <3>. QED
      BY <3>1, <3>2
  <2>10. Quiet <=> now - hist[n].t > AvgRPSDuration
    BY <1>2, <2>7 DEF Quiet
  <2>11. NaN(avgRPS) <=> Cardinality(S) = 0
    <3>. HIDE DEF S, total
    <3>. QED
      BY <2>3 DEF NaN
  <2>. QED
    BY <2>4, <2>6, <2>9, <2>10, <2>11, Zenon
<1>. QED
  BY <1>1, <1>2

\* No update has begun.
LEMMA InitLoads == Init => LoadsInv
BY InitHistory DEF Init, LoadsInv, LoadsType, QuietIsNaN

\* What an update begins with.
LEMMA BeginLoads ==
  ASSUME HistoryInv, UpdateNodeLoading
  PROVE  LoadsType' /\ QuietIsNaN'
<1>. DEFINE own == [node |-> Self, avg |-> avgRPS, quiet |-> Quiet]
<1>1. nodeLoads' = <<own>>
  BY DEF UpdateNodeLoading
<1>2. avgRPS \in Fraction /\ (Quiet <=> NaN(avgRPS)) /\ Quiet \in BOOLEAN
  BY OwnAverage DEF Quiet
<1>3. own \in Load
  BY <1>2 DEF Load
<1>4. nodeLoads'[1] = own
  BY <1>1
<1>5. own.quiet = Quiet /\ own.avg = avgRPS
  OBVIOUS
<1>. HIDE DEF own
<1>6. nodeLoads'[1].quiet <=> NaN(nodeLoads'[1].avg)
  BY <1>2, <1>4, <1>5, Zenon
<1>7. nodeLoads' \in Seq(Load) /\ nodeLoads' # <<>>
  BY <1>1, <1>3
<1>8. NaN(nodeLoads[1].avg)' <=> NaN(nodeLoads'[1].avg)
  BY DEF NaN
<1>. QED
  BY <1>6, <1>7, <1>8 DEF LoadsType, QuietIsNaN

\* A peer's answer comes after it.
LEMMA AskLoads ==
  ASSUME LoadsInv, NEW p \in Peers, NEW avg \in PeerAverages, Ask(p, avg)
  PROVE  LoadsType' /\ QuietIsNaN'
<1>. DEFINE x == [node |-> p, avg |-> avg]
<1>1. phase = "asking" /\ phase' = phase /\ nodeLoads' = Append(nodeLoads, x)
  BY DEF Ask
<1>2. x \in Load
  BY ConstantsAssumption DEF Load, Fraction
<1>3. nodeLoads \in Seq(Load) /\ nodeLoads # <<>>
  BY <1>1 DEF LoadsInv, LoadsType
<1>. HIDE DEF x
<1>4. nodeLoads' \in Seq(Load) /\ nodeLoads' # <<>> /\ nodeLoads'[1] = nodeLoads[1]
  BY <1>1, <1>2, <1>3
<1>5. nodeLoads[1].quiet <=> NaN(nodeLoads[1].avg)
  BY <1>1 DEF LoadsInv, QuietIsNaN
<1>6. NaN(nodeLoads[1].avg)' <=> NaN(nodeLoads'[1].avg)
  BY DEF NaN
<1>7. nodeLoads'[1].quiet <=> NaN(nodeLoads'[1].avg)
  BY <1>4, <1>5, Zenon
<1>. QED
  BY <1>4, <1>6, <1>7 DEF LoadsType, QuietIsNaN

\* Every step keeps what an update has.
LEMMA NextLoads == LoadsInv /\ [Next]_vars => LoadsInv'
<1>. SUFFICES ASSUME LoadsInv, [Next]_vars
              PROVE  LoadsInv'
  OBVIOUS
<1>1. HistoryInv /\ HistoryInv'
  BY NextHistory DEF LoadsInv
<1>2. ASSUME phase' = phase, nodeLoads' = nodeLoads
      PROVE  LoadsType' /\ QuietIsNaN'
  BY <1>2 DEF LoadsInv, LoadsType, QuietIsNaN, NaN
<1>3. CASE AddAPICmdCount \/ Calc \/ push \/ Advance \/ UNCHANGED vars
  BY <1>1, <1>2, <1>3 DEF AddAPICmdCount, Calc, push, Advance, vars, probe, LoadsInv
<1>4. CASE UpdateNodeLoading
  BY <1>1, <1>4, BeginLoads DEF LoadsInv
<1>5. ASSUME NEW p \in Peers, Skip(p)
      PROVE  LoadsInv'
  BY <1>1, <1>2, <1>5 DEF Skip, LoadsInv
<1>6. ASSUME NEW p \in Peers, NEW avg \in PeerAverages, Ask(p, avg)
      PROVE  LoadsInv'
  BY <1>1, <1>6, AskLoads DEF LoadsInv
<1>7. CASE calcNodeLoading
  <2>1. phase' # "asking"
    BY <1>7 DEF calcNodeLoading, keepLoading
  <2>. QED
    BY <1>1, <2>1 DEF LoadsInv, LoadsType, QuietIsNaN
<1>. QED
  BY <1>3, <1>4, <1>5, <1>6, <1>7 DEF Next

\* An update ends with calcNodeLoading only.
LEMMA UpdateEnds ==
  ASSUME [Next]_vars, phase = "asking", phase' # "asking"
  PROVE  calcNodeLoading
BY DEF Next, vars, probe, AddAPICmdCount, Calc, push, Advance, UpdateNodeLoading, Skip, Ask

\* It ends with a choice, unless the first in order is not a number.
LEMMA ChoiceUnlessNaN ==
  ASSUME LoadsInv, phase = "asking", calcNodeLoading
  PROVE  phase' = "dead" <=> NaN(SortFunc(nodeLoads)[1].avg)
<1>. DEFINE s == SortFunc(nodeLoads)
            sameLoad == {k \in DOMAIN s : \A i \in 1 .. k : Equal(s[i].avg, s[1].avg)}
<1>1. nodeLoads \in Seq(Load) /\ nodeLoads # <<>>
  BY DEF LoadsInv, LoadsType
<1>2. s \in Seq(Load) /\ Len(s) = Len(nodeLoads)
  BY <1>1, LoadAverage, SortKeeps
<1>3. \/ sameLoad = {} /\ phase' = "dead"
      \/ sameLoad # {} /\ phase' = "idle"
  BY DEF calcNodeLoading, keepLoading
<1>. HIDE DEF s
<1>4. 1 \in DOMAIN s /\ s[1].avg \in Fraction
  BY <1>1, <1>2, LoadAverage DEF Averaged
<1>5. Equal(s[1].avg, s[1].avg) <=> ~NaN(s[1].avg)
  BY <1>4, LessIs
<1>6. sameLoad # {} <=> Equal(s[1].avg, s[1].avg)
  <2>1. ASSUME NEW k \in sameLoad
        PROVE  Equal(s[1].avg, s[1].avg)
    <3>1. k \in DOMAIN s /\ 1 \in 1 .. k
      BY <1>2
    <3>. QED
      BY <3>1
  <2>2. ASSUME Equal(s[1].avg, s[1].avg)
        PROVE  1 \in sameLoad
    BY <1>4, <2>2
  <2>. QED
    BY <2>1, <2>2
<1>. HIDE DEF sameLoad
<1>7. phase' = "dead" <=> NaN(s[1].avg)
  BY <1>3, <1>5, <1>6
<1>. QED
  BY <1>7 DEF s

\* The program ends by a choice among none where its own ticks have stopped, and
\* nowhere else: whatever the peers answer, what is not a number and is not first
\* stays behind the first.
THEOREM PanicsAreQuiet == Spec => PanicsWhenQuiet
<1>1. ASSUME LoadsInv, [Next]_vars, phase = "asking", phase' # "asking"
      PROVE  phase' = "dead" <=> nodeLoads[1].quiet
  <2>1. calcNodeLoading
    BY <1>1, UpdateEnds
  <2>2. phase' = "dead" <=> NaN(SortFunc(nodeLoads)[1].avg)
    BY <1>1, <2>1, ChoiceUnlessNaN
  <2>3. nodeLoads \in Seq(Load) /\ nodeLoads # <<>>
    BY <1>1 DEF LoadsInv, LoadsType
  <2>4. NaN(SortFunc(nodeLoads)[1].avg) <=> NaN(nodeLoads[1].avg)
    BY <2>3, LoadAverage, SortKeeps
  <2>5. nodeLoads[1].quiet <=> NaN(nodeLoads[1].avg)
    BY <1>1 DEF LoadsInv, QuietIsNaN
  <2>. QED
    BY <2>2, <2>4, <2>5, Zenon
<1>2. LoadsInv /\ [Next]_vars =>
        [phase = "asking" /\ phase' # "asking" => (phase' = "dead" <=> nodeLoads[1].quiet)]_vars
  BY <1>1
<1>. QED
  BY <1>2, InitLoads, NextLoads, PTL DEF Spec, PanicsWhenQuiet

\* Of numbers, the sort and the choice among those equal to the first give a
\* lightest and a heaviest, whatever the peers answer and in which order.
THEOREM ChoicesAreRight == Spec => LightestIsLightest
<1>1. ASSUME LoadsInv, [Next]_vars, phase = "asking", phase' = "idle",
             \A i \in DOMAIN nodeLoads : ~NaN(nodeLoads[i].avg)
      PROVE  \E l, h \in Range(nodeLoads) :
               /\ l.node = lightNodeID'
               /\ h.node = heavyNodeID'
               /\ \A x \in Range(nodeLoads) : ~Less(x.avg, l.avg) /\ ~Less(h.avg, x.avg)
  <2>. DEFINE U == {u \in Load : ~NaN(u.avg)}
              s == SortFunc(nodeLoads)
              n == Len(s)
              sameLoad == {k \in DOMAIN s : \A i \in 1 .. k : Equal(s[i].avg, s[1].avg)}
  <2>1. calcNodeLoading
    BY <1>1, UpdateEnds
  <2>2. nodeLoads \in Seq(Load) /\ nodeLoads # <<>>
    BY <1>1 DEF LoadsInv, LoadsType
  <2>3. nodeLoads \in Seq(U)
    BY <1>1, <2>2
  <2>4. Averaged(U) /\ \A u \in U : ~NaN(u.avg)
    BY LoadAverage DEF Averaged
  <2>. HIDE DEF U
  <2>5. s \in Seq(U) /\ n = Len(nodeLoads) /\ Range(s) = Range(nodeLoads)
    BY <2>2, <2>3, <2>4, SortKeeps
  <2>6. Sorted(s)
    BY <2>3, <2>4, SortSorts
  <2>7. (\E i \in sameLoad : lightNodeID' = s[i].node) /\ heavyNodeID' = s[n].node
    BY <1>1, <2>1 DEF calcNodeLoading, keepLoading, Last
  <2>. HIDE DEF s
  <2>8. DOMAIN s = 1 .. n /\ n \in Nat \ {0}
    BY <2>2, <2>5
  <2>9. \A i \in 1 .. n : s[i] \in Range(nodeLoads) /\ s[i].avg \in Fraction /\ ~NaN(s[i].avg)
    <3>1. \A i \in 1 .. n : s[i] \in U
      BY <2>5
    <3>2. \A i \in 1 .. n : s[i] \in Range(s)
      BY <2>8 DEF Range
    <3>. QED
      BY <2>4, <2>5, <3>1, <3>2 DEF Averaged
  <2>10. \A x \in Range(nodeLoads) : \E j \in 1 .. n : x = s[j]
    <3>1. \A x \in Range(s) : \E j \in 1 .. n : x = s[j]
      BY <2>8, Zenon DEF Range
    <3>. QED
      BY <2>5, <3>1
  <2>11. PICK i \in sameLoad : lightNodeID' = s[i].node
    BY <2>7
  <2>12. i \in 1 .. n /\ Equal(s[i].avg, s[1].avg) /\ 1 \in 1 .. n /\ n \in 1 .. n
    <3>1. i \in DOMAIN s /\ i \in 1 .. i
      BY <2>8
    <3>. QED
      BY <2>8, <3>1
  <2>13. ASSUME NEW j \in 1 .. n
         PROVE  Leq(s[i].avg, s[j].avg) /\ Leq(s[j].avg, s[n].avg)
    <3>1. 1 <= j /\ j <= n
      BY <2>8
    <3>2. Leq(s[1].avg, s[j].avg) /\ Leq(s[j].avg, s[n].avg)
      BY <2>6, <2>12, <3>1 DEF Sorted
    <3>3. Leq(s[i].avg, s[1].avg)
      BY <2>9, <2>12, LessIs
    <3>. QED
      BY <2>9, <2>12, <3>2, <3>3, LeqTransitive
  <2>14. /\ s[i].node = lightNodeID'
         /\ s[n].node = heavyNodeID'
         /\ \A x \in Range(nodeLoads) : ~Less(x.avg, s[i].avg) /\ ~Less(s[n].avg, x.avg)
    BY <2>7, <2>10, <2>11, <2>13 DEF Leq
  <2>15. s[i] \in Range(nodeLoads) /\ s[n] \in Range(nodeLoads)
    BY <2>9, <2>12
  <2>. QED
    BY <2>14, <2>15
<1>2. LoadsInv /\ [Next]_vars =>
        [phase = "asking" /\ phase' = "idle" /\ (\A i \in DOMAIN nodeLoads : ~NaN(nodeLoads[i].avg)) =>
           \E l, h \in Range(nodeLoads) :
             /\ l.node = lightNodeID'
             /\ h.node = heavyNodeID'
             /\ \A x \in Range(nodeLoads) : ~Less(x.avg, l.avg) /\ ~Less(h.avg, x.avg)]_vars
  BY <1>1
<1>. QED
  BY <1>2, InitLoads, NextLoads, PTL DEF Spec, LightestIsLightest

=============================================================================
