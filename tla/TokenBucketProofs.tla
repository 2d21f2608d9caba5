------------------------- MODULE TokenBucketProofs -------------------------
(***************************************************************************)
(* TokenBucket, proved for every set of callers, period, burst, lag and    *)
(* clock skew.                                                             *)
(***************************************************************************)
EXTENDS TokenBucket, FiniteSetTheorems, TLAPS

\* What the proofs need beside the types: the deadlines follow the last fill,
\* clock readings are never from the future nor older than the lag allows, and
\* the last fill is a clock reading or the one the bucket was made with.
ClockInv ==
  /\ nextFill = lastFilled + FillPeriod
  /\ lastFilled >= born
  /\ lastFilled <= Most(now, born)
  /\ \A c \in Callers : pc[c] = "sampled" => at[c] <= now /\ now <= at[c] + MaxLag

\* The steps of the bucket, as the proofs split them.
LEMMA CostInNat ==
  ASSUME NEW n \in Nat
  PROVE  Cost(n) \in Nat
  BY BucketAssumption DEF Cost

LEMMA CapacityInNat == Capacity \in Nat
  BY BucketAssumption, CostInNat DEF Capacity

LEMMA CostAdds ==
  ASSUME NEW a \in Nat, NEW n \in Nat
  PROVE  Cost(a + n) = Cost(a) + Cost(n)
  BY BucketAssumption DEF Cost

LEMMA SmallerSum ==
  ASSUME NEW a \in Int, NEW b \in Int, NEW c \in Int, NEW d \in Int, NEW e \in Int,
         a <= b, b + c <= d + e
  PROVE  a + c <= d + e
  OBVIOUS

LEMMA PositivePartInNat ==
  ASSUME NEW x \in Int
  PROVE  Most(0, x) \in Nat
  BY DEF Most

\* A fill leaves the level within the band and credits exactly the time it
\* moves lastFilled by, less the overflow.
LEMMA AccruedBand ==
  ASSUME TypeOK, ClockInv, NEW t \in Int
  PROVE  /\ Accrued(t) \in (-Capacity) .. Capacity
         /\ Accrued(t) >= tokens
         /\ Overflowing(t) \in Nat
         /\ FillIsDue(t) => Accrued(t) = tokens + (t - lastFilled) - Overflowing(t)
         /\ ~ FillIsDue(t) => Accrued(t) = tokens /\ Overflowing(t) = 0
  BY BucketAssumption, CapacityInNat
     DEF TypeOK, ClockInv, Accrued, Overflowing, FillIsDue, Least, Most

LEMMA FlooredBand ==
  ASSUME NEW level \in Int, level <= Capacity
  PROVE  /\ Floored(level) \in (-Capacity) .. Capacity
         /\ Floored(level) - level \in Nat
         /\ level >= 0 => Floored(level) = level
         /\ level < 0 => Floored(level) <= 0
  BY CapacityInNat DEF Floored, Most

-----------------------------------------------------------------------------
(* Types.                                                                  *)

LEMMA InitTypes == Init => TypeOK /\ ClockInv
  BY BucketAssumption, CapacityInNat DEF Init, TypeOK, ClockInv, Most

LEMMA FillTypes ==
  ASSUME TypeOK, ClockInv, NEW c \in Callers, pc[c] = "sampled", Fill(at[c]),
         now' = now, born' = born
  PROVE  /\ lastFilled' \in Int
         /\ nextFill' \in Int
         /\ lost' \in Nat
         /\ nextFill' = lastFilled' + FillPeriod
         /\ lastFilled' >= lastFilled
         /\ lastFilled' >= born'
         /\ lastFilled' <= Most(now', born')
  <1>1. at[c] \in Nat /\ at[c] <= now
    BY DEF TypeOK, ClockInv
  <1>2. lost' \in Nat
    BY <1>1, AccruedBand DEF Fill, TypeOK
  <1>3. QED
    BY <1>1, <1>2, BucketAssumption DEF TypeOK, ClockInv, Fill, FillIsDue, Most

LEMMA NextTypes == TypeOK /\ ClockInv /\ [Next]_vars => TypeOK' /\ ClockInv'
  <1> SUFFICES ASSUME TypeOK, ClockInv, [Next]_vars
               PROVE  TypeOK' /\ ClockInv'
    OBVIOUS
  <1> USE BucketAssumption
  <1>1. ASSUME NEW c \in Callers, Sample(c)
        PROVE  TypeOK' /\ ClockInv'
    BY <1>1 DEF Sample, TypeOK, ClockInv, bucketVars, historyVars, windowVars, Capacity, Most
  <1>2. ASSUME NEW c \in Callers, NEW n \in Requests, AllowGranted(c, n)
        PROVE  TypeOK' /\ ClockInv'
    <2>1. at[c] \in Nat /\ pc[c] = "sampled" /\ Fill(at[c]) /\ now' = now /\ born' = born
      BY <1>2 DEF AllowGranted, TypeOK
    <2>2. tokens' \in (-Capacity) .. Capacity
      <3>1. Cost(n) \in Nat
        BY CostInNat
      <3>2. QED
        BY <1>2, <2>1, <3>1, AccruedBand, CapacityInNat DEF AllowGranted
    <2>3. QED
      BY <1>2, <2>1, <2>2, FillTypes
         DEF AllowGranted, Return, TypeOK, ClockInv, windowVars, Capacity
  <1>3. ASSUME NEW c \in Callers, NEW n \in Requests, AllowRefused(c, n)
        PROVE  TypeOK' /\ ClockInv'
    <2>1. at[c] \in Nat /\ pc[c] = "sampled" /\ Fill(at[c]) /\ now' = now /\ born' = born
      BY <1>3 DEF AllowRefused, TypeOK
    <2>2. tokens' \in (-Capacity) .. Capacity
      BY <1>3, <2>1, AccruedBand DEF AllowRefused
    <2>3. QED
      BY <1>3, <2>1, <2>2, FillTypes
         DEF AllowRefused, Return, TypeOK, ClockInv, windowVars, Capacity
  <1>4. ASSUME NEW c \in Callers, NEW n \in Requests, Take(c, n)
        PROVE  TypeOK' /\ ClockInv'
    <2> DEFINE level == Accrued(at[c]) - Cost(n)
    <2>1. at[c] \in Nat /\ pc[c] = "sampled" /\ Fill(at[c]) /\ now' = now /\ born' = born
      BY <1>4 DEF Take, TypeOK
    <2>2. level \in Int /\ level <= Capacity
      <3>1. Cost(n) \in Nat
        BY CostInNat
      <3>2. QED
        BY <2>1, <3>1, AccruedBand, CapacityInNat
    <2>3. tokens' \in (-Capacity) .. Capacity /\ forgiven' \in Nat
      <3>1. tokens' = Floored(level) /\ forgiven' = forgiven + (Floored(level) - level)
        BY <1>4 DEF Take
      <3> HIDE DEF level
      <3>2. QED
        BY <2>2, <3>1, FlooredBand DEF TypeOK
    <2>4. due'[c] \in Nat
      <3>1. due'[c] = now + TakeDelay(Floored(level))
        BY <1>4 DEF Take, TypeOK
      <3> HIDE DEF level
      <3>2. Floored(level) \in Int
        BY <2>2, FlooredBand
      <3>3. TakeDelay(Floored(level)) \in Nat
        BY <3>2 DEF TakeDelay, Most
      <3>4. QED
        BY <3>1, <3>3 DEF TypeOK
    <2>5. due' \in [Callers -> Nat]
      BY <1>4, <2>4 DEF Take, TypeOK
    <2>6. QED
      BY <1>4, <2>1, <2>3, <2>5, FillTypes
         DEF Take, TypeOK, ClockInv, windowVars, Capacity
  <1>5. ASSUME NEW c \in Callers, Proceed(c)
        PROVE  TypeOK' /\ ClockInv'
    BY <1>5 DEF Proceed, TypeOK, ClockInv, bucketVars, windowVars, Capacity, Most
  <1>6. CASE Tick
    BY <1>6 DEF Tick, TypeOK, ClockInv, bucketVars, callerVars, historyVars, windowVars,
                Capacity, Most
  <1>7. CASE UNCHANGED vars
    BY <1>7 DEF vars, TypeOK, ClockInv, bucketVars, callerVars, historyVars, windowVars,
                Capacity, Most
  <1>8. QED
    BY <1>1, <1>2, <1>3, <1>4, <1>5, <1>6, <1>7 DEF Next, Call

\* The level stays within a burst of tokens and a burst of debt, and every
\* other variable has its type (token_bucket.go:105-147).
THEOREM TypeCorrect == Spec => []TypeOK
  <1>1. Spec => [](TypeOK /\ ClockInv)
    BY InitTypes, NextTypes, PTL DEF Spec
  <1>2. QED
    BY <1>1, PTL

LEMMA ClockCorrect == Spec => [](TypeOK /\ ClockInv)
  BY InitTypes, NextTypes, PTL DEF Spec

-----------------------------------------------------------------------------
(* The ledger, and the bound on the rate.                                  *)

\* What Allow has granted and the tokens it could still grant are paid for by
\* the burst and the time credited so far; a debt does not widen the bound.
GrantsPaidFor ==
  Cost(granted) + Most(0, tokens) <= Capacity + (lastFilled - born)

LEMMA InitPaid == Init => Ledger /\ GrantsPaidFor
  BY BucketAssumption, CapacityInNat DEF Cost, Init, Ledger, GrantsPaidFor, Most

\* A fill moves the level and lastFilled together.
LEMMA FillPaid ==
  ASSUME TypeOK, ClockInv, NEW c \in Callers, pc[c] = "sampled", Fill(at[c])
  PROVE  /\ Accrued(at[c]) \in Int /\ lost' \in Int /\ lastFilled' \in Int
         /\ Accrued(at[c]) + (lost' - lost) = tokens + (lastFilled' - lastFilled)
         /\ Most(0, Accrued(at[c])) <= Most(0, tokens) + (lastFilled' - lastFilled)
  <1>1. at[c] \in Nat
    BY DEF TypeOK
  <1>2. CASE FillIsDue(at[c])
    <2>1. /\ Accrued(at[c]) = tokens + (at[c] - lastFilled) - Overflowing(at[c])
          /\ Overflowing(at[c]) \in Nat
      BY <1>1, <1>2, AccruedBand
    <2>2. lastFilled' = at[c] /\ lost' = lost + Overflowing(at[c])
      BY <1>2 DEF Fill
    <2>3. lost \in Nat /\ tokens \in Int /\ lastFilled \in Int
      BY CapacityInNat DEF TypeOK
    <2>4. at[c] > lastFilled
      BY <1>1, <1>2, <2>3, BucketAssumption DEF ClockInv, FillIsDue
    <2>5. QED
      BY <1>1, <2>1, <2>2, <2>3, <2>4 DEF Most
  <1>3. CASE ~ FillIsDue(at[c])
    BY <1>1, <1>3, AccruedBand, CapacityInNat DEF Fill, TypeOK, Most
  <1>4. QED
    BY <1>2, <1>3

LEMMA NextPaid ==
  TypeOK /\ ClockInv /\ Ledger /\ GrantsPaidFor /\ [Next]_vars => Ledger' /\ GrantsPaidFor'
  <1> SUFFICES ASSUME TypeOK, ClockInv, Ledger, GrantsPaidFor, [Next]_vars
               PROVE  Ledger' /\ GrantsPaidFor'
    OBVIOUS
  <1> USE BucketAssumption, CapacityInNat
  <1>1. ASSUME NEW c \in Callers, NEW n \in Requests, AllowGranted(c, n)
        PROVE  Ledger' /\ GrantsPaidFor'
    <2>1. /\ pc[c] = "sampled" /\ Fill(at[c]) /\ born' = born /\ forgiven' = forgiven
          /\ tokens' = Accrued(at[c]) - Cost(n)
          /\ Cost(n) <= Accrued(at[c])
          /\ spent' = spent + n /\ granted' = granted + n
      BY <1>1, CostInNat, AccruedBand DEF AllowGranted, TypeOK
    <2>2. /\ Cost(spent') = Cost(spent) + Cost(n)
          /\ Cost(granted') = Cost(granted) + Cost(n)
      BY <2>1, CostAdds DEF TypeOK
    <2>3. /\ Cost(n) \in Nat /\ Cost(spent) \in Nat
          /\ Cost(granted) \in Nat
      BY CostInNat DEF TypeOK
    <2>4. Capacity' = Capacity /\ Cost(spent)' = Cost(spent') /\ Cost(granted)' = Cost(granted')
      BY DEF Capacity, Cost
    <2>5. QED
      BY <2>1, <2>2, <2>3, <2>4, FillPaid DEF Ledger, GrantsPaidFor, TypeOK, Most
  <1>2. ASSUME NEW c \in Callers, NEW n \in Requests, AllowRefused(c, n)
        PROVE  Ledger' /\ GrantsPaidFor'
    <2>1. /\ pc[c] = "sampled" /\ Fill(at[c]) /\ born' = born /\ forgiven' = forgiven
          /\ tokens' = Accrued(at[c]) /\ spent' = spent /\ granted' = granted
      BY <1>2 DEF AllowRefused
    <2>2. Cost(spent) \in Nat /\ Cost(granted) \in Nat
      BY CostInNat DEF TypeOK
    <2>3. Capacity' = Capacity /\ Cost(spent)' = Cost(spent) /\ Cost(granted)' = Cost(granted)
      BY <2>1 DEF Capacity, Cost
    <2>4. QED
      BY <2>1, <2>2, <2>3, FillPaid DEF Ledger, GrantsPaidFor, TypeOK, Most
  <1>3. ASSUME NEW c \in Callers, NEW n \in Requests, Take(c, n)
        PROVE  Ledger' /\ GrantsPaidFor'
    <2> DEFINE level == Accrued(at[c]) - Cost(n)
    <2>1. /\ pc[c] = "sampled" /\ Fill(at[c]) /\ born' = born /\ granted' = granted
          /\ tokens' = Floored(level)
          /\ forgiven' = forgiven + (Floored(level) - level)
          /\ spent' = spent + n
      BY <1>3 DEF Take
    <2>2. Cost(spent') = Cost(spent) + Cost(n)
      BY <2>1, CostAdds DEF TypeOK
    <2>3. /\ Cost(n) \in Nat /\ Cost(spent) \in Nat
          /\ Cost(granted) \in Nat
      BY CostInNat DEF TypeOK
    <2>4. level \in Int /\ level <= Capacity /\ level <= Accrued(at[c])
      BY <2>1, <2>3, AccruedBand DEF TypeOK
    <2>5. Floored(level) \in Int /\ Most(0, Floored(level)) <= Most(0, Accrued(at[c]))
      <3>1. Accrued(at[c]) \in Int
        BY <2>1, FillPaid
      <3> HIDE DEF level
      <3>2. /\ Floored(level) \in Int
            /\ level >= 0 => Floored(level) = level
            /\ level < 0 => Floored(level) <= 0
        BY <2>4, FlooredBand
      <3>3. QED
        BY <2>4, <3>1, <3>2 DEF Most
    <2>6. Ledger'
      <3>1. level = Accrued(at[c]) - Cost(n)
        OBVIOUS
      <3> HIDE DEF level
      <3>2. QED
        BY <2>1, <2>2, <2>3, <2>4, <2>5, <3>1, FillPaid DEF Ledger, TypeOK, Capacity, Cost
    <2>7. GrantsPaidFor'
      <3> HIDE DEF level
      <3>1. Most(0, tokens') <= Most(0, tokens) + (lastFilled' - lastFilled)
        BY <2>1, <2>5, FillPaid DEF Most, TypeOK
      <3>2. Capacity' = Capacity /\ Most(0, tokens)' = Most(0, tokens')
                /\ Cost(granted)' = Cost(granted')
        BY DEF Capacity, Most, Cost
      <3>3. QED
        BY <2>1, <2>3, <2>5, <3>1, <3>2, FillPaid DEF GrantsPaidFor, TypeOK, Most
    <2>8. QED
      BY <2>6, <2>7
  <1>4. CASE \/ Tick
             \/ UNCHANGED vars
             \/ \E c \in Callers : Sample(c) \/ Proceed(c)
    BY <1>4 DEF Cost, Tick, Sample, Proceed, vars, bucketVars, callerVars, historyVars, windowVars,
                Ledger, GrantsPaidFor, Capacity, Most
  <1>5. QED
    BY <1>1, <1>2, <1>3, <1>4 DEF Next, Call

LEMMA PaidCorrect == Spec => [](TypeOK /\ ClockInv /\ Ledger /\ GrantsPaidFor)
  BY InitTypes, NextTypes, InitPaid, NextPaid, PTL DEF Spec

\* Tokens are neither invented nor mislaid, whatever the order in which calls
\* with old and new clock readings reach the mutex.
THEOREM LedgerCorrect == Spec => []Ledger
  BY PaidCorrect, PTL

\* Allow grants no more than the burst and what the elapsed time pays for.
THEOREM RateBounded == Spec => []RateBound
  <1>1. ASSUME TypeOK, ClockInv, GrantsPaidFor
        PROVE  RateBound
    <2>1. Cost(granted) \in Nat /\ born \in Int /\ now \in Nat /\ tokens \in Int
      BY <1>1, CostInNat, CapacityInNat, BucketAssumption DEF TypeOK
    <2>2. lastFilled \in Int /\ lastFilled <= Most(now, born)
      BY <1>1 DEF TypeOK, ClockInv
    <2>3. Cost(granted) + Most(0, tokens) <= Capacity + (lastFilled - born)
      BY <1>1 DEF GrantsPaidFor
    <2>4. QED
      BY <2>1, <2>2, <2>3, CapacityInNat DEF RateBound, Elapsed, Least, Most
  <1>2. QED
    BY <1>1, PaidCorrect, PTL

-----------------------------------------------------------------------------
(* The callers of Take that still sleep.  What they took counts against    *)
(* the rate from the instant their sleep ends: the bound has to be known   *)
(* for every instant to come, with what will have been admitted by then.   *)

\* A pair for each token that a sleeping caller has taken.
Block(c, n) == {c} \X (1 .. n)

Owed == {p \in Callers \X Nat : pc[p[1]] = "paced" /\ p[2] \in 1 .. want[p[1]]}

OwedBy(t) == {p \in Owed : due[p[1]] <= t}

SpentInv == IsFiniteSet(Owed) /\ granted + admitted + Cardinality(Owed) <= spent

PacedInv ==
  \A t \in Nat : t >= now =>
    Cost(granted + admitted + Cardinality(OwedBy(t))) <= Capacity + (t - Least(born, 0)) + forgiven

LEMMA BlockSize ==
  ASSUME NEW c, NEW n \in Nat
  PROVE  IsFiniteSet(Block(c, n)) /\ Cardinality(Block(c, n)) = n
  <1>1. IsFiniteSet({c}) /\ Cardinality({c}) = 1
    BY FS_Singleton
  <1>2. IsFiniteSet(1 .. n) /\ Cardinality(1 .. n) = n
    BY FS_Interval
  <1> DEFINE one == {c}
             numbers == 1 .. n
  <1>3. /\ IsFiniteSet(one) /\ Cardinality(one) = 1
        /\ IsFiniteSet(numbers) /\ Cardinality(numbers) = n
    BY <1>1, <1>2
  <1> HIDE DEF one, numbers
  <1>4. IsFiniteSet(one \X numbers) /\ Cardinality(one \X numbers) = Cardinality(one) * Cardinality(numbers)
    BY <1>3, FS_Product
  <1>5. Cardinality(one \X numbers) = n
    BY <1>3, <1>4
  <1>6. QED
    BY <1>4, <1>5 DEF Block, one, numbers

\* What is taken is one block more.
LEMMA BlockAdds ==
  ASSUME NEW S, IsFiniteSet(S), NEW c, NEW n \in Nat, S \cap Block(c, n) = {}
  PROVE  /\ IsFiniteSet(S \cup Block(c, n))
         /\ Cardinality(S) \in Nat
         /\ Cardinality(S \cup Block(c, n)) = Cardinality(S) + n
  <1>1. IsFiniteSet(Block(c, n)) /\ Cardinality(Block(c, n)) = n
    BY BlockSize
  <1>2. Cardinality(S \cap Block(c, n)) = 0
    BY FS_EmptySet
  <1>3. Cardinality(S) \in Nat
    BY FS_CardinalityType
  <1> DEFINE block == Block(c, n)
  <1>4. /\ IsFiniteSet(block) /\ Cardinality(block) = n /\ Cardinality(S \cap block) = 0
    BY <1>1, <1>2
  <1> HIDE DEF block
  <1>5. /\ IsFiniteSet(S \cup block)
        /\ Cardinality(S \cup block) = Cardinality(S) + Cardinality(block) - Cardinality(S \cap block)
    BY <1>4, FS_Union
  <1>6. Cardinality(S \cup block) = Cardinality(S) + n
    BY <1>3, <1>4, <1>5
  <1>7. QED
    BY <1>3, <1>5, <1>6 DEF block

LEMMA OwedBySize ==
  ASSUME SpentInv, NEW t
  PROVE  /\ IsFiniteSet(OwedBy(t))
         /\ Cardinality(OwedBy(t)) \in Nat /\ Cardinality(Owed) \in Nat
         /\ Cardinality(OwedBy(t)) <= Cardinality(Owed)
  <1>1. OwedBy(t) \in SUBSET Owed
    BY DEF OwedBy
  <1>2. QED
    BY <1>1, FS_Subset, FS_CardinalityType DEF SpentInv

LEMMA CostGrows ==
  ASSUME NEW a \in Nat, NEW b \in Nat, a <= b
  PROVE  Cost(a) <= Cost(b)
  <1>1. b - a \in Nat /\ b = a + (b - a)
    OBVIOUS
  <1>2. Cost(b) = Cost(a) + Cost(b - a) /\ Cost(b - a) \in Nat /\ Cost(a) \in Nat
    BY <1>1, CostAdds, CostInNat
  <1>3. QED
    BY <1>2

\* What Take does to the sleepers.
LEMMA TakeOwes ==
  ASSUME TypeOK, NEW c \in Callers, NEW n \in Nat, pc[c] # "paced", NEW d \in Nat,
         pc' = [pc EXCEPT ![c] = "paced"],
         due' = [due EXCEPT ![c] = d], want' = [want EXCEPT ![c] = n]
  PROVE  /\ Owed' = Owed \cup Block(c, n) /\ Owed \cap Block(c, n) = {}
         /\ \A t \in Nat : OwedBy(t)' = IF d <= t THEN OwedBy(t) \cup Block(c, n) ELSE OwedBy(t)
  <1>1. /\ pc'[c] = "paced" /\ due'[c] = d /\ want'[c] = n
        /\ \A e \in Callers \ {c} : pc'[e] = pc[e] /\ due'[e] = due[e] /\ want'[e] = want[e]
    BY DEF TypeOK
  <1>2. Block(c, n) \subseteq Callers \X Nat
    BY DEF Block
  <1>3. \A p \in Block(c, n) : p[1] = c /\ p[2] \in 1 .. n
    BY DEF Block
  <1>4. \A p \in Callers \X Nat : p[1] = c /\ p[2] \in 1 .. n => p \in Block(c, n)
    BY DEF Block
  <1>5. Owed \cap Block(c, n) = {}
    BY <1>3 DEF Owed
  <1>6. \A p \in Callers \X Nat : p[1] \in Callers
    OBVIOUS
  <1>7. \A p \in Callers \X Nat : p \in Owed' <=> p \in Owed \cup Block(c, n)
    BY <1>1, <1>3, <1>4, <1>6 DEF Owed
  <1>8. Owed' = Owed \cup Block(c, n)
    <2>1. Owed' \subseteq Callers \X Nat /\ Owed \subseteq Callers \X Nat
      BY DEF Owed
    <2>2. QED
      BY <1>2, <1>7, <2>1
  <1>9. \A p \in Owed : due'[p[1]] = due[p[1]]
    BY <1>1, <1>6 DEF Owed
  <1>10. \A p \in Block(c, n) : due'[p[1]] = d
    BY <1>1, <1>3
  <1>11. ASSUME NEW t \in Nat
         PROVE  OwedBy(t)' = IF d <= t THEN OwedBy(t) \cup Block(c, n) ELSE OwedBy(t)
    BY <1>8, <1>9, <1>10 DEF OwedBy
  <1>12. QED
    BY <1>5, <1>8, <1>11

\* And Proceed.
LEMMA ProceedOwes ==
  ASSUME TypeOK, NEW c \in Callers, pc[c] = "paced",
         pc' = [pc EXCEPT ![c] = "idle"],
         due' = [due EXCEPT ![c] = 0], want' = [want EXCEPT ![c] = 0]
  PROVE  /\ Owed = Owed' \cup Block(c, want[c]) /\ Owed' \cap Block(c, want[c]) = {}
         /\ \A t \in Nat : t >= due[c] =>
              /\ OwedBy(t) = OwedBy(t)' \cup Block(c, want[c])
              /\ OwedBy(t)' \cap Block(c, want[c]) = {}
  <1> DEFINE n == want[c]
  <1>1. /\ pc'[c] = "idle" /\ n \in Nat
        /\ \A e \in Callers \ {c} : pc'[e] = pc[e] /\ due'[e] = due[e] /\ want'[e] = want[e]
    BY DEF TypeOK
  <1>2. Block(c, n) \subseteq Callers \X Nat
    BY <1>1 DEF Block
  <1>3. \A p \in Block(c, n) : p[1] = c /\ p[2] \in 1 .. n
    BY DEF Block
  <1>4. \A p \in Callers \X Nat : p[1] = c /\ p[2] \in 1 .. n => p \in Block(c, n)
    BY DEF Block
  <1>5. Owed' \cap Block(c, n) = {}
    BY <1>1, <1>3 DEF Owed
  <1>6. \A p \in Callers \X Nat : p[1] \in Callers
    OBVIOUS
  <1>7. \A p \in Callers \X Nat : p \in Owed <=> p \in Owed' \cup Block(c, n)
    BY <1>1, <1>3, <1>4, <1>6 DEF Owed
  <1>8. Owed = Owed' \cup Block(c, n)
    <2>1. Owed' \subseteq Callers \X Nat /\ Owed \subseteq Callers \X Nat
      BY DEF Owed
    <2>2. QED
      BY <1>2, <1>7, <2>1
  <1>9. \A p \in Owed' : due'[p[1]] = due[p[1]]
    BY <1>1, <1>6 DEF Owed
  <1>10. \A p \in Block(c, n) : due[p[1]] = due[c]
    BY <1>3
  <1>11. ASSUME NEW t \in Nat, t >= due[c]
         PROVE  OwedBy(t) = OwedBy(t)' \cup Block(c, n) /\ OwedBy(t)' \cap Block(c, n) = {}
    <2>1. due[c] <= t
      BY <1>11 DEF TypeOK
    <2>2. OwedBy(t) = {p \in Owed : due[p[1]] <= t} /\ OwedBy(t)' = {p \in Owed' : due'[p[1]] <= t}
      BY DEF OwedBy
    <2>3. QED
      BY <1>5, <1>8, <1>9, <1>10, <2>1, <2>2
  <1>12. QED
    BY <1>5, <1>8, <1>11

LEMMA LagBehindClock ==
  ASSUME NEW f \in Int, NEW b \in Int, NEW n \in Nat, f >= b, f <= Most(n, b)
  PROVE  f - b <= n - Least(b, 0)
  BY DEF Least, Most

LEMMA PositivePartAbove ==
  ASSUME NEW x \in Int
  PROVE  Most(0, x) \in Nat /\ Most(0, x) >= x /\ (x <= 0 => Most(0, x) = 0)
  BY DEF Most

LEMMA NoDebt ==
  ASSUME NEW x \in Int, x >= 0
  PROVE  Most(0, -x) = 0
  BY DEF Most

\* Whatever was spent is paid for once the debt that is left has been slept off.
LEMMA DebtPaysLater ==
  ASSUME TypeOK, ClockInv', TypeOK', Ledger', UNCHANGED born
  PROVE  Cost(spent') <= Capacity + (now' - Least(born, 0)) + forgiven' + Most(0, -tokens')
  <1>1. /\ now' \in Nat /\ tokens' \in Int /\ lastFilled' \in Int /\ born \in Int
        /\ spent' \in Nat /\ lost' \in Nat /\ forgiven' \in Nat
    BY BucketAssumption, CapacityInNat DEF TypeOK, Capacity, Cost
  <1>2. Cost(spent') + tokens' + lost' - forgiven' = Capacity + (lastFilled' - born)
    BY DEF Ledger, Cost, Capacity
  <1>3. lastFilled' >= born /\ lastFilled' <= Most(now', born)
    BY DEF ClockInv, Most
  <1>4. lastFilled' - born <= now' - Least(born, 0)
    BY <1>1, <1>3, LagBehindClock
  <1>5. Cost(spent') \in Nat /\ Least(born, 0) \in Int
    BY <1>1, CostInNat DEF Least
  <1>6. Most(0, -tokens') \in Nat /\ Most(0, -tokens') >= -tokens'
    <2>1. -tokens' \in Int
      BY <1>1
    <2>2. QED
      BY <2>1, PositivePartAbove
  <1> DEFINE debt == Most(0, -tokens')
             origin == Least(born, 0)
             paid == Cost(spent')
  <1> HIDE DEF debt, origin, paid
  <1>7. paid <= Capacity + (now' - origin) + forgiven' + debt
    BY <1>1, <1>2, <1>4, <1>5, <1>6, CapacityInNat DEF debt, origin, paid
  <1>8. QED
    BY <1>7 DEF debt, origin, paid

LEMMA NextPaced ==
  /\ TypeOK /\ ClockInv /\ SpentInv /\ PacedInv /\ [Next]_vars
  /\ TypeOK' /\ ClockInv' /\ Ledger'
  => SpentInv' /\ PacedInv'
  <1> SUFFICES ASSUME TypeOK, ClockInv, SpentInv, PacedInv, [Next]_vars, TypeOK', ClockInv', Ledger'
               PROVE  SpentInv' /\ PacedInv'
    OBVIOUS
  <1> USE CapacityInNat
  <1>1. /\ now \in Nat /\ now' \in Nat /\ born \in Int /\ Least(born, 0) \in Int
        /\ granted \in Nat /\ admitted \in Nat /\ spent \in Nat /\ forgiven \in Nat
        /\ granted' \in Nat /\ admitted' \in Nat /\ spent' \in Nat /\ forgiven' \in Nat
    BY BucketAssumption DEF TypeOK, Least
  <1>2. /\ IsFiniteSet(Owed) /\ Cardinality(Owed) \in Nat
        /\ \A t \in Nat : /\ IsFiniteSet(OwedBy(t)) /\ Cardinality(OwedBy(t)) \in Nat
                          /\ Cardinality(OwedBy(t)) <= Cardinality(Owed)
    BY OwedBySize DEF SpentInv
  \* The sleepers and what counts against the rate stay as they are.
  <1>3. ASSUME UNCHANGED <<pc, due, want, born, granted, admitted, spent, forgiven>>, now <= now'
        PROVE  SpentInv' /\ PacedInv'
    <2>1. Owed' = Owed /\ \A t \in Nat : OwedBy(t)' = OwedBy(t)
      BY <1>3 DEF Owed, OwedBy
    <2>2. SpentInv'
      BY <1>3, <2>1 DEF SpentInv
    <2>3. PacedInv'
      BY <1>1, <1>3, <2>1 DEF PacedInv, Capacity, Cost, Least
    <2>4. QED
      BY <2>2, <2>3
  \* Only callers that do not sleep change their place.
  <1>4. ASSUME NEW c \in Callers, pc[c] # "paced", pc'[c] # "paced",
               \A e \in Callers \ {c} : pc'[e] = pc[e], UNCHANGED <<due, want>>
        PROVE  Owed' = Owed /\ \A t \in Nat : OwedBy(t)' = OwedBy(t)
    <2>1. \A p \in Callers \X Nat : p[1] \in Callers
      OBVIOUS
    <2>2. \A p \in Callers \X Nat : pc'[p[1]] = "paced" <=> pc[p[1]] = "paced"
      BY <1>4, <2>1
    <2>3. Owed' = Owed
      BY <1>4, <2>2 DEF Owed
    <2>4. QED
      BY <1>4, <2>3 DEF OwedBy
  <1>5. ASSUME NEW c \in Callers, Sample(c) \/ \E n \in Requests : AllowRefused(c, n)
        PROVE  SpentInv' /\ PacedInv'
    <2>1. /\ UNCHANGED <<now, due, want, born, granted, admitted, spent, forgiven>>
          /\ pc[c] # "paced" /\ pc'[c] # "paced" /\ \A e \in Callers \ {c} : pc'[e] = pc[e]
      BY <1>5 DEF Sample, AllowRefused, Return, historyVars, TypeOK
    <2>2. Owed' = Owed /\ \A t \in Nat : OwedBy(t)' = OwedBy(t)
      BY <1>4, <2>1
    <2>3. SpentInv' /\ PacedInv'
      BY <2>1, <2>2 DEF SpentInv, PacedInv, Capacity, Cost, Least
    <2>4. QED
      BY <2>3
  <1>6. ASSUME NEW c \in Callers, NEW n \in Requests, AllowGranted(c, n)
        PROVE  SpentInv' /\ PacedInv'
    <2>1. /\ UNCHANGED <<now, due, want, born, admitted, forgiven>>
          /\ granted' = granted + n /\ spent' = spent + n /\ n \in Nat
          /\ pc[c] # "paced" /\ pc'[c] # "paced" /\ \A e \in Callers \ {c} : pc'[e] = pc[e]
      BY <1>6, BucketAssumption DEF AllowGranted, Return, TypeOK
    <2>2. Owed' = Owed /\ \A t \in Nat : OwedBy(t)' = OwedBy(t)
      BY <1>4, <2>1
    <2>3. granted' + admitted' + Cardinality(Owed) <= spent'
      BY <1>1, <1>2, <2>1 DEF SpentInv
    <2>4. tokens' \in Int /\ tokens' >= 0
      <3>1. at[c] \in Int /\ n \in Nat
        BY <2>1 DEF TypeOK
      <3>2. Accrued(at[c]) \in Int /\ Cost(n) \in Nat
        BY <3>1, AccruedBand, CostInNat
      <3>3. QED
        BY <1>6, <3>2 DEF AllowGranted
    <2>5. Cost(spent') <= Capacity + (now - Least(born, 0)) + forgiven
      <3>1. Most(0, -tokens') = 0
        BY <2>4, NoDebt
      <3>2. Cost(spent') \in Nat
        BY <1>1, CostInNat
      <3>3. QED
        BY <1>1, <2>1, <3>1, <3>2, DebtPaysLater
    <2>6. ASSUME NEW t \in Nat, t >= now
          PROVE  Cost(granted' + admitted' + Cardinality(OwedBy(t))) <= Capacity + (t - Least(born, 0)) + forgiven
      <3> DEFINE total == granted' + admitted' + Cardinality(OwedBy(t))
      <3>1. total \in Nat /\ total <= spent'
        BY <1>1, <1>2, <2>3
      <3> HIDE DEF total
      <3>2. Cost(total) \in Nat /\ Cost(spent') \in Nat /\ Cost(total) <= Cost(spent')
        BY <1>1, <3>1, CostInNat, CostGrows
      <3>3. Cost(total) <= Capacity + (t - Least(born, 0)) + forgiven
        BY <1>1, <2>5, <2>6, <3>2
      <3>4. QED
        BY <3>3 DEF total
    <2>7. SpentInv'
      BY <1>2, <2>2, <2>3 DEF SpentInv
    <2>8. PacedInv'
      BY <2>1, <2>2, <2>6 DEF PacedInv, Capacity, Cost, Least
    <2>9. QED
      BY <2>7, <2>8
  <1>7. ASSUME NEW c \in Callers, NEW n \in Requests, Take(c, n)
        PROVE  SpentInv' /\ PacedInv'
    <2> DEFINE wait == TakeDelay(Floored(Accrued(at[c]) - Cost(n)))
               d == now + wait
    <2>1. /\ UNCHANGED <<now, born, granted, admitted>>
          /\ spent' = spent + n /\ n \in Nat /\ pc[c] # "paced"
          /\ pc' = [pc EXCEPT ![c] = "paced"] /\ due' = [due EXCEPT ![c] = d]
          /\ want' = [want EXCEPT ![c] = n]
          /\ wait = Most(0, -tokens')
      BY <1>7, BucketAssumption DEF Take, TakeDelay
    <2>2. wait \in Nat /\ d \in Nat
      <3>1. tokens' \in Int
        BY CapacityInNat DEF TypeOK, Capacity, Cost
      <3>2. wait \in Nat
        BY <2>1, <3>1, PositivePartInNat
      <3>3. QED
        BY <1>1, <3>2
    <2>3. forgiven' >= forgiven
      <3> DEFINE level == Accrued(at[c]) - Cost(n)
      <3>1. forgiven' = forgiven + (Floored(level) - level)
        BY <1>7 DEF Take
      <3>2. level \in Int /\ level <= Capacity
        <4>1. at[c] \in Int /\ Cost(n) \in Nat
          BY <2>1, CostInNat DEF TypeOK
        <4>2. Accrued(at[c]) \in (-Capacity) .. Capacity
          BY <4>1, AccruedBand
        <4>3. QED
          BY <4>1, <4>2
      <3> HIDE DEF level
      <3>3. Floored(level) - level \in Nat
        BY <3>2, FlooredBand
      <3>4. QED
        BY <1>1, <3>1, <3>3
    <2> HIDE DEF wait, d
    <2>4. /\ Owed' = Owed \cup Block(c, n) /\ Owed \cap Block(c, n) = {}
          /\ \A t \in Nat : OwedBy(t)' = IF d <= t THEN OwedBy(t) \cup Block(c, n) ELSE OwedBy(t)
      BY <2>1, <2>2, TakeOwes
    <2>5. IsFiniteSet(Owed') /\ Cardinality(Owed') = Cardinality(Owed) + n
      BY <1>2, <2>1, <2>4, BlockAdds
    <2>6. SpentInv'
      BY <1>1, <1>2, <2>1, <2>5 DEF SpentInv
    <2>7. Cost(spent') <= Capacity + (now - Least(born, 0)) + forgiven' + wait
      BY <2>1, DebtPaysLater
    <2>8. ASSUME NEW t \in Nat, t >= now
          PROVE  Cost(granted + admitted + Cardinality(OwedBy(t)')) <= Capacity + (t - Least(born, 0)) + forgiven'
      <3>1. CASE d <= t
        <4> DEFINE total == granted + admitted + Cardinality(OwedBy(t)')
        <4>1. OwedBy(t)' \in SUBSET Owed'
          BY DEF OwedBy
        <4>2. Cardinality(OwedBy(t)') \in Nat /\ Cardinality(OwedBy(t)') <= Cardinality(Owed')
          BY <2>5, <4>1, FS_Subset, FS_CardinalityType
        <4>3. total \in Nat /\ total <= spent'
          BY <1>1, <1>2, <2>1, <2>5, <4>2 DEF SpentInv
        <4> HIDE DEF total
        <4>4. Cost(total) \in Nat /\ Cost(spent') \in Nat /\ Cost(total) <= Cost(spent')
          BY <1>1, <4>3, CostInNat, CostGrows
        <4>5. now + wait <= t
          BY <3>1 DEF d
        <4>6. Cost(total) <= Capacity + (t - Least(born, 0)) + forgiven'
          BY <1>1, <2>2, <2>7, <4>4, <4>5
        <4>7. QED
          BY <4>6 DEF total
      <3>2. CASE ~(d <= t)
        <4>1. OwedBy(t)' = OwedBy(t)
          BY <2>4, <3>2
        <4> DEFINE total == granted + admitted + Cardinality(OwedBy(t))
        <4>2. total \in Nat /\ Cost(total) <= Capacity + (t - Least(born, 0)) + forgiven
          BY <1>1, <1>2, <2>8 DEF PacedInv
        <4> HIDE DEF total
        <4>3. Cost(total) \in Nat
          BY <4>2, CostInNat
        <4>4. Cost(total) <= Capacity + (t - Least(born, 0)) + forgiven'
          BY <1>1, <2>3, <4>2, <4>3
        <4>5. QED
          BY <4>1, <4>4 DEF total
      <3>3. QED
        BY <3>1, <3>2
    <2>9. PacedInv'
      BY <2>1, <2>8 DEF PacedInv, Capacity, Cost, Least
    <2>10. QED
      BY <2>6, <2>9
  <1>8. ASSUME NEW c \in Callers, Proceed(c)
        PROVE  SpentInv' /\ PacedInv'
    <2> DEFINE n == want[c]
    <2>1. /\ UNCHANGED <<now, born, granted, spent, forgiven>>
          /\ admitted' = admitted + n /\ n \in Nat /\ pc[c] = "paced"
          /\ pc' = [pc EXCEPT ![c] = "idle"] /\ due' = [due EXCEPT ![c] = 0]
          /\ want' = [want EXCEPT ![c] = 0]
          /\ due[c] \in Nat /\ due[c] <= now
      BY <1>8 DEF Proceed, TypeOK
    <2>2. /\ Owed = Owed' \cup Block(c, n) /\ Owed' \cap Block(c, n) = {}
          /\ \A t \in Nat : t >= due[c] =>
               /\ OwedBy(t) = OwedBy(t)' \cup Block(c, n)
               /\ OwedBy(t)' \cap Block(c, n) = {}
      BY <2>1, ProceedOwes
    <2> HIDE DEF n
    <2>3. IsFiniteSet(Owed') /\ Cardinality(Owed') \in Nat /\ Cardinality(Owed) = Cardinality(Owed') + n
      <3>1. Owed' \in SUBSET Owed
        BY <2>2
      <3>2. IsFiniteSet(Owed')
        BY <1>2, <3>1, FS_Subset
      <3>3. QED
        BY <2>1, <2>2, <3>2, BlockAdds
    <2>4. SpentInv'
      BY <1>1, <2>1, <2>3 DEF SpentInv
    <2>5. ASSUME NEW t \in Nat, t >= now
          PROVE  granted + admitted' + Cardinality(OwedBy(t)') = granted + admitted + Cardinality(OwedBy(t))
      <3>1. t >= due[c]
        BY <1>1, <2>1, <2>5
      <3>2. OwedBy(t) = OwedBy(t)' \cup Block(c, n) /\ OwedBy(t)' \cap Block(c, n) = {}
        BY <2>2, <3>1
      <3>3. IsFiniteSet(OwedBy(t)')
        <4>1. OwedBy(t)' \in SUBSET OwedBy(t)
          BY <3>2
        <4>2. QED
          BY <1>2, <4>1, FS_Subset
      <3>4. Cardinality(OwedBy(t)') \in Nat /\ Cardinality(OwedBy(t)) = Cardinality(OwedBy(t)') + n
        BY <2>1, <3>2, <3>3, BlockAdds
      <3>5. QED
        BY <1>1, <2>1, <3>4
    <2>6. PacedInv'
      BY <2>1, <2>5 DEF PacedInv, Capacity, Cost, Least
    <2>7. QED
      BY <2>4, <2>6
  <1>9. CASE Tick \/ UNCHANGED vars
    <2>1. UNCHANGED <<pc, due, want, born, granted, admitted, spent, forgiven>> /\ now <= now'
      BY <1>1, <1>9 DEF Tick, vars, callerVars, historyVars
    <2>2. QED
      BY <1>3, <2>1
  <1>10. QED
    BY <1>5, <1>6, <1>7, <1>8, <1>9 DEF Next, Call

LEMMA InitPaced == Init => SpentInv /\ PacedInv
  <1> SUFFICES ASSUME Init
               PROVE  SpentInv /\ PacedInv
    OBVIOUS
  <1>1. Owed = {} /\ \A t \in Nat : OwedBy(t) = {}
    <2>1. \A c \in Callers : pc[c] = "idle"
      BY DEF Init
    <2>2. \A p \in Callers \X Nat : p[1] \in Callers
      OBVIOUS
    <2>3. Owed = {}
      BY <2>1, <2>2 DEF Owed
    <2>4. QED
      BY <2>3 DEF OwedBy
  <1>2. IsFiniteSet({}) /\ Cardinality({}) = 0
    BY FS_EmptySet
  <1>3. granted = 0 /\ admitted = 0 /\ spent = 0 /\ forgiven = 0 /\ now = 0 /\ born \in Int
    BY BucketAssumption DEF Init
  <1>4. SpentInv
    BY <1>1, <1>2, <1>3 DEF SpentInv
  <1>5. Cost(0) = 0
    BY BucketAssumption DEF Cost
  <1>6. ASSUME NEW t \in Nat
        PROVE  Cost(granted + admitted + Cardinality(OwedBy(t))) <= Capacity + (t - Least(born, 0)) + forgiven
    <2>1. granted + admitted + Cardinality(OwedBy(t)) = 0
      <3>1. Cardinality(OwedBy(t)) = 0
        BY <1>1, <1>2
      <3>2. QED
        BY <1>3, <3>1
    <2>2. Least(born, 0) \in Int /\ Least(born, 0) <= 0
      BY <1>3 DEF Least
    <2> DEFINE origin == Least(born, 0)
    <2>3. origin \in Int /\ origin <= 0
      BY <2>2
    <2> HIDE DEF origin
    <2>4. 0 <= Capacity + (t - origin) + forgiven
      BY <1>3, <2>3, CapacityInNat
    <2>5. QED
      BY <1>5, <2>1, <2>4 DEF origin
  <1>7. QED
    BY <1>4, <1>6 DEF PacedInv

\* Callers that sleep as long as Take tells them stay within the burst and what
\* the elapsed time pays for, together with what Allow lets through at once,
\* but for the debt that Take's floor has dropped (TokenBucket.Take).
THEOREM TakesBounded == Spec => []TakeRateBound
  <1>1. ASSUME TypeOK, SpentInv, PacedInv
        PROVE  TakeRateBound
    <2> DEFINE n == Cardinality(OwedBy(now))
               sum == granted + admitted
    <2>1. now \in Nat /\ granted \in Nat /\ admitted \in Nat /\ forgiven \in Nat /\ Least(born, 0) \in Int
      BY <1>1, BucketAssumption DEF TypeOK, Least
    <2>2. n \in Nat /\ sum \in Nat
      BY <1>1, <2>1, OwedBySize
    <2>3. Cost(sum + n) <= Capacity + (now - Least(born, 0)) + forgiven
      BY <1>1, <2>1 DEF PacedInv
    <2> HIDE DEF n, sum
    <2>4. Cost(sum) <= Cost(sum + n) /\ Cost(sum) \in Nat /\ Cost(sum + n) \in Nat
      BY <2>2, CostGrows, CostInNat
    <2>5. Cost(sum) <= Capacity + (now - Least(born, 0)) + forgiven
      BY <2>1, <2>3, <2>4, CapacityInNat
    <2>6. QED
      BY <2>5 DEF TakeRateBound, Elapsed, sum
  <1>2. QED
    BY <1>1, InitPaced, NextPaced, PaidCorrect, PTL DEF Spec

-----------------------------------------------------------------------------
(* Action properties.                                                      *)

\* The last fill never moves back, so no time is credited twice.
THEOREM FillsForward == Spec => FillsMoveForward
  <1>1. ASSUME TypeOK, ClockInv, [Next]_vars
        PROVE  lastFilled' >= lastFilled
    <2> lastFilled \in Int
      BY <1>1 DEF TypeOK
    <2>1. CASE lastFilled' = lastFilled
      BY <2>1
    <2>2. ASSUME NEW c \in Callers, pc[c] = "sampled", Fill(at[c])
          PROVE  lastFilled' >= lastFilled
      <3>1. at[c] \in Nat
        BY <1>1 DEF TypeOK
      <3>2. QED
        BY <1>1, <2>2, <3>1, BucketAssumption DEF Fill, FillIsDue, ClockInv
    <2>3. QED
      BY <1>1, <2>1, <2>2
         DEF Next, Call, Sample, AllowGranted, AllowRefused, Take, Proceed, Tick, vars,
             bucketVars
  <1>2. TypeOK /\ ClockInv /\ [Next]_vars => [lastFilled' >= lastFilled]_vars
    BY <1>1
  <1>3. QED
    BY <1>2, ClockCorrect, PTL DEF FillsMoveForward, Spec

\* Allow refuses only when the tokens spent and overflowed, the request and one
\* fill period account for all the time up to the caller's clock reading.
THEOREM RefusalsJustified == Spec => RefusalJustified
  <1> DEFINE Justified == \A c \in Callers, n \in Requests :
               AllowRefused(c, n) =>
                 Cost(spent + n) + lost' + FillPeriod > Capacity + (at[c] - born)
  <1>1. ASSUME TypeOK, ClockInv, Ledger, NEW c \in Callers, NEW n \in Requests,
               AllowRefused(c, n)
        PROVE  Cost(spent + n) + lost' + FillPeriod > Capacity + (at[c] - born)
    <2>1. pc[c] = "sampled" /\ Fill(at[c]) /\ Accrued(at[c]) < Cost(n)
      BY <1>1 DEF AllowRefused
    <2>2. Cost(spent + n) = Cost(spent) + Cost(n)
      BY <1>1, CostAdds, BucketAssumption DEF TypeOK
    <2>3. Cost(spent) \in Nat /\ Cost(n) \in Nat /\ forgiven \in Nat /\ born \in Int
          /\ at[c] \in Nat /\ lost \in Nat /\ tokens \in Int /\ lastFilled \in Int
      BY <1>1, CostInNat, CapacityInNat, BucketAssumption DEF TypeOK
    <2>4. /\ Accrued(at[c]) \in Int /\ lost' \in Int /\ lastFilled' \in Int
          /\ Accrued(at[c]) + (lost' - lost) = tokens + (lastFilled' - lastFilled)
      BY <1>1, <2>1, FillPaid
    <2>5. at[c] <= lastFilled' + FillPeriod
      BY <1>1, <2>1, <2>3, BucketAssumption DEF Fill, FillIsDue, ClockInv
    <2>6. QED
      BY <1>1, <2>1, <2>2, <2>3, <2>4, <2>5, CapacityInNat, BucketAssumption DEF Ledger
  <1>2. TypeOK /\ ClockInv /\ Ledger => Justified
    BY <1>1
  <1>3. TypeOK /\ ClockInv /\ Ledger => [Justified]_vars
    BY <1>2
  <1>4. QED
    BY <1>3, PaidCorrect, PTL DEF RefusalJustified

-----------------------------------------------------------------------------
(* The bucket keeps the contract.                                          *)

\* A call that reaches the bucket leaves at most a period and the lag of time
\* uncredited, which is what the ceiling of the contract leaves room for.
LEMMA UncreditedTime ==
  ASSUME TypeOK, ClockInv, NEW c \in Callers, pc[c] = "sampled", Fill(at[c])
  PROVE  /\ lastFilled' \in Int
         /\ Most(0, now - lastFilled') <= FillPeriod + MaxLag
         /\ Accrued(at[c]) + Most(0, now - lastFilled')
              <= tokens + Most(0, now - lastFilled)
  <1>1. at[c] \in Nat /\ at[c] <= now /\ now <= at[c] + MaxLag /\ tokens \in Int
        /\ now \in Nat /\ lastFilled \in Int
    BY CapacityInNat DEF TypeOK, ClockInv
  <1>2. CASE FillIsDue(at[c])
    <2>1. lastFilled' = at[c] /\ Accrued(at[c]) \in Int
          /\ Accrued(at[c]) <= tokens + (at[c] - lastFilled)
      BY <1>1, <1>2, AccruedBand, CapacityInNat DEF Fill
    <2>2. QED
      BY <1>1, <2>1, BucketAssumption DEF Most
  <1>3. CASE ~ FillIsDue(at[c])
    <2>1. lastFilled' = lastFilled /\ Accrued(at[c]) = tokens
          /\ at[c] <= lastFilled + FillPeriod
      BY <1>1, <1>3, AccruedBand, BucketAssumption DEF Fill, FillIsDue, ClockInv
    <2>2. QED
      BY <1>1, <2>1, BucketAssumption DEF Most
  <1>4. QED
    BY <1>2, <1>3

LEMMA OutstandingBand ==
  ASSUME NEW level \in (-Capacity) .. Capacity, NEW age \in Int
  PROVE  Least(ContractCeiling, level + Most(0, age)) \in (-Capacity) .. ContractCeiling
  BY CapacityInNat, BucketAssumption DEF ContractCeiling, Least, Most

LEMMA InitContract == Init => Contract!Init
  BY OutstandingBand, CapacityInNat, BucketAssumption
     DEF Init, Contract!Init, Outstanding, Contract!Credits

LEMMA NextContract ==
  TypeOK /\ ClockInv /\ TypeOK' /\ [Next]_vars => [Contract!Next]_Contract!vars
  <1> SUFFICES ASSUME TypeOK, ClockInv, TypeOK', [Next]_vars
               PROVE  [Contract!Next]_Contract!vars
    OBVIOUS
  <1> USE BucketAssumption, CapacityInNat
  <1>1. /\ Outstanding \in (-Capacity) .. ContractCeiling
        /\ Outstanding' \in (-Capacity) .. ContractCeiling
        /\ ContractCeiling \in Nat
        /\ ContractCeiling = Capacity + FillPeriod + MaxLag
    <2>1. /\ tokens \in (-Capacity) .. Capacity /\ now - lastFilled \in Int
          /\ tokens' \in (-Capacity) .. Capacity /\ now' - lastFilled' \in Int
      BY DEF TypeOK, Capacity, Cost
    <2>2. Outstanding' = Least(ContractCeiling, tokens' + Most(0, now' - lastFilled'))
      BY DEF Outstanding, Least, Most, ContractCeiling, Capacity, Cost
    <2>3. Outstanding = Least(ContractCeiling, tokens + Most(0, now - lastFilled))
      BY DEF Outstanding
    <2>4. QED
      BY <2>1, <2>2, <2>3, OutstandingBand DEF ContractCeiling
  <1>2. /\ Outstanding = Least(ContractCeiling, tokens + Most(0, now - lastFilled))
        /\ Outstanding' = Least(ContractCeiling, tokens' + Most(0, now' - lastFilled'))
    BY DEF Outstanding, Least, Most, ContractCeiling, Capacity, Cost
  <1>3. /\ tokens \in Int /\ lastFilled \in Int /\ now \in Nat
        /\ tokens' \in Int /\ lastFilled' \in Int /\ now' \in Nat
    BY DEF TypeOK, Capacity, Cost
  <1>4. ASSUME NEW c \in Callers, NEW n \in Requests, AllowGranted(c, n)
        PROVE  Contract!Grant(n)
    <2>1. /\ pc[c] = "sampled" /\ Fill(at[c]) /\ now' = now
          /\ tokens' = Accrued(at[c]) - Cost(n) /\ Cost(n) <= Accrued(at[c])
          /\ granted' = granted + n /\ UNCHANGED windowVars
          /\ Cost(n) \in Nat /\ Accrued(at[c]) \in Int
      BY <1>4, CostInNat, AccruedBand DEF AllowGranted, TypeOK
    <2>2. /\ Cost(n) <= Outstanding
          /\ Outstanding' <= Outstanding - Cost(n)
      <3>1. Accrued(at[c]) <= Capacity
        BY <2>1, AccruedBand DEF TypeOK
      <3> DEFINE after == Most(0, now - lastFilled')
                 before == Most(0, now - lastFilled)
      <3>2. /\ after \in Nat /\ before \in Nat
            /\ after <= FillPeriod + MaxLag
            /\ Accrued(at[c]) + after <= tokens + before
        <4>1. lastFilled' \in Int /\ after <= FillPeriod + MaxLag
              /\ Accrued(at[c]) + after <= tokens + before
          BY <2>1, UncreditedTime
        <4>2. now - lastFilled \in Int /\ now - lastFilled' \in Int
          BY <1>3
        <4>3. after \in Nat /\ before \in Nat
          BY <4>2, PositivePartInNat
        <4>4. QED
          BY <4>1, <4>3
      <3>3. Outstanding = Least(ContractCeiling, tokens + before)
            /\ Outstanding' = Least(ContractCeiling, tokens' + after)
        BY <1>2, <2>1
      <3> HIDE DEF after, before
      <3>4. QED
        BY <1>1, <1>3, <2>1, <3>1, <3>2, <3>3 DEF Least
    <2>3. Contract!Charge(n) = Cost(n)
      BY DEF Contract!Charge, Cost
    <2>4. QED
      BY <1>1, <2>1, <2>2, <2>3 DEF Contract!Grant, Contract!Credits, windowVars
  <1>5. ASSUME NEW c \in Callers, NEW n \in Requests, AllowRefused(c, n) \/ Take(c, n)
        PROVE  Contract!Forgo
    <2>1. /\ pc[c] = "sampled" /\ Fill(at[c]) /\ now' = now
          /\ granted' = granted /\ UNCHANGED windowVars
      BY <1>5 DEF AllowRefused, Take
    <2>2. tokens' <= Accrued(at[c]) /\ Accrued(at[c]) \in Int
      <3>1. Accrued(at[c]) \in (-Capacity) .. Capacity /\ Cost(n) \in Nat
        BY <2>1, AccruedBand, CostInNat DEF TypeOK
      <3>2. QED
        BY <1>5, <3>1 DEF AllowRefused, Take, Floored, Most
    <2>3. Outstanding' <= Outstanding
      <3> DEFINE after == Most(0, now - lastFilled')
                 before == Most(0, now - lastFilled)
                 filled == Accrued(at[c])
      <3>1. lastFilled' \in Int /\ filled + after <= tokens + before
        BY <2>1, UncreditedTime
      <3>2. now - lastFilled \in Int /\ now - lastFilled' \in Int
        BY <1>3
      <3>3. after \in Nat /\ before \in Nat
        BY <3>2, PositivePartInNat
      <3>4. tokens' <= filled /\ filled \in Int
        BY <2>2
      <3>5. Outstanding = Least(ContractCeiling, tokens + before)
            /\ Outstanding' = Least(ContractCeiling, tokens' + after)
        BY <1>2, <2>1
      <3> HIDE DEF after, before, filled
      <3>6. tokens' + after \in Int /\ tokens + before \in Int
        BY <1>3, <3>3
      <3>7. tokens' + after <= tokens + before
        <4>1. tokens' <= filled
          BY <3>4
        <4>2. filled + after <= tokens + before
          BY <3>1
        <4>3. filled \in Int /\ after \in Int /\ before \in Int
          BY <3>3, <3>4
        <4>4. tokens' \in Int /\ tokens \in Int
          BY <1>3
        <4>5. QED
          BY <4>1, <4>2, <4>3, <4>4, SmallerSum
      <3>8. QED
        BY <1>1, <3>5, <3>6, <3>7 DEF Least
    <2>4. QED
      BY <1>1, <2>1, <2>3 DEF Contract!Forgo, Contract!Credits, windowVars
  <1>6. CASE Tick
    <2>1. now' = now + 1 /\ tokens' = tokens /\ lastFilled' = lastFilled /\ granted' = granted
          /\ (UNCHANGED windowVars \/ (windowStart' = now' /\ windowBase' = granted))
      BY <1>6 DEF Tick, bucketVars, historyVars
    <2>2. Outstanding' <= Outstanding + 1
      BY <1>1, <1>2, <1>3, <2>1 DEF Least, Most
    <2>3. Contract!Tick
      BY <1>1, <2>1, <2>2 DEF Contract!Tick, Contract!Credits, windowVars
    <2>4. QED
      BY <2>3 DEF Contract!Next
  <1>7. CASE UNCHANGED vars \/ \E c \in Callers : Sample(c) \/ Proceed(c)
    <2>1. UNCHANGED <<now, tokens, lastFilled, granted, windowStart, windowBase>>
      BY <1>7 DEF vars, bucketVars, historyVars, windowVars, Sample, Proceed
    <2>2. Outstanding' = Outstanding
      BY <1>2, <2>1
    <2>3. QED
      BY <2>1, <2>2 DEF Contract!vars
  <1>8. QED
    BY <1>4, <1>5, <1>6, <1>7 DEF Next, Call, Contract!Next

\* The bucket, with its lazy fills and callers whose clock readings are up to
\* MaxLag old, keeps the contract of a limiter with a ceiling of the burst, one
\* token and the lag.
THEOREM KeepsContract == Spec => ImplementsContract
  <1>1. Spec => []TypeOK /\ []ClockInv
    BY ClockCorrect, PTL
  <1>2. QED
    BY <1>1, InitContract, NextContract, PTL DEF Spec, ImplementsContract, Contract!Spec

\* In every window of time Allow grants at most the burst, one token, what the
\* lag is worth and what the window's time earns.
THEOREM WindowsBounded == Spec => []WindowBound
  <1>1. Contract!ContractConstants
    BY BucketAssumption, CapacityInNat DEF Contract!ContractConstants, ContractCeiling
  <1>2. Contract!Spec => []Contract!WindowBound
    BY <1>1, Contract!WindowBounded
  <1>3. QED
    BY <1>2, KeepsContract, PTL DEF ImplementsContract, WindowBound

=============================================================================
