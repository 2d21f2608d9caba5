------------------------- MODULE LeakyBucketProofs -------------------------
(***************************************************************************)
(* Proofs about LeakyBucket, for every period, capability, lag and set of  *)
(* requests.                                                               *)
(***************************************************************************)
EXTENDS LeakyBucket, FiniteSetTheorems, TLAPS

\* What the proofs need beside the types: the next drain follows the last one,
\* which is not in the future; nor is a clock reading, and none is older than
\* the lag allows.
ClockInv ==
  /\ nextDrain = lastDrained + DrainPeriod
  /\ lastDrained <= now
  /\ \A c \in Callers : pc[c] = "sampled" => at[c] <= now /\ now <= at[c] + MaxLag

-----------------------------------------------------------------------------
(* Costs, kept folded: the arithmetic of the proofs is linear in them.     *)

LEMMA CostInInt ==
  ASSUME NEW a \in Int
  PROVE  Cost(a) \in Int /\ (a >= 0 => Cost(a) \in Nat)
  BY LeakyAssumption DEF Cost

LEMMA CostAdds ==
  ASSUME NEW a \in Int, NEW b \in Int
  PROVE  Cost(a + b) = Cost(a) + Cost(b) /\ Cost(a - b) = Cost(a) - Cost(b)
  BY LeakyAssumption DEF Cost

LEMMA CostOfNoneAndOne == Cost(0) = 0 /\ Cost(1) = DrainPeriod
  BY LeakyAssumption DEF Cost

LEMMA CostGrows ==
  ASSUME NEW a \in Int, NEW b \in Int, a <= b
  PROVE  Cost(a) <= Cost(b)
  <1>1. b - a \in Int /\ b - a >= 0 /\ b = a + (b - a)
    OBVIOUS
  <1>2. Cost(b - a) \in Nat /\ Cost(b - a) = Cost(b) - Cost(a)
    BY <1>1, CostInInt, CostAdds
  <1>3. QED
    BY <1>2, CostInInt

LEMMA WholeDrops ==
  ASSUME NEW u \in Nat
  PROVE  /\ u \div DrainPeriod \in Nat
         /\ Cost(u \div DrainPeriod) <= u
         /\ u < Cost(u \div DrainPeriod) + DrainPeriod
  BY LeakyAssumption DEF Cost

-----------------------------------------------------------------------------
(* What a drain does, whatever the reading.                                *)

LEMMA DripsBand ==
  ASSUME TypeOK, ClockInv, NEW t \in Nat, t <= now
  PROVE  /\ Drips(t) \in Nat /\ Cost(Drips(t)) \in Nat
         /\ lastDrained + Cost(Drips(t)) <= now
         /\ DrainIsDue(t) => t < lastDrained + Cost(Drips(t)) + DrainPeriod
         /\ ~ DrainIsDue(t) => Drips(t) = 0 /\ Cost(Drips(t)) = 0
  <1>1. CASE DrainIsDue(t)
    <2>1. t - lastDrained \in Nat
      BY <1>1, LeakyAssumption DEF DrainIsDue, TypeOK, ClockInv
    <2>2. Drips(t) = (t - lastDrained) \div DrainPeriod
      BY <1>1 DEF Drips
    <2>3. /\ Drips(t) \in Nat /\ Cost(Drips(t)) <= t - lastDrained
          /\ t - lastDrained < Cost(Drips(t)) + DrainPeriod
      BY <2>1, <2>2, WholeDrops
    <2>4. Cost(Drips(t)) \in Nat
      BY <2>3, CostInInt
    <2>5. QED
      BY <1>1, <2>1, <2>3, <2>4, LeakyAssumption DEF TypeOK
  <1>2. CASE ~ DrainIsDue(t)
    BY <1>2, CostOfNoneAndOne DEF Drips, TypeOK, ClockInv
  <1>3. QED
    BY <1>1, <1>2

LEMMA DrainedBand ==
  ASSUME TypeOK, ClockInv, NEW t \in Nat, t <= now
  PROVE  /\ Drained(t) \in (-Capability) .. Capability
         /\ drops - Drips(t) <= Drained(t)
         /\ Drained(t) <= drops
         /\ ~ DrainIsDue(t) => Drained(t) = drops
  BY DripsBand, LeakyAssumption DEF Drained, Most, TypeOK

LEMMA DrainStep ==
  ASSUME TypeOK, ClockInv, NEW c \in Callers, pc[c] = "sampled", Drain(at[c]), now' = now
  PROVE  /\ at[c] \in Nat /\ at[c] <= now
         /\ lastDrained' = lastDrained + Cost(Drips(at[c]))
         /\ lastDrained' \in Nat /\ lastDrained' <= now
         /\ nextDrain' = lastDrained' + DrainPeriod /\ nextDrain' \in Nat
         /\ lost' \in Nat
         /\ lost' = lost + (Drained(at[c]) - (drops - Drips(at[c])))
  <1>1. at[c] \in Nat /\ at[c] <= now
    BY DEF TypeOK, ClockInv
  <1> DEFINE k == Drips(at[c])
             d == Drained(at[c])
  <1>2. /\ k \in Nat /\ Cost(k) \in Nat /\ lastDrained + Cost(k) <= now
        /\ ~ DrainIsDue(at[c]) => Cost(k) = 0
    BY <1>1, DripsBand
  <1>3. d \in Int /\ drops - k <= d
    BY <1>1, DrainedBand, LeakyAssumption
  <1>4. /\ lastDrained' = lastDrained + Cost(k)
        /\ nextDrain' = IF DrainIsDue(at[c]) THEN lastDrained' + DrainPeriod ELSE nextDrain
        /\ lost' = lost + (d - (drops - k))
    BY DEF Drain
  <1>5. /\ drops \in Int /\ lost \in Nat /\ lastDrained \in Nat /\ DrainPeriod \in Nat
        /\ nextDrain = lastDrained + DrainPeriod
    BY LeakyAssumption DEF TypeOK, ClockInv
  <1> HIDE DEF k, d
  <1>6. lost' \in Nat /\ lastDrained' \in Nat /\ lastDrained' <= now
    BY <1>2, <1>3, <1>4, <1>5
  <1>7. nextDrain' = lastDrained' + DrainPeriod
    BY <1>2, <1>4, <1>5
  <1>8. QED
    BY <1>1, <1>4, <1>5, <1>6, <1>7 DEF k, d

-----------------------------------------------------------------------------
(* Types.                                                                  *)

LEMMA InitTypes == Init => TypeOK /\ ClockInv
  BY LeakyAssumption DEF Init, TypeOK, ClockInv

LEMMA NextTypes == TypeOK /\ ClockInv /\ [Next]_vars => TypeOK' /\ ClockInv'
  <1> SUFFICES ASSUME TypeOK, ClockInv, [Next]_vars
               PROVE  TypeOK' /\ ClockInv'
    OBVIOUS
  <1> USE LeakyAssumption
  <1>1. ASSUME NEW c \in Callers, Sample(c)
        PROVE  TypeOK' /\ ClockInv'
    BY <1>1 DEF Sample, TypeOK, ClockInv, bucketVars, windowVars
  <1>2. ASSUME NEW c \in Callers, NEW n \in Requests, AllowGranted(c, n)
        PROVE  TypeOK' /\ ClockInv'
    <2>1. pc[c] = "sampled" /\ Drain(at[c]) /\ now' = now
      BY <1>2 DEF AllowGranted
    <2>2. drops' \in (-Capability) .. Capability
      BY <1>2, <2>1, DrainStep, DrainedBand DEF AllowGranted, Fits
    <2>3. QED
      BY <1>2, <2>1, <2>2, DrainStep DEF AllowGranted, TypeOK, ClockInv, windowVars
  <1>3. ASSUME NEW c \in Callers, NEW n \in Requests, Refused(c, n)
        PROVE  TypeOK' /\ ClockInv'
    <2>1. pc[c] = "sampled" /\ Drain(at[c]) /\ now' = now
      BY <1>3 DEF Refused
    <2>2. drops' \in (-Capability) .. Capability
      BY <1>3, <2>1, DrainStep, DrainedBand DEF Refused
    <2>3. QED
      BY <1>3, <2>1, <2>2, DrainStep DEF Refused, TypeOK, ClockInv, windowVars
  <1>4. ASSUME NEW c \in Callers, NEW n \in Requests, Take(c, n)
        PROVE  TypeOK' /\ ClockInv'
    <2>1. pc[c] = "sampled" /\ Drain(at[c]) /\ now' = now
      BY <1>4 DEF Take
    <2>2. Drained(at[c]) \in (-Capability) .. Capability
      BY <2>1, DrainStep, DrainedBand
    <2>3. drops' \in (-Capability) .. Capability
      BY <1>4, <2>2 DEF Take, Fits
    <2>4. TakeDelay(Drained(at[c])) \in Nat
      BY <2>2, CostInInt DEF TakeDelay, Most
    <2>5. due' \in [Callers -> Nat]
      BY <1>4, <2>4 DEF Take, TypeOK
    <2>6. QED
      BY <1>4, <2>1, <2>3, <2>5, DrainStep DEF Take, TypeOK, ClockInv, windowVars
  <1>5. ASSUME NEW c \in Callers, Proceed(c)
        PROVE  TypeOK' /\ ClockInv'
    BY <1>5 DEF Proceed, TypeOK, ClockInv, bucketVars, windowVars
  <1>6. CASE Tick
    BY <1>6 DEF Tick, TypeOK, ClockInv, bucketVars, callerVars, windowVars
  <1>7. CASE UNCHANGED vars
    BY <1>7 DEF vars, TypeOK, ClockInv, bucketVars, callerVars, windowVars
  <1>8. QED
    BY <1>1, <1>2, <1>3, <1>4, <1>5, <1>6, <1>7 DEF Next

LEMMA ClockCorrect == Spec => [](TypeOK /\ ClockInv)
  BY InitTypes, NextTypes, PTL DEF Spec

\* The level stays between the capability and its opposite, and every other
\* variable has its type (leaky_bucket.go:39-93).
THEOREM TypeCorrect == Spec => []TypeOK
  BY ClockCorrect, PTL

-----------------------------------------------------------------------------
(* The ledger.                                                             *)

\* A call that lets n in, or none.
LEMMA CallKeepsLedger ==
  ASSUME TypeOK, ClockInv, Ledger, NEW c \in Callers, NEW n \in Nat,
         pc[c] = "sampled", Drain(at[c]), now' = now,
         drops' = Drained(at[c]) + n, granted' = granted + n
  PROVE  Ledger'
  <1> DEFINE k == Drips(at[c])
             d == Drained(at[c])
  <1>1. /\ k \in Nat /\ d \in Int
        /\ lastDrained' = lastDrained + Cost(k) /\ lastDrained' <= now
        /\ lost' = lost + (d - (drops - k))
    BY DrainStep, DripsBand, DrainedBand, LeakyAssumption
  <1>2. granted \in Nat /\ lost \in Nat /\ drops \in Int /\ lastDrained \in Nat
    BY DEF TypeOK
  <1> HIDE DEF k, d
  <1>3. granted' + lost' = (granted + lost) + ((d + n) - (drops - k))
    BY <1>1, <1>2
  <1>4. Cost(granted' + lost') = Cost(granted + lost) + (Cost(d + n) - (Cost(drops) - Cost(k)))
    BY <1>1, <1>2, <1>3, CostAdds
  <1>5. drops' = d + n
    BY DEF d
  <1>6. Cost(granted + lost) = Cost(drops) + lastDrained
    BY DEF Ledger
  <1>7. Cost(granted' + lost') = Cost(drops') + lastDrained'
    BY <1>1, <1>2, <1>4, <1>5, <1>6, CostInInt
  <1>8. QED
    BY <1>1, <1>7 DEF Ledger, Cost

LEMMA InitLedger == Init => Ledger
  BY CostOfNoneAndOne DEF Init, Ledger

LEMMA NextLedger == TypeOK /\ ClockInv /\ Ledger /\ [Next]_vars => Ledger'
  <1> SUFFICES ASSUME TypeOK, ClockInv, Ledger, [Next]_vars
               PROVE  Ledger'
    OBVIOUS
  <1>1. ASSUME NEW c \in Callers, NEW n \in Requests, AllowGranted(c, n) \/ Take(c, n)
        PROVE  Ledger'
    BY <1>1, CallKeepsLedger, LeakyAssumption DEF AllowGranted, Take
  <1>2. ASSUME NEW c \in Callers, NEW n \in Requests, Refused(c, n)
        PROVE  Ledger'
    <2>1. Drained(at[c]) \in Int /\ granted \in Nat
      BY <1>2, DrainStep, DrainedBand, LeakyAssumption DEF Refused, TypeOK
    <2>2. drops' = Drained(at[c]) + 0 /\ granted' = granted + 0
      BY <1>2, <2>1 DEF Refused
    <2>3. QED
      BY <1>2, <2>2, CallKeepsLedger DEF Refused
  <1>3. CASE UNCHANGED vars \/ Tick \/ \E c \in Callers : Sample(c) \/ Proceed(c)
    BY <1>3 DEF vars, Tick, Sample, Proceed, bucketVars, Ledger, Cost, TypeOK
  <1>4. QED
    BY <1>1, <1>2, <1>3 DEF Next

\* What is in the bucket and what has drained is what was let in and what the
\* floor held back, in every interleaving (leaky_bucket.go:74-93).
THEOREM LedgerCorrect == Spec => []Ledger
  <1>1. Spec => []TypeOK /\ []ClockInv
    BY ClockCorrect, PTL
  <1>2. QED
    BY <1>1, InitLedger, NextLedger, PTL DEF Spec

-----------------------------------------------------------------------------
(* The callers of Take that still sleep.  They go ahead when their sleep   *)
(* ends, whatever happens meanwhile: that the bucket shapes has to be      *)
(* known for every instant to come, with what will have gone ahead by it.  *)

\* A pair for each drop that a sleeping caller has let in.
Block(c, n) == {c} \X (1 .. n)

Owed == {p \in Callers \X Nat : pc[p[1]] = "paced" /\ p[2] \in 1 .. want[p[1]]}

OwedBy(t) == {p \in Owed : due[p[1]] <= t}

\* What goes ahead has been let in.
TakenInv == IsFiniteSet(Owed) /\ admitted + Cardinality(Owed) <= granted

\* k have gone ahead by t at the rate, one request apart.
Shaped(k, t) ==
  k > 0 => \E n \in Requests : n <= 2 * Capability /\ Cost(k) <= t + Cost(n)

PacedInv == \A t \in Nat : t >= now => Shaped(admitted + Cardinality(OwedBy(t)), t)

LEMMA BlockSize ==
  ASSUME NEW c, NEW n \in Nat
  PROVE  IsFiniteSet(Block(c, n)) /\ Cardinality(Block(c, n)) = n
  <1>1. IsFiniteSet({c}) /\ Cardinality({c}) = 1
    BY FS_Singleton
  <1>2. IsFiniteSet(1 .. n) /\ Cardinality(1 .. n) = n
    BY FS_Interval
  <1> DEFINE one == {c}
             numbers == 1 .. n
  <1>3. /\ IsFiniteSet(one) /\ Cardinality(one) = 1
        /\ IsFiniteSet(numbers) /\ Cardinality(numbers) = n
    BY <1>1, <1>2
  <1> HIDE DEF one, numbers
  <1>4. IsFiniteSet(one \X numbers) /\ Cardinality(one \X numbers) = Cardinality(one) * Cardinality(numbers)
    BY <1>3, FS_Product
  <1>5. Cardinality(one \X numbers) = n
    BY <1>3, <1>4
  <1>6. QED
    BY <1>4, <1>5 DEF Block, one, numbers

\* What is taken is one block more.
LEMMA BlockAdds ==
  ASSUME NEW S, IsFiniteSet(S), NEW c, NEW n \in Nat, S \cap Block(c, n) = {}
  PROVE  /\ IsFiniteSet(S \cup Block(c, n))
         /\ Cardinality(S) \in Nat
         /\ Cardinality(S \cup Block(c, n)) = Cardinality(S) + n
  <1>1. IsFiniteSet(Block(c, n)) /\ Cardinality(Block(c, n)) = n
    BY BlockSize
  <1>2. Cardinality(S \cap Block(c, n)) = 0
    BY FS_EmptySet
  <1>3. Cardinality(S) \in Nat
    BY FS_CardinalityType
  <1> DEFINE block == Block(c, n)
  <1>4. /\ IsFiniteSet(block) /\ Cardinality(block) = n /\ Cardinality(S \cap block) = 0
    BY <1>1, <1>2
  <1> HIDE DEF block
  <1>5. /\ IsFiniteSet(S \cup block)
        /\ Cardinality(S \cup block) = Cardinality(S) + Cardinality(block) - Cardinality(S \cap block)
    BY <1>4, FS_Union
  <1>6. Cardinality(S \cup block) = Cardinality(S) + n
    BY <1>3, <1>4, <1>5
  <1>7. QED
    BY <1>3, <1>5, <1>6 DEF block

LEMMA OwedBySize ==
  ASSUME TakenInv, NEW t
  PROVE  /\ IsFiniteSet(OwedBy(t))
         /\ Cardinality(OwedBy(t)) \in Nat /\ Cardinality(Owed) \in Nat
         /\ Cardinality(OwedBy(t)) <= Cardinality(Owed)
  <1>1. OwedBy(t) \in SUBSET Owed
    BY DEF OwedBy
  <1>2. QED
    BY <1>1, FS_Subset, FS_CardinalityType DEF TakenInv

\* What Take does to the sleepers.
LEMMA TakeOwes ==
  ASSUME TypeOK, NEW c \in Callers, NEW n \in Nat, pc[c] # "paced", NEW d \in Nat,
         pc' = [pc EXCEPT ![c] = "paced"],
         due' = [due EXCEPT ![c] = d], want' = [want EXCEPT ![c] = n]
  PROVE  /\ Owed' = Owed \cup Block(c, n) /\ Owed \cap Block(c, n) = {}
         /\ \A t \in Nat : OwedBy(t)' = IF d <= t THEN OwedBy(t) \cup Block(c, n) ELSE OwedBy(t)
  <1>1. /\ pc'[c] = "paced" /\ due'[c] = d /\ want'[c] = n
        /\ \A e \in Callers \ {c} : pc'[e] = pc[e] /\ due'[e] = due[e] /\ want'[e] = want[e]
    BY DEF TypeOK
  <1>2. Block(c, n) \subseteq Callers \X Nat
    BY DEF Block
  <1>3. \A p \in Block(c, n) : p[1] = c /\ p[2] \in 1 .. n
    BY DEF Block
  <1>4. \A p \in Callers \X Nat : p[1] = c /\ p[2] \in 1 .. n => p \in Block(c, n)
    BY DEF Block
  <1>5. Owed \cap Block(c, n) = {}
    BY <1>3 DEF Owed
  <1>6. \A p \in Callers \X Nat : p[1] \in Callers
    OBVIOUS
  <1>7. \A p \in Callers \X Nat : p \in Owed' <=> p \in Owed \cup Block(c, n)
    BY <1>1, <1>3, <1>4, <1>6 DEF Owed
  <1>8. Owed' = Owed \cup Block(c, n)
    <2>1. Owed' \subseteq Callers \X Nat /\ Owed \subseteq Callers \X Nat
      BY DEF Owed
    <2>2. QED
      BY <1>2, <1>7, <2>1
  <1>9. \A p \in Owed : due'[p[1]] = due[p[1]]
    BY <1>1, <1>6 DEF Owed
  <1>10. \A p \in Block(c, n) : due'[p[1]] = d
    BY <1>1, <1>3
  <1>11. ASSUME NEW t \in Nat
         PROVE  OwedBy(t)' = IF d <= t THEN OwedBy(t) \cup Block(c, n) ELSE OwedBy(t)
    BY <1>8, <1>9, <1>10 DEF OwedBy
  <1>12. QED
    BY <1>5, <1>8, <1>11

\* And Proceed.
LEMMA ProceedOwes ==
  ASSUME TypeOK, NEW c \in Callers, pc[c] = "paced",
         pc' = [pc EXCEPT ![c] = "idle"],
         due' = [due EXCEPT ![c] = 0], want' = [want EXCEPT ![c] = 0]
  PROVE  /\ Owed = Owed' \cup Block(c, want[c]) /\ Owed' \cap Block(c, want[c]) = {}
         /\ \A t \in Nat : t >= due[c] =>
              /\ OwedBy(t) = OwedBy(t)' \cup Block(c, want[c])
              /\ OwedBy(t)' \cap Block(c, want[c]) = {}
  <1> DEFINE n == want[c]
  <1>1. /\ pc'[c] = "idle" /\ n \in Nat
        /\ \A e \in Callers \ {c} : pc'[e] = pc[e] /\ due'[e] = due[e] /\ want'[e] = want[e]
    BY DEF TypeOK
  <1>2. Block(c, n) \subseteq Callers \X Nat
    BY <1>1 DEF Block
  <1>3. \A p \in Block(c, n) : p[1] = c /\ p[2] \in 1 .. n
    BY DEF Block
  <1>4. \A p \in Callers \X Nat : p[1] = c /\ p[2] \in 1 .. n => p \in Block(c, n)
    BY DEF Block
  <1>5. Owed' \cap Block(c, n) = {}
    BY <1>1, <1>3 DEF Owed
  <1>6. \A p \in Callers \X Nat : p[1] \in Callers
    OBVIOUS
  <1>7. \A p \in Callers \X Nat : p \in Owed <=> p \in Owed' \cup Block(c, n)
    BY <1>1, <1>3, <1>4, <1>6 DEF Owed
  <1>8. Owed = Owed' \cup Block(c, n)
    <2>1. Owed' \subseteq Callers \X Nat /\ Owed \subseteq Callers \X Nat
      BY DEF Owed
    <2>2. QED
      BY <1>2, <1>7, <2>1
  <1>9. \A p \in Owed' : due'[p[1]] = due[p[1]]
    BY <1>1, <1>6 DEF Owed
  <1>10. \A p \in Block(c, n) : due[p[1]] = due[c]
    BY <1>3
  <1>11. ASSUME NEW t \in Nat, t >= due[c]
         PROVE  OwedBy(t) = OwedBy(t)' \cup Block(c, n) /\ OwedBy(t)' \cap Block(c, n) = {}
    <2>1. due[c] <= t
      BY <1>11 DEF TypeOK
    <2>2. OwedBy(t) = {p \in Owed : due[p[1]] <= t} /\ OwedBy(t)' = {p \in Owed' : due'[p[1]] <= t}
      BY DEF OwedBy
    <2>3. QED
      BY <1>5, <1>8, <1>9, <1>10, <2>1, <2>2
  <1>12. QED
    BY <1>5, <1>8, <1>11

\* What is let in together with the n of this call has drained but for n when
\* the caller's sleep ends.
LEMMA TakeWaitsItsTurn ==
  ASSUME TypeOK, ClockInv, TypeOK', Ledger', NEW c \in Callers, NEW n \in Requests, Take(c, n)
  PROVE  /\ n \in Nat /\ n <= 2 * Capability
         /\ TakeDelay(Drained(at[c])) \in Nat
         /\ Cost(granted') <= now + TakeDelay(Drained(at[c])) + Cost(n)
  <1> DEFINE level == Drained(at[c])
             wait == TakeDelay(level)
  <1>1. /\ pc[c] = "sampled" /\ Drain(at[c]) /\ now' = now
        /\ drops' = level + n /\ level + n <= Capability
    BY DEF Take, Fits
  <1>2. level \in (-Capability) .. Capability
    BY <1>1, DrainStep, DrainedBand
  <1>3. n \in Nat /\ n <= 2 * Capability /\ level \in Int
    BY <1>1, <1>2, LeakyAssumption
  <1>4. Cost(level) \in Int /\ Cost(n) \in Nat /\ Cost(level + n) = Cost(level) + Cost(n)
    <2> HIDE DEF level
    <2>1. Cost(level) \in Int /\ Cost(n) \in Int /\ (n >= 0 => Cost(n) \in Nat)
      BY <1>3, CostInInt
    <2>2. Cost(level + n) = Cost(level) + Cost(n)
      BY <1>3, CostAdds
    <2>3. QED
      BY <1>3, <2>1, <2>2
  <1>5. wait \in Nat /\ wait >= Cost(level)
    BY <1>4 DEF TakeDelay, Most
  <1> HIDE DEF level, wait
  <1>6. /\ granted' \in Nat /\ lost' \in Nat /\ lastDrained' \in Nat /\ now \in Nat
    BY DEF TypeOK
  <1>7. Cost(granted' + lost') = Cost(drops') + lastDrained' /\ lastDrained' <= now
    BY <1>1 DEF Ledger, Cost
  <1>8. Cost(granted') \in Nat /\ Cost(lost') \in Nat /\ Cost(granted' + lost') = Cost(granted') + Cost(lost')
    BY <1>6, CostInInt, CostAdds
  <1>9. Cost(drops') = Cost(level) + Cost(n)
    BY <1>1, <1>4
  <1>10. Cost(granted') <= now + wait + Cost(n)
    BY <1>4, <1>5, <1>6, <1>7, <1>8, <1>9
  <1>11. QED
    BY <1>3, <1>5, <1>10 DEF level, wait

LEMMA NextPaced ==
  /\ TypeOK /\ ClockInv /\ TakenInv /\ PacedInv /\ [Next]_vars
  /\ TypeOK' /\ Ledger'
  => TakenInv' /\ PacedInv'
  <1> SUFFICES ASSUME TypeOK, ClockInv, TakenInv, PacedInv, [Next]_vars, TypeOK', Ledger'
               PROVE  TakenInv' /\ PacedInv'
    OBVIOUS
  <1>1. /\ now \in Nat /\ now' \in Nat /\ granted \in Nat /\ admitted \in Nat
        /\ granted' \in Nat /\ admitted' \in Nat
    BY DEF TypeOK
  <1>2. /\ IsFiniteSet(Owed) /\ Cardinality(Owed) \in Nat
        /\ \A t \in Nat : /\ IsFiniteSet(OwedBy(t)) /\ Cardinality(OwedBy(t)) \in Nat
                          /\ Cardinality(OwedBy(t)) <= Cardinality(Owed)
    BY OwedBySize DEF TakenInv
  \* The sleepers stay as they are and no more goes ahead.
  <1>3. ASSUME Owed' = Owed, \A t \in Nat : OwedBy(t)' = OwedBy(t),
               admitted' = admitted, granted <= granted', now <= now'
        PROVE  TakenInv' /\ PacedInv'
    <2>1. TakenInv'
      BY <1>1, <1>2, <1>3 DEF TakenInv
    <2>2. ASSUME NEW t \in Nat, t >= now'
          PROVE  Shaped(admitted + Cardinality(OwedBy(t)), t)
      BY <1>1, <1>3, <2>2 DEF PacedInv
    <2>3. PacedInv'
      BY <1>3, <2>2 DEF PacedInv, Shaped, Cost
    <2>4. QED
      BY <2>1, <2>3
  \* Only callers that do not sleep change their place.
  <1>4. ASSUME NEW c \in Callers, pc[c] # "paced", pc'[c] # "paced",
               \A e \in Callers \ {c} : pc'[e] = pc[e], UNCHANGED <<due, want>>
        PROVE  Owed' = Owed /\ \A t \in Nat : OwedBy(t)' = OwedBy(t)
    <2>1. \A p \in Callers \X Nat : p[1] \in Callers
      OBVIOUS
    <2>2. \A p \in Callers \X Nat : pc'[p[1]] = "paced" <=> pc[p[1]] = "paced"
      BY <1>4, <2>1
    <2>3. Owed' = Owed
      BY <1>4, <2>2 DEF Owed
    <2>4. QED
      BY <1>4, <2>3 DEF OwedBy
  <1>5. ASSUME NEW c \in Callers, Sample(c) \/ \E n \in Requests : AllowGranted(c, n) \/ Refused(c, n)
        PROVE  TakenInv' /\ PacedInv'
    <2>1. /\ UNCHANGED <<due, want, admitted>> /\ granted <= granted' /\ now <= now'
          /\ pc[c] # "paced" /\ pc'[c] # "paced" /\ \A e \in Callers \ {c} : pc'[e] = pc[e]
      BY <1>1, <1>5, LeakyAssumption DEF Sample, AllowGranted, Refused, TypeOK
    <2>2. Owed' = Owed /\ \A t \in Nat : OwedBy(t)' = OwedBy(t)
      BY <1>4, <2>1
    <2>3. QED
      BY <1>3, <2>1, <2>2
  <1>6. ASSUME NEW c \in Callers, NEW n \in Requests, Take(c, n)
        PROVE  TakenInv' /\ PacedInv'
    <2> DEFINE wait == TakeDelay(Drained(at[c]))
               d == now + wait
    <2>1. /\ now' = now /\ admitted' = admitted /\ granted' = granted + n /\ pc[c] # "paced"
          /\ pc' = [pc EXCEPT ![c] = "paced"] /\ due' = [due EXCEPT ![c] = d]
          /\ want' = [want EXCEPT ![c] = n]
      BY <1>6 DEF Take
    <2>2. n \in Nat /\ n <= 2 * Capability /\ wait \in Nat /\ Cost(granted') <= now + wait + Cost(n)
      BY <1>6, TakeWaitsItsTurn
    <2> HIDE DEF wait
    <2>3. d \in Nat
      BY <1>1, <2>2
    <2> HIDE DEF d
    <2>4. /\ Owed' = Owed \cup Block(c, n) /\ Owed \cap Block(c, n) = {}
          /\ \A t \in Nat : OwedBy(t)' = IF d <= t THEN OwedBy(t) \cup Block(c, n) ELSE OwedBy(t)
      BY <2>1, <2>2, <2>3, TakeOwes
    <2>5. IsFiniteSet(Owed') /\ Cardinality(Owed') = Cardinality(Owed) + n
      BY <1>2, <2>2, <2>4, BlockAdds
    <2>6. TakenInv'
      BY <1>1, <1>2, <2>1, <2>2, <2>5 DEF TakenInv
    <2>7. ASSUME NEW t \in Nat, t >= now
          PROVE  Shaped(admitted + Cardinality(OwedBy(t)'), t)
      <3>1. CASE d <= t
        <4> DEFINE total == admitted + Cardinality(OwedBy(t)')
        <4>1. OwedBy(t)' \in SUBSET Owed'
          BY DEF OwedBy
        <4>2. Cardinality(OwedBy(t)') \in Nat /\ Cardinality(OwedBy(t)') <= Cardinality(Owed')
          BY <2>5, <4>1, FS_Subset, FS_CardinalityType
        <4>3. total \in Nat /\ total <= granted'
          BY <1>1, <1>2, <2>1, <2>2, <2>5, <4>2 DEF TakenInv
        <4> HIDE DEF total
        <4>4. Cost(total) \in Int /\ Cost(granted') \in Int /\ Cost(n) \in Int /\ Cost(total) <= Cost(granted')
          BY <1>1, <2>2, <4>3, CostInInt, CostGrows
        <4>5. now + wait <= t
          BY <3>1 DEF d
        <4>6. Cost(total) <= t + Cost(n)
          BY <1>1, <2>2, <4>4, <4>5
        <4>7. Shaped(total, t)
          BY <2>2, <4>6 DEF Shaped
        <4>8. QED
          BY <4>7 DEF total
      <3>2. CASE ~(d <= t)
        BY <2>4, <2>7, <3>2 DEF PacedInv
      <3>3. QED
        BY <3>1, <3>2
    <2>8. PacedInv'
      BY <2>1, <2>7 DEF PacedInv, Shaped, Cost
    <2>9. QED
      BY <2>6, <2>8
  <1>7. ASSUME NEW c \in Callers, Proceed(c)
        PROVE  TakenInv' /\ PacedInv'
    <2> DEFINE n == want[c]
    <2>1. /\ UNCHANGED <<now, granted>>
          /\ admitted' = admitted + n /\ n \in Nat /\ pc[c] = "paced"
          /\ pc' = [pc EXCEPT ![c] = "idle"] /\ due' = [due EXCEPT ![c] = 0]
          /\ want' = [want EXCEPT ![c] = 0]
          /\ due[c] \in Nat /\ due[c] <= now
      BY <1>7 DEF Proceed, TypeOK
    <2>2. /\ Owed = Owed' \cup Block(c, n) /\ Owed' \cap Block(c, n) = {}
          /\ \A t \in Nat : t >= due[c] =>
               /\ OwedBy(t) = OwedBy(t)' \cup Block(c, n)
               /\ OwedBy(t)' \cap Block(c, n) = {}
      BY <2>1, ProceedOwes
    <2> HIDE DEF n
    <2>3. IsFiniteSet(Owed') /\ Cardinality(Owed') \in Nat /\ Cardinality(Owed) = Cardinality(Owed') + n
      <3>1. Owed' \in SUBSET Owed
        BY <2>2
      <3>2. IsFiniteSet(Owed')
        BY <1>2, <3>1, FS_Subset
      <3>3. QED
        BY <2>1, <2>2, <3>2, BlockAdds
    <2>4. TakenInv'
      BY <1>1, <2>1, <2>3 DEF TakenInv
    <2>5. ASSUME NEW t \in Nat, t >= now
          PROVE  admitted' + Cardinality(OwedBy(t)') = admitted + Cardinality(OwedBy(t))
      <3>1. t >= due[c]
        BY <1>1, <2>1, <2>5
      <3>2. OwedBy(t) = OwedBy(t)' \cup Block(c, n) /\ OwedBy(t)' \cap Block(c, n) = {}
        BY <2>2, <3>1
      <3>3. IsFiniteSet(OwedBy(t)')
        <4>1. OwedBy(t)' \in SUBSET OwedBy(t)
          BY <3>2
        <4>2. QED
          BY <1>2, <4>1, FS_Subset
      <3>4. Cardinality(OwedBy(t)') \in Nat /\ Cardinality(OwedBy(t)) = Cardinality(OwedBy(t)') + n
        BY <2>1, <3>2, <3>3, BlockAdds
      <3>5. QED
        BY <1>1, <2>1, <3>4
    <2>6. PacedInv'
      BY <2>1, <2>5 DEF PacedInv, Shaped, Cost
    <2>7. QED
      BY <2>4, <2>6
  <1>8. CASE Tick \/ UNCHANGED vars
    <2>1. UNCHANGED <<pc, due, want, granted, admitted>> /\ granted <= granted' /\ now <= now'
      BY <1>1, <1>8 DEF Tick, vars, callerVars
    <2>2. Owed' = Owed /\ \A t \in Nat : OwedBy(t)' = OwedBy(t)
      BY <2>1 DEF Owed, OwedBy
    <2>3. QED
      BY <1>3, <2>1, <2>2
  <1>9. QED
    BY <1>5, <1>6, <1>7, <1>8 DEF Next

LEMMA InitPaced == Init => TakenInv /\ PacedInv
  <1> SUFFICES ASSUME Init
               PROVE  TakenInv /\ PacedInv
    OBVIOUS
  <1>1. Owed = {} /\ \A t \in Nat : OwedBy(t) = {}
    <2>1. \A c \in Callers : pc[c] = "idle"
      BY DEF Init
    <2>2. \A p \in Callers \X Nat : p[1] \in Callers
      OBVIOUS
    <2>3. Owed = {}
      BY <2>1, <2>2 DEF Owed
    <2>4. QED
      BY <2>3 DEF OwedBy
  <1>2. IsFiniteSet({}) /\ Cardinality({}) = 0
    BY FS_EmptySet
  <1>3. granted = 0 /\ admitted = 0
    BY DEF Init
  <1>4. TakenInv
    BY <1>1, <1>2, <1>3 DEF TakenInv
  <1>5. ASSUME NEW t \in Nat
        PROVE  Shaped(admitted + Cardinality(OwedBy(t)), t)
    <2>1. admitted + Cardinality(OwedBy(t)) = 0
      <3>1. Cardinality(OwedBy(t)) = 0
        BY <1>1, <1>2
      <3>2. QED
        BY <1>3, <3>1
    <2>2. QED
      BY <2>1 DEF Shaped
  <1>6. QED
    BY <1>4, <1>5 DEF PacedInv

\* Callers that sleep as long as Take tells them go ahead at the rate with at
\* most one request too early, for any number of callers and whatever Allow
\* lets in while they sleep (LeakyBucket.Take, leaky_bucket.go:53-72).
THEOREM TakesShaped == Spec => []ShapedRate
  <1>1. ASSUME TypeOK, TakenInv, PacedInv
        PROVE  ShapedRate
    <2> DEFINE k == Cardinality(OwedBy(now))
    <2>1. now \in Nat /\ admitted \in Nat
      BY <1>1 DEF TypeOK
    <2>2. k \in Nat
      BY <1>1, OwedBySize
    <2>3. Shaped(admitted + k, now)
      BY <1>1, <2>1 DEF PacedInv
    <2> HIDE DEF k
    <2>4. SUFFICES ASSUME admitted > 0
                   PROVE  \E n \in Requests : n <= 2 * Capability /\ Cost(admitted) <= now + Cost(n)
      BY DEF ShapedRate
    <2>5. admitted + k > 0 /\ admitted + k \in Nat
      BY <2>1, <2>2, <2>4
    <2>6. PICK n \in Requests : n <= 2 * Capability /\ Cost(admitted + k) <= now + Cost(n)
      BY <2>3, <2>5 DEF Shaped
    <2>7. Cost(admitted) <= Cost(admitted + k)
      BY <2>1, <2>2, <2>5, CostGrows
    <2>8. Cost(admitted) \in Int /\ Cost(admitted + k) \in Int /\ Cost(n) \in Int
      BY <2>1, <2>5, CostInInt, LeakyAssumption
    <2>9. Cost(admitted) <= now + Cost(n)
      BY <2>1, <2>6, <2>7, <2>8
    <2>10. QED
      BY <2>6, <2>9
  <1>2. Spec => []TypeOK /\ []ClockInv /\ []Ledger
    BY ClockCorrect, LedgerCorrect, PTL
  <1>3. Spec => []TakenInv /\ []PacedInv
    BY <1>2, InitPaced, NextPaced, PTL DEF Spec
  <1>4. QED
    BY <1>1, <1>2, <1>3, PTL

-----------------------------------------------------------------------------
(* Refusals.                                                               *)

\* While the level is above zero no whole period up to the reading is left
\* undrained.
LEMMA DrainedUpTo ==
  ASSUME TypeOK, ClockInv, NEW c \in Callers, pc[c] = "sampled", Drain(at[c]), now' = now,
         drops > 0
  PROVE  at[c] <= lastDrained' + DrainPeriod
  <1>1. /\ at[c] \in Nat /\ at[c] <= now
        /\ lastDrained' = lastDrained + Cost(Drips(at[c])) /\ lastDrained' \in Nat
    BY DrainStep
  <1>2. CASE DrainIsDue(at[c])
    BY <1>1, <1>2, DripsBand, LeakyAssumption
  <1>3. CASE ~ DrainIsDue(at[c])
    <2>1. lastDrained' = lastDrained
      BY <1>1, <1>3, DripsBand DEF TypeOK
    <2>2. at[c] <= nextDrain
      BY <1>1, <1>3 DEF DrainIsDue, TypeOK
    <2>3. QED
      BY <2>1, <2>2 DEF ClockInv
  <1>4. QED
    BY <1>2, <1>3

\* A request that the bucket can hold at all is refused only when the time up
\* to the caller's clock reading was drained and not enough for it
\* (leaky_bucket.go:39-93).
THEOREM RefusalsJustified == Spec => RefusalJustified
  <1> DEFINE Justified == \A c \in Callers, n \in Requests :
               n <= Capability /\ Refused(c, n) =>
                 Cost(granted + n + lost') >= Cost(Capability) + at[c]
  <1>1. ASSUME TypeOK, ClockInv, Ledger, [Next]_vars, NEW c \in Callers, NEW n \in Requests,
               n <= Capability, Refused(c, n)
        PROVE  Cost(granted + n + lost') >= Cost(Capability) + at[c]
    <2> DEFINE d == Drained(at[c])
    <2>1. /\ pc[c] = "sampled" /\ Drain(at[c]) /\ now' = now
          /\ drops' = d /\ granted' = granted /\ ~ Fits(d, n)
      BY <1>1 DEF Refused
    <2>2. /\ n \in Nat /\ Capability \in Nat /\ DrainPeriod \in Nat
          /\ granted \in Nat /\ drops \in Int
      BY <1>1, LeakyAssumption DEF TypeOK
    <2>3. /\ at[c] \in Nat /\ lastDrained' \in Nat /\ lost' \in Nat
          /\ d \in Int /\ d <= drops
      BY <1>1, <2>1, DrainStep, DrainedBand, LeakyAssumption
    <2>4. d + n >= Capability + 1
      BY <2>1, <2>2, <2>3 DEF Fits
    <2>5. at[c] <= lastDrained' + DrainPeriod
      BY <1>1, <2>1, <2>2, <2>3, <2>4, DrainedUpTo
    <2>6. Ledger'
      BY <1>1, NextLedger
    <2> HIDE DEF d
    <2>7. Cost(granted + lost') = Cost(d) + lastDrained'
      BY <2>1, <2>6 DEF Ledger, Cost
    <2>8. Cost(granted + n + lost') = Cost(granted + lost') + Cost(n)
      <3>1. granted + n + lost' = (granted + lost') + n
        BY <2>2, <2>3
      <3>2. QED
        BY <2>2, <2>3, <3>1, CostAdds
    <2>9. Cost(d + n) = Cost(d) + Cost(n) /\ Cost(d + n) >= Cost(Capability) + DrainPeriod
      <3>1. Capability + 1 \in Int /\ d + n \in Int /\ Cost(d + n) \in Int
        BY <2>2, <2>3, CostInInt
      <3>2. Cost(Capability + 1) <= Cost(d + n)
        BY <2>4, <3>1, CostGrows
      <3>3. Cost(Capability + 1) = Cost(Capability) + Cost(1)
        BY <2>2, CostAdds
      <3>4. QED
        BY <2>2, <2>3, <3>1, <3>2, <3>3, CostAdds, CostOfNoneAndOne
    <2>10. Cost(d) \in Int /\ Cost(n) \in Int /\ Cost(Capability) \in Int
      BY <2>2, <2>3, CostInInt
    <2>11. QED
      BY <2>2, <2>3, <2>5, <2>7, <2>8, <2>9, <2>10
  <1>2. TypeOK /\ ClockInv /\ Ledger /\ [Next]_vars => [Justified]_vars
    BY <1>1
  <1>3. Spec => []TypeOK /\ []ClockInv /\ []Ledger
    BY ClockCorrect, LedgerCorrect, PTL
  <1>4. QED
    BY <1>2, <1>3, PTL DEF RefusalJustified, Spec

-----------------------------------------------------------------------------
(* The contract.                                                           *)

\* Outstanding, of a level, the cost of its room and the undrained time.
CreditOf(level, room, undrained) ==
  IF level > 0 THEN Least(PauseWorth, room + undrained)
               ELSE room + Least(PauseWorth, undrained)

LEMMA CreditIsOutstanding ==
  /\ Outstanding = CreditOf(drops, Cost(Capability - drops), now - lastDrained)
  /\ Outstanding' = CreditOf(drops', Cost(Capability - drops'), now' - lastDrained')
  BY DEF Outstanding, CreditOf, Cost, Least, PauseWorth

LEMMA PauseWorthInNat ==
  /\ Cost(2 * Capability) \in Nat /\ PauseWorth \in Nat
  /\ PauseWorth = Cost(2 * Capability) + DrainPeriod + MaxLag
  BY LeakyAssumption, CostInInt DEF PauseWorth

LEMMA RoomBand ==
  ASSUME NEW level \in (-Capability) .. Capability
  PROVE  Cost(Capability - level) \in 0 .. Cost(2 * Capability)
  <1>1. Capability - level \in Nat /\ 2 * Capability \in Nat /\ Capability - level <= 2 * Capability
    BY LeakyAssumption
  <1>2. QED
    BY <1>1, CostInInt, CostGrows

LEMMA CreditBand ==
  ASSUME NEW level \in Int, NEW room \in 0 .. Cost(2 * Capability), NEW undrained \in Nat
  PROVE  CreditOf(level, room, undrained) \in 0 .. (Cost(2 * Capability) + PauseWorth)
  BY PauseWorthInNat DEF CreditOf, Least

LEMMA CreditTicks ==
  ASSUME NEW level \in Int, NEW room \in Nat, NEW undrained \in Nat
  PROVE  CreditOf(level, room, undrained + 1) <= CreditOf(level, room, undrained) + 1
  BY PauseWorthInNat DEF CreditOf, Least

\* The level rises and nothing is drained: the time of a pause, worth a limited
\* amount while the level is not above zero, is worth no more once it is.
LEMMA CreditSpent ==
  ASSUME NEW level \in Int, NEW after \in Int, NEW room \in Nat, NEW price \in Nat,
         NEW undrained \in Nat, level <= after, price <= room,
         level > 0 => room + undrained <= PauseWorth
  PROVE  CreditOf(after, room - price, undrained) <= CreditOf(level, room, undrained) - price
  BY PauseWorthInNat DEF CreditOf, Least

\* The level is drained by what the time moves, or by less at the floor, and
\* then rises.
LEMMA CreditDrained ==
  ASSUME NEW level \in Int, NEW after \in Int, NEW room \in Nat, NEW undrained \in Nat,
         NEW drainedRoom \in Nat, NEW left \in Nat, NEW price \in Nat, level > 0,
         drainedRoom + left <= room + undrained, drainedRoom + left <= PauseWorth,
         price <= drainedRoom
  PROVE  CreditOf(after, drainedRoom - price, left) <= CreditOf(level, room, undrained) - price
  BY PauseWorthInNat DEF CreditOf, Least

\* A call that lets n in, or none, takes the cost of n from the credit.
LEMMA CallCharges ==
  ASSUME TypeOK, ClockInv, NEW c \in Callers, NEW n \in Nat,
         pc[c] = "sampled", Drain(at[c]), now' = now,
         Drained(at[c]) + n <= Capability, drops' = Drained(at[c]) + n
  PROVE  Outstanding' <= Outstanding - Cost(n)
  <1> DEFINE k == Drips(at[c])
             d == Drained(at[c])
             room == Cost(Capability - drops)
             drainedRoom == Cost(Capability - d)
             undrained == now - lastDrained
             left == now - lastDrained'
  <1>1. /\ k \in Nat /\ Cost(k) \in Nat
        /\ ~ DrainIsDue(at[c]) => k = 0 /\ Cost(k) = 0
        /\ d \in (-Capability) .. Capability /\ drops - k <= d
        /\ ~ DrainIsDue(at[c]) => d = drops
        /\ lastDrained' = lastDrained + Cost(k) /\ lastDrained' \in Nat /\ lastDrained' <= now
        /\ at[c] \in Nat
    BY DrainStep, DripsBand, DrainedBand
  <1>2. /\ drops \in (-Capability) .. Capability /\ drops \in Int /\ d \in Int
        /\ lastDrained \in Nat /\ now \in Nat /\ lastDrained <= now
        /\ Capability \in Nat /\ MaxLag \in Nat /\ DrainPeriod \in Nat
        /\ now <= at[c] + MaxLag
    BY <1>1, LeakyAssumption DEF TypeOK, ClockInv
  <1>3. drops > 0 => left <= DrainPeriod + MaxLag
    BY <1>1, <1>2, DrainedUpTo
  <1>4. /\ room \in 0 .. Cost(2 * Capability) /\ drainedRoom \in 0 .. Cost(2 * Capability)
        /\ Cost(2 * Capability) \in Nat /\ room \in Nat /\ drainedRoom \in Nat
    BY <1>1, <1>2, RoomBand, PauseWorthInNat
  <1>5. undrained \in Nat /\ left \in Nat /\ left = undrained - Cost(k)
    BY <1>1, <1>2
  <1>6. Cost(n) \in Nat /\ Cost(n) <= drainedRoom
    <2>1. n <= Capability - d /\ Capability - d \in Int
      BY <1>1, <1>2
    <2>2. QED
      BY <2>1, CostInInt, CostGrows
  <1>7. Cost(Capability - drops') = drainedRoom - Cost(n) /\ drops' \in Int
    <2>1. Capability - drops' = (Capability - d) - n
      BY <1>1, <1>2
    <2>2. Capability - d \in Int /\ drops' \in Int
      BY <1>2
    <2>3. QED
      BY <2>1, <2>2, CostAdds
  <1>8. drainedRoom <= room + Cost(k)
    <2>1. Capability - d <= (Capability - drops) + k
      BY <1>1, <1>2
    <2>2. Cost(Capability - d) <= Cost((Capability - drops) + k)
      BY <1>1, <1>2, <2>1, CostGrows
    <2>3. QED
      BY <1>1, <1>2, <2>2, CostAdds
  <1>9. /\ Outstanding = CreditOf(drops, room, undrained)
        /\ Outstanding' = CreditOf(drops', drainedRoom - Cost(n), left)
    BY <1>7, CreditIsOutstanding
  <1>10. CASE DrainIsDue(at[c])
    <2>1. drops > 0
      BY <1>10 DEF DrainIsDue
    <2> HIDE DEF k, d, room, drainedRoom, undrained, left
    <2>2. drainedRoom + left <= room + undrained /\ drainedRoom + left <= PauseWorth
      BY <1>1, <1>2, <1>3, <1>4, <1>5, <1>8, <2>1, PauseWorthInNat
    <2>3. QED
      BY <1>2, <1>4, <1>5, <1>6, <1>7, <1>9, <2>1, <2>2, CreditDrained
  <1>11. CASE ~ DrainIsDue(at[c])
    <2>1. d = drops /\ left = undrained /\ drainedRoom = room /\ drops <= drops'
      BY <1>1, <1>2, <1>5, <1>11
    <2> HIDE DEF k, d, room, drainedRoom, undrained, left
    <2>2. drops > 0 => room + undrained <= PauseWorth
      BY <1>2, <1>3, <1>4, <1>5, <2>1, PauseWorthInNat
    <2>3. QED
      BY <1>2, <1>4, <1>5, <1>6, <1>7, <1>9, <2>1, <2>2, CreditSpent
  <1>12. QED
    BY <1>10, <1>11

LEMMA CreditOfState ==
  ASSUME NEW level \in (-Capability) .. Capability, NEW time \in Nat, NEW last \in Nat,
         last <= time
  PROVE  CreditOf(level, Cost(Capability - level), time - last)
           \in 0 .. (Cost(2 * Capability) + PauseWorth)
  <1>1. level \in Int /\ time - last \in Nat
    BY LeakyAssumption
  <1>2. QED
    BY <1>1, RoomBand, CreditBand

LEMMA OutstandingBand ==
  ASSUME TypeOK, ClockInv
  PROVE  Outstanding \in 0 .. (Cost(2 * Capability) + PauseWorth)
  BY CreditOfState, CreditIsOutstanding DEF TypeOK, ClockInv

LEMMA OutstandingBandNext ==
  ASSUME TypeOK', ClockInv'
  PROVE  Outstanding' \in 0 .. (Cost(2 * Capability) + PauseWorth)
  BY CreditOfState, CreditIsOutstanding DEF TypeOK, ClockInv

LEMMA InitContract == Init => Contract!Init
  BY InitTypes, OutstandingBand DEF Init, Contract!Init, Contract!Credits

LEMMA NextContract ==
  TypeOK /\ ClockInv /\ TypeOK' /\ ClockInv' /\ [Next]_vars => [Contract!Next]_Contract!vars
  <1> SUFFICES ASSUME TypeOK, ClockInv, TypeOK', ClockInv', [Next]_vars
               PROVE  [Contract!Next]_Contract!vars
    OBVIOUS
  <1> DEFINE Top == Cost(2 * Capability) + PauseWorth
  <1>1. /\ Outstanding \in 0 .. Top /\ Outstanding' \in 0 .. Top /\ Top \in Nat
        /\ Outstanding \in Int /\ Outstanding' \in Int
    BY OutstandingBand, OutstandingBandNext, PauseWorthInNat
  <1>2. Contract!Credits = 0 .. Top
    BY DEF Contract!Credits
  <1> HIDE DEF Top
  <1>3. ASSUME NEW c \in Callers, NEW n \in Requests, AllowGranted(c, n) \/ Take(c, n)
        PROVE  Contract!Grant(n)
    <2>1. /\ pc[c] = "sampled" /\ Drain(at[c]) /\ now' = now
          /\ Drained(at[c]) + n <= Capability /\ drops' = Drained(at[c]) + n
          /\ granted' = granted + n /\ UNCHANGED windowVars
      BY <1>3 DEF AllowGranted, Take, Fits
    <2>2. n \in Nat /\ Cost(n) \in Int
      BY LeakyAssumption, CostInInt
    <2>3. Outstanding' <= Outstanding - Cost(n)
      BY <2>1, <2>2, CallCharges
    <2>4. Cost(n) <= Outstanding
      BY <1>1, <2>2, <2>3
    <2>5. Contract!Charge(n) = Cost(n)
      BY DEF Contract!Charge, Cost
    <2>6. QED
      BY <1>1, <1>2, <2>1, <2>3, <2>4, <2>5 DEF Contract!Grant, windowVars
  <1>4. ASSUME NEW c \in Callers, NEW n \in Requests, Refused(c, n)
        PROVE  Contract!Forgo
    <2>1. /\ pc[c] = "sampled" /\ Drain(at[c]) /\ now' = now
          /\ drops' = Drained(at[c]) /\ granted' = granted /\ UNCHANGED windowVars
      BY <1>4 DEF Refused
    <2>2. Drained(at[c]) \in (-Capability) .. Capability
      BY <2>1, DrainStep, DrainedBand
    <2>3. Drained(at[c]) + 0 = Drained(at[c]) /\ Drained(at[c]) <= Capability
      BY <2>2, LeakyAssumption
    <2>4. Outstanding' <= Outstanding - Cost(0)
      BY <2>1, <2>3, CallCharges
    <2>5. Outstanding' <= Outstanding
      BY <1>1, <2>4, CostOfNoneAndOne
    <2>6. QED
      BY <1>1, <1>2, <2>1, <2>5 DEF Contract!Forgo, windowVars
  <1>5. CASE Tick
    <2>1. /\ now' = now + 1 /\ drops' = drops /\ lastDrained' = lastDrained /\ granted' = granted
          /\ UNCHANGED windowVars \/ (windowStart' = now' /\ windowBase' = granted)
      BY <1>5 DEF Tick, bucketVars
    <2>2. /\ drops \in (-Capability) .. Capability /\ drops \in Int
          /\ now - lastDrained \in Nat /\ now' - lastDrained' = (now - lastDrained) + 1
      BY <2>1, LeakyAssumption DEF TypeOK, ClockInv
    <2>3. Cost(Capability - drops) \in Nat
      BY <2>2, RoomBand, PauseWorthInNat
    <2>4. Outstanding' <= Outstanding + 1
      BY <2>1, <2>2, <2>3, CreditIsOutstanding, CreditTicks
    <2>5. Contract!Tick
      BY <1>1, <1>2, <2>1, <2>4 DEF Contract!Tick, windowVars
    <2>6. QED
      BY <2>5 DEF Contract!Next
  <1>6. CASE UNCHANGED vars \/ \E c \in Callers : Sample(c) \/ Proceed(c)
    <2>1. UNCHANGED <<now, drops, lastDrained, granted, windowStart, windowBase>>
      BY <1>6 DEF vars, bucketVars, windowVars, Sample, Proceed
    <2>2. Outstanding' = Outstanding
      BY <2>1, CreditIsOutstanding
    <2>3. QED
      BY <2>1, <2>2 DEF Contract!vars
  <1>7. QED
    BY <1>3, <1>4, <1>5, <1>6 DEF Next, Contract!Next

\* The bucket, with drains in whole drops, a level that is drained below zero
\* and pauses that are drained after the calls that end them, keeps the
\* contract of a limiter (leaky_bucket.go:39-93).
THEOREM KeepsContract == Spec => ImplementsContract
  <1>1. Spec => []TypeOK /\ []ClockInv
    BY ClockCorrect, PTL
  <1>2. QED
    BY <1>1, InitContract, NextContract, PTL DEF Spec, ImplementsContract, Contract!Spec

\* In every window of time, whatever its length and the pauses before it, the
\* bucket lets in at most four times the capability, one drop, what the lag is
\* worth and what the window's time drains.
THEOREM WindowsBounded == Spec => []Contract!WindowBound
  <1>1. Contract!ContractConstants
    BY LeakyAssumption, PauseWorthInNat DEF Contract!ContractConstants
  <1>2. Contract!Spec => []Contract!WindowBound
    BY <1>1, Contract!WindowBounded
  <1>3. QED
    BY <1>2, KeepsContract, PTL DEF ImplementsContract

=============================================================================
