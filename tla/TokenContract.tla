--------------------------- MODULE TokenContract ---------------------------
(***************************************************************************)
(* What a rate limiter promises to the resource it protects, with no word  *)
(* of how tokens are counted: credit accumulates at one unit per tick up   *)
(* to a ceiling, a grant of n tokens costs n * Price units, and credit may *)
(* be given up at any time but never invented.  From this alone the tokens *)
(* granted in every window of time are bounded (WindowBound).              *)
(*                                                                         *)
(* One observed window stands for all of them: it may be moved to start at *)
(* any tick, and what is granted since then is granted - windowBase.       *)
(***************************************************************************)
EXTENDS Integers, TLAPS

CONSTANTS
  Ceiling,      \* the most credit that can ever be outstanding
  Price,        \* the credit one token costs (ticks per token)
  Floor,        \* how far below zero advances may bring the credit
  Sizes         \* the number of tokens a caller may ask for

ContractConstants ==
  /\ Ceiling \in Nat
  /\ Price \in Nat \ {0}
  /\ Floor \in Nat
  /\ Sizes \subseteq Nat

VARIABLES
  now,          \* real time, in ticks
  credit,       \* what may still be granted at this instant
  granted,      \* tokens granted so far
  windowStart,  \* the instant the observed window starts at
  windowBase    \* the tokens granted before it

vars == <<now, credit, granted, windowStart, windowBase>>

Credits == (-Floor) .. Ceiling

\* The credit that k tokens cost.
Charge(k) == k * Price

Init ==
  /\ now = 0
  /\ credit \in Credits
  /\ granted = 0
  /\ windowStart = 0
  /\ windowBase = 0

\* Time passes: at most one unit of credit is earned, and a window may open.
Tick ==
  /\ now' = now + 1
  /\ credit' \in Credits
  /\ credit' <= credit + 1
  /\ \/ UNCHANGED <<windowStart, windowBase>>
     \/ windowStart' = now' /\ windowBase' = granted
  /\ UNCHANGED granted

\* n tokens are granted against credit that is really there.
Grant(n) ==
  /\ Charge(n) <= credit
  /\ credit' \in Credits
  /\ credit' <= credit - Charge(n)
  /\ granted' = granted + n
  /\ UNCHANGED <<now, windowStart, windowBase>>

\* Credit is given up: it overflowed, or a Take drew an advance on it.
Forgo ==
  /\ credit' \in Credits
  /\ credit' <= credit
  /\ UNCHANGED <<now, granted, windowStart, windowBase>>

Next == Tick \/ Forgo \/ \E n \in Sizes : Grant(n)

Spec == Init /\ [][Next]_vars

-----------------------------------------------------------------------------

\* Every variable has its type.
TypeOK ==
  /\ now \in Nat
  /\ credit \in Credits
  /\ granted \in Nat
  /\ windowStart \in Nat
  /\ windowBase \in Nat

\* In a window of any position and length no more is granted than the ceiling
\* plus what the time in the window earns.
WindowBound ==
  Charge(granted - windowBase) <= Ceiling + (now - windowStart)

\* The inductive form: what the window has used, and what is still there.  A
\* window opens with at most the ceiling, and only time adds to it.
WindowLedger ==
  Charge(granted - windowBase) + (IF credit < 0 THEN 0 ELSE credit)
    <= Ceiling + (now - windowStart)

-----------------------------------------------------------------------------

LEMMA ChargeAdds ==
  ASSUME ContractConstants, NEW a \in Int, NEW n \in Int
  PROVE  Charge(a) \in Int /\ Charge(a + n) = Charge(a) + Charge(n)
  BY DEF ContractConstants, Charge

LEMMA InitLedger ==
  ASSUME ContractConstants
  PROVE  Init => TypeOK /\ WindowLedger
  BY DEF ContractConstants, Init, TypeOK, WindowLedger, Charge, Credits

LEMMA NextLedger ==
  ASSUME ContractConstants
  PROVE  TypeOK /\ WindowLedger /\ [Next]_vars => TypeOK' /\ WindowLedger'
  <1> SUFFICES ASSUME TypeOK, WindowLedger, [Next]_vars
               PROVE  TypeOK' /\ WindowLedger'
    OBVIOUS
  <1> DEFINE used == granted - windowBase
             Positive(x) == IF x < 0 THEN 0 ELSE x
  <1>1. /\ used \in Int /\ Charge(used) \in Int /\ credit \in Int
        /\ now \in Nat /\ windowStart \in Nat /\ Ceiling \in Nat
    BY ChargeAdds DEF TypeOK, Credits, ContractConstants
  <1>2. Charge(used) + Positive(credit) <= Ceiling + (now - windowStart)
    BY <1>1 DEF WindowLedger
  <1>3. ASSUME /\ used' \in Int /\ Charge(used') \in Int
               /\ Charge(used') + Positive(credit') <= Ceiling + (now' - windowStart')
               /\ TypeOK'
        PROVE  TypeOK' /\ WindowLedger'
    <2>1. Charge(granted - windowBase)' = Charge(used')
      BY DEF Charge
    <2>2. credit' \in Int /\ now' \in Nat /\ windowStart' \in Nat
      BY <1>3 DEF TypeOK, Credits
    <2>3. QED
      BY <1>1, <1>3, <2>1, <2>2 DEF WindowLedger
  <1>4. CASE Tick
    <2>1. TypeOK'
      BY <1>4 DEF Tick, TypeOK, Credits
    <2>2. credit' \in Int /\ credit' <= Ceiling /\ credit' <= credit + 1 /\ now' = now + 1
      BY <1>4, <1>1 DEF Tick, Credits, ContractConstants
    <2>3. CASE UNCHANGED <<windowStart, windowBase>>
      BY <1>1, <1>2, <1>3, <1>4, <2>1, <2>2, <2>3 DEF Tick
    <2>4. CASE windowStart' = now' /\ windowBase' = granted
      <3>1. used' = 0 /\ Charge(used') = 0
        BY <1>4, <2>4 DEF Tick, TypeOK, Charge, ContractConstants
      <3>2. QED
        BY <1>1, <1>3, <2>1, <2>2, <2>4, <3>1
    <2>5. QED
      BY <1>4, <2>3, <2>4 DEF Tick
  <1>5. ASSUME NEW n \in Sizes, Grant(n)
        PROVE  TypeOK' /\ WindowLedger'
    <2>1. n \in Nat
      BY DEF ContractConstants
    <2>2. TypeOK'
      BY <1>5, <2>1 DEF Grant, TypeOK, Credits
    <2>3. /\ used' = used + n /\ used' \in Int
          /\ Charge(used') = Charge(used) + Charge(n)
          /\ Charge(n) \in Int
      BY <1>1, <1>5, <2>1, ChargeAdds DEF Grant, TypeOK
    <2>4. /\ credit' \in Int /\ credit' <= credit - Charge(n) /\ Charge(n) <= credit
          /\ now' = now /\ windowStart' = windowStart
      BY <1>5 DEF Grant, Credits
    <2>5. QED
      BY <1>1, <1>2, <1>3, <2>2, <2>3, <2>4
  <1>6. CASE Forgo \/ UNCHANGED vars
    <2>1. TypeOK'
      BY <1>6 DEF Forgo, vars, TypeOK, Credits
    <2>2. used' = used /\ now' = now /\ windowStart' = windowStart /\ credit' <= credit
      BY <1>1, <1>6 DEF Forgo, vars
    <2>3. credit' \in Int
      BY <2>1 DEF TypeOK, Credits
    <2>4. QED
      BY <1>1, <1>2, <1>3, <2>1, <2>2, <2>3
  <1>7. QED
    BY <1>4, <1>5, <1>6 DEF Next

\* Whatever keeps the contract grants, in every window of time, no more than
\* the ceiling and what the window's time earns (token_bucket.go:105-147 is
\* shown to keep it in TokenBucketProofs).
THEOREM WindowBounded ==
  ASSUME ContractConstants
  PROVE  Spec => []WindowBound
  <1>1. TypeOK /\ WindowLedger => WindowBound
    <2> SUFFICES ASSUME TypeOK, WindowLedger
                 PROVE  WindowBound
      OBVIOUS
    <2>1. Charge(granted - windowBase) \in Int
      BY ChargeAdds DEF TypeOK
    <2>2. QED
      BY <2>1 DEF TypeOK, Credits, ContractConstants, WindowLedger, WindowBound
  <1>2. QED
    BY <1>1, InitLedger, NextLedger, PTL DEF Spec

=============================================================================
