---------------------------- MODULE LeakyBucket ----------------------------
(***************************************************************************)
(* The leaky bucket of internal/limit/leaky_bucket.go.  What is let in     *)
(* raises the level, time lowers it by whole drops, and a call that would  *)
(* raise it above the capability is turned away.  Two things are unlike    *)
(* the token bucket: the level may be drained below zero, down to minus    *)
(* the capability, and nothing is drained while it is not above zero, so   *)
(* that the time of a pause is drained only after the calls that end it.   *)
(*                                                                         *)
(* A caller reads the clock before it competes for the mutex; a call of    *)
(* Allow or Take is one step.  A bucket stays in the process that made it. *)
(***************************************************************************)
EXTENDS Integers

CONSTANTS
  Callers,      \* the goroutines that call the bucket
  DrainPeriod,  \* time.Second / time.Duration(rate), in ticks
  Capability,   \* capability
  Requests,     \* the n a call may ask for
  MaxLag,       \* ticks from a caller's clock reading to its holding the mutex
  MaxTime       \* bound: the clock stops here

ASSUME LeakyAssumption ==
  /\ DrainPeriod \in Nat \ {0}
  /\ Capability \in Nat
  /\ Requests \subseteq Nat \ {0}
  /\ MaxLag \in Nat
  /\ MaxTime \in Nat

VARIABLES
  now,          \* the clock
  drops,
  lastDrained,
  nextDrain,
  pc,           \* "idle", "sampled" (clock read, mutex wanted), "paced" (sleeping)
  at,           \* the clock reading of a caller that is "sampled", 0 of others
  due,          \* when the sleep of a caller that is "paced" ends, 0 of others
  want,         \* what that caller took, 0 of others
  \* history, for the properties only
  granted,      \* what Allow and Take have let in
  admitted,     \* that of Takes whose delay has been served
  lost,         \* drops that the floor kept from being drained
  windowStart,  \* an arbitrary instant, and
  windowBase    \* what was granted before it

bucketVars == <<drops, lastDrained, nextDrain>>
callerVars == <<pc, at, due, want>>
windowVars == <<windowStart, windowBase>>
vars == <<now, bucketVars, callerVars, granted, admitted, lost, windowVars>>

Least(a, b) == IF a <= b THEN a ELSE b
Most(a, b)  == IF a >= b THEN a ELSE b

\* The time n drops take to drain.
Cost(n) == n * DrainPeriod

Init ==
  /\ now = 0
  /\ drops = 0
  /\ lastDrained = 0
  /\ nextDrain = DrainPeriod
  /\ pc = [c \in Callers |-> "idle"]
  /\ at = [c \in Callers |-> 0]
  /\ due = [c \in Callers |-> 0]
  /\ want = [c \in Callers |-> 0]
  /\ granted = 0 /\ admitted = 0 /\ lost = 0
  /\ windowStart = 0 /\ windowBase = 0

-----------------------------------------------------------------------------
(* drain(t)                                                                *)

DrainIsDue(t) == drops > 0 /\ t > nextDrain

\* Whole drops: the duration is divided before it is made a float.
Drips(t) == IF DrainIsDue(t) THEN (t - lastDrained) \div DrainPeriod ELSE 0

DrainedWithoutFloor(t) == drops - Drips(t)   \* mutant: an idle bucket saves all its time

Drained(t) == Most(drops - Drips(t), -Capability)

DrainMovesToReading(t) ==   \* mutant: lastDrained = t, the line that is commented out
  /\ lastDrained' = IF DrainIsDue(t) THEN t ELSE lastDrained
  /\ nextDrain' = lastDrained' + DrainPeriod
  /\ lost' = lost + (Drained(t) - (drops - Drips(t)))

\* lastDrained moves by what was drained; a fraction of a drop is kept.
Drain(t) ==
  /\ lastDrained' = lastDrained + Cost(Drips(t))
  /\ nextDrain' = IF DrainIsDue(t) THEN lastDrained' + DrainPeriod ELSE nextDrain
  /\ lost' = lost + (Drained(t) - (drops - Drips(t)))

-----------------------------------------------------------------------------
(* The callers.                                                            *)

\* t := time.Now()
Sample(c) ==
  /\ pc[c] = "idle"
  /\ pc' = [pc EXCEPT ![c] = "sampled"]
  /\ at' = [at EXCEPT ![c] = now]
  /\ UNCHANGED <<now, bucketVars, due, want, granted, admitted, lost, windowVars>>

\* The level has room for n.
Fits(level, n) == level + n <= Capability

\* Allow(t, n) returns true.
AllowGranted(c, n) ==
  /\ pc[c] = "sampled"
  /\ Fits(Drained(at[c]), n)
  /\ Drain(at[c])
  /\ drops' = Drained(at[c]) + n
  /\ granted' = granted + n
  /\ pc' = [pc EXCEPT ![c] = "idle"]
  /\ at' = [at EXCEPT ![c] = 0]
  /\ UNCHANGED <<now, due, want, admitted, windowVars>>

\* Allow(t, n) returns false, or Take(t, n) ErrOverflow; what was drained stays.
Refused(c, n) ==
  /\ pc[c] = "sampled"
  /\ ~ Fits(Drained(at[c]), n)
  /\ Drain(at[c])
  /\ drops' = Drained(at[c])
  /\ pc' = [pc EXCEPT ![c] = "idle"]
  /\ at' = [at EXCEPT ![c] = 0]
  /\ UNCHANGED <<now, due, want, granted, admitted, windowVars>>

TakeDelayOneDropShort(level) == Most(0, Cost(level - 1))   \* mutant: one drop of the level is forgotten

\* The time in which the level before the call drains.
TakeDelay(level) == Most(0, Cost(level))

\* Take(t, n) tells the caller how long to sleep.
Take(c, n) ==
  LET level == Drained(at[c])
  IN  /\ pc[c] = "sampled"
      /\ Fits(level, n)
      /\ Drain(at[c])
      /\ drops' = level + n
      /\ granted' = granted + n
      /\ pc' = [pc EXCEPT ![c] = "paced"]
      /\ at' = [at EXCEPT ![c] = 0]
      /\ due' = [due EXCEPT ![c] = now + TakeDelay(level)]
      /\ want' = [want EXCEPT ![c] = n]
      /\ UNCHANGED <<now, admitted, windowVars>>

\* The caller of Take has slept for as long as it was told to and goes ahead.
Proceed(c) ==
  /\ pc[c] = "paced"
  /\ now >= due[c]
  /\ admitted' = admitted + want[c]
  /\ pc' = [pc EXCEPT ![c] = "idle"]
  /\ due' = [due EXCEPT ![c] = 0]
  /\ want' = [want EXCEPT ![c] = 0]
  /\ UNCHANGED <<now, bucketVars, at, granted, lost, windowVars>>

\* The clock moves; no caller waits for the mutex longer than MaxLag.
Tick ==
  /\ now < MaxTime
  /\ \A c \in Callers : pc[c] = "sampled" => now < at[c] + MaxLag
  /\ now' = now + 1
  /\ \/ UNCHANGED windowVars
     \/ windowStart' = now' /\ windowBase' = granted
  /\ UNCHANGED <<bucketVars, callerVars, granted, admitted, lost>>

Next ==
  \/ Tick
  \/ \E c \in Callers :
       \/ Sample(c) \/ Proceed(c)
       \/ \E n \in Requests : AllowGranted(c, n) \/ Refused(c, n) \/ Take(c, n)

Spec == Init /\ [][Next]_vars

-----------------------------------------------------------------------------
(* Properties.                                                             *)

\* Every variable has its type; the level stays between the capability and its
\* opposite.
TypeOK ==
  /\ now \in Nat
  /\ drops \in (-Capability) .. Capability
  /\ lastDrained \in Nat
  /\ nextDrain \in Nat
  /\ pc \in [Callers -> {"idle", "sampled", "paced"}]
  /\ at \in [Callers -> Nat]
  /\ due \in [Callers -> Nat]
  /\ want \in [Callers -> Nat]
  /\ {granted, admitted, lost, windowStart, windowBase} \subseteq Nat

\* What is in the bucket and what has drained is what was let in and what the
\* floor held back, whatever the order of clock readings and however the time
\* is cut into whole drops; and no time is drained before it has passed.
Ledger ==
  /\ Cost(granted + lost) = Cost(drops) + lastDrained
  /\ lastDrained <= now

\* The bucket shapes: callers that sleep as Take tells them go ahead at the
\* rate, with at most one request too early, whatever Allow lets in meanwhile.
ShapedRate ==
  admitted > 0 =>
    \E n \in Requests : n <= 2 * Capability /\ Cost(admitted) <= now + Cost(n)

\* A request that the bucket can hold at all is refused only when all the time
\* up to the caller's clock reading was drained, and was not enough for it.
RefusalJustified ==
  [][\A c \in Callers, n \in Requests :
       n <= Capability /\ Refused(c, n) =>
         Cost(granted + n + lost') >= Cost(Capability) + at[c]]_vars

\* What may be granted at once after a pause.  A level that is not above zero
\* first rises to the capability, from as low as its opposite; then the time of
\* the pause is drained, down to the floor, and it rises that way again.
PauseWorth == Cost(2 * Capability) + DrainPeriod + MaxLag

Outstanding ==
  LET undrained == now - lastDrained
      room == Cost(Capability - drops)
  IN  IF drops > 0 THEN Least(PauseWorth, room + undrained)
                   ELSE room + Least(PauseWorth, undrained)

Contract == INSTANCE TokenContract WITH
  Ceiling <- Cost(2 * Capability) + PauseWorth,
  Price   <- DrainPeriod,
  Floor   <- 0,
  Sizes   <- Requests,
  credit  <- Outstanding

\* The bucket keeps the contract of a limiter whose ceiling is four times the
\* capability, one drop and the lag: a window holds no more than that and what
\* its time drains (TokenContract!WindowBounded).
ImplementsContract == Contract!Spec

=============================================================================
