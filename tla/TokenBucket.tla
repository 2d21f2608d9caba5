---------------------------- MODULE TokenBucket ----------------------------
(***************************************************************************)
(* The token bucket of internal/limit/token_bucket.go as its callers use   *)
(* it.  A caller reads the clock first (time.Now() at cmd_allow.go:48) and *)
(* only then competes for the bucket's mutex, so a call may reach the      *)
(* bucket with a clock reading older than the one the bucket was last      *)
(* filled with.  A call of Allow or Take holds the mutex to its end and is *)
(* one step.                                                               *)
(*                                                                         *)
(* tokenCount is a float64; it is kept here in units of 1/FillPeriod of a  *)
(* token (tokens = tokenCount * fillPeriod), which makes fill's division   *)
(* exact integer arithmetic: one tick is worth one unit.                   *)
(*                                                                         *)
(* A bucket that reaches a node through the log or a snapshot carries the  *)
(* wall-clock reading of the node that made it (FromResPB, which drops     *)
(* Go's monotonic reading): born is that reading on this node's clock,     *)
(* where it may lie in the past or in the future.                          *)
(***************************************************************************)
EXTENDS Integers

CONSTANTS
  Callers,      \* the goroutines that call the bucket
  FillPeriod,   \* time.Second / time.Duration(rate), in ticks
  Burst,        \* burst
  Requests,     \* the n a call may ask for
  Births,       \* the readings lastFilled may start from
  MaxLag,       \* ticks from a caller's clock reading to its holding the mutex
  MaxTime       \* bound: the clock stops here

ASSUME BucketAssumption ==
  /\ FillPeriod \in Nat \ {0}
  /\ Burst \in Nat
  /\ Requests \subseteq Nat \ {0}
  /\ Births \subseteq Int
  /\ MaxLag \in Nat
  /\ MaxTime \in Nat

VARIABLES
  now,          \* the clock
  tokens,       \* tokenCount * FillPeriod
  lastFilled,
  nextFill,
  pc,           \* "idle", "sampled" (clock read, mutex wanted), "paced" (sleeping)
  at,           \* the clock reading of a caller that is "sampled", 0 of others
  due,          \* when the sleep of a caller that is "paced" ends, 0 of others
  want,         \* the tokens that caller took, 0 of others
  \* history, for the properties only
  born,         \* the lastFilled the bucket started with
  granted,      \* tokens granted by Allow
  admitted,     \* tokens of Takes whose delay has been served
  spent,        \* tokens asked of the bucket and not refused
  lost,         \* units that overflowed the burst
  forgiven,     \* units of debt dropped at the floor
  windowStart,  \* an arbitrary instant, and
  windowBase    \* what Allow had granted before it

bucketVars  == <<tokens, lastFilled, nextFill>>
callerVars  == <<pc, at, due, want>>
windowVars  == <<windowStart, windowBase>>
historyVars == <<born, granted, admitted, spent, lost, forgiven>>
vars == <<now, bucketVars, callerVars, historyVars, windowVars>>

Least(a, b) == IF a <= b THEN a ELSE b
Most(a, b)  == IF a >= b THEN a ELSE b

\* n tokens, in units.
Cost(n) == n * FillPeriod

Capacity == Cost(Burst)

Init ==
  /\ now = 0
  /\ tokens = Capacity
  /\ born \in Births
  /\ lastFilled = born
  /\ nextFill = born + FillPeriod
  /\ pc = [c \in Callers |-> "idle"]
  /\ at = [c \in Callers |-> 0]
  /\ due = [c \in Callers |-> 0]
  /\ want = [c \in Callers |-> 0]
  /\ granted = 0 /\ admitted = 0 /\ spent = 0 /\ lost = 0 /\ forgiven = 0
  /\ windowStart = 0 /\ windowBase = 0

-----------------------------------------------------------------------------
(* fill(t): lazily credit the time since the last fill.                    *)

FillIsDueForAnyReading(t) == t # lastFilled   \* mutant: t.After(nextFill) is gone

FillIsDue(t) == t > nextFill

AccruedSinceNextFill(t) ==  \* mutant: the time of a whole token is not credited
  IF FillIsDue(t) THEN Least(Capacity, tokens + (t - nextFill)) ELSE tokens

AccruedPastBurst(t) ==      \* mutant: the burst does not cap the level
  IF FillIsDue(t) THEN tokens + (t - lastFilled) ELSE tokens

Accrued(t) ==
  IF FillIsDue(t) THEN Least(Capacity, tokens + (t - lastFilled)) ELSE tokens

Overflowing(t) ==
  IF FillIsDue(t) THEN Most(0, tokens + (t - lastFilled) - Capacity) ELSE 0

FillKeepsLastFilled(t) ==   \* mutant: lastFilled is not moved on
  /\ nextFill' = IF FillIsDue(t) THEN t + FillPeriod ELSE nextFill
  /\ lost' = lost + Overflowing(t)
  /\ UNCHANGED lastFilled

Fill(t) ==
  /\ lastFilled' = IF FillIsDue(t) THEN t ELSE lastFilled
  /\ nextFill' = IF FillIsDue(t) THEN t + FillPeriod ELSE nextFill
  /\ lost' = lost + Overflowing(t)

-----------------------------------------------------------------------------
(* The callers.                                                            *)

\* t := time.Now()
Sample(c) ==
  /\ pc[c] = "idle"
  /\ pc' = [pc EXCEPT ![c] = "sampled"]
  /\ at' = [at EXCEPT ![c] = now]
  /\ UNCHANGED <<now, bucketVars, due, want, historyVars, windowVars>>

\* A call of Allow is over.
Return(c) ==
  /\ pc' = [pc EXCEPT ![c] = "idle"]
  /\ at' = [at EXCEPT ![c] = 0]

\* Allow(t, n) returns true.
AllowGranted(c, n) ==
  /\ pc[c] = "sampled"
  /\ Accrued(at[c]) >= Cost(n)
  /\ Fill(at[c])
  /\ tokens' = Accrued(at[c]) - Cost(n)
  /\ granted' = granted + n
  /\ spent' = spent + n
  /\ Return(c)
  /\ UNCHANGED <<now, due, want, born, admitted, forgiven, windowVars>>

\* Allow(t, n) returns false; the fill it made stays.
AllowRefused(c, n) ==
  /\ pc[c] = "sampled"
  /\ Accrued(at[c]) < Cost(n)
  /\ Fill(at[c])
  /\ tokens' = Accrued(at[c])
  /\ Return(c)
  /\ UNCHANGED <<now, due, want, born, granted, admitted, spent, forgiven, windowVars>>

UnflooredDebt(level) == level   \* mutant: debt has no floor

\* Take never refuses: a negative count is a debt, of at most a burst.
Floored(level) == Most(level, -Capacity)

TakeDelayOfOneToken(level) == IF level < 0 THEN FillPeriod ELSE 0  \* mutant

\* time.Duration(-tokenCount * fillPeriod)
TakeDelay(level) == Most(0, -level)

\* Take(t, n) debits n and tells the caller how long to sleep.
Take(c, n) ==
  LET level == Accrued(at[c]) - Cost(n)
  IN  /\ pc[c] = "sampled"
      /\ Fill(at[c])
      /\ tokens' = Floored(level)
      /\ forgiven' = forgiven + (Floored(level) - level)
      /\ spent' = spent + n
      /\ pc' = [pc EXCEPT ![c] = "paced"]
      /\ at' = [at EXCEPT ![c] = 0]
      /\ due' = [due EXCEPT ![c] = now + TakeDelay(Floored(level))]
      /\ want' = [want EXCEPT ![c] = n]
      /\ UNCHANGED <<now, born, granted, admitted, windowVars>>

\* The caller of Take has slept for as long as it was told to and goes ahead.
Proceed(c) ==
  /\ pc[c] = "paced"
  /\ now >= due[c]
  /\ admitted' = admitted + want[c]
  /\ pc' = [pc EXCEPT ![c] = "idle"]
  /\ due' = [due EXCEPT ![c] = 0]
  /\ want' = [want EXCEPT ![c] = 0]
  /\ UNCHANGED <<now, bucketVars, at, born, granted, spent, lost, forgiven, windowVars>>

\* The clock moves; no caller waits for the mutex longer than MaxLag.
Tick ==
  /\ now < MaxTime
  /\ \A c \in Callers : pc[c] = "sampled" => now < at[c] + MaxLag
  /\ now' = now + 1
  /\ \/ UNCHANGED windowVars
     \/ windowStart' = now' /\ windowBase' = granted
  /\ UNCHANGED <<bucketVars, callerVars, historyVars>>

Call(c) ==
  \/ Sample(c)
  \/ \E n \in Requests : AllowGranted(c, n) \/ AllowRefused(c, n) \/ Take(c, n)
  \/ Proceed(c)

Next == Tick \/ \E c \in Callers : Call(c)

Spec == Init /\ [][Next]_vars

-----------------------------------------------------------------------------
(* Properties.                                                             *)

\* Every variable has its type; in particular the level never leaves the band
\* between a full burst of tokens and a full burst of debt.
TypeOK ==
  /\ now \in Nat
  /\ tokens \in (-Capacity) .. Capacity
  /\ lastFilled \in Int
  /\ nextFill \in Int
  /\ pc \in [Callers -> {"idle", "sampled", "paced"}]
  /\ at \in [Callers -> Nat]
  /\ due \in [Callers -> Nat]
  /\ want \in [Callers -> Nat]
  /\ born \in Births
  /\ {granted, admitted, spent, lost, forgiven, windowStart, windowBase} \subseteq Nat

\* Tokens are neither invented nor mislaid: whatever the order in which calls
\* with old and new clock readings reach the bucket, what was spent and what is
\* left is the burst plus the time credited, less what overflowed, plus the
\* debt dropped at Take's floor.
Ledger ==
  Cost(spent) + tokens + lost - forgiven = Capacity + (lastFilled - born)

\* Time on this node's clock since the bucket was made.
Elapsed == now - Least(born, 0)

\* Allow never lets through more than the burst and what the elapsed time pays
\* for, however the callers' clock readings are ordered.
RateBound == Cost(granted) <= Capacity + Elapsed

\* Callers that honour the delay Take gives them stay within the rate as well,
\* up to the debt that the floor at -burst has dropped.
TakeRateBound ==
  Cost(granted + admitted) <= Capacity + Elapsed + forgiven

\* The bucket is not stingy either: it refuses n only when the tokens spent and
\* overflowed, n and one fill period account for all the time up to the
\* caller's clock reading.
RefusalJustified ==
  [][\A c \in Callers, n \in Requests :
       AllowRefused(c, n) =>
         Cost(spent + n) + lost' + FillPeriod > Capacity + (at[c] - born)]_vars

\* The last fill never moves back: a call with an old clock reading cannot make
\* a later one credit the same time twice.
FillsMoveForward == [][lastFilled' >= lastFilled]_vars

-----------------------------------------------------------------------------
(* The bucket keeps the contract of a limiter whose ceiling is a token and *)
(* the lag above the burst: the credit it has outstanding is its level and *)
(* the time it has not credited yet.                                       *)

ContractCeiling == Capacity + FillPeriod + MaxLag

Outstanding == Least(ContractCeiling, tokens + Most(0, now - lastFilled))

Contract == INSTANCE TokenContract WITH
  Ceiling <- ContractCeiling,
  Price   <- FillPeriod,
  Floor   <- Capacity,
  Sizes   <- Requests,
  credit  <- Outstanding

\* Every step of the bucket is a step of the contract or changes nothing there.
ImplementsContract == Contract!Spec

\* In any window of time, wherever it starts, Allow grants no more than the
\* burst, one token, what the lag is worth and what the window's time earns.
WindowBound == Contract!WindowBound

=============================================================================
