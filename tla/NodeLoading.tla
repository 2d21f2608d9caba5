----------------------------- MODULE NodeLoading -----------------------------
(***************************************************************************)
(* How busy the nodes are.  A node, Self, counts its API commands, and a   *)
(* ticker turns the count into an entry of a history once a second         *)
(* (internal/metric).  Its prober takes its own average over the last      *)
(* while, asks the peers for theirs, and keeps the lightest and the        *)
(* heaviest node (internal/cluster/probe); PutResource reads the first.    *)
(*                                                                         *)
(* A peer answers with any average that a history can have: it is such a   *)
(* node itself.  Time is in seconds.  A tick may be late by any time: the  *)
(* ticker is a goroutine of the API server, which stops before the         *)
(* cluster server does.  Entries are made for a second, however long it    *)
(* took, so the rate of an entry is its count.  An update uses nothing of  *)
(* the one before it.                                                      *)
(***************************************************************************)
EXTENDS Integers, Sequences, SequencesExt

CONSTANTS
  Peers, Self,
  PeerAverages,         \* what peers answer, fractions
  MaxHistoryDuration,   \* how old an entry may get
  AvgRPSDuration,       \* the while that an average is of
  MaxTime,              \* bound: of the clock
  MaxRequests,          \* bound: how many requests there are
  MaxUpdates            \* bound: how often the loading is updated

ASSUME ConstantsAssumption ==
  /\ Self \notin Peers
  /\ PeerAverages \subseteq [sum : Nat, count : Nat]
  /\ \A avg \in PeerAverages : avg.count = 0 => avg.sum = 0
  /\ MaxHistoryDuration \in Nat
  /\ AvgRPSDuration \in Nat
  /\ MaxTime \in Nat
  /\ MaxRequests \in Nat
  /\ MaxUpdates \in Nat

VARIABLES
  now,
  reqCount,      \* requests since the last tick
  reqs,          \* what a tick has taken and not pushed yet, a sequence of at most one
  hist,          \* the entries, the oldest first
  phase,         \* of UpdateNodeLoading: "idle", "asking", or "dead" after a panic
  toAsk,         \* the peers it has not come to
  nodeLoads,     \* the averages it has, in the order they came
  lightNodeID, heavyNodeID,
  counted,       \* history: of a time, the requests that were counted then
  updates        \* history: how many updates there have been

rates == <<reqCount, reqs, hist, counted>>
probe == <<phase, toAsk, nodeLoads, lightNodeID, heavyNodeID, updates>>
vars == <<now, rates, probe>>

Init ==
  /\ now = 0
  /\ reqCount = 0
  /\ reqs = <<>>
  /\ hist = <<>>
  /\ counted = [t \in 0 .. MaxTime |-> 0]
  /\ phase = "idle"
  /\ toAsk = {}
  /\ nodeLoads = <<>>
  /\ lightNodeID = Self
  /\ heavyNodeID = Self
  /\ updates = 0

-----------------------------------------------------------------------------
(* The rate.  Nothing goes on after a panic.                               *)

\* OnTraffic counts a command it has decoded.
AddAPICmdCount ==
  /\ phase # "dead"
  /\ SumFunctionOnSet(counted, 0 .. now) < MaxRequests
  /\ reqCount' = reqCount + 1
  /\ counted' = [counted EXCEPT ![now] = @ + 1]
  /\ UNCHANGED <<now, reqs, hist, probe>>

CalcLoads ==   \* mutant: reads the count and does not reset it
  /\ phase # "dead"
  /\ reqs = <<>>
  /\ hist # <<>> => Last(hist).t < now
  /\ reqs' = <<reqCount>>
  /\ UNCHANGED <<now, reqCount, hist, counted, probe>>

\* OnTick: Calc swaps the count for zero, and later pushes it.  There is one ticker,
\* which waits for a second after each tick.
Calc ==
  /\ phase # "dead"
  /\ reqs = <<>>
  /\ hist # <<>> => Last(hist).t < now
  /\ reqs' = <<reqCount>>
  /\ reqCount' = 0
  /\ UNCHANGED <<now, hist, counted, probe>>

pushNewest ==   \* mutant: looks at the age of the entry just made
  /\ phase # "dead"
  /\ reqs # <<>>
  /\ hist' = Append(hist, [rps |-> reqs[1], t |-> now])
  /\ reqs' = <<>>
  /\ UNCHANGED <<now, reqCount, counted, probe>>

\* At most one entry goes for one that comes.
push ==
  /\ phase # "dead"
  /\ reqs # <<>>
  /\ LET entries == Append(hist, [rps |-> reqs[1], t |-> now])
     IN  hist' = IF now - entries[1].t > MaxHistoryDuration THEN Tail(entries) ELSE entries
  /\ reqs' = <<>>
  /\ UNCHANGED <<now, reqCount, counted, probe>>

Advance ==
  /\ phase # "dead"
  /\ now < MaxTime
  /\ now' = now + 1
  /\ UNCHANGED <<rates, probe>>

\* The entries made since s, by their places, and what they add up to.
MadeSince(h, s) == {i \in DOMAIN h : s <= h[i].t}

rpsSum(h, s) == SumFunctionOnSet([i \in DOMAIN h |-> h[i].rps], MadeSince(h, s))

\* An average is a fraction: 0 of an empty history, and 0/0, which is not a number,
\* where no entry is recent.
avgRPSOfNone ==   \* mutant: an empty history is not told apart
  LET since == now - AvgRPSDuration
  IN  [sum |-> rpsSum(hist, since), count |-> Cardinality(MadeSince(hist, since))]

avgRPS ==
  LET since == now - AvgRPSDuration
  IN  IF hist = <<>> THEN [sum |-> 0, count |-> 1]
      ELSE [sum |-> rpsSum(hist, since), count |-> Cardinality(MadeSince(hist, since))]

\* The ticks have stopped for longer than an average reaches back.
Quiet == hist # <<>> /\ now - Last(hist).t > AvgRPSDuration

-----------------------------------------------------------------------------
(* The prober.                                                             *)

\* Comparisons of fractions, which are false of 0/0.
NaN(x)     == x.count = 0
Less(x, y) == x.sum * y.count < y.sum * x.count
Equal(x, y) == ~NaN(x) /\ ~NaN(y) /\ x.sum * y.count = y.sum * x.count

\* UpdateNodeLoading takes the mutex and its own average, ...  (quiet is for the
\* properties.)
UpdateNodeLoading ==
  /\ phase = "idle"
  /\ updates < MaxUpdates
  /\ updates' = updates + 1
  /\ phase' = "asking"
  /\ toAsk' = Peers
  /\ nodeLoads' = <<[node |-> Self, avg |-> avgRPS, quiet |-> Quiet]>>
  /\ UNCHANGED <<now, rates, lightNodeID, heavyNodeID>>

\* ... asks the peers in any order, ...
Ask(p, avg) ==
  /\ phase = "asking"
  /\ p \in toAsk
  /\ toAsk' = toAsk \ {p}
  /\ nodeLoads' = Append(nodeLoads, [node |-> p, avg |-> avg])
  /\ UNCHANGED <<now, rates, phase, lightNodeID, heavyNodeID, updates>>

\* ... goes on where a peer is not active, or does not answer for a second, ...
Skip(p) ==
  /\ phase = "asking"
  /\ p \in toAsk
  /\ toAsk' = toAsk \ {p}
  /\ UNCHANGED <<now, rates, phase, nodeLoads, lightNodeID, heavyNodeID, updates>>

\* SortFunc, of no more than twelve: an insertion sort, in which an element goes
\* forward past those that it is less than.
Insert(s, x) ==
  LET stays == {i \in DOMAIN s : ~Less(x.avg, s[i].avg)}
      at == IF stays = {} THEN 1 ELSE Max(stays) + 1
  IN  InsertAt(s, at, x)

SortFunc(loads) == FoldLeft(Insert, <<>>, loads)

\* The end of an update: one of those equal to the first is the lightest, or the
\* program panics where the first is not equal to itself.
keepLoading(loads) ==
  LET sameLoad == {k \in DOMAIN loads : \A i \in 1 .. k : Equal(loads[i].avg, loads[1].avg)}
  IN  \/ /\ sameLoad = {}
         /\ phase' = "dead"
         /\ UNCHANGED <<lightNodeID, heavyNodeID>>
      \/ /\ \E i \in sameLoad : lightNodeID' = loads[i].node
         /\ heavyNodeID' = Last(loads).node
         /\ phase' = "idle"

calcNodeLoadingAsCame ==   \* mutant: does not sort
  /\ phase = "asking"
  /\ toAsk = {}
  /\ keepLoading(nodeLoads)
  /\ nodeLoads' = <<>>
  /\ UNCHANGED <<now, rates, toAsk, updates>>

\* ... sorts the averages, and chooses.
calcNodeLoading ==
  /\ phase = "asking"
  /\ toAsk = {}
  /\ keepLoading(SortFunc(nodeLoads))
  /\ nodeLoads' = <<>>
  /\ UNCHANGED <<now, rates, toAsk, updates>>

-----------------------------------------------------------------------------

Next ==
  \/ AddAPICmdCount
  \/ Calc
  \/ push
  \/ Advance
  \/ UpdateNodeLoading
  \/ \E p \in Peers : Skip(p) \/ \E avg \in PeerAverages : Ask(p, avg)
  \/ calcNodeLoading

Spec == Init /\ [][Next]_vars

-----------------------------------------------------------------------------
(* Properties.                                                             *)

CountedSince(s) == SumFunctionOnSet(counted, s .. MaxTime)

\* The requests counted since the last tick, those of a tick under way, and the
\* entries made since s.
KeptSince(s) == reqCount + (IF reqs = <<>> THEN 0 ELSE reqs[1]) + rpsSum(hist, s)

\* Calc and push lose no request and count none twice, while AddAPICmdCount goes
\* on: what was counted since some time, as long as a history reaches back, is in
\* entries made since, or still to be pushed; and there is no more than was counted.
RequestsKeptOnce ==
  /\ KeptSince(0) <= CountedSince(0)
  /\ \A s \in 0 .. now : now - s <= MaxHistoryDuration => CountedSince(s) <= KeptSince(s)

\* push drops one entry at most, and old entries stay after a pause; a history has
\* for all that no more entries than there are seconds in its duration, and one.
HistoryBounded ==
  Len(hist) <= MaxHistoryDuration + 1

\* calcNodeLoading picks, of the nodes that answered, one with no less than any
\* other as the heaviest and one with no more as the lightest, however many are
\* equal, as long as every answer is a number.
LightestIsLightest ==
  [][phase = "asking" /\ phase' = "idle" /\ (\A i \in DOMAIN nodeLoads : ~NaN(nodeLoads[i].avg)) =>
       \E l, h \in Range(nodeLoads) :
         /\ l.node = lightNodeID'
         /\ h.node = heavyNodeID'
         /\ \A x \in Range(nodeLoads) : ~Less(x.avg, l.avg) /\ ~Less(h.avg, x.avg)]_vars

\* rand.Intn(0) ends the program where, and only where, the ticks of its own API
\* server had stopped for longer than an average reaches back: no answer of a
\* peer does it, and no start without traffic.
PanicsWhenQuiet ==
  [][phase = "asking" /\ phase' # "asking" => (phase' = "dead" <=> nodeLoads[1].quiet)]_vars

=============================================================================
