------------------------- MODULE AllowRoutingProofs -------------------------
(***************************************************************************)
(* Proofs about AllowRouting, for any number of nodes, resources, calls,   *)
(* registrations and faults, and any burst.                                *)
(***************************************************************************)
EXTENDS AllowRouting, FiniteSetTheorems, TLAPS

USE StoreAssumption, RoutingAssumption

-----------------------------------------------------------------------------
(* The registry, as the actions use it.                                    *)

\* What a registration does to the history.
LEMMA RegisterSteps ==
  ASSUME NEW q \in Requests, NEW n \in Nodes, NEW name \in Names, history \in Seq(Registries),
         Register(q, n, name)
  PROVE  /\ UNCHANGED <<position, shown, up, faults, copies, pc, asked, at, to, bound, retries, givenUp>>
         /\ UNCHANGED <<cmd, from, answer, here, via, held, told, charged, granted>>
         /\ settled' = [c \in Calls |-> FALSE]
         /\ history' \in Seq(Registries)
         /\ Len(history') = Len(history) + 1
         /\ \A i \in 1 .. Len(history) : history'[i] = history[i]
         /\ \A other \in Names \ {name} :
              history'[Len(history) + 1][other] = history[Len(history)][other]
         /\ history'[Len(history) + 1][name] = [node |-> n, limiter |-> q]
<1>1. PICK registry \in Registries :
        /\ \A other \in Names \ {name} : registry[other] = history[Len(history)][other]
        /\ history' = Append(history, registry)
        /\ UNCHANGED <<position, shown>>
  BY DEF Register, Registry!Change
<1>2. /\ history' \in Seq(Registries)
      /\ Len(history') = Len(history) + 1
      /\ \A i \in 1 .. Len(history) : history'[i] = history[i]
      /\ history'[Len(history) + 1] = registry
  BY <1>1
<1>3. history'[Len(history')][name] = [node |-> n, limiter |-> q]
  BY DEF Register, Latest
<1>4. /\ UNCHANGED <<up, faults, copies, pc, asked, at, to, bound, retries, givenUp>>
      /\ UNCHANGED <<cmd, from, answer, here, via, held, told, charged, granted>>
      /\ settled' = [c \in Calls |-> FALSE]
  BY DEF Register, clientVars, handlerVars, Unsettle
<1>. QED
  BY <1>1, <1>2, <1>3, <1>4

\* A node that follows the history shows a state of it.
LEMMA FollowSteps ==
  ASSUME NEW n \in Nodes, history \in Seq(Registries),
         position \in [Nodes -> 1 .. Len(history)], shown \in [Nodes -> Registries],
         \A m \in Nodes : shown[m] = history[position[m]],
         Registry!Follow(n)
  PROVE  /\ UNCHANGED history
         /\ position' \in [Nodes -> 1 .. Len(history)]
         /\ shown' \in [Nodes -> Registries]
         /\ \A m \in Nodes : shown'[m] = history[position'[m]]
         /\ \A m \in Nodes \ {n} : shown'[m] = shown[m] /\ position'[m] = position[m]
<1>1. PICK i \in position[n] .. Len(history) :
        /\ position' = [position EXCEPT ![n] = i]
        /\ shown' = [shown EXCEPT ![n] = history[i]]
        /\ UNCHANGED history
  BY DEF Registry!Follow
<1>2. i \in 1 .. Len(history) /\ history[i] \in Registries
  <2>1. position[n] \in 1 .. Len(history) /\ Len(history) \in Nat
    OBVIOUS
  <2>2. i \in 1 .. Len(history)
    BY <1>1, <2>1
  <2>. QED
    BY <2>2
<1>. QED
  BY <1>1, <1>2

\* A node that dies starts over with the empty registry.
LEMMA ForgetSteps ==
  ASSUME NEW n \in Nodes, history \in Seq(Registries), Len(history) > 0,
         history[1] = EmptyRegistry,
         position \in [Nodes -> 1 .. Len(history)], shown \in [Nodes -> Registries],
         \A m \in Nodes : shown[m] = history[position[m]],
         Registry!Forget(n)
  PROVE  /\ UNCHANGED history
         /\ position' \in [Nodes -> 1 .. Len(history)]
         /\ shown' \in [Nodes -> Registries]
         /\ \A m \in Nodes : shown'[m] = history[position'[m]]
         /\ shown'[n] = EmptyRegistry
         /\ \A m \in Nodes \ {n} : shown'[m] = shown[m] /\ position'[m] = position[m]
<1>1. EmptyRegistry \in Registries
  BY DEF EmptyRegistry, Registries
<1>2. 1 \in 1 .. Len(history)
  OBVIOUS
<1>. QED
  BY <1>1, <1>2 DEF Registry!Forget

-----------------------------------------------------------------------------
(* Types.  A handler spends a copy that its node has had, and a node has a *)
(* copy of every limiter that it shows.                                    *)

\* What TypeOK leaves open of the registry.
RegistryInv ==
  /\ Len(history) > 0
  /\ history[1] = EmptyRegistry
  /\ shown \in [Nodes -> Registries]

CopyInv ==
  /\ \A n \in Nodes, name \in Names :
       shown[n][name] # None => Len(copies[n][shown[n][name].limiter]) > 0
  /\ \A k \in Commands :
       held[k] # None => held[k].copy <= Len(copies[here[k]][held[k].limiter])

\* A command has its place as long as it is handled or its answer is to come or to
\* be read; only the last of its handlers still holds anything.
CommandInv ==
  \A k \in Commands :
    /\ cmd[k] = None <=> here[k] = None /\ from[k] = None /\ answer[k] = None
    /\ here[k] = None => held[k] = None /\ told[k] = None /\ via[k] = {} /\ from[k] = None
    /\ from[k] # None => answer[k] = None
    /\ held[k] # None => cmd[k].op = "Allow"
    /\ cmd[k] # None => pc[cmd[k].call] # "new"

CallInv ==
  \A c \in Calls :
    /\ pc[c] = "new" => retries[c] = 0
    /\ Open(c) => asked[c] \in Names
    /\ Waiting(c) => at[c] \in Nodes
    /\ pc[c] \in {"redirected", "placed"} => to[c] \in Nodes

TypeInv == TypeOK /\ RegistryInv /\ CopyInv /\ CommandInv /\ CallInv

\* The parts of TypeOK that are about the cluster, the client, the handlers and
\* the history variables: an action changes some of them.
ClusterType ==
  /\ history \in Seq(Registries)
  /\ position \in [Nodes -> 1 .. Len(history)]
  /\ \A n \in Nodes : shown[n] = history[position[n]]
  /\ up \in SUBSET Nodes
  /\ faults \in 0 .. MaxFaults

CopyType == copies \in [Nodes -> [Requests -> Seq(0 .. Burst)]]

ClientType ==
  /\ pc \in [Calls -> CallStates]
  /\ asked \in [Calls -> Names \cup {None}]
  /\ at \in [Calls -> Nodes \cup {None}]
  /\ to \in [Calls -> Nodes \cup {None}]
  /\ bound \in [Names -> Nodes \cup {None}]
  /\ retries \in [Calls -> Nat]
  /\ givenUp \in BOOLEAN

HandlerType ==
  /\ cmd \in [Commands -> Command \cup {None}]
  /\ from \in [Commands -> Nodes \cup {None}]
  /\ answer \in [Commands -> AnswerOn \cup {None}]
  /\ here \in [Commands -> up \cup {None}]
  /\ via \in [Commands -> SUBSET Nodes]
  /\ held \in [Commands -> Held \cup {None}]
  /\ told \in [Commands -> Nodes \cup {None}]

CountType ==
  /\ charged \in [Calls -> Nat]
  /\ granted \in [Requests -> Nat]
  /\ settled \in [Calls -> BOOLEAN]

LEMMA TypeParts ==
  TypeOK <=> ClusterType /\ CopyType /\ ClientType /\ HandlerType /\ CountType
BY DEF TypeOK, ClusterType, CopyType, ClientType, HandlerType, CountType

LEMMA TypePartsNext ==
  (TypeOK)' <=> ClusterType' /\ CopyType' /\ ClientType' /\ HandlerType' /\ CountType'
BY DEF TypeOK, ClusterType, CopyType, ClientType, HandlerType, CountType

LEMMA InitTypes == Init => TypeInv
<1>. SUFFICES ASSUME Init
              PROVE  TypeInv
  OBVIOUS
<1>1. EmptyRegistry \in Registries /\ \A name \in Names : EmptyRegistry[name] = None
  BY DEF EmptyRegistry, Registries
<1>2. /\ history = <<EmptyRegistry>>
      /\ position = [n \in Nodes |-> 1]
      /\ shown = [n \in Nodes |-> EmptyRegistry]
  BY DEF Init, Registry!Init
<1>3. ClusterType /\ RegistryInv
  BY <1>1, <1>2 DEF Init, ClusterType, RegistryInv
<1>4. CopyType
  <2>1. <<>> \in Seq(0 .. Burst)
    OBVIOUS
  <2>. QED
    BY <2>1 DEF Init, CopyType
<1>5. ClientType
  BY DEF Init, ClientType, CallStates
<1>6. HandlerType
  BY DEF Init, HandlerType
<1>7. CountType
  BY DEF Init, CountType
<1>8. CopyInv
  BY <1>1, <1>2 DEF Init, CopyInv
<1>9. CommandInv /\ CallInv
  BY DEF Init, CommandInv, CallInv, Open, Waiting
<1>. QED
  BY <1>3, <1>4, <1>5, <1>6, <1>7, <1>8, <1>9, TypeParts DEF TypeInv

\* Copies come, and none goes.
Grown ==
  \A n \in Nodes, l \in Requests :
    /\ Len(copies'[n][l]) >= Len(copies[n][l])
    /\ \A i \in 1 .. Len(copies[n][l]) : copies'[n][l][i] = copies[n][l][i]

\* ApplyNext puts a limiter as it was made, Restore one of any level.
LEMMA PutSteps ==
  ASSUME CopyType, NEW n \in Nodes, NEW puts \in SUBSET Requests,
         NEW level \in [Requests -> 0 .. Burst],
         copies' = [copies EXCEPT ![n] =
           [l \in Requests |-> IF l \in puts THEN Append(@[l], level[l]) ELSE @[l]]]
  PROVE  /\ CopyType'
         /\ Grown
         /\ \A l \in puts : Len(copies'[n][l]) > 0
<1>1. \A m \in Nodes, l \in Requests :
        copies'[m][l] = IF m = n /\ l \in puts THEN Append(copies[m][l], level[l]) ELSE copies[m][l]
  BY DEF CopyType
<1>2. \A m \in Nodes, l \in Requests :
        /\ copies[m][l] \in Seq(0 .. Burst)
        /\ Append(copies[m][l], level[l]) \in Seq(0 .. Burst)
        /\ Len(copies[m][l]) \in Nat
        /\ Len(Append(copies[m][l], level[l])) = Len(copies[m][l]) + 1
        /\ \A i \in 1 .. Len(copies[m][l]) : Append(copies[m][l], level[l])[i] = copies[m][l][i]
  BY DEF CopyType
<1>3. CopyType'
  BY <1>1, <1>2 DEF CopyType
<1>4. ASSUME NEW m \in Nodes, NEW l \in Requests
      PROVE  /\ Len(copies'[m][l]) >= Len(copies[m][l])
             /\ \A i \in 1 .. Len(copies[m][l]) : copies'[m][l][i] = copies[m][l][i]
  <2>1. CASE m = n /\ l \in puts
    BY <1>1, <1>2, <2>1
  <2>2. CASE ~(m = n /\ l \in puts)
    BY <1>1, <1>2, <2>2
  <2>. QED
    BY <2>1, <2>2
<1>5. ASSUME NEW l \in puts
      PROVE  Len(copies'[n][l]) > 0
  <2>1. l \in Requests
    OBVIOUS
  <2>2. copies'[n][l] = Append(copies[n][l], level[l])
    BY <1>1, <2>1
  <2>. QED
    BY <1>2, <2>1, <2>2
<1>. QED
  BY <1>3, <1>4, <1>5 DEF Grown

\* What an applied entry puts.
LEMMA ApplySteps ==
  ASSUME CopyType, ClusterType, RegistryInv, NEW n \in Nodes, ApplyNext(n)
  PROVE  /\ CopyType'
         /\ Grown
         /\ \A name \in Names : shown'[n][name] # shown[n][name] /\ shown'[n][name] # None =>
              Len(copies'[n][shown'[n][name].limiter]) > 0
<1>. DEFINE puts == {l \in Requests :
               \E name \in Names : shown'[n][name] # shown[n][name] /\ shown'[n][name].limiter = l}
            level == [l \in Requests |-> Burst]
<1>1. copies' = [copies EXCEPT ![n] =
        [l \in Requests |-> IF l \in puts THEN Append(@[l], level[l]) ELSE @[l]]]
  BY DEF ApplyNext
<1>2. puts \in SUBSET Requests /\ level \in [Requests -> 0 .. Burst]
  OBVIOUS
<1>3. shown' \in [Nodes -> Registries]
  BY FollowSteps DEF ApplyNext, ClusterType, RegistryInv
<1>4. \A name \in Names : shown'[n][name] # shown[n][name] /\ shown'[n][name] # None =>
        shown'[n][name].limiter \in puts
  BY <1>3 DEF Registries, Resource
<1>. HIDE DEF puts, level
<1>. QED
  BY <1>1, <1>2, <1>4, PutSteps

\* What a snapshot puts.
LEMMA RestoreSteps ==
  ASSUME CopyType, ClusterType, RegistryInv, NEW n \in Nodes, Restore(n)
  PROVE  /\ CopyType'
         /\ Grown
         /\ \A name \in Names : shown'[n][name] # None =>
              Len(copies'[n][shown'[n][name].limiter]) > 0
<1>. DEFINE puts == {l \in Requests :
               \E name \in Names : shown'[n][name] # None /\ shown'[n][name].limiter = l}
<1>1. PICK level \in [Requests -> 0 .. Burst] : copies' = [copies EXCEPT ![n] =
        [l \in Requests |-> IF l \in puts THEN Append(@[l], level[l]) ELSE @[l]]]
  BY DEF Restore
<1>2. puts \in SUBSET Requests
  OBVIOUS
<1>3. shown' \in [Nodes -> Registries]
  BY FollowSteps DEF Restore, ClusterType, RegistryInv
<1>4. \A name \in Names : shown'[n][name] # None => shown'[n][name].limiter \in puts
  BY <1>3 DEF Registries, Resource
<1>. HIDE DEF puts
<1>. QED
  BY <1>1, <1>2, <1>4, PutSteps

\* Copies that come leave the limiters that handlers hold where they are.
LEMMA CopiesKept ==
  ASSUME CopyType, HandlerType, CopyInv, CopyType', Grown,
         shown' \in [Nodes -> Registries],
         \A n \in Nodes, name \in Names : shown'[n][name] # None =>
           shown'[n][name] = shown[n][name] \/ Len(copies'[n][shown'[n][name].limiter]) > 0,
         up \subseteq Nodes,
         \A k \in Commands : held[k] # None => here[k] # None,
         \A k \in Commands : held'[k] # None => held'[k] = held[k] /\ here'[k] = here[k]
  PROVE  CopyInv'
<1>1. ASSUME NEW n \in Nodes, NEW name \in Names, shown'[n][name] # None
      PROVE  Len(copies'[n][shown'[n][name].limiter]) > 0
  <2>1. CASE shown'[n][name] = shown[n][name]
    <3>1. Len(copies[n][shown[n][name].limiter]) > 0
      BY <1>1, <2>1 DEF CopyInv
    <3>2. shown[n][name].limiter \in Requests
      BY <1>1, <2>1 DEF Registries, Resource
    <3>3. Len(copies'[n][shown[n][name].limiter]) >= Len(copies[n][shown[n][name].limiter])
      BY <3>2 DEF Grown
    <3>4. Len(copies'[n][shown[n][name].limiter]) \in Nat /\ Len(copies[n][shown[n][name].limiter]) \in Nat
      BY <3>2 DEF CopyType
    <3>. QED
      BY <2>1, <3>1, <3>3, <3>4
  <2>. QED
    BY <1>1, <2>1
<1>2. ASSUME NEW k \in Commands, held'[k] # None
      PROVE  held'[k].copy <= Len(copies'[here'[k]][held'[k].limiter])
  <2>1. held'[k] = held[k] /\ here'[k] = here[k] /\ held[k] \in Held /\ here[k] \in Nodes
    BY <1>2 DEF HandlerType
  <2>2. held[k].copy <= Len(copies[here[k]][held[k].limiter])
    BY <1>2, <2>1 DEF CopyInv
  <2>3. held[k].limiter \in Requests /\ held[k].copy \in Nat
    BY <2>1 DEF Held
  <2>4. Len(copies'[here[k]][held[k].limiter]) >= Len(copies[here[k]][held[k].limiter])
    BY <2>1, <2>3 DEF Grown
  <2>5. Len(copies'[here[k]][held[k].limiter]) \in Nat /\ Len(copies[here[k]][held[k].limiter]) \in Nat
    BY <2>1, <2>3 DEF CopyType
  <2>6. held[k].copy <= Len(copies'[here[k]][held[k].limiter])
    <3>. DEFINE a == held[k].copy
                b == Len(copies[here[k]][held[k].limiter])
                d == Len(copies'[here[k]][held[k].limiter])
    <3>1. a \in Nat /\ b \in Nat /\ d \in Nat /\ a <= b /\ d >= b
      BY <2>2, <2>3, <2>4, <2>5
    <3>. HIDE DEF a, b, d
    <3>2. a <= d
      BY <3>1
    <3>. QED
      BY <3>2 DEF a, d
  <2>. QED
    BY <2>1, <2>6
<1>. QED
  BY <1>1, <1>2 DEF CopyInv

\* The store stays, and so do the copies.
LEMMA SameCluster ==
  ASSUME TypeInv, UNCHANGED clusterVars, UNCHANGED copies,
         \A k \in Commands : held'[k] # None => held'[k] = held[k] /\ here'[k] = here[k]
  PROVE  ClusterType' /\ RegistryInv' /\ CopyType' /\ CopyInv'
<1>1. ClusterType /\ CopyType /\ HandlerType /\ RegistryInv /\ CopyInv
  BY TypeParts DEF TypeInv
<1>2. UNCHANGED <<history, position, shown, up, faults>>
  BY DEF clusterVars, registryVars
<1>3. ClusterType' /\ RegistryInv' /\ CopyType'
  BY <1>1, <1>2 DEF ClusterType, RegistryInv, CopyType
<1>4. Grown
  BY <1>1 DEF Grown, CopyType
<1>5. \A k \in Commands : held[k] # None => here[k] # None
  BY DEF TypeInv, CommandInv
<1>6. CopyInv'
  BY <1>1, <1>2, <1>3, <1>4, <1>5, CopiesKept DEF ClusterType, RegistryInv
<1>. QED
  BY <1>3, <1>6


\* What TypeInv says, in the parts that actions change.
LEMMA TypeInvParts ==
  ASSUME TypeInv
  PROVE  /\ ClusterType /\ CopyType /\ ClientType /\ HandlerType /\ CountType
         /\ RegistryInv /\ CopyInv /\ CommandInv /\ CallInv
BY TypeParts DEF TypeInv

\* The steps of the cluster that leave the client and the handlers alone.
LEMMA ClusterSteps ==
  ASSUME TypeInv, ClusterType', RegistryInv', CopyType', CopyInv', up \subseteq up',
         UNCHANGED clientVars, UNCHANGED handlerVars, UNCHANGED <<charged, granted>>, Unsettle
  PROVE  TypeInv'
<1>1. HandlerType /\ ClientType /\ CountType /\ CommandInv /\ CallInv
  BY TypeInvParts
<1>2. /\ UNCHANGED <<pc, asked, at, to, bound, retries, givenUp>>
      /\ UNCHANGED <<cmd, from, answer, here, via, held, told>>
  BY DEF clientVars, handlerVars
<1>3. ClientType' /\ CallInv'
  BY <1>1, <1>2 DEF ClientType, CallInv, Open, Waiting
<1>4. HandlerType'
  BY <1>1, <1>2 DEF HandlerType
<1>5. CommandInv'
  BY <1>1, <1>2 DEF CommandInv
<1>6. CountType'
  BY <1>1 DEF CountType, Unsettle
<1>. QED
  BY <1>3, <1>4, <1>5, <1>6, TypePartsNext DEF TypeInv

\* The steps of the client and of the handlers that leave the cluster alone.
LEMMA CallSteps ==
  ASSUME TypeInv, UNCHANGED clusterVars, UNCHANGED <<copies, charged, granted>>,
         ClientType', CallInv', HandlerType', CommandInv', settled' \in [Calls -> BOOLEAN],
         \A k \in Commands : held'[k] # None => held'[k] = held[k] /\ here'[k] = here[k]
  PROVE  TypeInv'
<1>1. CountType
  BY TypeInvParts
<1>2. CountType'
  BY <1>1 DEF CountType
<1>3. ClusterType' /\ RegistryInv' /\ CopyType' /\ CopyInv'
  BY SameCluster
<1>. QED
  BY <1>2, <1>3, TypePartsNext DEF TypeInv

\* A command leaves its place when there is nothing left of it.
LEMMA Cleared ==
  ASSUME HandlerType, CommandInv, Clear,
         \A k \in Commands :
           here'[k] # None \/ from'[k] # None \/ answer'[k] # None =>
             here[k] # None \/ from[k] # None \/ answer[k] # None
  PROVE  /\ cmd' \in [Commands -> Command \cup {None}]
         /\ \A k \in Commands :
              /\ cmd'[k] = None <=> here'[k] = None /\ from'[k] = None /\ answer'[k] = None
              /\ cmd'[k] # None => cmd'[k] = cmd[k]
<1>1. \A k \in Commands :
        cmd'[k] = IF here'[k] = None /\ from'[k] = None /\ answer'[k] = None THEN None ELSE cmd[k]
  BY DEF Clear
<1>2. cmd' = [k \in Commands |-> cmd'[k]]
  BY DEF Clear
<1>3. \A k \in Commands : cmd[k] \in Command \cup {None}
  BY DEF HandlerType
<1>4. cmd' \in [Commands -> Command \cup {None}]
  BY <1>1, <1>2, <1>3
<1>5. ASSUME NEW k \in Commands
      PROVE  /\ cmd'[k] = None <=> here'[k] = None /\ from'[k] = None /\ answer'[k] = None
             /\ cmd'[k] # None => cmd'[k] = cmd[k]
  <2>1. cmd[k] = None <=> here[k] = None /\ from[k] = None /\ answer[k] = None
    BY DEF CommandInv
  <2>. QED
    BY <1>1, <2>1
<1>. QED
  BY <1>4, <1>5

-----------------------------------------------------------------------------
(* Steps of the registry keep the types.                                   *)

LEMMA RegisterTypes ==
  ASSUME TypeInv, NEW q \in Requests, NEW n \in Nodes, NEW name \in Names, Register(q, n, name)
  PROVE  TypeInv'
<1>1. ClusterType /\ CopyType /\ RegistryInv /\ CopyInv
  BY TypeInvParts
<1>2. history \in Seq(Registries)
  BY <1>1 DEF ClusterType
<1>3. ClusterType'
  <2>1. /\ UNCHANGED <<position, shown, up, faults>>
        /\ history' \in Seq(Registries)
        /\ Len(history') = Len(history) + 1
        /\ \A i \in 1 .. Len(history) : history'[i] = history[i]
    BY <1>2, RegisterSteps
  <2>. QED
    BY <1>1, <2>1 DEF ClusterType
<1>4. RegistryInv'
  <2>1. /\ UNCHANGED shown
        /\ Len(history') = Len(history) + 1
        /\ \A i \in 1 .. Len(history) : history'[i] = history[i]
    BY <1>2, RegisterSteps
  <2>. QED
    BY <1>1, <1>2, <2>1 DEF RegistryInv
<1>5. /\ UNCHANGED <<up, shown, copies, held, here>>
      /\ UNCHANGED clientVars /\ UNCHANGED handlerVars /\ UNCHANGED <<charged, granted>>
      /\ Unsettle
  BY <1>2, RegisterSteps DEF Register, handlerVars
<1>6. CopyType' /\ CopyInv'
  BY <1>1, <1>5 DEF CopyType, CopyInv
<1>. QED
  BY <1>3, <1>4, <1>5, <1>6, ClusterSteps

LEMMA ApplyTypes ==
  ASSUME TypeInv, NEW n \in Nodes, ApplyNext(n) \/ Restore(n)
  PROVE  TypeInv'
<1>1. ClusterType /\ CopyType /\ HandlerType /\ RegistryInv /\ CopyInv /\ CommandInv
  BY TypeInvParts
<1>2. /\ Registry!Follow(n) /\ UNCHANGED up /\ Unsettle
      /\ UNCHANGED clientVars /\ UNCHANGED handlerVars /\ UNCHANGED <<charged, granted>>
  BY DEF ApplyNext, Restore
<1>3. UNCHANGED <<held, here>>
  BY <1>2 DEF handlerVars
<1>4. /\ UNCHANGED history
      /\ position' \in [Nodes -> 1 .. Len(history)]
      /\ shown' \in [Nodes -> Registries]
      /\ \A m \in Nodes : shown'[m] = history[position'[m]]
      /\ \A m \in Nodes \ {n} : shown'[m] = shown[m]
  BY <1>1, <1>2, FollowSteps DEF ClusterType, RegistryInv
<1>5. faults' \in 0 .. MaxFaults
  BY <1>1 DEF ClusterType, ApplyNext, Restore
<1>6. ClusterType' /\ RegistryInv'
  BY <1>1, <1>2, <1>4, <1>5 DEF ClusterType, RegistryInv
<1>7. CopyType' /\ Grown
  BY <1>1, ApplySteps, RestoreSteps
<1>8. \A m \in Nodes, name \in Names : shown'[m][name] # None =>
        shown'[m][name] = shown[m][name] \/ Len(copies'[m][shown'[m][name].limiter]) > 0
  BY <1>1, <1>4, ApplySteps, RestoreSteps
<1>9. CopyInv'
  BY <1>1, <1>3, <1>4, <1>7, <1>8, CopiesKept DEF ClusterType, CommandInv
<1>. QED
  BY <1>2, <1>6, <1>7, <1>9, ClusterSteps

LEMMA RestartTypes ==
  ASSUME TypeInv, NEW n \in Nodes, Restart(n)
  PROVE  TypeInv'
<1>1. ClusterType /\ CopyType /\ RegistryInv /\ CopyInv
  BY TypeInvParts
<1>2. /\ UNCHANGED <<history, position, shown, faults, copies, held, here>>
      /\ UNCHANGED clientVars /\ UNCHANGED handlerVars /\ UNCHANGED <<charged, granted>>
      /\ up' = up \cup {n}
      /\ Unsettle
  BY DEF Restart, registryVars, handlerVars
<1>3. ClusterType' /\ CopyType' /\ RegistryInv' /\ CopyInv'
  BY <1>1, <1>2 DEF ClusterType, CopyType, RegistryInv, CopyInv
<1>. QED
  BY <1>2, <1>3, ClusterSteps

\* What becomes of the commands when a node dies.
LEMMA CrashSteps ==
  ASSUME TypeInv, NEW n \in Nodes, Crash(n)
  PROVE  /\ HandlerType' /\ CommandInv'
         /\ \A k \in Commands :
              /\ cmd'[k] # None => cmd'[k] = cmd[k]
              /\ held'[k] # None => held'[k] = held[k] /\ here'[k] = here[k]
              /\ told'[k] # None => told'[k] = told[k]
              /\ from'[k] # None => from'[k] = from[k] /\ from[k] # n /\ answer'[k] = answer[k]
              /\ answer'[k] # None =>
                   \/ answer'[k] = answer[k] /\ answer[k].on # n
                   \/ from[k] \notin {None, n} /\ answer'[k] = [on |-> from[k], msg |-> None]
         /\ \A c \in Calls :
              \/ pc'[c] = pc[c] /\ at'[c] = at[c] /\ ~(Waiting(c) /\ at[c] = n)
              \/ pc'[c] = "error" /\ at'[c] = None /\ Waiting(c) /\ at[c] = n
<1>. DEFINE failed == {k \in Commands : from[k] \notin {None, n} /\ n \in via[k] \cup {here[k]}}
            dead == {k \in Commands : here[k] = n}
<1>1. ClusterType /\ HandlerType /\ CommandInv
  BY TypeInvParts
<1>2. \A k \in Commands :
        /\ from'[k] = IF from[k] = n \/ k \in failed THEN None ELSE from[k]
        /\ answer'[k] = IF k \in failed THEN [on |-> from[k], msg |-> None]
                        ELSE IF k \in Unread(n) THEN None ELSE answer[k]
        /\ here'[k] = IF k \in dead THEN None ELSE here[k]
        /\ held'[k] = IF k \in dead THEN None ELSE held[k]
        /\ told'[k] = IF k \in dead THEN None ELSE told[k]
        /\ via'[k] = IF k \in dead THEN {} ELSE via[k]
  BY DEF Crash
<1>3. /\ from' = [k \in Commands |-> from'[k]] /\ answer' = [k \in Commands |-> answer'[k]]
      /\ here' = [k \in Commands |-> here'[k]] /\ held' = [k \in Commands |-> held'[k]]
      /\ told' = [k \in Commands |-> told'[k]] /\ via' = [k \in Commands |-> via'[k]]
      /\ up' = up \ {n} /\ Clear
  BY DEF Crash
<1>4. \A k \in failed : from[k] \in Nodes /\ from[k] # n /\ [on |-> from[k], msg |-> None] \in AnswerOn
  <2>1. \A k \in failed : from[k] \in Nodes /\ from[k] # n
    BY <1>1 DEF HandlerType
  <2>. QED
    BY <2>1 DEF AnswerOn
<1>5. \A k \in Commands :
        here'[k] # None \/ from'[k] # None \/ answer'[k] # None =>
          here[k] # None \/ from[k] # None \/ answer[k] # None
  BY <1>2
<1>6. /\ cmd' \in [Commands -> Command \cup {None}]
      /\ \A k \in Commands :
           /\ cmd'[k] = None <=> here'[k] = None /\ from'[k] = None /\ answer'[k] = None
           /\ cmd'[k] # None => cmd'[k] = cmd[k]
  BY <1>1, <1>3, <1>5, Cleared
<1>7. HandlerType'
  <2>1. here' \in [Commands -> up' \cup {None}]
    BY <1>1, <1>2, <1>3 DEF HandlerType
  <2>2. held' \in [Commands -> Held \cup {None}] /\ told' \in [Commands -> Nodes \cup {None}]
        /\ via' \in [Commands -> SUBSET Nodes]
    BY <1>1, <1>2, <1>3 DEF HandlerType
  <2>3. from' \in [Commands -> Nodes \cup {None}]
    BY <1>1, <1>2, <1>3 DEF HandlerType
  <2>4. answer' \in [Commands -> AnswerOn \cup {None}]
    <3>1. \A k \in Commands : answer[k] \in AnswerOn \cup {None}
      BY <1>1 DEF HandlerType
    <3>2. \A k \in Commands : answer'[k] \in AnswerOn \cup {None}
      BY <1>2, <1>4, <3>1
    <3>. QED
      BY <1>3, <3>2
  <2>. QED
    BY <1>6, <2>1, <2>2, <2>3, <2>4 DEF HandlerType
<1>8. \A k \in Commands :
        /\ held'[k] # None => held'[k] = held[k] /\ here'[k] = here[k]
        /\ told'[k] # None => told'[k] = told[k]
  BY <1>2
<1>9. ASSUME NEW k \in Commands, from'[k] # None
      PROVE  from'[k] = from[k] /\ from[k] # n /\ answer'[k] = answer[k] /\ answer[k] = None
             /\ k \notin failed /\ here[k] # n
  <2>1. from'[k] = from[k] /\ from[k] # n /\ k \notin failed
    BY <1>2, <1>9
  <2>2. answer[k] = None
    BY <1>1, <1>9, <2>1 DEF CommandInv
  <2>3. answer'[k] = answer[k]
    BY <1>2, <2>1, <2>2
  <2>4. here[k] # n
    BY <1>9, <2>1
  <2>. QED
    BY <2>1, <2>2, <2>3, <2>4
<1>10. ASSUME NEW k \in Commands, answer'[k] # None
       PROVE  \/ answer'[k] = answer[k] /\ answer[k].on # n
              \/ from[k] \notin {None, n} /\ answer'[k] = [on |-> from[k], msg |-> None]
  BY <1>2, <1>10 DEF Unread
<1>11. \A c \in Calls :
         \/ pc'[c] = pc[c] /\ at'[c] = at[c] /\ ~(Waiting(c) /\ at[c] = n)
         \/ pc'[c] = "error" /\ at'[c] = None /\ Waiting(c) /\ at[c] = n
  BY DEF Crash
<1>12. CommandInv'
  <2>1. ASSUME NEW k \in Commands
        PROVE  /\ here'[k] = None => held'[k] = None /\ told'[k] = None /\ via'[k] = {}
                                     /\ from'[k] = None
               /\ from'[k] # None => answer'[k] = None
    <3>1. here[k] = None => held[k] = None /\ told[k] = None /\ via[k] = {} /\ from[k] = None
      BY <1>1 DEF CommandInv
    <3>2. from'[k] # None => answer'[k] = None /\ here'[k] = here[k] /\ from[k] # None
      BY <1>2, <1>9
    <3>3. here'[k] = None => held'[k] = None /\ told'[k] = None /\ via'[k] = {}
      BY <1>2, <3>1
    <3>. QED
      BY <3>1, <3>2, <3>3
  <2>2. ASSUME NEW k \in Commands, held'[k] # None
        PROVE  cmd'[k].op = "Allow"
    <3>1. held[k] # None /\ here[k] # None /\ here'[k] = here[k]
      BY <1>1, <1>8, <2>2 DEF CommandInv
    <3>2. cmd'[k] = cmd[k]
      BY <1>6, <3>1
    <3>. QED
      BY <1>1, <3>1, <3>2 DEF CommandInv
  <2>3. ASSUME NEW k \in Commands, cmd'[k] # None
        PROVE  pc'[cmd'[k].call] # "new"
    <3>1. cmd'[k] = cmd[k] /\ cmd[k] # None
      BY <1>6, <2>3
    <3>2. cmd[k].call \in Calls
      BY <1>1, <3>1 DEF HandlerType, Command
    <3>. QED
      BY <1>1, <1>11, <3>1, <3>2 DEF CommandInv
  <2>. QED
    BY <1>6, <2>1, <2>2, <2>3 DEF CommandInv
<1>. HIDE DEF failed, dead
<1>. QED
  BY <1>6, <1>7, <1>8, <1>9, <1>10, <1>11, <1>12

LEMMA CrashTypes ==
  ASSUME TypeInv, NEW n \in Nodes, Crash(n)
  PROVE  TypeInv'
<1>1. ClusterType /\ CopyType /\ ClientType /\ HandlerType /\ CountType /\ RegistryInv
      /\ CopyInv /\ CommandInv /\ CallInv
  BY TypeInvParts
<1>2. /\ Registry!Forget(n) /\ up' = up \ {n} /\ Unsettle
      /\ UNCHANGED <<copies, asked, to, bound, retries, charged, granted, givenUp>>
      /\ faults < MaxFaults /\ faults' = faults + 1
  BY DEF Crash
<1>3. /\ UNCHANGED history
      /\ position' \in [Nodes -> 1 .. Len(history)]
      /\ shown' \in [Nodes -> Registries]
      /\ \A m \in Nodes : shown'[m] = history[position'[m]]
      /\ shown'[n] = EmptyRegistry
      /\ \A m \in Nodes \ {n} : shown'[m] = shown[m]
  BY <1>1, <1>2, ForgetSteps DEF ClusterType, RegistryInv
<1>4. ClusterType' /\ RegistryInv'
  BY <1>1, <1>2, <1>3 DEF ClusterType, RegistryInv
<1>5. /\ pc' = [c \in Calls |-> pc'[c]] /\ at' = [c \in Calls |-> at'[c]]
      /\ \A c \in Calls :
           \/ pc'[c] = pc[c] /\ at'[c] = at[c]
           \/ pc'[c] = "error" /\ at'[c] = None /\ Waiting(c)
  BY CrashSteps DEF Crash
<1>6. ClientType'
  BY <1>1, <1>2, <1>5 DEF ClientType, CallStates
<1>7. CallInv'
  BY <1>1, <1>2, <1>5 DEF CallInv, Open, Waiting
<1>8. CountType' /\ CopyType' /\ Grown
  BY <1>1, <1>2 DEF CountType, CopyType, Unsettle, Grown
<1>9. /\ HandlerType' /\ CommandInv'
      /\ \A k \in Commands : held'[k] # None => held'[k] = held[k] /\ here'[k] = here[k]
  BY CrashSteps
<1>10. \A m \in Nodes, name \in Names : shown'[m][name] # None => shown'[m][name] = shown[m][name]
  BY <1>3 DEF EmptyRegistry
<1>11. CopyInv'
  <2>1. \A k \in Commands : held[k] # None => here[k] # None
    BY <1>1 DEF CommandInv
  <2>. QED
    BY <1>1, <1>3, <1>8, <1>9, <1>10, <2>1, CopiesKept DEF ClusterType
<1>. QED
  BY <1>4, <1>6, <1>7, <1>8, <1>9, <1>11, TypePartsNext DEF TypeInv

-----------------------------------------------------------------------------
(* So do those of the client.                                              *)

\* A call has a command in a free place, and waits.
LEMMA SendSteps ==
  ASSUME TypeInv, NEW c \in Calls, NEW n \in Nodes, NEW name \in Names,
         NEW op \in {"Allow", "RegRes"}, SendCmd(c, n, op, name)
  PROVE  /\ UNCHANGED <<history, position, shown, up, faults, copies, charged, granted>>
         /\ UNCHANGED <<to, bound, retries, givenUp, answer, via, held, told>>
         /\ n \in up /\ \A d \in Calls : Waiting(d) => at[d] # n
         /\ pc'[c] = op /\ asked'[c] = name /\ at'[c] = n
         /\ \A d \in Calls \ {c} : pc'[d] = pc[d] /\ asked'[d] = asked[d] /\ at'[d] = at[d]
         /\ \E k \in Commands :
              /\ from[k] = None /\ here[k] = None /\ answer[k] = None /\ held[k] = None
              /\ told[k] = None /\ via[k] = {}
              /\ cmd'[k].call = c /\ cmd'[k].op = op /\ cmd'[k].name = name /\ cmd'[k] # None
              /\ from'[k] = n /\ here'[k] = n
              /\ \A j \in Commands \ {k} : cmd'[j] = cmd[j] /\ from'[j] = from[j] /\ here'[j] = here[j]
         /\ ClientType' /\ CallInv' /\ HandlerType' /\ CommandInv'
<1>1. ClientType /\ CallInv /\ HandlerType /\ CommandInv
  BY TypeInvParts
<1>2. /\ UNCHANGED clusterVars
      /\ UNCHANGED <<copies, to, bound, retries, givenUp, answer, via, held, told, charged, granted>>
      /\ pc' = [pc EXCEPT ![c] = op] /\ asked' = [asked EXCEPT ![c] = name]
      /\ at' = [at EXCEPT ![c] = n]
      /\ n \in up /\ \A d \in Calls : Waiting(d) => at[d] # n
  BY DEF SendCmd
<1>3. UNCHANGED <<history, position, shown, up, faults>>
  BY <1>2 DEF clusterVars, registryVars
<1>4. /\ pc'[c] = op /\ asked'[c] = name /\ at'[c] = n
      /\ \A d \in Calls \ {c} : pc'[d] = pc[d] /\ asked'[d] = asked[d] /\ at'[d] = at[d]
  BY <1>1, <1>2 DEF ClientType
<1>. DEFINE new == [call |-> c, op |-> op, name |-> name]
<1>5. PICK k \in Commands :
        /\ cmd[k] = None
        /\ cmd' = [cmd EXCEPT ![k] = new]
        /\ from' = [from EXCEPT ![k] = n]
        /\ here' = [here EXCEPT ![k] = n]
  BY DEF SendCmd
<1>6. new \in Command /\ new # None /\ new.call = c /\ new.op = op /\ new.name = name
  BY DEF Command
<1>. HIDE DEF new
<1>7. /\ from[k] = None /\ here[k] = None /\ answer[k] = None /\ held[k] = None
      /\ told[k] = None /\ via[k] = {}
  BY <1>1, <1>5 DEF CommandInv
<1>8. /\ cmd'[k] = new /\ from'[k] = n /\ here'[k] = n
      /\ \A j \in Commands \ {k} : cmd'[j] = cmd[j] /\ from'[j] = from[j] /\ here'[j] = here[j]
  BY <1>1, <1>5 DEF HandlerType
<1>9. ClientType'
  BY <1>1, <1>2 DEF ClientType, CallStates
<1>10. CallInv'
  BY <1>1, <1>2, <1>4 DEF CallInv, Open, Waiting
<1>11. HandlerType'
  BY <1>1, <1>2, <1>3, <1>5, <1>6 DEF HandlerType
<1>12. CommandInv'
  <2>1. \A j \in Commands \ {k} : cmd[j] # None => cmd[j].call \in Calls
    BY <1>1 DEF HandlerType, Command
  <2>. QED
    BY <1>1, <1>2, <1>4, <1>6, <1>7, <1>8, <2>1 DEF CommandInv
<1>13. \E j \in Commands :
              /\ from[j] = None /\ here[j] = None /\ answer[j] = None /\ held[j] = None
              /\ told[j] = None /\ via[j] = {}
              /\ cmd'[j].call = c /\ cmd'[j].op = op /\ cmd'[j].name = name /\ cmd'[j] # None
              /\ from'[j] = n /\ here'[j] = n
              /\ \A i \in Commands \ {j} : cmd'[i] = cmd[i] /\ from'[i] = from[i] /\ here'[i] = here[i]
  BY <1>6, <1>7, <1>8
<1>. QED
  BY <1>2, <1>3, <1>4, <1>9, <1>10, <1>11, <1>12, <1>13

LEMMA SendTypes ==
  ASSUME TypeInv, NEW c \in Calls, NEW n \in Nodes, NEW name \in Names,
         Allow(c, n, name) \/ RegisterTokenBucket(c, n, name)
  PROVE  TypeInv'
<1>1. PICK op \in {"Allow", "RegRes"} : SendCmd(c, n, op, name)
  BY DEF Allow, RegisterTokenBucket
<1>2. UNCHANGED clusterVars /\ UNCHANGED <<copies, charged, granted>>
  BY <1>1 DEF SendCmd
<1>3. ClientType' /\ CallInv' /\ HandlerType' /\ CommandInv'
  BY <1>1, SendSteps
<1>4. settled' \in [Calls -> BOOLEAN]
  <2>1. settled \in [Calls -> BOOLEAN]
    BY TypeInvParts DEF CountType
  <2>2. Quiet \in BOOLEAN
    BY DEF Quiet
  <2>3. settled' = [settled EXCEPT ![c] = Quiet] \/ settled' = settled
    BY DEF Allow, RegisterTokenBucket
  <2>. QED
    BY <2>1, <2>2, <2>3
<1>5. \A k \in Commands : held'[k] # None => held'[k] = held[k] /\ here'[k] = here[k]
  <2>1. UNCHANGED held
    BY <1>1, SendSteps
  <2>2. CommandInv
    BY TypeInvParts
  <2>3. PICK k \in Commands : held[k] = None /\ \A j \in Commands \ {k} : here'[j] = here[j]
    BY <1>1, SendSteps
  <2>. QED
    BY <2>1, <2>3
<1>. QED
  BY <1>2, <1>3, <1>4, <1>5, CallSteps

\* A step of a call that leaves the commands alone.
LEMMA CallTypes ==
  ASSUME TypeInv, NEW c \in Calls, UNCHANGED clusterVars, UNCHANGED <<copies, charged, granted>>,
         UNCHANGED handlerVars, ClientType', CallInv', settled' \in [Calls -> BOOLEAN],
         \A d \in Calls : pc[d] # "new" => pc'[d] # "new"
  PROVE  TypeInv'
<1>1. HandlerType /\ CommandInv
  BY TypeInvParts
<1>2. UNCHANGED <<cmd, from, answer, here, via, held, told>> /\ UNCHANGED up
  BY DEF handlerVars, clusterVars
<1>3. HandlerType'
  BY <1>1, <1>2 DEF HandlerType
<1>4. CommandInv'
  <2>1. \A k \in Commands : cmd[k] # None => cmd[k].call \in Calls
    BY <1>1 DEF HandlerType, Command
  <2>. QED
    BY <1>1, <1>2, <2>1 DEF CommandInv
<1>. QED
  BY <1>2, <1>3, <1>4, CallSteps

\* A call that returns.
LEMMA ReturnSteps ==
  ASSUME TypeInv, NEW c \in Calls, NEW result \in {"ok", "refused", "registered", "error", "retry"},
         Return(c, result)
  PROVE  /\ pc' \in [Calls -> CallStates]
         /\ at' \in [Calls -> Nodes \cup {None}]
         /\ to' \in [Calls -> Nodes \cup {None}]
         /\ pc'[c] = result /\ at'[c] = None /\ to'[c] = None
         /\ \A d \in Calls \ {c} : pc'[d] = pc[d] /\ at'[d] = at[d] /\ to'[d] = to[d]
BY TypeInvParts DEF ClientType, CallStates, Return

\* A call that fails before it sends, or before it binds.
LEMMA FailTypes ==
  ASSUME TypeInv, NEW c \in Calls, SendFails(c) \/ BindFails(c)
  PROVE  TypeInv'
<1>1. ClientType /\ CallInv /\ settled \in [Calls -> BOOLEAN]
  BY TypeInvParts DEF CountType
<1>2. /\ Return(c, "error") /\ settled' = [settled EXCEPT ![c] = FALSE]
      /\ UNCHANGED clusterVars /\ UNCHANGED <<copies, charged, granted>> /\ UNCHANGED handlerVars
      /\ UNCHANGED <<asked, bound, retries, givenUp>>
  BY DEF SendFails, BindFails
<1>3. ClientType'
  BY <1>1, <1>2, ReturnSteps DEF ClientType
<1>4. /\ pc'[c] = "error"
      /\ \A d \in Calls \ {c} : pc'[d] = pc[d] /\ at'[d] = at[d] /\ to'[d] = to[d]
  BY <1>2, ReturnSteps
<1>5. CallInv'
  BY <1>1, <1>2, <1>4 DEF CallInv, Open, Waiting
<1>6. settled' \in [Calls -> BOOLEAN]
  BY <1>1, <1>2
<1>. QED
  BY <1>2, <1>3, <1>4, <1>5, <1>6, CallTypes

LEMMA BindSteps ==
  ASSUME TypeInv, NEW c \in Calls, Bind(c)
  PROVE  /\ pc[c] \in {"redirected", "placed"}
         /\ asked[c] \in Names /\ to[c] \in Nodes
         /\ UNCHANGED clusterVars /\ UNCHANGED <<copies, charged, granted>> /\ UNCHANGED handlerVars
         /\ UNCHANGED <<asked, givenUp>>
         /\ \A name \in Names : bound'[name] = IF name = asked[c] THEN to[c] ELSE bound[name]
         /\ pc[c] = "redirected" => /\ pc'[c] = "retry" /\ retries'[c] = retries[c] + 1
                                    /\ settled'[c] = settled[c]
         /\ pc[c] = "placed" => pc'[c] = "registered" /\ retries'[c] = retries[c] /\ ~settled'[c]
         /\ to'[c] = None
         /\ \A d \in Calls \ {c} : /\ pc'[d] = pc[d] /\ at'[d] = at[d] /\ to'[d] = to[d]
                                   /\ retries'[d] = retries[d] /\ settled'[d] = settled[d]
         /\ ClientType' /\ settled' \in [Calls -> BOOLEAN]
<1>1. ClientType /\ CallInv /\ settled \in [Calls -> BOOLEAN]
  BY TypeInvParts DEF CountType
<1>2. /\ pc[c] \in {"redirected", "placed"}
      /\ UNCHANGED clusterVars /\ UNCHANGED <<copies, charged, granted>> /\ UNCHANGED handlerVars
      /\ UNCHANGED <<asked, givenUp>>
      /\ bound' = [bound EXCEPT ![asked[c]] = to[c]]
  BY DEF Bind
<1>3. asked[c] \in Names /\ to[c] \in Nodes
  BY <1>1, <1>2 DEF CallInv, Open
<1>4. /\ bound' \in [Names -> Nodes \cup {None}]
      /\ \A name \in Names : bound'[name] = IF name = asked[c] THEN to[c] ELSE bound[name]
  BY <1>1, <1>2, <1>3 DEF ClientType
<1>5. CASE pc[c] = "redirected"
  <2>1. Return(c, "retry") /\ retries' = [retries EXCEPT ![c] = @ + 1] /\ UNCHANGED settled
    BY <1>5 DEF Bind
  <2>2. /\ retries' \in [Calls -> Nat] /\ retries'[c] = retries[c] + 1
        /\ \A d \in Calls \ {c} : retries'[d] = retries[d]
    BY <1>1, <2>1 DEF ClientType
  <2>3. ClientType'
    BY <1>1, <1>2, <1>4, <2>1, <2>2, ReturnSteps DEF ClientType
  <2>4. /\ pc'[c] = "retry" /\ to'[c] = None
        /\ \A d \in Calls \ {c} : pc'[d] = pc[d] /\ at'[d] = at[d] /\ to'[d] = to[d]
    BY <2>1, ReturnSteps
  <2>. QED
    BY <1>1, <1>2, <1>3, <1>4, <1>5, <2>1, <2>2, <2>3, <2>4
<1>6. CASE pc[c] = "placed"
  <2>1. /\ Return(c, "registered") /\ settled' = [settled EXCEPT ![c] = FALSE]
        /\ UNCHANGED retries
    BY <1>6 DEF Bind
  <2>2. /\ settled' \in [Calls -> BOOLEAN] /\ ~settled'[c]
        /\ \A d \in Calls \ {c} : settled'[d] = settled[d]
    BY <1>1, <2>1
  <2>3. ClientType'
    BY <1>1, <1>2, <1>4, <2>1, ReturnSteps DEF ClientType
  <2>4. /\ pc'[c] = "registered" /\ to'[c] = None
        /\ \A d \in Calls \ {c} : pc'[d] = pc[d] /\ at'[d] = at[d] /\ to'[d] = to[d]
    BY <2>1, ReturnSteps
  <2>. QED
    BY <1>2, <1>3, <1>4, <1>6, <2>1, <2>2, <2>3, <2>4
<1>. QED
  BY <1>2, <1>5, <1>6

LEMMA BindTypes ==
  ASSUME TypeInv, NEW c \in Calls, Bind(c)
  PROVE  TypeInv'
<1>1. ClientType /\ CallInv
  BY TypeInvParts
<1>2. CallInv'
  BY <1>1, BindSteps DEF CallInv, Open, Waiting
<1>3. \A d \in Calls : pc[d] # "new" => pc'[d] # "new"
  BY BindSteps
<1>. QED
  BY <1>2, <1>3, BindSteps, CallTypes

\* The answers in lost are read or left behind, and nothing else happens to commands.
LEMMA LostSteps ==
  ASSUME TypeInv, NEW lost \in SUBSET Commands,
         answer' = [k \in Commands |-> IF k \in lost THEN None ELSE answer[k]],
         UNCHANGED <<from, here, via, held, told>>, Clear, UNCHANGED up,
         \A d \in Calls : pc[d] # "new" => pc'[d] # "new"
  PROVE  /\ HandlerType' /\ CommandInv'
         /\ \A k \in Commands : /\ cmd'[k] # None => cmd'[k] = cmd[k]
                                /\ answer'[k] = IF k \in lost THEN None ELSE answer[k]
<1>1. HandlerType /\ CommandInv
  BY TypeInvParts
<1>2. \A k \in Commands : answer'[k] = IF k \in lost THEN None ELSE answer[k]
  OBVIOUS
<1>3. /\ cmd' \in [Commands -> Command \cup {None}]
      /\ \A k \in Commands :
           /\ cmd'[k] = None <=> here'[k] = None /\ from'[k] = None /\ answer'[k] = None
           /\ cmd'[k] # None => cmd'[k] = cmd[k]
  BY <1>1, <1>2, Cleared
<1>4. HandlerType'
  <2>1. \A k \in Commands : answer'[k] \in AnswerOn \cup {None}
    BY <1>1, <1>2 DEF HandlerType
  <2>2. answer' \in [Commands -> AnswerOn \cup {None}]
    BY <2>1
  <2>. QED
    BY <1>1, <1>3, <2>2 DEF HandlerType
<1>5. CommandInv'
  <2>1. \A k \in Commands : cmd[k] # None => cmd[k].call \in Calls
    BY <1>1 DEF HandlerType, Command
  <2>. QED
    BY <1>1, <1>2, <1>3, <2>1 DEF CommandInv
<1>. QED
  BY <1>2, <1>3, <1>4, <1>5

LEMMA TimeOutSteps ==
  ASSUME TypeInv, NEW c \in Calls, TimeOut(c)
  PROVE  /\ UNCHANGED clusterVars /\ UNCHANGED <<copies, charged, granted>>
         /\ UNCHANGED <<asked, bound, retries, from, here, via, held, told>>
         /\ givenUp' /\ Unsettle
         /\ pc'[c] = "error" /\ to'[c] = None
         /\ \A d \in Calls \ {c} : pc'[d] = pc[d] /\ at'[d] = at[d] /\ to'[d] = to[d]
         /\ \A k \in Commands : /\ cmd'[k] # None => cmd'[k] = cmd[k]
                                /\ answer'[k] # None => answer'[k] = answer[k]
         /\ ClientType' /\ CallInv' /\ HandlerType' /\ CommandInv'
<1>1. ClientType /\ CallInv
  BY TypeInvParts
<1>2. /\ UNCHANGED clusterVars /\ UNCHANGED <<copies, charged, granted>>
      /\ UNCHANGED <<asked, bound, retries, from, here, via, held, told>>
      /\ givenUp' = TRUE /\ Unsettle /\ Clear /\ Return(c, "error")
  BY DEF TimeOut
<1>3. PICK lost \in SUBSET Unread(at[c]) :
        answer' = [k \in Commands |-> IF k \in lost THEN None ELSE answer[k]]
  BY DEF TimeOut
<1>4. lost \in SUBSET Commands
  BY DEF Unread
<1>5. UNCHANGED up
  BY <1>2 DEF clusterVars
<1>6. /\ pc'[c] = "error" /\ to'[c] = None
      /\ \A d \in Calls \ {c} : pc'[d] = pc[d] /\ at'[d] = at[d] /\ to'[d] = to[d]
  BY <1>2, ReturnSteps
<1>7. ClientType'
  BY <1>1, <1>2, ReturnSteps DEF ClientType
<1>8. CallInv'
  BY <1>1, <1>2, <1>6 DEF CallInv, Open, Waiting
<1>9. \A d \in Calls : pc[d] # "new" => pc'[d] # "new"
  BY <1>6
<1>10. /\ HandlerType' /\ CommandInv'
       /\ \A k \in Commands : /\ cmd'[k] # None => cmd'[k] = cmd[k]
                              /\ answer'[k] = IF k \in lost THEN None ELSE answer[k]
  BY <1>2, <1>3, <1>4, <1>5, <1>9, LostSteps
<1>. QED
  BY <1>2, <1>6, <1>7, <1>8, <1>10

LEMMA TimeOutTypes ==
  ASSUME TypeInv, NEW c \in Calls, TimeOut(c)
  PROVE  TypeInv'
<1>1. \A k \in Commands : held'[k] # None => held'[k] = held[k] /\ here'[k] = here[k]
  BY TimeOutSteps
<1>2. settled' \in [Calls -> BOOLEAN]
  BY TimeOutSteps DEF Unsettle
<1>. QED
  BY <1>1, <1>2, TimeOutSteps, CallSteps

\* An answer is read: the call ends, or has a node to bind its resource to.
LEMMA ReadSteps ==
  ASSUME TypeInv, NEW c \in Calls, NEW k \in Commands, NEW result, NEW node,
         \/ node = None /\ result \in {"ok", "refused", "registered", "error"}
         \/ node \in Nodes /\ result \in {"redirected", "placed"},
         Waiting(c), k \in Unread(at[c]), Read(c, k, result, node)
  PROVE  /\ UNCHANGED clusterVars /\ UNCHANGED <<copies, charged, granted>>
         /\ UNCHANGED <<asked, bound, retries, givenUp, from, here, via, held, told>>
         /\ pc'[c] = result /\ to'[c] = node
         /\ settled'[c] = (settled[c] /\ node # None)
         /\ \A d \in Calls \ {c} : /\ pc'[d] = pc[d] /\ at'[d] = at[d] /\ to'[d] = to[d]
                                   /\ settled'[d] = settled[d]
         /\ answer'[k] = None
         /\ \A j \in Commands \ {k} : answer'[j] = answer[j]
         /\ \A j \in Commands : cmd'[j] # None => cmd'[j] = cmd[j]
         /\ ClientType' /\ CallInv' /\ HandlerType' /\ CommandInv'
         /\ settled' \in [Calls -> BOOLEAN]
<1>1. ClientType /\ CallInv /\ HandlerType /\ settled \in [Calls -> BOOLEAN]
  BY TypeInvParts DEF CountType
<1>2. /\ UNCHANGED clusterVars /\ UNCHANGED <<copies, charged, granted>>
      /\ UNCHANGED <<asked, bound, retries, givenUp, from, here, via, held, told>>
      /\ answer' = [answer EXCEPT ![k] = None]
      /\ pc' = [pc EXCEPT ![c] = result]
      /\ at' = IF node = None THEN [at EXCEPT ![c] = None] ELSE at
      /\ to' = [to EXCEPT ![c] = node]
      /\ settled' = IF node = None THEN [settled EXCEPT ![c] = FALSE] ELSE settled
      /\ Clear
  BY DEF Read
<1>3. UNCHANGED up
  BY <1>2 DEF clusterVars
<1>4. /\ pc'[c] = result /\ to'[c] = node
      /\ \A d \in Calls \ {c} : pc'[d] = pc[d] /\ at'[d] = at[d] /\ to'[d] = to[d]
  BY <1>1, <1>2 DEF ClientType
<1>5. /\ settled' \in [Calls -> BOOLEAN]
      /\ settled'[c] = (settled[c] /\ node # None)
      /\ \A d \in Calls \ {c} : settled'[d] = settled[d]
  BY <1>1, <1>2
<1>6. ClientType'
  <2>1. result \in CallStates /\ node \in Nodes \cup {None}
    BY DEF CallStates
  <2>2. /\ pc' \in [Calls -> CallStates] /\ at' \in [Calls -> Nodes \cup {None}]
        /\ to' \in [Calls -> Nodes \cup {None}]
    BY <1>1, <1>2, <2>1 DEF ClientType
  <2>. QED
    BY <1>1, <1>2, <2>2 DEF ClientType
<1>7. CallInv'
  <2>1. asked[c] \in Names
    BY <1>1 DEF CallInv, Open
  <2>2. ASSUME NEW d \in Calls \ {c}
        PROVE  /\ pc'[d] = "new" => retries'[d] = 0
               /\ Open(d)' => asked'[d] \in Names
               /\ Waiting(d)' => at'[d] \in Nodes
               /\ pc'[d] \in {"redirected", "placed"} => to'[d] \in Nodes
    BY <1>1, <1>2, <1>4 DEF CallInv, Open, Waiting
  <2>3. /\ pc'[c] = "new" => retries'[c] = 0
        /\ Open(c)' => asked'[c] \in Names
        /\ Waiting(c)' => at'[c] \in Nodes
        /\ pc'[c] \in {"redirected", "placed"} => to'[c] \in Nodes
    BY <1>2, <1>4, <2>1 DEF Waiting
  <2>. QED
    BY <2>2, <2>3 DEF CallInv
<1>8. \A d \in Calls : pc[d] # "new" => pc'[d] # "new"
  BY <1>4
<1>9. /\ {k} \in SUBSET Commands
      /\ answer' = [j \in Commands |-> IF j \in {k} THEN None ELSE answer[j]]
  BY <1>1, <1>2 DEF HandlerType
<1>10. /\ HandlerType' /\ CommandInv'
       /\ \A j \in Commands : /\ cmd'[j] # None => cmd'[j] = cmd[j]
                              /\ answer'[j] = IF j \in {k} THEN None ELSE answer[j]
  BY <1>2, <1>3, <1>8, <1>9, LostSteps
<1>. QED
  BY <1>2, <1>4, <1>5, <1>6, <1>7, <1>10

\* What Allow and RegisterTokenBucket read.
LEMMA ReadCases ==
  ASSUME TypeInv, NEW c \in Calls, NEW k \in Commands, ReadAllow(c, k) \/ ReadRegRes(c, k)
  PROVE  /\ Waiting(c) /\ k \in Unread(at[c]) /\ answer[k] # None
         /\ \/ \E result \in {"ok", "refused", "registered", "error"} : Read(c, k, result, None)
            \/ /\ pc[c] = "Allow" /\ answer[k].msg # None /\ answer[k].msg.redirected
               /\ answer[k].msg.node \in Nodes
               /\ Read(c, k, "redirected", answer[k].msg.node)
            \/ /\ pc[c] = "RegRes" /\ answer[k].msg # None /\ answer[k].msg.node # at[c]
               /\ answer[k].msg.node \in Nodes
               /\ Read(c, k, "placed", answer[k].msg.node)
<1>1. Waiting(c) /\ k \in Unread(at[c]) /\ answer[k] # None
  BY DEF ReadAllow, ReadRegRes, Waiting, Unread
<1>2. answer[k] \in AnswerOn
  BY <1>1, TypeInvParts DEF HandlerType
<1>3. answer[k].msg # None => answer[k].msg.node \in Nodes
  BY <1>2 DEF AnswerOn, Message
<1>4. CASE ReadAllow(c, k)
  BY <1>1, <1>3, <1>4 DEF ReadAllow
<1>5. CASE ReadRegRes(c, k)
  BY <1>1, <1>3, <1>5 DEF ReadRegRes
<1>. QED
  BY <1>1, <1>4, <1>5

LEMMA ReadTypes ==
  ASSUME TypeInv, NEW c \in Calls, NEW k \in Commands, ReadAllow(c, k) \/ ReadRegRes(c, k)
  PROVE  TypeInv'
<1>1. PICK result, node :
        /\ \/ node = None /\ result \in {"ok", "refused", "registered", "error"}
           \/ node \in Nodes /\ result \in {"redirected", "placed"}
        /\ Read(c, k, result, node)
  BY ReadCases
<1>2. Waiting(c) /\ k \in Unread(at[c])
  BY ReadCases
<1>3. /\ UNCHANGED clusterVars /\ UNCHANGED <<copies, charged, granted>>
      /\ ClientType' /\ CallInv' /\ HandlerType' /\ CommandInv' /\ settled' \in [Calls -> BOOLEAN]
      /\ UNCHANGED <<held, here>>
  BY <1>1, <1>2, ReadSteps
<1>. QED
  BY <1>3, CallSteps

-----------------------------------------------------------------------------
(* And those of the handlers.                                              *)

\* The last handler ends; what it has to say goes where its answer is to go.
LEMMA AnswerSteps ==
  ASSUME TypeInv, NEW k \in Commands, NEW msg \in Message \cup {None}, here[k] # None,
         Answer(k, msg), UNCHANGED clusterVars, UNCHANGED clientVars
  PROVE  /\ HandlerType' /\ CommandInv'
         /\ here'[k] = None /\ held'[k] = None /\ told'[k] = None /\ via'[k] = {}
         /\ from'[k] = None
         /\ from[k] # None => answer'[k] = [on |-> from[k], msg |-> msg] /\ from[k] \in Nodes
         /\ from[k] = None => answer'[k] = answer[k]
         /\ \A j \in Commands : cmd'[j] # None => cmd'[j] = cmd[j]
         /\ \A j \in Commands \ {k} : /\ here'[j] = here[j] /\ held'[j] = held[j]
                                      /\ told'[j] = told[j] /\ via'[j] = via[j]
                                      /\ from'[j] = from[j] /\ answer'[j] = answer[j]
<1>1. HandlerType /\ CommandInv
  BY TypeInvParts
<1>2. UNCHANGED <<up, pc>>
  BY DEF clusterVars, clientVars
<1>3. /\ here' = [here EXCEPT ![k] = None] /\ held' = [held EXCEPT ![k] = None]
      /\ told' = [told EXCEPT ![k] = None] /\ via' = [via EXCEPT ![k] = {}]
      /\ from' = [from EXCEPT ![k] = None] /\ Clear
  BY DEF Answer
<1>4. /\ answer' \in [Commands -> AnswerOn \cup {None}]
      /\ from[k] # None => answer'[k] = [on |-> from[k], msg |-> msg] /\ from[k] \in Nodes
      /\ from[k] = None => answer'[k] = answer[k]
      /\ \A j \in Commands \ {k} : answer'[j] = answer[j]
  <2>1. CASE from[k] # None
    <3>1. answer' = [answer EXCEPT ![k] = [on |-> from[k], msg |-> msg]]
      BY <2>1 DEF Answer
    <3>2. from[k] \in Nodes
      BY <1>1, <2>1 DEF HandlerType
    <3>3. [on |-> from[k], msg |-> msg] \in AnswerOn
      BY <3>2 DEF AnswerOn
    <3>. QED
      BY <1>1, <2>1, <3>1, <3>2, <3>3 DEF HandlerType
  <2>2. CASE from[k] = None
    BY <1>1, <2>2 DEF HandlerType, Answer
  <2>. QED
    BY <2>1, <2>2
<1>5. /\ here'[k] = None /\ held'[k] = None /\ told'[k] = None /\ via'[k] = {} /\ from'[k] = None
      /\ \A j \in Commands \ {k} : /\ here'[j] = here[j] /\ held'[j] = held[j]
                                   /\ told'[j] = told[j] /\ via'[j] = via[j]
                                   /\ from'[j] = from[j]
  BY <1>1, <1>3 DEF HandlerType
<1>6. \A j \in Commands :
        here'[j] # None \/ from'[j] # None \/ answer'[j] # None =>
          here[j] # None \/ from[j] # None \/ answer[j] # None
  BY <1>4, <1>5
<1>7. /\ cmd' \in [Commands -> Command \cup {None}]
      /\ \A j \in Commands :
           /\ cmd'[j] = None <=> here'[j] = None /\ from'[j] = None /\ answer'[j] = None
           /\ cmd'[j] # None => cmd'[j] = cmd[j]
  BY <1>1, <1>3, <1>6, Cleared
<1>8. HandlerType'
  BY <1>1, <1>2, <1>3, <1>4, <1>7 DEF HandlerType
<1>9. CommandInv'
  BY <1>1, <1>2, <1>4, <1>5, <1>7 DEF CommandInv
<1>. QED
  BY <1>4, <1>5, <1>7, <1>8, <1>9

\* A handler that does nothing but answer.
LEMMA AnswerTypes ==
  ASSUME TypeInv, NEW k \in Commands, NEW msg \in Message \cup {None}, here[k] # None,
         Answer(k, msg), UNCHANGED clusterVars, UNCHANGED clientVars,
         UNCHANGED <<copies, charged, granted, settled>>
  PROVE  TypeInv'
<1>1. ClientType /\ CallInv /\ settled \in [Calls -> BOOLEAN]
  BY TypeInvParts DEF CountType
<1>2. ClientType' /\ CallInv'
  BY <1>1 DEF ClientType, CallInv, clientVars, Open, Waiting
<1>3. /\ HandlerType' /\ CommandInv'
      /\ \A j \in Commands : held'[j] # None => held'[j] = held[j] /\ here'[j] = here[j]
  BY AnswerSteps
<1>. QED
  BY <1>1, <1>2, <1>3, CallSteps

\* A handler finds the resource.
LEMMA LookupSteps ==
  ASSUME TypeInv, NEW k \in Commands, Lookup(k), shown[here[k]][cmd[k].name] # None
  PROVE  /\ UNCHANGED <<cmd, from, here, via, told, answer>>
         /\ here[k] \in up /\ here[k] \in Nodes /\ cmd[k] \in Command
         /\ cmd[k].op = "Allow" /\ held[k] = None
         /\ shown[here[k]][cmd[k].name] \in Resource
         /\ held'[k] # None => /\ held'[k].node = shown[here[k]][cmd[k].name].node
                               /\ held'[k].limiter = shown[here[k]][cmd[k].name].limiter
                               /\ held'[k].copy = Len(copies[here[k]][held'[k].limiter])
         /\ held'[k] \in Held
         /\ \A j \in Commands \ {k} : held'[j] = held[j]
         /\ held' \in [Commands -> Held \cup {None}]
<1>1. ClusterType /\ CopyType /\ HandlerType /\ RegistryInv /\ CopyInv /\ CommandInv
  BY TypeInvParts
<1>. DEFINE n == here[k]
            r == shown[n][cmd[k].name]
            h == [node |-> r.node, limiter |-> r.limiter, copy |-> Len(copies[n][r.limiter])]
<1>2. /\ held' = [held EXCEPT ![k] = h] /\ UNCHANGED <<cmd, from, here, via, told, answer>>
      /\ here[k] # None /\ cmd[k].op = "Allow" /\ held[k] = None
  BY DEF Lookup
<1>3. here[k] \in up /\ here[k] \in Nodes
  BY <1>1, <1>2 DEF HandlerType, ClusterType
<1>4. cmd[k] \in Command /\ cmd[k].name \in Names
  <2>1. cmd[k] # None
    BY <1>1, <1>2 DEF CommandInv
  <2>2. cmd[k] \in Command
    BY <1>1, <2>1 DEF HandlerType
  <2>. QED
    BY <2>2 DEF Command
<1>5. r \in Resource
  BY <1>1, <1>3, <1>4 DEF RegistryInv, Registries
<1>6. r.node \in Nodes /\ r.limiter \in Requests
  BY <1>5 DEF Resource
<1>7. Len(copies[n][r.limiter]) \in Nat \ {0}
  <2>1. copies[n][r.limiter] \in Seq(0 .. Burst)
    BY <1>1, <1>3, <1>6 DEF CopyType
  <2>2. Len(copies[n][r.limiter]) > 0
    BY <1>1, <1>3, <1>4 DEF CopyInv
  <2>. QED
    BY <2>1, <2>2
<1>8. /\ h \in Held /\ h.node = r.node /\ h.limiter = r.limiter
      /\ h.copy = Len(copies[n][r.limiter])
  BY <1>6, <1>7 DEF Held
<1>. HIDE DEF h
<1>9. /\ held'[k] = h /\ \A j \in Commands \ {k} : held'[j] = held[j]
      /\ held' \in [Commands -> Held \cup {None}]
  BY <1>1, <1>2, <1>8 DEF HandlerType
<1>. QED
  BY <1>2, <1>3, <1>4, <1>5, <1>8, <1>9

LEMMA LookupTypes ==
  ASSUME TypeInv, NEW k \in Commands, Lookup(k)
  PROVE  TypeInv'
<1>1. ClusterType /\ CopyType /\ ClientType /\ HandlerType /\ CountType /\ RegistryInv
      /\ CopyInv /\ CommandInv /\ CallInv
  BY TypeInvParts
<1>2. /\ UNCHANGED clusterVars /\ UNCHANGED clientVars
      /\ UNCHANGED <<copies, charged, granted, settled>>
      /\ here[k] # None
  BY DEF Lookup
<1>3. CASE shown[here[k]][cmd[k].name] = None
  <2>1. Answer(k, None)
    BY <1>3 DEF Lookup
  <2>. QED
    BY <1>2, <2>1, AnswerTypes
<1>4. CASE shown[here[k]][cmd[k].name] # None
  <2>1. ClientType' /\ CallInv' /\ CountType'
    BY <1>1, <1>2 DEF ClientType, CallInv, CountType, clientVars, Open, Waiting
  <2>2. /\ UNCHANGED <<cmd, from, here, via, told, answer>>
        /\ held' \in [Commands -> Held \cup {None}]
        /\ \A j \in Commands \ {k} : held'[j] = held[j]
        /\ cmd[k].op = "Allow" /\ here[k] \in Nodes
        /\ held'[k] # None => held'[k].copy = Len(copies[here[k]][held'[k].limiter])
        /\ held'[k] \in Held
    BY <1>4, LookupSteps
  <2>3. HandlerType'
    BY <1>1, <1>2, <2>2 DEF HandlerType, clusterVars
  <2>4. CommandInv'
    BY <1>1, <1>2, <2>2 DEF CommandInv, clientVars
  <2>5. ClusterType' /\ RegistryInv' /\ CopyType' /\ UNCHANGED <<shown, copies, here>>
    BY <1>1, <1>2, <2>2 DEF ClusterType, RegistryInv, CopyType, clusterVars, registryVars
  <2>6. held'[k] # None => held'[k].copy <= Len(copies[here[k]][held'[k].limiter])
    <3>1. held'[k].limiter \in Requests
      BY <2>2 DEF Held
    <3>2. Len(copies[here[k]][held'[k].limiter]) \in Nat
      BY <1>1, <2>2, <3>1 DEF CopyType
    <3>. QED
      BY <2>2, <3>2
  <2>7. CopyInv'
    BY <1>1, <2>2, <2>5, <2>6 DEF CopyInv
  <2>. QED
    BY <2>1, <2>3, <2>4, <2>5, <2>7, TypePartsNext DEF TypeInv
<1>. QED
  BY <1>3, <1>4


\* What is taken is a token of the copy that the handler holds.
LEMMA SpendSteps ==
  ASSUME TypeInv, NEW k \in Commands, here[k] # None, held[k] # None,
         copies[here[k]][held[k].limiter][held[k].copy] > 0,
         copies' = [copies EXCEPT ![here[k]][held[k].limiter][held[k].copy] = @ - 1]
  PROVE  /\ here[k] \in Nodes /\ held[k].limiter \in Requests
         /\ held[k].copy \in 1 .. Len(copies[here[k]][held[k].limiter])
         /\ CopyType'
         /\ \A n \in Nodes, l \in Requests :
              /\ Len(copies'[n][l]) = Len(copies[n][l])
              /\ \A j \in 1 .. Len(copies[n][l]) :
                   copies'[n][l][j] = IF n = here[k] /\ l = held[k].limiter /\ j = held[k].copy
                                        THEN copies[n][l][j] - 1 ELSE copies[n][l][j]
<1>. DEFINE m == here[k]
            q == held[k].limiter
            i == held[k].copy
<1>1. ClusterType /\ CopyType /\ HandlerType /\ CopyInv
  BY TypeInvParts
<1>2. m \in Nodes /\ held[k] \in Held
  BY <1>1 DEF HandlerType, ClusterType
<1>3. q \in Requests /\ i \in Nat \ {0}
  BY <1>2 DEF Held
<1>4. copies[m][q] \in Seq(0 .. Burst)
  BY <1>1, <1>2, <1>3 DEF CopyType
<1>5. i \in 1 .. Len(copies[m][q])
  <2>1. i <= Len(copies[m][q])
    BY <1>1 DEF CopyInv
  <2>2. Len(copies[m][q]) \in Nat
    BY <1>4
  <2>. QED
    BY <1>3, <2>1, <2>2
<1>. DEFINE s == copies[m][q]
            t == [s EXCEPT ![i] = @ - 1]
<1>6. copies' = [copies EXCEPT ![m] = [copies[m] EXCEPT ![q] = t]]
  OBVIOUS
<1>7. s[i] > 0
  OBVIOUS
<1>. HIDE DEF m, q, i, s
<1>8. s[i] \in 0 .. Burst /\ s[i] - 1 \in 0 .. Burst
  <2>1. s[i] \in 0 .. Burst
    BY <1>4, <1>5 DEF s
  <2>. QED
    BY <1>7, <2>1
<1>9. s \in Seq(0 .. Burst) /\ i \in 1 .. Len(s)
  BY <1>4, <1>5 DEF s
<1>10. /\ t \in Seq(0 .. Burst) /\ Len(t) = Len(s)
       /\ \A j \in 1 .. Len(s) : t[j] = IF j = i THEN s[j] - 1 ELSE s[j]
  BY <1>8, <1>9
<1>. HIDE DEF t
<1>. DEFINE u == [copies[m] EXCEPT ![q] = t]
<1>11. /\ u \in [Requests -> Seq(0 .. Burst)]
       /\ \A l \in Requests : u[l] = IF l = q THEN t ELSE copies[m][l]
  <2>1. copies[m] \in [Requests -> Seq(0 .. Burst)]
    BY <1>1, <1>2 DEF CopyType
  <2>. QED
    BY <1>3, <1>10, <2>1
<1>. HIDE DEF u
<1>12. /\ CopyType'
       /\ \A n \in Nodes, l \in Requests :
            copies'[n][l] = IF n = m /\ l = q THEN t ELSE copies[n][l]
  <2>1. copies \in [Nodes -> [Requests -> Seq(0 .. Burst)]] /\ copies' = [copies EXCEPT ![m] = u]
    BY <1>1, <1>6 DEF CopyType, u
  <2>2. CopyType'
    BY <1>2, <1>11, <2>1 DEF CopyType
  <2>3. \A n \in Nodes : copies'[n] = IF n = m THEN u ELSE copies[n]
    BY <1>2, <2>1
  <2>4. ASSUME NEW n \in Nodes, NEW l \in Requests
        PROVE  copies'[n][l] = IF n = m /\ l = q THEN t ELSE copies[n][l]
    <3>1. CASE n = m
      BY <1>11, <2>3, <3>1
    <3>2. CASE n # m
      BY <2>3, <3>2
    <3>. QED
      BY <3>1, <3>2
  <2>. QED
    BY <2>2, <2>4
<1>13. ASSUME NEW n \in Nodes, NEW l \in Requests
       PROVE  /\ Len(copies'[n][l]) = Len(copies[n][l])
              /\ \A j \in 1 .. Len(copies[n][l]) :
                   copies'[n][l][j] = IF n = m /\ l = q /\ j = i THEN copies[n][l][j] - 1 ELSE copies[n][l][j]
  <2>1. CASE n = m /\ l = q
    BY <1>10, <1>12, <2>1 DEF s
  <2>2. CASE ~(n = m /\ l = q)
    BY <1>12, <2>2
  <2>. QED
    BY <2>1, <2>2
<1>. QED
  BY <1>2, <1>3, <1>5, <1>12, <1>13 DEF m, q, i


\* What the owner answers.
LEMMA DecidedMessage ==
  ASSUME TypeInv, NEW k \in Commands, here[k] # None, NEW ok \in BOOLEAN
  PROVE  /\ Decided(k, ok) \in Message
         /\ Decided(k, ok) # None
         /\ Decided(k, ok).redirected = (told[k] # None)
         /\ Decided(k, ok).node = IF told[k] = None THEN here[k] ELSE told[k]
<1>1. here[k] \in Nodes /\ told[k] \in Nodes \cup {None}
  BY TypeInvParts DEF HandlerType, ClusterType
<1>2. Decided(k, ok) \in Message
  BY <1>1 DEF Decided, Message
<1>3. Decided(k, ok) # None
  BY <1>2
<1>. QED
  BY <1>2, <1>3 DEF Decided

\* The handler that decides answers, whatever the limiter says.
LEMMA DecideAnswers ==
  ASSUME NEW k \in Commands, Decide(k)
  PROVE  /\ UNCHANGED clusterVars /\ UNCHANGED clientVars /\ UNCHANGED settled
         /\ here[k] # None /\ held[k] # None /\ held[k].node = here[k]
         /\ \E ok \in BOOLEAN : Answer(k, Decided(k, ok))
<1>1. CASE copies[here[k]][held[k].limiter][held[k].copy] > 0
  BY <1>1 DEF Decide
<1>2. CASE ~(copies[here[k]][held[k].limiter][held[k].copy] > 0)
  BY <1>2 DEF Decide
<1>. QED
  BY <1>1, <1>2 DEF Decide

LEMMA DecideTypes ==
  ASSUME TypeInv, NEW k \in Commands, Decide(k)
  PROVE  TypeInv'
<1>1. ClusterType /\ CopyType /\ ClientType /\ HandlerType /\ CountType /\ RegistryInv
      /\ CopyInv /\ CommandInv /\ CallInv
  BY TypeInvParts
<1>2. PICK ok \in BOOLEAN :
        /\ UNCHANGED clusterVars /\ UNCHANGED clientVars /\ UNCHANGED settled
        /\ here[k] # None /\ held[k] # None
        /\ Answer(k, Decided(k, ok))
  BY DecideAnswers
<1>3. Decided(k, ok) \in Message \cup {None}
  BY <1>2, DecidedMessage
<1>4. CASE copies[here[k]][held[k].limiter][held[k].copy] > 0
  <2>1. /\ copies' = [copies EXCEPT ![here[k]][held[k].limiter][held[k].copy] = @ - 1]
        /\ charged' = [charged EXCEPT ![cmd[k].call] = @ + 1]
        /\ granted' = [granted EXCEPT ![held[k].limiter] = @ + 1]
    BY <1>4 DEF Decide
  <2>2. /\ CopyType'
        /\ \A n \in Nodes, l \in Requests : Len(copies'[n][l]) = Len(copies[n][l])
    BY <1>2, <1>4, <2>1, SpendSteps
  <2>3. CountType'
    <3>1. charged' \in [Calls -> Nat]
      <4>1. cmd[k] # None
        BY <1>1, <1>2 DEF CommandInv
      <4>2. cmd[k].call \in Calls
        BY <1>1, <4>1 DEF HandlerType, Command
      <4>. QED
        BY <1>1, <2>1, <4>2 DEF CountType
    <3>2. granted' \in [Requests -> Nat]
      <4>1. held[k].limiter \in Requests
        BY <1>2, <1>4, <2>1, SpendSteps
      <4>. QED
        BY <1>1, <2>1, <4>1 DEF CountType
    <3>3. settled' \in [Calls -> BOOLEAN]
      BY <1>1, <1>2 DEF CountType
    <3>. QED
      BY <3>1, <3>2, <3>3 DEF CountType
  <2>4. /\ HandlerType' /\ CommandInv'
        /\ \A j \in Commands : held'[j] # None => held'[j] = held[j] /\ here'[j] = here[j]
    BY <1>2, <1>3, AnswerSteps
  <2>5. ClientType' /\ CallInv'
    BY <1>1, <1>2 DEF ClientType, CallInv, clientVars, Open, Waiting
  <2>6. ClusterType' /\ RegistryInv' /\ UNCHANGED <<shown, up>>
    BY <1>1, <1>2 DEF ClusterType, RegistryInv, clusterVars, registryVars
  <2>7. \A j \in Commands : held[j] # None => here[j] \in Nodes /\ held[j].limiter \in Requests
    BY <1>1 DEF HandlerType, ClusterType, Held, CommandInv
  <2>8. \A n \in Nodes, name \in Names : shown[n][name] # None => shown[n][name].limiter \in Requests
    BY <1>1 DEF RegistryInv, Registries, Resource
  <2>9. CopyInv'
    BY <1>1, <2>2, <2>4, <2>6, <2>7, <2>8 DEF CopyInv
  <2>. QED
    BY <2>2, <2>3, <2>4, <2>5, <2>6, <2>9, TypePartsNext DEF TypeInv
<1>5. CASE ~(copies[here[k]][held[k].limiter][held[k].copy] > 0)
  <2>1. UNCHANGED <<copies, charged, granted>>
    BY <1>5 DEF Decide
  <2>. QED
    BY <1>2, <1>3, <2>1, AnswerTypes
<1>. QED
  BY <1>4, <1>5

\* The command moves to a node that runs.
LEMMA ForwardSteps ==
  ASSUME TypeInv, NEW k \in Commands, Forward(k), held[k].node \in up
  PROVE  /\ HandlerType' /\ CommandInv'
         /\ UNCHANGED <<cmd, from, answer>>
         /\ cmd[k].op = "Allow" /\ here[k] \in up /\ held[k] # None /\ held[k].node # here[k]
         /\ here'[k] = held[k].node /\ held'[k] = None /\ via'[k] = via[k] \cup {here[k]}
         /\ told'[k] = IF told[k] = None THEN held[k].node ELSE told[k]
         /\ \A j \in Commands \ {k} : /\ here'[j] = here[j] /\ held'[j] = held[j]
                                      /\ told'[j] = told[j] /\ via'[j] = via[j]
<1>1. ClusterType /\ HandlerType /\ CommandInv
  BY TypeInvParts
<1>2. /\ UNCHANGED clusterVars /\ UNCHANGED clientVars /\ UNCHANGED <<cmd, from, answer>>
      /\ here[k] # None /\ held[k] # None /\ held[k].node # here[k]
      /\ here' = [here EXCEPT ![k] = held[k].node]
      /\ via' = [via EXCEPT ![k] = @ \cup {here[k]}]
      /\ told' = IF told[k] = None THEN [told EXCEPT ![k] = held[k].node] ELSE told
      /\ held' = [held EXCEPT ![k] = None]
  BY DEF Forward
<1>3. UNCHANGED <<up, pc>> /\ up \subseteq Nodes
  BY <1>1, <1>2 DEF clusterVars, clientVars, ClusterType
<1>4. here[k] \in Nodes /\ here[k] \in up /\ cmd[k].op = "Allow"
  BY <1>1, <1>2, <1>3 DEF HandlerType, CommandInv
<1>5. told' = [told EXCEPT ![k] = IF told[k] = None THEN held[k].node ELSE told[k]]
  BY <1>1, <1>2 DEF HandlerType
<1>6. HandlerType'
  BY <1>1, <1>2, <1>3, <1>4, <1>5 DEF HandlerType
<1>7. /\ here'[k] = held[k].node /\ held'[k] = None /\ via'[k] = via[k] \cup {here[k]}
      /\ told'[k] = IF told[k] = None THEN held[k].node ELSE told[k]
      /\ \A j \in Commands \ {k} : /\ here'[j] = here[j] /\ held'[j] = held[j]
                                   /\ told'[j] = told[j] /\ via'[j] = via[j]
  BY <1>1, <1>2, <1>5 DEF HandlerType
<1>8. here'[k] # None
  BY <1>3, <1>7
<1>9. CommandInv'
  BY <1>1, <1>2, <1>3, <1>7, <1>8 DEF CommandInv
<1>. QED
  BY <1>2, <1>4, <1>6, <1>7, <1>9

LEMMA ForwardTypes ==
  ASSUME TypeInv, NEW k \in Commands, Forward(k)
  PROVE  TypeInv'
<1>1. ClientType /\ CallInv /\ settled \in [Calls -> BOOLEAN]
  BY TypeInvParts DEF CountType
<1>2. /\ UNCHANGED clusterVars /\ UNCHANGED clientVars
      /\ UNCHANGED <<copies, charged, granted, settled>>
      /\ here[k] # None
  BY DEF Forward
<1>3. CASE held[k].node \in up
  <2>1. ClientType' /\ CallInv'
    BY <1>1, <1>2 DEF ClientType, CallInv, clientVars, Open, Waiting
  <2>2. /\ HandlerType' /\ CommandInv'
        /\ \A j \in Commands : held'[j] # None => held'[j] = held[j] /\ here'[j] = here[j]
    BY <1>3, ForwardSteps
  <2>. QED
    BY <1>1, <1>2, <2>1, <2>2, CallSteps
<1>4. CASE held[k].node \notin up
  <2>1. Answer(k, None)
    BY <1>4 DEF Forward
  <2>. QED
    BY <1>2, <2>1, AnswerTypes
<1>. QED
  BY <1>3, <1>4

\* What RegisterResourcePbCmd answers.
LEMMA RegisterSays ==
  ASSUME TypeInv, NEW k \in Commands, RegisterResource(k)
  PROVE  /\ UNCHANGED clusterVars /\ UNCHANGED clientVars
         /\ UNCHANGED <<copies, charged, granted, settled>>
         /\ here[k] \in up /\ here[k] \in Nodes /\ cmd[k] \in Command /\ cmd[k].op = "RegRes"
         /\ held[k] = None
         /\ \E msg \in Message \cup {None} :
              /\ Answer(k, msg)
              /\ msg # None =>
                   /\ ~msg.redirected
                   /\ \/ /\ shown[here[k]][cmd[k].name] # None
                         /\ msg.node = shown[here[k]][cmd[k].name].node
                      \/ /\ msg.node = here[k]
                         /\ \E i \in 1 .. position[here[k]] :
                              /\ history[i][cmd[k].name] # None
                              /\ history[i][cmd[k].name].node = here[k]
<1>1. ClusterType /\ HandlerType /\ RegistryInv /\ CommandInv
  BY TypeInvParts
<1>2. /\ UNCHANGED clusterVars /\ UNCHANGED clientVars
      /\ UNCHANGED <<copies, charged, granted, settled>>
      /\ here[k] # None /\ cmd[k].op = "RegRes"
  BY DEF RegisterResource
<1>3. here[k] \in up /\ here[k] \in Nodes
  BY <1>1, <1>2 DEF HandlerType, ClusterType
<1>4. cmd[k] \in Command /\ cmd[k].name \in Names
  <2>1. cmd[k] # None
    BY <1>1, <1>2 DEF CommandInv
  <2>2. cmd[k] \in Command
    BY <1>1, <2>1 DEF HandlerType
  <2>. QED
    BY <2>2 DEF Command
<1>5. held[k] = None
  BY <1>1, <1>2 DEF CommandInv
<1>. DEFINE Placed(node) == [redirected |-> FALSE, ok |-> FALSE, node |-> node]
<1>6. \A node \in Nodes : Placed(node) \in Message /\ ~Placed(node).redirected /\ Placed(node).node = node
  BY DEF Message
<1>7. CASE /\ shown[here[k]][cmd[k].name] # None
           /\ Answer(k, Placed(shown[here[k]][cmd[k].name].node))
  <2>1. shown[here[k]][cmd[k].name].node \in Nodes
    BY <1>1, <1>3, <1>4, <1>7 DEF RegistryInv, Registries, Resource
  <2>. QED
    BY <1>2, <1>3, <1>4, <1>5, <1>6, <1>7, <2>1
<1>8. CASE /\ \E i \in 1 .. position[here[k]] :
                /\ history[i][cmd[k].name] # None
                /\ history[i][cmd[k].name].node = here[k]
           /\ Answer(k, Placed(here[k]))
  BY <1>2, <1>3, <1>4, <1>5, <1>6, <1>8
<1>9. CASE Answer(k, None)
  BY <1>2, <1>3, <1>4, <1>5, <1>9
<1>. QED
  BY <1>7, <1>8, <1>9 DEF RegisterResource

LEMMA RegisterResourceTypes ==
  ASSUME TypeInv, NEW k \in Commands, RegisterResource(k)
  PROVE  TypeInv'
<1>1. here[k] # None
  BY DEF RegisterResource
<1>. QED
  BY <1>1, RegisterSays, AnswerTypes

LEMMA NextTypes == TypeInv /\ [Next]_vars => TypeInv'
<1>. SUFFICES ASSUME TypeInv, [Next]_vars
              PROVE  TypeInv'
  OBVIOUS
<1>1. ASSUME NEW n \in Nodes, NEW name \in Names, NEW q \in Requests, Register(q, n, name)
      PROVE  TypeInv'
  BY <1>1, RegisterTypes
<1>2. ASSUME NEW n \in Nodes, NEW name \in Names, NEW c \in Calls,
             Allow(c, n, name) \/ RegisterTokenBucket(c, n, name)
      PROVE  TypeInv'
  BY <1>2, SendTypes
<1>3. ASSUME NEW n \in Nodes, ApplyNext(n) \/ Restore(n)
      PROVE  TypeInv'
  BY <1>3, ApplyTypes
<1>4. ASSUME NEW n \in Nodes, Crash(n) \/ Restart(n)
      PROVE  TypeInv'
  BY <1>4, CrashTypes, RestartTypes
<1>5. ASSUME NEW c \in Calls, SendFails(c) \/ BindFails(c) \/ TimeOut(c) \/ Bind(c)
      PROVE  TypeInv'
  BY <1>5, FailTypes, TimeOutTypes, BindTypes
<1>6. ASSUME NEW c \in Calls, NEW k \in Commands, ReadAllow(c, k) \/ ReadRegRes(c, k)
      PROVE  TypeInv'
  BY <1>6, ReadTypes
<1>7. ASSUME NEW k \in Commands, Handle(k)
      PROVE  TypeInv'
  BY <1>7, LookupTypes, DecideTypes, ForwardTypes, RegisterResourceTypes DEF Handle
<1>8. CASE UNCHANGED vars
  <2>1. /\ UNCHANGED clusterVars /\ UNCHANGED <<copies, charged, granted, settled>>
        /\ UNCHANGED <<pc, asked, at, to, bound, retries, givenUp>>
        /\ UNCHANGED <<cmd, from, answer, here, via, held, told>>
    BY <1>8 DEF vars, clientVars, handlerVars
  <2>2. ClientType /\ CallInv /\ HandlerType /\ CommandInv /\ settled \in [Calls -> BOOLEAN]
    BY TypeInvParts DEF CountType
  <2>3. UNCHANGED up
    BY <2>1 DEF clusterVars
  <2>4. ClientType' /\ CallInv' /\ HandlerType' /\ CommandInv'
    BY <2>1, <2>2, <2>3 DEF ClientType, CallInv, HandlerType, CommandInv, Open, Waiting
  <2>. QED
    BY <2>1, <2>2, <2>4, CallSteps
<1>. QED
  BY <1>1, <1>2, <1>3, <1>4, <1>5, <1>6, <1>7, <1>8 DEF Next

LEMMA TypeInvariant == Spec => []TypeInv
<1>. QED
  BY InitTypes, NextTypes, PTL DEF Spec

\* Whatever the nodes and the clients do: a handler runs on a node that runs,
\* holds a copy of the limiter that this node has had, and every node shows the
\* state of the history that it has reached (AllowPbCmd, GetResource).
THEOREM TypeCorrect == Spec => []TypeOK
<1>1. TypeInv => TypeOK
  BY DEF TypeInv
<1>. QED
  BY <1>1, TypeInvariant, PTL



-----------------------------------------------------------------------------
(* Answers and the calls that wait for them.  As long as no read was given *)
(* up, what is on its way over a connection is for the call that waits     *)
(* there; and it is so again from when a call finds nothing on its way.    *)

OnWay(k) == from[k] # None \/ answer[k] # None

Connection(k) == IF from[k] # None THEN from[k] ELSE answer[k].on

Matched(k) ==
  LET c == cmd[k].call
  IN  Waiting(c) /\ pc[c] = cmd[k].op /\ at[c] = Connection(k) /\ asked[c] = cmd[k].name

OneWaits == \A c, d \in Calls : Waiting(c) /\ Waiting(d) /\ at[c] = at[d] => c = d

Matching ==
  /\ \A k \in Commands : OnWay(k) => Matched(k)
  /\ \A j, k \in Commands : OnWay(j) /\ OnWay(k) /\ cmd[j].call = cmd[k].call => j = k

Undisturbed == ~givenUp \/ \E c \in Calls : settled[c]

MatchInv == OneWaits /\ (Undisturbed => Matching)

\* Where commands stay on their way only with their calls, they stay matched.
LEMMA MatchPassedOn ==
  ASSUME TypeInv, MatchInv, Undisturbed' => Undisturbed,
         \A c \in Calls : Waiting(c)' => Waiting(c) /\ at'[c] = at[c],
         \A k \in Commands : OnWay(k)' =>
           OnWay(k) /\ cmd'[k] = cmd[k] /\ Connection(k)' = Connection(k),
         Undisturbed' => \A k \in Commands : OnWay(k)' /\ Matched(k) =>
           /\ pc'[cmd[k].call] = pc[cmd[k].call] /\ at'[cmd[k].call] = at[cmd[k].call]
           /\ asked'[cmd[k].call] = asked[cmd[k].call]
  PROVE  MatchInv'
<1>1. OneWaits'
  BY DEF MatchInv, OneWaits
<1>2. ASSUME Undisturbed'
      PROVE  Matching'
  <2>1. Matching
    BY <1>2 DEF MatchInv
  <2>2. ASSUME NEW k \in Commands, OnWay(k)'
        PROVE  Matched(k)'
    <3>1. OnWay(k) /\ cmd'[k] = cmd[k] /\ Connection(k)' = Connection(k) /\ Matched(k)
      BY <2>1, <2>2 DEF Matching
    <3>2. /\ pc'[cmd[k].call] = pc[cmd[k].call] /\ at'[cmd[k].call] = at[cmd[k].call]
          /\ asked'[cmd[k].call] = asked[cmd[k].call]
      BY <1>2, <2>2, <3>1
    <3>. QED
      BY <3>1, <3>2 DEF Matched, Waiting
  <2>3. ASSUME NEW j \in Commands, NEW k \in Commands, OnWay(j)', OnWay(k)', cmd'[j].call = cmd'[k].call
        PROVE  j = k
    <3>1. OnWay(j) /\ OnWay(k) /\ cmd[j].call = cmd[k].call
      BY <2>3
    <3>. QED
      BY <2>1, <3>1 DEF Matching
  <2>. QED
    BY <2>2, <2>3 DEF Matching
<1>. QED
  BY <1>1, <1>2 DEF MatchInv

\* What an undisturbed call reads is its own answer, and the only one it is to have.
LEMMA ReadOwn ==
  ASSUME TypeInv, MatchInv, Undisturbed, NEW c \in Calls, NEW k \in Commands,
         Waiting(c), k \in Unread(at[c])
  PROVE  /\ cmd[k].call = c /\ cmd[k].op = pc[c] /\ cmd[k].name = asked[c] /\ cmd[k] # None
         /\ answer[k] # None /\ answer[k].on = at[c] /\ from[k] = None
         /\ \A j \in Commands \ {k} : OnWay(j) => cmd[j].call # c
<1>1. Matching /\ OneWaits /\ CommandInv /\ HandlerType
  BY TypeInvParts DEF MatchInv
<1>2. answer[k] # None /\ answer[k].on = at[c]
  BY DEF Unread
<1>3. from[k] = None /\ cmd[k] # None
  BY <1>1, <1>2 DEF CommandInv
<1>4. OnWay(k) /\ Connection(k) = at[c]
  BY <1>2, <1>3 DEF OnWay, Connection
<1>5. Matched(k)
  BY <1>1, <1>4 DEF Matching
<1>6. cmd[k].call \in Calls
  BY <1>1, <1>3 DEF HandlerType, Command
<1>7. cmd[k].call = c
  BY <1>1, <1>4, <1>5, <1>6 DEF OneWaits, Matched
<1>8. \A j \in Commands \ {k} : OnWay(j) => cmd[j].call # c
  BY <1>1, <1>4, <1>7 DEF Matching
<1>. QED
  BY <1>2, <1>3, <1>5, <1>7, <1>8 DEF Matched

\* A call that is undisturbed once it has sent was so before, or nothing was on its way.
LEMMA SendMatch ==
  ASSUME TypeInv, MatchInv, NEW c \in Calls, NEW n \in Nodes, NEW name \in Names,
         Allow(c, n, name) \/ RegisterTokenBucket(c, n, name)
  PROVE  MatchInv'
<1>1. PICK op \in {"Allow", "RegRes"} : SendCmd(c, n, op, name) /\ pc[c] \in {"new", "retry"}
  BY DEF Allow, RegisterTokenBucket
<1>2. /\ UNCHANGED <<givenUp, answer>>
      /\ \A d \in Calls : Waiting(d) => at[d] # n
      /\ pc'[c] = op /\ asked'[c] = name /\ at'[c] = n
      /\ \A d \in Calls \ {c} : pc'[d] = pc[d] /\ asked'[d] = asked[d] /\ at'[d] = at[d]
  BY <1>1, SendSteps
<1>3. PICK k \in Commands :
        /\ from[k] = None /\ answer[k] = None
        /\ cmd'[k].call = c /\ cmd'[k].op = op /\ cmd'[k].name = name
        /\ from'[k] = n
        /\ \A j \in Commands \ {k} : cmd'[j] = cmd[j] /\ from'[j] = from[j]
  BY <1>1, SendSteps
<1>4. OneWaits'
  BY <1>2 DEF MatchInv, OneWaits, Waiting
<1>5. ~Waiting(c)
  BY <1>1 DEF Waiting
<1>6. ASSUME Undisturbed'
      PROVE  \A j \in Commands : OnWay(j) => Undisturbed /\ Matched(j) /\ cmd[j].call # c
  <2>1. CASE Undisturbed
    BY <1>5, <2>1 DEF MatchInv, Matching, Matched
  <2>2. CASE ~Undisturbed
    <3>1. settled' = [settled EXCEPT ![c] = Quiet] \/ settled' = settled
      BY DEF Allow, RegisterTokenBucket
    <3>2. \A d \in Calls : ~settled[d]
      BY <2>2 DEF Undisturbed
    <3>3. settled \in [Calls -> BOOLEAN]
      BY TypeInvParts DEF CountType
    <3>4. PICK d \in Calls : settled'[d]
      BY <1>2, <1>6, <2>2 DEF Undisturbed
    <3>5. Quiet
      BY <3>1, <3>2, <3>3, <3>4
    <3>6. \A j \in Commands : ~OnWay(j)
      <4>1. \A j \in Commands : OnWay(j) => cmd[j] # None /\ cmd[j].call \in Calls
        BY TypeInvParts DEF OnWay, CommandInv, HandlerType, Command
      <4>. QED
        BY <3>2, <3>5, <4>1 DEF Quiet, OnWay
    <3>. QED
      BY <3>6
  <2>. QED
    BY <2>1, <2>2
<1>7. \A j \in Commands \ {k} :
        (OnWay(j)' <=> OnWay(j)) /\ Connection(j)' = Connection(j) /\ cmd'[j] = cmd[j]
  BY <1>2, <1>3 DEF OnWay, Connection
<1>8. \A j \in Commands : OnWay(j) => cmd[j].call \in Calls
  BY TypeInvParts DEF OnWay, CommandInv, HandlerType, Command
<1>9. ~OnWay(k) /\ Matched(k)'
  <2>1. Connection(k)' = n
    BY <1>3 DEF Connection
  <2>. QED
    BY <1>2, <1>3, <2>1 DEF OnWay, Matched, Waiting
<1>10. ASSUME Undisturbed'
       PROVE  Matching'
  <2>1. ASSUME NEW j \in Commands \ {k}, OnWay(j)'
        PROVE  Matched(j)' /\ cmd'[j].call # c
    <3>1. Matched(j) /\ cmd[j].call # c /\ cmd[j].call \in Calls
      BY <1>6, <1>7, <1>8, <1>10, <2>1
    <3>. QED
      BY <1>2, <1>7, <3>1 DEF Matched, Waiting
  <2>2. ASSUME NEW i \in Commands, NEW j \in Commands, OnWay(i)', OnWay(j)', cmd'[i].call = cmd'[j].call
        PROVE  i = j
    <3>1. CASE i = k \/ j = k
      BY <1>3, <2>1, <2>2, <3>1
    <3>2. CASE i # k /\ j # k
      <4>1. OnWay(i) /\ OnWay(j) /\ cmd[i].call = cmd[j].call
        BY <1>7, <2>2, <3>2
      <4>2. Undisturbed
        BY <1>6, <1>10, <4>1
      <4>. QED
        BY <4>1, <4>2 DEF MatchInv, Matching
    <3>. QED
      BY <3>1, <3>2
  <2>. QED
    BY <1>9, <2>1, <2>2 DEF Matching
<1>. QED
  BY <1>4, <1>10 DEF MatchInv

\* An answer leaves the command on its way over the same connection.
LEMMA AnswerOnWay ==
  ASSUME TypeInv, NEW k \in Commands, NEW msg \in Message \cup {None}, here[k] # None,
         Answer(k, msg), UNCHANGED clusterVars, UNCHANGED clientVars
  PROVE  \A j \in Commands : OnWay(j)' =>
           OnWay(j) /\ cmd'[j] = cmd[j] /\ Connection(j)' = Connection(j)
<1>1. CommandInv'
  BY AnswerSteps
<1>2. ASSUME NEW j \in Commands, OnWay(j)'
      PROVE  cmd'[j] = cmd[j]
  <2>1. cmd'[j] # None
    BY <1>1, <1>2 DEF CommandInv, OnWay
  <2>. QED
    BY <2>1, AnswerSteps
<1>3. ASSUME NEW j \in Commands \ {k}, OnWay(j)'
      PROVE  OnWay(j) /\ Connection(j)' = Connection(j)
  <2>1. from'[j] = from[j] /\ answer'[j] = answer[j]
    BY AnswerSteps
  <2>. QED
    BY <1>3, <2>1 DEF OnWay, Connection
<1>4. ASSUME OnWay(k)'
      PROVE  OnWay(k) /\ Connection(k)' = Connection(k)
  <2>1. from'[k] = None
    BY AnswerSteps
  <2>2. CASE from[k] # None
    <3>1. answer'[k] = [on |-> from[k], msg |-> msg]
      BY <2>2, AnswerSteps
    <3>. QED
      BY <2>1, <2>2, <3>1 DEF OnWay, Connection
  <2>3. CASE from[k] = None
    <3>1. answer'[k] = answer[k]
      BY <2>3, AnswerSteps
    <3>. QED
      BY <1>4, <2>1, <2>3, <3>1 DEF OnWay, Connection
  <2>. QED
    BY <2>2, <2>3
<1>. QED
  BY <1>2, <1>3, <1>4

\* What a handler does: it answers, finds the resource, or forwards.
LEMMA HandleCases ==
  ASSUME TypeInv, NEW k \in Commands, Handle(k)
  PROVE  /\ UNCHANGED clusterVars /\ UNCHANGED clientVars /\ UNCHANGED settled /\ here[k] # None
         /\ \/ \E msg \in Message \cup {None} : Answer(k, msg)
            \/ Lookup(k) /\ shown[here[k]][cmd[k].name] # None
            \/ Forward(k) /\ held[k].node \in up
<1>1. CASE Lookup(k)
  BY <1>1 DEF Lookup
<1>2. CASE Decide(k)
  BY <1>2, DecideAnswers, DecidedMessage
<1>3. CASE Forward(k)
  BY <1>3 DEF Forward
<1>4. CASE RegisterResource(k)
  <2>1. here[k] # None
    BY <1>4 DEF RegisterResource
  <2>. QED
    BY <1>4, <2>1, RegisterSays
<1>. QED
  BY <1>1, <1>2, <1>3, <1>4 DEF Handle

LEMMA NextMatch == TypeInv /\ MatchInv /\ [Next]_vars => MatchInv'
<1>. SUFFICES ASSUME TypeInv, MatchInv, [Next]_vars
              PROVE  MatchInv'
  OBVIOUS
<1>0. CommandInv /\ HandlerType
  BY TypeInvParts
<1>1. ASSUME UNCHANGED <<pc, at, asked, givenUp, cmd, from, answer>>,
             \A d \in Calls : settled'[d] => settled[d]
      PROVE  MatchInv'
  <2>1. Undisturbed' => Undisturbed
    BY <1>1 DEF Undisturbed
  <2>2. \A c \in Calls : Waiting(c)' => Waiting(c) /\ at'[c] = at[c]
    BY <1>1 DEF Waiting
  <2>3. \A k \in Commands : OnWay(k)' => OnWay(k) /\ cmd'[k] = cmd[k] /\ Connection(k)' = Connection(k)
    BY <1>1 DEF OnWay, Connection
  <2>. QED
    BY <1>1, <2>1, <2>2, <2>3, MatchPassedOn
<1>2. ASSUME NEW n \in Nodes, \/ ApplyNext(n) \/ Restore(n) \/ Restart(n)
                              \/ \E q \in Requests, name \in Names : Register(q, n, name)
      PROVE  MatchInv'
  BY <1>1, <1>2 DEF ApplyNext, Restore, Restart, Register, clientVars, handlerVars, Unsettle
<1>3. ASSUME NEW n \in Nodes, Crash(n)
      PROVE  MatchInv'
  <2>1. UNCHANGED <<asked, givenUp>> /\ Unsettle
    BY <1>3 DEF Crash
  <2>2. Undisturbed' => Undisturbed
    BY <2>1 DEF Undisturbed, Unsettle
  <2>3. \A c \in Calls : Waiting(c)' => Waiting(c) /\ at'[c] = at[c]
    BY <1>3, CrashSteps DEF Waiting
  <2>4. ASSUME NEW k \in Commands, OnWay(k)'
        PROVE  OnWay(k) /\ cmd'[k] = cmd[k] /\ Connection(k)' = Connection(k) /\ Connection(k) # n
    <3>1. cmd'[k] = cmd[k]
      <4>1. cmd'[k] # None
        BY <1>3, <2>4, CrashSteps DEF OnWay, CommandInv
      <4>. QED
        BY <1>3, <4>1, CrashSteps
    <3>2. CASE from'[k] # None
      BY <1>3, <3>1, <3>2, CrashSteps DEF OnWay, Connection
    <3>3. CASE from'[k] = None
      <4>1. answer'[k] # None
        BY <2>4, <3>3 DEF OnWay
      <4>2. CASE answer'[k] = answer[k] /\ answer[k].on # n
        <5>1. from[k] = None
          BY <1>0, <4>1, <4>2 DEF CommandInv
        <5>. QED
          BY <3>1, <3>3, <4>1, <4>2, <5>1 DEF OnWay, Connection
      <4>3. CASE from[k] \notin {None, n} /\ answer'[k] = [on |-> from[k], msg |-> None]
        BY <3>1, <3>3, <4>3 DEF OnWay, Connection
      <4>. QED
        BY <1>3, <4>1, <4>2, <4>3, CrashSteps
    <3>. QED
      BY <3>2, <3>3
  <2>5. ASSUME NEW k \in Commands, OnWay(k)', Matched(k)
        PROVE  pc'[cmd[k].call] = pc[cmd[k].call] /\ at'[cmd[k].call] = at[cmd[k].call]
    <3>1. at[cmd[k].call] # n
      BY <2>4, <2>5 DEF Matched
    <3>2. cmd[k].call \in Calls
      BY <1>0, <2>4, <2>5 DEF OnWay, CommandInv, HandlerType, Command
    <3>. QED
      BY <1>3, <3>1, <3>2, CrashSteps
  <2>. QED
    BY <2>1, <2>2, <2>3, <2>4, <2>5, MatchPassedOn
<1>4. ASSUME NEW n \in Nodes, NEW name \in Names, NEW c \in Calls,
             Allow(c, n, name) \/ RegisterTokenBucket(c, n, name)
      PROVE  MatchInv'
  BY <1>4, SendMatch
<1>5. ASSUME NEW c \in Calls, ~Waiting(c), ~Waiting(c)', UNCHANGED <<asked, givenUp, cmd, from, answer>>,
             \A d \in Calls \ {c} : pc'[d] = pc[d] /\ at'[d] = at[d],
             \A d \in Calls : settled'[d] => settled[d]
      PROVE  MatchInv'
  <2>1. Undisturbed' => Undisturbed
    BY <1>5 DEF Undisturbed
  <2>2. \A d \in Calls : Waiting(d)' => Waiting(d) /\ at'[d] = at[d]
    BY <1>5 DEF Waiting
  <2>3. \A k \in Commands : OnWay(k)' => OnWay(k) /\ cmd'[k] = cmd[k] /\ Connection(k)' = Connection(k)
    BY <1>5 DEF OnWay, Connection
  <2>4. ASSUME NEW k \in Commands, OnWay(k)', Matched(k)
        PROVE  pc'[cmd[k].call] = pc[cmd[k].call] /\ at'[cmd[k].call] = at[cmd[k].call]
    <3>1. cmd[k].call \in Calls
      BY <1>0, <2>3, <2>4 DEF OnWay, CommandInv, HandlerType, Command
    <3>. QED
      BY <1>5, <2>4, <3>1 DEF Matched
  <2>. QED
    BY <1>5, <2>1, <2>2, <2>3, <2>4, MatchPassedOn
<1>6. ASSUME NEW c \in Calls, SendFails(c) \/ BindFails(c)
      PROVE  MatchInv'
  <2>1. /\ Return(c, "error") /\ UNCHANGED <<asked, givenUp>> /\ UNCHANGED handlerVars
        /\ settled' = [settled EXCEPT ![c] = FALSE]
        /\ ~Waiting(c)
    BY <1>6 DEF SendFails, BindFails, Waiting
  <2>2. settled \in [Calls -> BOOLEAN]
    BY TypeInvParts DEF CountType
  <2>3. pc'[c] = "error" /\ \A d \in Calls \ {c} : pc'[d] = pc[d] /\ at'[d] = at[d]
    BY <2>1, ReturnSteps
  <2>4. ~Waiting(c)' /\ \A d \in Calls : settled'[d] => settled[d]
    BY <2>1, <2>2, <2>3 DEF Waiting
  <2>. QED
    BY <1>5, <2>1, <2>3, <2>4 DEF handlerVars
<1>7. ASSUME NEW c \in Calls, Bind(c)
      PROVE  MatchInv'
  <2>1. ~Waiting(c) /\ ~Waiting(c)'
    BY <1>7, BindSteps DEF Waiting
  <2>2. /\ UNCHANGED <<asked, givenUp>> /\ UNCHANGED handlerVars
        /\ \A d \in Calls \ {c} : pc'[d] = pc[d] /\ at'[d] = at[d]
        /\ \A d \in Calls : settled'[d] => settled[d]
    BY <1>7, BindSteps
  <2>. QED
    BY <1>5, <2>1, <2>2 DEF handlerVars
<1>8. ASSUME NEW c \in Calls, TimeOut(c)
      PROVE  MatchInv'
  <2>1. ~Undisturbed'
    BY <1>8, TimeOutSteps DEF Undisturbed, Unsettle
  <2>2. /\ pc'[c] = "error" /\ \A d \in Calls \ {c} : pc'[d] = pc[d] /\ at'[d] = at[d]
    BY <1>8, TimeOutSteps
  <2>3. OneWaits'
    BY <2>2 DEF MatchInv, OneWaits, Waiting
  <2>. QED
    BY <2>1, <2>3 DEF MatchInv
<1>9. ASSUME NEW c \in Calls, NEW k \in Commands, ReadAllow(c, k) \/ ReadRegRes(c, k)
      PROVE  MatchInv'
  <2>1. PICK result, node :
          /\ \/ node = None /\ result \in {"ok", "refused", "registered", "error"}
             \/ node \in Nodes /\ result \in {"redirected", "placed"}
          /\ Read(c, k, result, node)
    BY <1>9, ReadCases
  <2>2. Waiting(c) /\ k \in Unread(at[c])
    BY <1>9, ReadCases
  <2>3. /\ UNCHANGED <<asked, givenUp, from>>
        /\ pc'[c] = result
        /\ settled'[c] => settled[c]
        /\ \A d \in Calls \ {c} : pc'[d] = pc[d] /\ at'[d] = at[d] /\ settled'[d] = settled[d]
        /\ answer'[k] = None
        /\ \A j \in Commands \ {k} : answer'[j] = answer[j]
        /\ \A j \in Commands : cmd'[j] # None => cmd'[j] = cmd[j]
        /\ CommandInv'
    BY <2>1, <2>2, ReadSteps
  <2>4. ~Waiting(c)'
    BY <2>1, <2>3 DEF Waiting
  <2>5. Undisturbed' => Undisturbed
    BY <2>3 DEF Undisturbed
  <2>6. \A d \in Calls : Waiting(d)' => Waiting(d) /\ at'[d] = at[d]
    BY <2>3, <2>4 DEF Waiting
  <2>7. from[k] = None
    BY <1>0, <2>2 DEF Unread, CommandInv
  <2>8. ASSUME NEW j \in Commands, OnWay(j)'
        PROVE  j # k /\ OnWay(j) /\ cmd'[j] = cmd[j] /\ Connection(j)' = Connection(j)
    <3>1. j # k
      BY <2>3, <2>7, <2>8 DEF OnWay
    <3>2. cmd'[j] # None
      BY <2>3, <2>8 DEF CommandInv, OnWay
    <3>. QED
      BY <2>3, <2>8, <3>1, <3>2 DEF OnWay, Connection
  <2>9. ASSUME Undisturbed', NEW j \in Commands, OnWay(j)'
        PROVE  pc'[cmd[j].call] = pc[cmd[j].call] /\ at'[cmd[j].call] = at[cmd[j].call]
    <3>1. cmd[j].call # c
      BY <2>2, <2>5, <2>8, <2>9, ReadOwn
    <3>2. cmd[j].call \in Calls
      BY <1>0, <2>8, <2>9 DEF OnWay, CommandInv, HandlerType, Command
    <3>. QED
      BY <2>3, <3>1, <3>2
  <2>. QED
    BY <2>3, <2>5, <2>6, <2>8, <2>9, MatchPassedOn
<1>10. ASSUME NEW k \in Commands, Handle(k)
       PROVE  MatchInv'
  <2>1. UNCHANGED clusterVars /\ UNCHANGED clientVars /\ UNCHANGED settled /\ here[k] # None
    BY <1>10, HandleCases
  <2>2. UNCHANGED <<pc, at, asked, givenUp>>
    BY <2>1 DEF clientVars
  <2>3. ASSUME NEW msg \in Message \cup {None}, Answer(k, msg)
        PROVE  MatchInv'
    <3>1. \A j \in Commands : OnWay(j)' =>
            OnWay(j) /\ cmd'[j] = cmd[j] /\ Connection(j)' = Connection(j)
      BY <2>1, <2>3, AnswerOnWay
    <3>2. Undisturbed' => Undisturbed
      BY <2>1, <2>2 DEF Undisturbed
    <3>3. \A c \in Calls : Waiting(c)' => Waiting(c) /\ at'[c] = at[c]
      BY <2>2 DEF Waiting
    <3>. QED
      BY <2>2, <3>1, <3>2, <3>3, MatchPassedOn
  <2>4. CASE Lookup(k) /\ shown[here[k]][cmd[k].name] # None
    BY <1>1, <2>1, <2>2, <2>4, LookupSteps
  <2>5. CASE Forward(k) /\ held[k].node \in up
    BY <1>1, <2>1, <2>2, <2>5, ForwardSteps
  <2>. QED
    BY <1>10, <2>3, <2>4, <2>5, HandleCases
<1>11. CASE UNCHANGED vars
  BY <1>1, <1>11 DEF vars, clientVars, handlerVars
<1>. QED
  BY <1>2, <1>3, <1>4, <1>6, <1>7, <1>8, <1>9, <1>10, <1>11 DEF Next

LEMMA InitMatch == Init => MatchInv
BY DEF Init, MatchInv, OneWaits, Matching, OnWay, Waiting

LEMMA MatchInvariant == Spec => []MatchInv
<1>. QED
  BY InitMatch, NextMatch, TypeInvariant, PTL DEF Spec

-----------------------------------------------------------------------------
(* Owners.  What a handler holds, tells the next one and answers has been  *)
(* in the history for the resource of its command, and what the client     *)
(* binds a resource to has been there too, if for another one in case the  *)
(* client may have read the answer of another call.                        *)

OwnedIn(h, name, n) == \E i \in 1 .. Len(h) : h[i][name] # None /\ h[i][name].node = n

OwnerFor(h, free, name, n) == \E other \in Names : OwnedIn(h, other, n) /\ (other = name \/ free)

OwnerInv ==
  /\ \A k \in Commands :
       /\ held[k] # None => OwnedIn(history, cmd[k].name, held[k].node)
       /\ told[k] # None => OwnedIn(history, cmd[k].name, told[k])
       /\ answer[k] # None /\ answer[k].msg # None =>
            OwnedIn(history, cmd[k].name, answer[k].msg.node)
  /\ \A c \in Calls :
       pc[c] \in {"redirected", "placed"} => OwnerFor(history, givenUp, asked[c], to[c])
  /\ \A name \in Names : bound[name] # None => OwnerFor(history, givenUp, name, bound[name])

\* The history only grows.
LEMMA HistoryGrows ==
  ASSUME TypeInv, [Next]_vars
  PROVE  /\ Len(history) \in Nat /\ Len(history') \in Nat /\ Len(history) <= Len(history')
         /\ \A i \in 1 .. Len(history) : history'[i] = history[i]
<1>1. history \in Seq(Registries)
  BY TypeInvParts DEF ClusterType
<1>2. CASE \E q \in Requests, n \in Nodes, name \in Names : Register(q, n, name)
  <2>1. Len(history') = Len(history) + 1 /\ \A i \in 1 .. Len(history) : history'[i] = history[i]
    BY <1>1, <1>2, RegisterSteps
  <2>. QED
    BY <1>1, <2>1
<1>3. ASSUME UNCHANGED history
      PROVE  /\ Len(history) \in Nat /\ Len(history') \in Nat /\ Len(history) <= Len(history')
             /\ \A i \in 1 .. Len(history) : history'[i] = history[i]
  BY <1>1, <1>3
<1>4. ASSUME NEW n \in Nodes, ApplyNext(n) \/ Restore(n) \/ Crash(n) \/ Restart(n)
      PROVE  UNCHANGED history
  BY <1>4 DEF ApplyNext, Restore, Crash, Restart, registryVars, Registry!Follow, Registry!Forget
<1>5. ASSUME NEW n \in Nodes, NEW name \in Names, NEW c \in Calls,
             Allow(c, n, name) \/ RegisterTokenBucket(c, n, name)
      PROVE  UNCHANGED history
  BY <1>5 DEF Allow, RegisterTokenBucket, SendCmd, clusterVars, registryVars
<1>6. ASSUME NEW c \in Calls, SendFails(c) \/ TimeOut(c) \/ Bind(c) \/ BindFails(c)
      PROVE  UNCHANGED history
  BY <1>6 DEF SendFails, TimeOut, Bind, BindFails, clusterVars, registryVars
<1>7. ASSUME NEW c \in Calls, NEW k \in Commands, ReadAllow(c, k) \/ ReadRegRes(c, k)
      PROVE  UNCHANGED history
  BY <1>7 DEF ReadAllow, ReadRegRes, Read, clusterVars, registryVars
<1>8. ASSUME NEW k \in Commands, Handle(k)
      PROVE  UNCHANGED history
  BY <1>8 DEF Handle, Lookup, Decide, Forward, RegisterResource, clusterVars, registryVars
<1>9. UNCHANGED vars => UNCHANGED history
  BY DEF vars, clusterVars, registryVars
<1>. QED
  BY <1>2, <1>3, <1>4, <1>5, <1>6, <1>7, <1>8, <1>9 DEF Next

LEMMA OwnedKept ==
  ASSUME TypeInv, [Next]_vars, NEW name, NEW n, OwnedIn(history, name, n)
  PROVE  OwnedIn(history', name, n)
<1>1. PICK i \in 1 .. Len(history) : history[i][name] # None /\ history[i][name].node = n
  BY DEF OwnedIn
<1>2. i \in 1 .. Len(history') /\ history'[i] = history[i]
  BY HistoryGrows
<1>. QED
  BY <1>1, <1>2 DEF OwnedIn

LEMMA OwnerForKept ==
  ASSUME TypeInv, [Next]_vars, givenUp => givenUp', NEW name, NEW n,
         OwnerFor(history, givenUp, name, n)
  PROVE  OwnerFor(history', givenUp', name, n)
<1>1. PICK other \in Names : OwnedIn(history, other, n) /\ (other = name \/ givenUp)
  BY DEF OwnerFor
<1>2. OwnedIn(history', other, n)
  BY <1>1, OwnedKept
<1>. QED
  BY <1>1, <1>2 DEF OwnerFor

\* A step that keeps what handlers, answers and the client know, or forgets it, or
\* puts an owner in its place, keeps the owners.
LEMMA OwnersPassedOn ==
  ASSUME TypeInv, OwnerInv, [Next]_vars, givenUp => givenUp',
         \A k \in Commands :
           /\ held'[k] # None =>
                /\ cmd'[k] = cmd[k]
                /\ held'[k] = held[k] \/ OwnedIn(history, cmd[k].name, held'[k].node)
           /\ told'[k] # None =>
                /\ cmd'[k] = cmd[k]
                /\ told'[k] = told[k] \/ OwnedIn(history, cmd[k].name, told'[k])
           /\ answer'[k] # None /\ answer'[k].msg # None =>
                /\ cmd'[k] = cmd[k]
                /\ \/ answer'[k] = answer[k]
                   \/ OwnedIn(history, cmd[k].name, answer'[k].msg.node),
         \A c \in Calls : pc'[c] \in {"redirected", "placed"} =>
           \/ pc[c] \in {"redirected", "placed"} /\ asked'[c] = asked[c] /\ to'[c] = to[c]
           \/ OwnerFor(history, givenUp, asked'[c], to'[c]),
         \A name \in Names : bound'[name] # None =>
           bound'[name] = bound[name] \/ OwnerFor(history, givenUp, name, bound'[name])
  PROVE  OwnerInv'
<1>1. ASSUME NEW k \in Commands, held'[k] # None
      PROVE  OwnedIn(history', cmd'[k].name, held'[k].node)
  <2>1. cmd'[k] = cmd[k] /\ OwnedIn(history, cmd[k].name, held'[k].node)
    BY <1>1 DEF OwnerInv
  <2>. QED
    BY <2>1, OwnedKept
<1>2. ASSUME NEW k \in Commands, told'[k] # None
      PROVE  OwnedIn(history', cmd'[k].name, told'[k])
  <2>1. cmd'[k] = cmd[k] /\ OwnedIn(history, cmd[k].name, told'[k])
    BY <1>2 DEF OwnerInv
  <2>. QED
    BY <2>1, OwnedKept
<1>3. ASSUME NEW k \in Commands, answer'[k] # None, answer'[k].msg # None
      PROVE  OwnedIn(history', cmd'[k].name, answer'[k].msg.node)
  <2>1. cmd'[k] = cmd[k] /\ OwnedIn(history, cmd[k].name, answer'[k].msg.node)
    BY <1>3 DEF OwnerInv
  <2>. QED
    BY <2>1, OwnedKept
<1>4. ASSUME NEW c \in Calls, pc'[c] \in {"redirected", "placed"}
      PROVE  OwnerFor(history', givenUp', asked'[c], to'[c])
  <2>1. OwnerFor(history, givenUp, asked'[c], to'[c])
    BY <1>4 DEF OwnerInv
  <2>. QED
    BY <2>1, OwnerForKept
<1>5. ASSUME NEW name \in Names, bound'[name] # None
      PROVE  OwnerFor(history', givenUp', name, bound'[name])
  <2>1. OwnerFor(history, givenUp, name, bound'[name])
    BY <1>5 DEF OwnerInv
  <2>. QED
    BY <2>1, OwnerForKept
<1>. QED
  BY <1>1, <1>2, <1>3, <1>4, <1>5 DEF OwnerInv

\* What a node shows has been in the history.
LEMMA ShownOwned ==
  ASSUME TypeInv, NEW n \in Nodes, NEW name, shown[n][name] # None
  PROVE  OwnedIn(history, name, shown[n][name].node)
<1>1. position[n] \in 1 .. Len(history) /\ shown[n] = history[position[n]]
  BY TypeInvParts DEF ClusterType
<1>. QED
  BY <1>1 DEF OwnedIn

\* A handler answers with a node that has been the owner, or with an error.
LEMMA AnswerOwners ==
  ASSUME TypeInv, OwnerInv, [Next]_vars, NEW k \in Commands, NEW msg \in Message \cup {None},
         here[k] # None, Answer(k, msg), UNCHANGED clusterVars, UNCHANGED clientVars,
         msg # None => OwnedIn(history, cmd[k].name, msg.node)
  PROVE  OwnerInv'
<1>1. UNCHANGED <<pc, asked, to, bound, givenUp>>
  BY DEF clientVars
<1>2. /\ held'[k] = None /\ told'[k] = None
      /\ from[k] # None => answer'[k] = [on |-> from[k], msg |-> msg]
      /\ from[k] = None => answer'[k] = answer[k]
      /\ \A j \in Commands : cmd'[j] # None => cmd'[j] = cmd[j]
      /\ \A j \in Commands \ {k} :
           held'[j] = held[j] /\ told'[j] = told[j] /\ answer'[j] = answer[j]
      /\ CommandInv'
  BY AnswerSteps
<1>3. \A j \in Commands : held'[j] # None \/ told'[j] # None \/ answer'[j] # None => cmd'[j] = cmd[j]
  BY <1>2 DEF CommandInv
<1>4. answer'[k] # None /\ answer'[k].msg # None =>
        answer'[k] = answer[k] \/ OwnedIn(history, cmd[k].name, answer'[k].msg.node)
  <2>1. CASE from[k] # None
    <3>1. answer'[k].msg = msg
      BY <1>2, <2>1
    <3>. QED
      BY <3>1
  <2>. QED
    BY <1>2, <2>1
<1>. QED
  BY <1>1, <1>2, <1>3, <1>4, OwnersPassedOn

\* A command that is looked up, decided or forwarded, or registers its resource.
LEMMA HandleOwners ==
  ASSUME TypeInv, OwnerInv, [Next]_vars, NEW k \in Commands, Handle(k)
  PROVE  OwnerInv'
<1>1. UNCHANGED clusterVars /\ UNCHANGED clientVars /\ here[k] # None
  BY HandleCases
<1>2. UNCHANGED <<pc, asked, to, bound, givenUp>>
  BY <1>1 DEF clientVars
<1>3. here[k] \in Nodes
  BY <1>1, TypeInvParts DEF HandlerType, ClusterType
<1>4. ASSUME Answer(k, None)
      PROVE  OwnerInv'
  BY <1>1, <1>4, AnswerOwners
<1>5. CASE Lookup(k)
  <2>1. CASE shown[here[k]][cmd[k].name] = None
    <3>1. Answer(k, None)
      BY <1>5, <2>1 DEF Lookup
    <3>. QED
      BY <1>4, <3>1
  <2>2. CASE shown[here[k]][cmd[k].name] # None
    <3>1. /\ UNCHANGED <<cmd, told, answer>>
          /\ held'[k] # None => held'[k].node = shown[here[k]][cmd[k].name].node
          /\ \A j \in Commands \ {k} : held'[j] = held[j]
      BY <1>5, <2>2, LookupSteps
    <3>2. OwnedIn(history, cmd[k].name, shown[here[k]][cmd[k].name].node)
      BY <1>3, <2>2, ShownOwned
    <3>. QED
      BY <1>2, <3>1, <3>2, OwnersPassedOn
  <2>. QED
    BY <2>1, <2>2
<1>6. CASE Decide(k)
  <2>1. PICK ok \in BOOLEAN : Answer(k, Decided(k, ok)) /\ held[k] # None /\ held[k].node = here[k]
    BY <1>6, DecideAnswers
  <2>2. /\ Decided(k, ok) \in Message
        /\ Decided(k, ok).node = IF told[k] = None THEN here[k] ELSE told[k]
    BY <1>1, DecidedMessage
  <2>3. OwnedIn(history, cmd[k].name, Decided(k, ok).node)
    BY <2>1, <2>2 DEF OwnerInv
  <2>. QED
    BY <1>1, <2>1, <2>2, <2>3, AnswerOwners
<1>7. CASE Forward(k)
  <2>1. CASE held[k].node \in up
    <3>1. /\ UNCHANGED <<cmd, answer>>
          /\ held'[k] = None /\ held[k] # None
          /\ told'[k] = IF told[k] = None THEN held[k].node ELSE told[k]
          /\ \A j \in Commands \ {k} : held'[j] = held[j] /\ told'[j] = told[j]
      BY <1>7, <2>1, ForwardSteps
    <3>2. OwnedIn(history, cmd[k].name, held[k].node)
      BY <3>1 DEF OwnerInv
    <3>. QED
      BY <1>2, <3>1, <3>2, OwnersPassedOn
  <2>2. CASE held[k].node \notin up
    <3>1. Answer(k, None)
      BY <1>7, <2>2 DEF Forward
    <3>. QED
      BY <1>4, <3>1
  <2>. QED
    BY <2>1, <2>2
<1>8. CASE RegisterResource(k)
  <2>1. PICK msg \in Message \cup {None} :
          /\ Answer(k, msg)
          /\ msg # None =>
               \/ /\ shown[here[k]][cmd[k].name] # None
                  /\ msg.node = shown[here[k]][cmd[k].name].node
               \/ /\ msg.node = here[k]
                  /\ \E i \in 1 .. position[here[k]] :
                       /\ history[i][cmd[k].name] # None
                       /\ history[i][cmd[k].name].node = here[k]
    BY <1>8, RegisterSays
  <2>2. position[here[k]] \in 1 .. Len(history) /\ Len(history) \in Nat
    BY <1>3, TypeInvParts DEF ClusterType
  <2>3. 1 .. position[here[k]] \subseteq 1 .. Len(history)
    BY <2>2
  <2>4. msg # None => OwnedIn(history, cmd[k].name, msg.node)
    BY <1>3, <2>1, <2>3, ShownOwned DEF OwnedIn
  <2>. QED
    BY <1>1, <2>1, <2>4, AnswerOwners
<1>. QED
  BY <1>5, <1>6, <1>7, <1>8 DEF Handle

\* What a call reads names an owner of its resource, or of another one if a read
\* was given up before it.
LEMMA ReadOwners ==
  ASSUME TypeInv, MatchInv, OwnerInv, [Next]_vars, NEW c \in Calls, NEW k \in Commands,
         ReadAllow(c, k) \/ ReadRegRes(c, k)
  PROVE  OwnerInv'
<1>1. PICK result, node :
        /\ \/ node = None /\ result \in {"ok", "refused", "registered", "error"}
           \/ /\ node \in Nodes /\ result \in {"redirected", "placed"}
              /\ answer[k].msg # None /\ node = answer[k].msg.node
        /\ Read(c, k, result, node)
  BY ReadCases
<1>2. Waiting(c) /\ k \in Unread(at[c]) /\ answer[k] # None
  BY ReadCases
<1>3. /\ UNCHANGED <<asked, bound, givenUp, held, told>>
      /\ pc'[c] = result /\ to'[c] = node
      /\ \A d \in Calls \ {c} : pc'[d] = pc[d] /\ to'[d] = to[d]
      /\ answer'[k] = None
      /\ \A j \in Commands \ {k} : answer'[j] = answer[j]
      /\ \A j \in Commands : cmd'[j] # None => cmd'[j] = cmd[j]
      /\ CommandInv'
  BY <1>1, <1>2, ReadSteps
<1>4. \A j \in Commands : held'[j] # None \/ told'[j] # None \/ answer'[j] # None => cmd'[j] = cmd[j]
  BY <1>3 DEF CommandInv
<1>5. ASSUME node # None
      PROVE  OwnerFor(history, givenUp, asked[c], node)
  <2>1. OwnedIn(history, cmd[k].name, node)
    BY <1>1, <1>2, <1>5 DEF OwnerInv
  <2>2. cmd[k].name \in Names
    <3>1. cmd[k] # None
      BY <1>2, TypeInvParts DEF CommandInv
    <3>. QED
      BY <3>1, TypeInvParts DEF HandlerType, Command
  <2>3. ~givenUp => cmd[k].name = asked[c]
    BY <1>2, ReadOwn DEF Undisturbed
  <2>. QED
    BY <2>1, <2>2, <2>3 DEF OwnerFor
<1>6. node = None => pc'[c] \notin {"redirected", "placed"}
  BY <1>1, <1>3
<1>. QED
  BY <1>3, <1>4, <1>5, <1>6, OwnersPassedOn

LEMMA NextOwners == TypeInv /\ MatchInv /\ OwnerInv /\ [Next]_vars => OwnerInv'
<1>. SUFFICES ASSUME TypeInv, MatchInv, OwnerInv, [Next]_vars
              PROVE  OwnerInv'
  OBVIOUS
<1>1. CommandInv /\ history \in Seq(Registries)
  BY TypeInvParts DEF ClusterType
<1>2. CASE UNCHANGED clientVars /\ UNCHANGED handlerVars
  <2>1. /\ UNCHANGED <<pc, asked, to, bound, givenUp>>
        /\ UNCHANGED <<cmd, held, told, answer>>
    BY <1>2 DEF clientVars, handlerVars
  <2>2. /\ \A k \in Commands : /\ cmd'[k] = cmd[k] /\ held'[k] = held[k]
                               /\ told'[k] = told[k] /\ answer'[k] = answer[k]
        /\ \A c \in Calls : pc'[c] = pc[c] /\ asked'[c] = asked[c] /\ to'[c] = to[c]
        /\ \A name \in Names : bound'[name] = bound[name]
        /\ givenUp => givenUp'
    BY <2>1
  <2>. QED
    BY <2>2, OwnersPassedOn
<1>3. ASSUME NEW n \in Nodes, Crash(n)
      PROVE  OwnerInv'
  <2>1. UNCHANGED <<asked, to, bound, givenUp>>
    BY <1>3 DEF Crash
  <2>2. \A k \in Commands :
          /\ cmd'[k] # None => cmd'[k] = cmd[k]
          /\ held'[k] # None => held'[k] = held[k]
          /\ told'[k] # None => told'[k] = told[k]
          /\ answer'[k] # None /\ answer'[k].msg # None => answer'[k] = answer[k]
    <3>1. ASSUME NEW k \in Commands, answer'[k] # None, answer'[k].msg # None
          PROVE  answer'[k] = answer[k]
      <4>1. answer'[k] = answer[k] \/ answer'[k] = [on |-> from[k], msg |-> None]
        BY <1>3, <3>1, CrashSteps
      <4>. QED
        BY <3>1, <4>1
    <3>. QED
      BY <1>3, <3>1, CrashSteps
  <2>3. CommandInv'
    BY <1>3, CrashSteps
  <2>4. \A k \in Commands : held'[k] # None \/ told'[k] # None \/ answer'[k] # None => cmd'[k] = cmd[k]
    BY <2>2, <2>3 DEF CommandInv
  <2>5. \A c \in Calls : pc'[c] \in {"redirected", "placed"} => pc[c] \in {"redirected", "placed"}
    BY <1>3, CrashSteps
  <2>. QED
    BY <2>1, <2>2, <2>4, <2>5, OwnersPassedOn
<1>4. ASSUME NEW n \in Nodes, NEW name \in Names, NEW c \in Calls,
             Allow(c, n, name) \/ RegisterTokenBucket(c, n, name)
      PROVE  OwnerInv'
  <2>1. PICK op \in {"Allow", "RegRes"} : SendCmd(c, n, op, name)
    BY <1>4 DEF Allow, RegisterTokenBucket
  <2>2. PICK k \in Commands :
          /\ answer[k] = None /\ held[k] = None /\ told[k] = None
          /\ \A j \in Commands \ {k} : cmd'[j] = cmd[j]
    BY <2>1, SendSteps
  <2>3. /\ UNCHANGED <<to, bound, givenUp, answer, held, told>>
        /\ pc'[c] = op
        /\ \A d \in Calls \ {c} : pc'[d] = pc[d] /\ asked'[d] = asked[d]
    BY <2>1, SendSteps
  <2>. QED
    BY <2>2, <2>3, OwnersPassedOn
<1>5. ASSUME NEW c \in Calls, SendFails(c) \/ BindFails(c)
      PROVE  OwnerInv'
  <2>1. Return(c, "error") /\ UNCHANGED <<asked, bound, givenUp>> /\ UNCHANGED handlerVars
    BY <1>5 DEF SendFails, BindFails
  <2>2. pc'[c] = "error" /\ \A d \in Calls \ {c} : pc'[d] = pc[d] /\ to'[d] = to[d]
    BY <2>1, ReturnSteps
  <2>. QED
    BY <2>1, <2>2, OwnersPassedOn DEF handlerVars
<1>6. ASSUME NEW c \in Calls, TimeOut(c)
      PROVE  OwnerInv'
  <2>1. /\ UNCHANGED <<asked, bound, held, told>> /\ givenUp'
        /\ pc'[c] = "error"
        /\ \A d \in Calls \ {c} : pc'[d] = pc[d] /\ to'[d] = to[d]
        /\ \A k \in Commands : /\ cmd'[k] # None => cmd'[k] = cmd[k]
                               /\ answer'[k] # None => answer'[k] = answer[k]
        /\ CommandInv'
    BY <1>6, TimeOutSteps
  <2>2. \A k \in Commands : held'[k] # None \/ told'[k] # None \/ answer'[k] # None => cmd'[k] = cmd[k]
    BY <2>1 DEF CommandInv
  <2>. QED
    BY <2>1, <2>2, OwnersPassedOn
<1>7. ASSUME NEW c \in Calls, Bind(c)
      PROVE  OwnerInv'
  <2>1. /\ pc[c] \in {"redirected", "placed"}
        /\ UNCHANGED handlerVars /\ UNCHANGED <<asked, givenUp>>
        /\ \A name \in Names : bound'[name] = IF name = asked[c] THEN to[c] ELSE bound[name]
        /\ pc'[c] \in {"retry", "registered"}
        /\ \A d \in Calls \ {c} : pc'[d] = pc[d] /\ to'[d] = to[d]
    BY <1>7, BindSteps
  <2>2. OwnerFor(history, givenUp, asked[c], to[c])
    BY <2>1 DEF OwnerInv
  <2>. QED
    BY <2>1, <2>2, OwnersPassedOn DEF handlerVars
<1>8. ASSUME NEW n \in Nodes, \/ ApplyNext(n) \/ Restore(n) \/ Restart(n)
                              \/ \E q \in Requests, name \in Names : Register(q, n, name)
      PROVE  OwnerInv'
  <2>1. UNCHANGED clientVars /\ UNCHANGED handlerVars
    BY <1>8 DEF ApplyNext, Restore, Restart, Register
  <2>. QED
    BY <1>2, <2>1
<1>9. ASSUME NEW c \in Calls, NEW k \in Commands, ReadAllow(c, k) \/ ReadRegRes(c, k)
      PROVE  OwnerInv'
  BY <1>9, ReadOwners
<1>10. ASSUME NEW k \in Commands, Handle(k)
       PROVE  OwnerInv'
  BY <1>10, HandleOwners
<1>11. CASE UNCHANGED vars
  BY <1>2, <1>11 DEF vars
<1>. QED
  BY <1>3, <1>4, <1>5, <1>6, <1>7, <1>8, <1>9, <1>10, <1>11 DEF Next

\* However old what a client knows is, and whatever order answers reach it in: the
\* node it binds a resource to has been the owner of it, unless a read was given
\* up; then it may take the answer of another call for its own, and the node has
\* been the owner of some resource (TCPClient.Allow, RegisterTokenBucket).
THEOREM BoundToOwners == Spec => []BoundWasOwner
<1>1. Init => OwnerInv
  BY DEF Init, OwnerInv
<1>2. OwnerInv => BoundWasOwner
  BY DEF OwnerInv, BoundWasOwner, OwnerFor, OwnedIn, Owned
<1>. QED
  BY <1>1, <1>2, NextOwners, TypeInvariant, MatchInvariant, PTL DEF Spec

-----------------------------------------------------------------------------
(* What the copies of a limiter have spent, as a set of tokens, one to     *)
(* each value that a copy has had below the burst.                         *)

SpentOf(levels) == {p \in (1 .. Len(levels)) \X (1 .. Burst) : p[2] > levels[p[1]]}

LEMMA FirstNumbers ==
  ASSUME NEW n \in Nat
  PROVE  IsFiniteSet(1 .. n) /\ Cardinality(1 .. n) = n
BY FS_Interval

\* A copy never has more than a burst.
LEMMA SpentBound ==
  ASSUME NEW levels \in Seq(0 .. Burst)
  PROVE  /\ IsFiniteSet(SpentOf(levels))
         /\ Cardinality(SpentOf(levels)) \in Nat
         /\ Cardinality(SpentOf(levels)) <= Burst * Len(levels)
<1>. DEFINE rows == 1 .. Len(levels)
            cols == 1 .. Burst
<1>1. Len(levels) \in Nat /\ Burst \in Nat
  OBVIOUS
<1>2. IsFiniteSet(rows) /\ Cardinality(rows) = Len(levels)
  BY <1>1, FirstNumbers
<1>3. IsFiniteSet(cols) /\ Cardinality(cols) = Burst
  BY <1>1, FirstNumbers
<1>4. SpentOf(levels) \in SUBSET (rows \X cols)
  BY DEF SpentOf
<1>. HIDE DEF rows, cols
<1>5. IsFiniteSet(rows \X cols) /\ Cardinality(rows \X cols) = Len(levels) * Burst
  BY <1>2, <1>3, FS_Product
<1>6. /\ IsFiniteSet(SpentOf(levels))
      /\ Cardinality(SpentOf(levels)) <= Cardinality(rows \X cols)
  BY <1>4, <1>5, FS_Subset
<1>7. Cardinality(SpentOf(levels)) \in Nat
  BY <1>6, FS_CardinalityType
<1>8. Len(levels) * Burst = Burst * Len(levels)
  BY <1>1
<1>. QED
  BY <1>5, <1>6, <1>7, <1>8

\* Copies that come leave what was spent spent.
LEMMA SpentGrows ==
  ASSUME NEW old \in Seq(0 .. Burst), NEW new \in Seq(0 .. Burst), Len(new) >= Len(old),
         \A i \in 1 .. Len(old) : new[i] = old[i]
  PROVE  Cardinality(SpentOf(old)) <= Cardinality(SpentOf(new))
<1>1. 1 .. Len(old) \subseteq 1 .. Len(new)
  <2>1. Len(old) \in Nat /\ Len(new) \in Nat
    OBVIOUS
  <2>. QED
    BY <2>1
<1>2. SpentOf(old) \in SUBSET SpentOf(new)
  <2>1. ASSUME NEW p \in SpentOf(old)
        PROVE  p \in SpentOf(new)
    <3>1. p \in (1 .. Len(old)) \X (1 .. Burst) /\ p[2] > old[p[1]]
      BY DEF SpentOf
    <3>2. p[1] \in 1 .. Len(old)
      BY <3>1
    <3>3. p \in (1 .. Len(new)) \X (1 .. Burst)
      BY <1>1, <3>1
    <3>. QED
      BY <3>1, <3>2, <3>3 DEF SpentOf
  <2>. QED
    BY <2>1
<1>. QED
  BY <1>2, SpentBound, FS_Subset

\* A token that is taken is one more.
LEMMA SpentTakes ==
  ASSUME NEW old \in Seq(0 .. Burst), NEW new \in Seq(0 .. Burst), Len(new) = Len(old),
         NEW k \in 1 .. Len(old), old[k] > 0,
         \A i \in 1 .. Len(old) : new[i] = IF i = k THEN old[i] - 1 ELSE old[i]
  PROVE  Cardinality(SpentOf(new)) >= Cardinality(SpentOf(old)) + 1
<1>. DEFINE token == <<k, old[k]>>
<1>1. old[k] \in 1 .. Burst
  <2>1. old[k] \in 0 .. Burst
    OBVIOUS
  <2>. QED
    BY <2>1
<1>2. \A i \in 1 .. Len(old) : old[i] \in Nat
  OBVIOUS
<1>3. token \notin SpentOf(old)
  BY <1>1 DEF SpentOf
<1>4. SpentOf(old) \cup {token} \in SUBSET SpentOf(new)
  <2>1. token \in SpentOf(new)
    <3>1. token \in (1 .. Len(new)) \X (1 .. Burst)
      BY <1>1
    <3>2. new[k] = old[k] - 1
      OBVIOUS
    <3>3. old[k] > new[k]
      BY <1>1, <3>2
    <3>. QED
      BY <3>1, <3>3 DEF SpentOf
  <2>2. ASSUME NEW p \in SpentOf(old)
        PROVE  p \in SpentOf(new)
    <3>1. p \in (1 .. Len(old)) \X (1 .. Burst) /\ p[2] > old[p[1]]
      BY DEF SpentOf
    <3>. DEFINE i == p[1]
                v == p[2]
    <3>2. i \in 1 .. Len(old) /\ v \in 1 .. Burst /\ v > old[i]
      BY <3>1
    <3>. HIDE DEF i, v
    <3>3. v > new[i]
      <4>1. new[i] = old[i] - 1 \/ new[i] = old[i]
        BY <3>2
      <4>2. old[i] \in Nat
        BY <1>2, <3>2
      <4>. QED
        BY <3>2, <4>1, <4>2
    <3>. QED
      BY <3>1, <3>3 DEF SpentOf, i, v
  <2>. QED
    BY <2>1, <2>2
<1>. HIDE DEF token
<1>5. IsFiniteSet(SpentOf(old)) /\ Cardinality(SpentOf(old)) \in Nat
  BY SpentBound
<1>6. Cardinality(SpentOf(old) \cup {token}) = Cardinality(SpentOf(old)) + 1
  BY <1>3, <1>5, FS_AddElement
<1>7. IsFiniteSet(SpentOf(new)) /\ Cardinality(SpentOf(new)) \in Nat
  BY SpentBound
<1>8. Cardinality(SpentOf(old) \cup {token}) <= Cardinality(SpentOf(new))
  BY <1>4, <1>7, FS_Subset
<1>. QED
  BY <1>5, <1>6, <1>7, <1>8


-----------------------------------------------------------------------------
(* Grants.  A limiter is made for one node, no other node's copy of it is  *)
(* spent, and every grant is a token of one of that node's copies.         *)

MadeForIn(h, l, n) ==
  \E i \in 1 .. Len(h), name \in Names : h[i][name] = [node |-> n, limiter |-> l]

OneOwner ==
  \A l \in Requests, m, n \in Nodes : MadeForIn(history, l, m) /\ MadeForIn(history, l, n) => m = n

HeldMade ==
  \A k \in Commands : held[k] # None => MadeForIn(history, held[k].limiter, held[k].node)

GrantsPaid ==
  \A l \in Requests :
    /\ granted[l] > 0 => \E n \in Nodes : MadeForIn(history, l, n)
    /\ \A n \in Nodes :
         MadeForIn(history, l, n) => granted[l] <= Cardinality(SpentOf(copies[n][l]))

PaidInv == OneOwner /\ HeldMade /\ GrantsPaid

LEMMA MadeKept ==
  ASSUME TypeInv, [Next]_vars, NEW l, NEW n, MadeForIn(history, l, n)
  PROVE  MadeForIn(history', l, n)
<1>1. PICK i \in 1 .. Len(history), name \in Names : history[i][name] = [node |-> n, limiter |-> l]
  BY DEF MadeForIn
<1>2. i \in 1 .. Len(history') /\ history'[i] = history[i]
  BY HistoryGrows
<1>. QED
  BY <1>1, <1>2 DEF MadeForIn

\* A registration makes a limiter that was not there, and nothing else.
LEMMA MadeByRegister ==
  ASSUME TypeInv, NEW q \in Requests, NEW n \in Nodes, NEW name \in Names, Register(q, n, name)
  PROVE  /\ \A m \in Nodes : ~MadeForIn(history, q, m)
         /\ \A l \in Requests, m \in Nodes :
              MadeForIn(history', l, m) => MadeForIn(history, l, m) \/ (l = q /\ m = n)
<1>1. history \in Seq(Registries) /\ Len(history) > 0
  BY TypeInvParts DEF ClusterType, RegistryInv
<1>2. /\ Len(history') = Len(history) + 1
      /\ \A i \in 1 .. Len(history) : history'[i] = history[i]
      /\ \A other \in Names \ {name} :
           history'[Len(history) + 1][other] = history[Len(history)][other]
      /\ history'[Len(history) + 1][name] = [node |-> n, limiter |-> q]
  BY <1>1, RegisterSteps
<1>3. ASSUME NEW m \in Nodes, MadeForIn(history, q, m)
      PROVE  FALSE
  <2>1. PICK i \in 1 .. Len(history), other \in Names : history[i][other] = [node |-> m, limiter |-> q]
    BY <1>3 DEF MadeForIn
  <2>2. history[i][other] \in Resource /\ history[i][other].limiter = q
    BY <2>1 DEF Resource
  <2>3. history[i][other] # None
    BY <2>2
  <2>. QED
    BY <2>2, <2>3 DEF Register
<1>4. ASSUME NEW l \in Requests, NEW m \in Nodes, MadeForIn(history', l, m)
      PROVE  MadeForIn(history, l, m) \/ (l = q /\ m = n)
  <2>1. PICK i \in 1 .. Len(history'), other \in Names : history'[i][other] = [node |-> m, limiter |-> l]
    BY <1>4 DEF MadeForIn
  <2>2. Len(history) \in Nat
    BY <1>1
  <2>3. CASE i \in 1 .. Len(history)
    BY <1>2, <2>1, <2>3 DEF MadeForIn
  <2>4. CASE i = Len(history) + 1 /\ other # name
    <3>1. history[Len(history)][other] = [node |-> m, limiter |-> l] /\ Len(history) \in 1 .. Len(history)
      BY <1>1, <1>2, <2>1, <2>2, <2>4
    <3>. QED
      BY <3>1 DEF MadeForIn
  <2>5. CASE i = Len(history) + 1 /\ other = name
    <3>1. [node |-> m, limiter |-> l] = [node |-> n, limiter |-> q]
      BY <1>2, <2>1, <2>5
    <3>2. [node |-> m, limiter |-> l].limiter = l /\ [node |-> m, limiter |-> l].node = m
      OBVIOUS
    <3>. QED
      BY <3>1, <3>2
  <2>. QED
    BY <1>2, <2>1, <2>2, <2>3, <2>4, <2>5
<1>. QED
  BY <1>3, <1>4

LEMMA RegisterPaid ==
  ASSUME TypeInv, PaidInv, [Next]_vars,
         NEW q \in Requests, NEW n \in Nodes, NEW name \in Names, Register(q, n, name)
  PROVE  PaidInv'
<1>1. history \in Seq(Registries) /\ granted \in [Requests -> Nat] /\ CopyType
  BY TypeInvParts DEF ClusterType, CountType
<1>2. UNCHANGED <<copies, held, granted>>
  BY <1>1, RegisterSteps
<1>3. /\ \A m \in Nodes : ~MadeForIn(history, q, m)
      /\ \A l \in Requests, m \in Nodes :
           MadeForIn(history', l, m) => MadeForIn(history, l, m) \/ (l = q /\ m = n)
  BY MadeByRegister
<1>4. OneOwner'
  BY <1>3 DEF PaidInv, OneOwner
<1>5. HeldMade'
  BY <1>2, MadeKept DEF PaidInv, HeldMade
<1>6. granted[q] = 0
  BY <1>1, <1>3 DEF PaidInv, GrantsPaid
<1>7. \A m \in Nodes, l \in Requests : Cardinality(SpentOf(copies[m][l])) \in Nat
  BY <1>1, SpentBound DEF CopyType
<1>8. GrantsPaid'
  <2>1. ASSUME NEW l \in Requests, granted'[l] > 0
        PROVE  \E m \in Nodes : MadeForIn(history', l, m)
    BY <1>2, <2>1, MadeKept DEF PaidInv, GrantsPaid
  <2>2. ASSUME NEW l \in Requests, NEW m \in Nodes, MadeForIn(history', l, m)
        PROVE  granted'[l] <= Cardinality(SpentOf(copies'[m][l]))
    <3>1. CASE MadeForIn(history, l, m)
      BY <1>2, <3>1 DEF PaidInv, GrantsPaid
    <3>2. CASE l = q /\ m = n
      BY <1>2, <1>6, <1>7, <3>2
    <3>. QED
      BY <1>3, <2>2, <3>1, <3>2
  <2>. QED
    BY <2>1, <2>2 DEF GrantsPaid
<1>. QED
  BY <1>4, <1>5, <1>8 DEF PaidInv

\* A step that registers nothing and takes nothing.
LEMMA NothingSpent ==
  ASSUME TypeInv, PaidInv, UNCHANGED <<history, granted>>, CopyType', Grown,
         \A k \in Commands : held'[k] # None =>
           held'[k] = held[k] \/ MadeForIn(history, held'[k].limiter, held'[k].node)
  PROVE  PaidInv'
<1>1. CopyType /\ granted \in [Requests -> Nat]
  BY TypeInvParts DEF CountType
<1>2. OneOwner' /\ HeldMade'
  BY DEF PaidInv, OneOwner, HeldMade
<1>3. ASSUME NEW l \in Requests, NEW n \in Nodes, MadeForIn(history, l, n)
      PROVE  granted[l] <= Cardinality(SpentOf(copies'[n][l]))
  <2>1. copies[n][l] \in Seq(0 .. Burst) /\ copies'[n][l] \in Seq(0 .. Burst)
    BY <1>1 DEF CopyType
  <2>2. Cardinality(SpentOf(copies[n][l])) <= Cardinality(SpentOf(copies'[n][l]))
    BY <2>1, SpentGrows DEF Grown
  <2>3. /\ Cardinality(SpentOf(copies[n][l])) \in Nat
        /\ Cardinality(SpentOf(copies'[n][l])) \in Nat
    BY <2>1, SpentBound
  <2>4. granted[l] <= Cardinality(SpentOf(copies[n][l])) /\ granted[l] \in Nat
    BY <1>1, <1>3 DEF PaidInv, GrantsPaid
  <2>. QED
    BY <2>2, <2>3, <2>4
<1>4. GrantsPaid'
  BY <1>3 DEF PaidInv, GrantsPaid
<1>. QED
  BY <1>2, <1>4 DEF PaidInv


LEMMA LookupPaid ==
  ASSUME TypeInv, PaidInv, NEW k \in Commands, Lookup(k), shown[here[k]][cmd[k].name] # None
  PROVE  PaidInv'
<1>1. UNCHANGED <<history, granted, copies>>
  BY DEF Lookup, clusterVars, registryVars
<1>2. ClusterType /\ CopyType
  BY TypeInvParts
<1>3. CopyType' /\ Grown
  BY <1>1, <1>2 DEF CopyType, Grown
<1>. DEFINE r == shown[here[k]][cmd[k].name]
<1>4. /\ here[k] \in Nodes /\ cmd[k] \in Command /\ r \in Resource
      /\ held'[k] # None => held'[k].node = r.node /\ held'[k].limiter = r.limiter
      /\ \A j \in Commands \ {k} : held'[j] = held[j]
  BY LookupSteps
<1>5. cmd[k].name \in Names
  BY <1>4 DEF Command
<1>6. r = [node |-> r.node, limiter |-> r.limiter]
  BY <1>4 DEF Resource
<1>7. r = history[position[here[k]]][cmd[k].name] /\ position[here[k]] \in 1 .. Len(history)
  BY <1>2, <1>4 DEF ClusterType
<1>. HIDE DEF r
<1>8. MadeForIn(history, r.limiter, r.node)
  BY <1>5, <1>6, <1>7 DEF MadeForIn
<1>. QED
  BY <1>1, <1>3, <1>4, <1>8, NothingSpent

\* A handler that answers holds nothing any more.
LEMMA AnswerPaid ==
  ASSUME TypeInv, PaidInv, NEW k \in Commands, NEW msg \in Message \cup {None}, here[k] # None,
         Answer(k, msg), UNCHANGED clusterVars, UNCHANGED clientVars, UNCHANGED <<copies, granted>>
  PROVE  PaidInv'
<1>1. UNCHANGED history
  BY DEF clusterVars, registryVars
<1>2. CopyType' /\ Grown
  BY TypeInvParts DEF CopyType, Grown
<1>3. \A j \in Commands : held'[j] # None => held'[j] = held[j]
  BY AnswerSteps
<1>. QED
  BY <1>1, <1>2, <1>3, NothingSpent

LEMMA DecidePaid ==
  ASSUME TypeInv, PaidInv, NEW k \in Commands, Decide(k)
  PROVE  PaidInv'
<1>0. PICK ok \in BOOLEAN :
        /\ UNCHANGED clusterVars /\ UNCHANGED clientVars
        /\ here[k] # None /\ held[k] # None /\ held[k].node = here[k]
        /\ Answer(k, Decided(k, ok))
  BY DecideAnswers
<1>1. UNCHANGED history /\ here[k] # None /\ held[k] # None /\ held[k].node = here[k]
  BY <1>0 DEF clusterVars, registryVars
<1>2. CopyType /\ HandlerType /\ granted \in [Requests -> Nat]
  BY TypeInvParts DEF CountType
<1>3. Decided(k, ok) \in Message /\ \A j \in Commands : held'[j] # None => held'[j] = held[j]
  BY <1>0, DecidedMessage, AnswerSteps
<1>. DEFINE m == here[k]
            q == held[k].limiter
            i == held[k].copy
<1>4. CASE copies[m][q][i] > 0
  <2>1. /\ copies' = [copies EXCEPT ![m][q][i] = @ - 1]
        /\ granted' = [granted EXCEPT ![q] = @ + 1]
    BY <1>4 DEF Decide
  <2>2. /\ m \in Nodes /\ q \in Requests
        /\ i \in 1 .. Len(copies[m][q])
        /\ CopyType'
        /\ \A n \in Nodes, l \in Requests :
             /\ Len(copies'[n][l]) = Len(copies[n][l])
             /\ \A j \in 1 .. Len(copies[n][l]) :
                  copies'[n][l][j] = IF n = m /\ l = q /\ j = i THEN copies[n][l][j] - 1
                                                                ELSE copies[n][l][j]
    BY <1>1, <1>4, <2>1, SpendSteps
  <2>3. MadeForIn(history, q, m)
    BY <1>1 DEF PaidInv, HeldMade
  <2>. HIDE DEF m, q, i
  <2>4. \A l \in Requests : granted'[l] = IF l = q THEN granted[l] + 1 ELSE granted[l]
    BY <1>2, <2>1
  <2>5. \A n \in Nodes, l \in Requests :
          /\ copies[n][l] \in Seq(0 .. Burst) /\ copies'[n][l] \in Seq(0 .. Burst)
          /\ Cardinality(SpentOf(copies[n][l])) \in Nat
          /\ Cardinality(SpentOf(copies'[n][l])) \in Nat
    <3>1. ASSUME NEW n \in Nodes, NEW l \in Requests
          PROVE  copies[n][l] \in Seq(0 .. Burst) /\ copies'[n][l] \in Seq(0 .. Burst)
      BY <1>2, <2>2 DEF CopyType
    <3>. QED
      BY <3>1, SpentBound
  <2>6. Cardinality(SpentOf(copies'[m][q])) >= Cardinality(SpentOf(copies[m][q])) + 1
    <3>. DEFINE old == copies[m][q]
                new == copies'[m][q]
    <3>1. /\ old \in Seq(0 .. Burst) /\ new \in Seq(0 .. Burst) /\ Len(new) = Len(old)
          /\ i \in 1 .. Len(old) /\ old[i] > 0
          /\ \A j \in 1 .. Len(old) : new[j] = IF j = i THEN old[j] - 1 ELSE old[j]
      BY <1>4, <2>2, <2>5 DEF m, q, i
    <3>. HIDE DEF old, new
    <3>2. Cardinality(SpentOf(new)) >= Cardinality(SpentOf(old)) + 1
      BY <3>1, SpentTakes
    <3>. QED
      BY <3>2 DEF old, new
  <2>7. ASSUME NEW l \in Requests, NEW n \in Nodes, MadeForIn(history, l, n)
        PROVE  granted'[l] <= Cardinality(SpentOf(copies'[n][l]))
    <3>1. granted[l] <= Cardinality(SpentOf(copies[n][l])) /\ granted[l] \in Nat
      BY <1>2, <2>7 DEF PaidInv, GrantsPaid
    <3>2. CASE l = q
      <4>1. n = m
        BY <2>2, <2>3, <2>7, <3>2 DEF PaidInv, OneOwner
      <4>. DEFINE a == Cardinality(SpentOf(copies[m][q]))
                  b == Cardinality(SpentOf(copies'[m][q]))
      <4>2. /\ a \in Nat /\ b \in Nat /\ b >= a + 1 /\ granted[q] <= a /\ granted[q] \in Nat
            /\ granted'[q] = granted[q] + 1
        BY <2>2, <2>4, <2>5, <2>6, <3>1, <3>2, <4>1
      <4>. HIDE DEF a, b
      <4>3. granted'[q] <= b
        BY <4>2
      <4>. QED
        BY <3>2, <4>1, <4>3 DEF b
    <3>3. CASE l # q
      <4>1. \A j \in 1 .. Len(copies[n][l]) : copies'[n][l][j] = copies[n][l][j]
        BY <2>2, <3>3
      <4>2. Len(copies'[n][l]) = Len(copies[n][l])
        BY <2>2
      <4>3. copies[n][l] \in Seq(0 .. Burst) /\ copies'[n][l] \in Seq(0 .. Burst)
        BY <2>5
      <4>4. Cardinality(SpentOf(copies[n][l])) <= Cardinality(SpentOf(copies'[n][l]))
        <5>. DEFINE old == copies[n][l]
                    new == copies'[n][l]
        <5>1. /\ old \in Seq(0 .. Burst) /\ new \in Seq(0 .. Burst) /\ Len(new) = Len(old)
              /\ \A j \in 1 .. Len(old) : new[j] = old[j]
          BY <4>1, <4>2, <4>3
        <5>. HIDE DEF old, new
        <5>2. Len(new) >= Len(old)
          <6>1. Len(old) \in Nat
            BY <5>1
          <6>. QED
            BY <5>1, <6>1
        <5>3. Cardinality(SpentOf(old)) <= Cardinality(SpentOf(new))
          BY <5>1, <5>2, SpentGrows
        <5>. QED
          BY <5>3 DEF old, new
      <4>5. granted'[l] = granted[l]
        BY <2>4, <3>3
      <4>. QED
        BY <2>5, <3>1, <4>4, <4>5
    <3>. QED
      BY <3>2, <3>3
  <2>8. ASSUME NEW l \in Requests, granted'[l] > 0
        PROVE  \E n \in Nodes : MadeForIn(history, l, n)
    BY <2>2, <2>3, <2>4, <2>8 DEF PaidInv, GrantsPaid
  <2>9. GrantsPaid'
    BY <1>1, <2>7, <2>8 DEF GrantsPaid
  <2>10. OneOwner' /\ HeldMade'
    BY <1>1, <1>3 DEF PaidInv, OneOwner, HeldMade
  <2>. QED
    BY <2>9, <2>10 DEF PaidInv
<1>5. CASE ~(copies[m][q][i] > 0)
  <2>1. UNCHANGED <<copies, granted>>
    BY <1>5 DEF Decide
  <2>. QED
    BY <1>0, <1>3, <2>1, AnswerPaid
<1>. QED
  BY <1>4, <1>5

LEMMA HandlePaid ==
  ASSUME TypeInv, PaidInv, NEW k \in Commands, Handle(k)
  PROVE  PaidInv'
<1>1. CASE Lookup(k)
  <2>1. CASE shown[here[k]][cmd[k].name] = None
    <3>1. /\ Answer(k, None) /\ here[k] # None
          /\ UNCHANGED clusterVars /\ UNCHANGED clientVars /\ UNCHANGED <<copies, granted>>
      BY <1>1, <2>1 DEF Lookup
    <3>. QED
      BY <3>1, AnswerPaid
  <2>. QED
    BY <1>1, <2>1, LookupPaid
<1>2. CASE Forward(k)
  <2>1. CASE held[k].node \in up
    <3>1. UNCHANGED <<history, granted, copies>>
      BY <1>2 DEF Forward, clusterVars, registryVars
    <3>2. CopyType' /\ Grown
      BY <3>1, TypeInvParts DEF CopyType, Grown
    <3>3. \A j \in Commands : held'[j] # None => held'[j] = held[j]
      BY <1>2, <2>1, ForwardSteps
    <3>. QED
      BY <3>1, <3>2, <3>3, NothingSpent
  <2>2. CASE held[k].node \notin up
    <3>1. /\ Answer(k, None) /\ here[k] # None
          /\ UNCHANGED clusterVars /\ UNCHANGED clientVars /\ UNCHANGED <<copies, granted>>
      BY <1>2, <2>2 DEF Forward
    <3>. QED
      BY <3>1, AnswerPaid
  <2>. QED
    BY <2>1, <2>2
<1>3. CASE RegisterResource(k)
  <2>1. here[k] # None
    BY <1>3 DEF RegisterResource
  <2>. QED
    BY <1>3, <2>1, RegisterSays, AnswerPaid
<1>. QED
  BY <1>1, <1>2, <1>3, DecidePaid DEF Handle

LEMMA NextPaid == TypeInv /\ PaidInv /\ [Next]_vars => PaidInv'
<1>. SUFFICES ASSUME TypeInv, PaidInv, [Next]_vars
              PROVE  PaidInv'
  OBVIOUS
<1>1. ClusterType /\ CopyType /\ HandlerType /\ RegistryInv
  BY TypeInvParts
<1>2. ASSUME UNCHANGED <<history, granted, copies>>,
             \A k \in Commands : held'[k] # None => held'[k] = held[k]
      PROVE  PaidInv'
  <2>1. CopyType' /\ Grown
    BY <1>1, <1>2 DEF CopyType, Grown
  <2>. QED
    BY <1>2, <2>1, NothingSpent
<1>3. ASSUME NEW n \in Nodes, NEW name \in Names, NEW q \in Requests, Register(q, n, name)
      PROVE  PaidInv'
  BY <1>3, RegisterPaid
<1>4. ASSUME NEW n \in Nodes, ApplyNext(n) \/ Restore(n)
      PROVE  PaidInv'
  <2>1. UNCHANGED <<history, granted, held>>
    BY <1>4 DEF ApplyNext, Restore, handlerVars, Registry!Follow
  <2>2. CopyType' /\ Grown
    BY <1>1, <1>4, ApplySteps, RestoreSteps
  <2>. QED
    BY <2>1, <2>2, NothingSpent
<1>5. ASSUME NEW n \in Nodes, Crash(n)
      PROVE  PaidInv'
  <2>1. UNCHANGED <<history, granted, copies>>
    BY <1>5 DEF Crash, Registry!Forget
  <2>2. \A k \in Commands : held'[k] # None => held'[k] = held[k]
    BY <1>5, CrashSteps
  <2>. QED
    BY <1>2, <2>1, <2>2
<1>6. ASSUME NEW n \in Nodes, \/ Restart(n)
                              \/ \E name \in Names, c \in Calls :
                                   Allow(c, n, name) \/ RegisterTokenBucket(c, n, name)
      PROVE  PaidInv'
  <2>1. UNCHANGED <<history, granted, copies, held>>
    BY <1>6 DEF Restart, Allow, RegisterTokenBucket, SendCmd, handlerVars, clusterVars, registryVars
  <2>. QED
    BY <1>2, <2>1
<1>7. ASSUME NEW c \in Calls, SendFails(c) \/ TimeOut(c) \/ Bind(c) \/ BindFails(c)
      PROVE  PaidInv'
  <2>1. UNCHANGED <<history, granted, copies, held>>
    BY <1>7 DEF SendFails, TimeOut, Bind, BindFails, clusterVars, registryVars, handlerVars
  <2>. QED
    BY <1>2, <2>1
<1>8. ASSUME NEW c \in Calls, NEW k \in Commands, ReadAllow(c, k) \/ ReadRegRes(c, k)
      PROVE  PaidInv'
  <2>1. UNCHANGED <<history, granted, copies, held>>
    BY <1>8 DEF ReadAllow, ReadRegRes, Read, clusterVars, registryVars
  <2>. QED
    BY <1>2, <2>1
<1>9. ASSUME NEW k \in Commands, Handle(k)
      PROVE  PaidInv'
  BY <1>9, HandlePaid
<1>10. CASE UNCHANGED vars
  BY <1>2, <1>10 DEF vars, clusterVars, registryVars, handlerVars
<1>. QED
  BY <1>3, <1>4, <1>5, <1>6, <1>7, <1>8, <1>9, <1>10 DEF Next

\* However commands are forwarded between nodes whose stores disagree, nodes
\* die and snapshots are restored: the grants of a limiter are at most one burst
\* for each copy of it that the node it was registered for has had (AllowPbCmd,
\* AtSameNode, TokenBucketLimiter.Allow).
THEOREM GrantsBounded == Spec => []OneBurstPerCopy
<1>1. Init => PaidInv
  <2>. SUFFICES ASSUME Init
                PROVE  PaidInv
    OBVIOUS
  <2>1. TypeInv
    BY InitTypes
  <2>2. history = <<EmptyRegistry>> /\ granted = [l \in Requests |-> 0]
        /\ held = [k \in Commands |-> None]
    BY DEF Init, Registry!Init
  <2>3. \A l \in Requests, n \in Nodes : ~MadeForIn(history, l, n)
    <3>1. \A l \in Requests, n \in Nodes : [node |-> n, limiter |-> l] \in Resource
      BY DEF Resource
    <3>2. \A i \in 1 .. Len(history) : history[i] = EmptyRegistry
      BY <2>2
    <3>3. \A name \in Names : EmptyRegistry[name] = None
      BY DEF EmptyRegistry
    <3>4. ASSUME NEW l \in Requests, NEW n \in Nodes, MadeForIn(history, l, n)
          PROVE  FALSE
      <4>1. PICK i \in 1 .. Len(history), name \in Names :
              history[i][name] = [node |-> n, limiter |-> l]
        BY <3>4 DEF MadeForIn
      <4>2. [node |-> n, limiter |-> l] = None
        BY <3>2, <3>3, <4>1
      <4>. QED
        BY <3>1, <4>2
    <3>. QED
      BY <3>4
  <2>. QED
    BY <2>2, <2>3 DEF PaidInv, OneOwner, HeldMade, GrantsPaid
<1>2. TypeInv /\ PaidInv => OneBurstPerCopy
  <2>. SUFFICES ASSUME TypeInv, PaidInv, NEW l \in Requests, granted[l] > 0
                PROVE  \E owned \in OwnerCopies(l) : granted[l] <= Burst * Len(owned)
    BY DEF OneBurstPerCopy
  <2>1. PICK n \in Nodes : MadeForIn(history, l, n)
    BY DEF PaidInv, GrantsPaid
  <2>2. copies[n][l] \in OwnerCopies(l)
    BY <2>1 DEF OwnerCopies, MadeForIn
  <2>3. granted[l] <= Cardinality(SpentOf(copies[n][l])) /\ granted[l] \in Nat
    BY <2>1, TypeInvParts DEF PaidInv, GrantsPaid, CountType
  <2>4. copies[n][l] \in Seq(0 .. Burst)
    BY TypeInvParts DEF CopyType
  <2>5. /\ Cardinality(SpentOf(copies[n][l])) \in Nat
        /\ Cardinality(SpentOf(copies[n][l])) <= Burst * Len(copies[n][l])
    BY <2>4, SpentBound
  <2>6. Burst * Len(copies[n][l]) \in Nat
    <3>1. Len(copies[n][l]) \in Nat /\ Burst \in Nat
      BY <2>4
    <3>. QED
      BY <3>1
  <2>7. granted[l] <= Burst * Len(copies[n][l])
    BY <2>3, <2>5, <2>6
  <2>. QED
    BY <2>2, <2>7
<1>. QED
  BY <1>1, <1>2, NextPaid, TypeInvariant, PTL DEF Spec

-----------------------------------------------------------------------------
(* Settled calls.  While the nodes that run agree, every one of them       *)
(* forwards a command to the owner, which decides it; and an answer names  *)
(* the owner, or the node that was asked, so that what a call binds its    *)
(* resource to is the owner, where it is sent next.                        *)

LastOwner(h, name) == IF h[Len(h)][name] = None THEN None ELSE h[Len(h)][name].node

\* What the answer of a command in place k over the connection to n says.
NamesOwner(k, n, msg) ==
  LET owner == LastOwner(history, cmd[k].name)
  IN  IF cmd[k].op = "Allow"
        THEN msg.redirected => msg.node = owner /\ retries[cmd[k].call] = 0
        ELSE ~msg.redirected /\ msg.node \in {n, owner}

\* A command of a settled call that was forwarded is with the owner, and so is one
\* that is sent again.
ShortCommand(k) ==
  LET owner == LastOwner(history, cmd[k].name)
  IN  /\ held[k] # None => held[k].node = owner
      /\ told[k] # None => told[k] = owner
      /\ via[k] = {} \/ (here[k] = owner /\ \E m \in Nodes : via[k] = {m})
      /\ cmd[k].op = "RegRes" /\ from[k] # None => here[k] = from[k]
      /\ answer[k] # None /\ answer[k].msg # None => NamesOwner(k, answer[k].on, answer[k].msg)
      /\ retries[cmd[k].call] # 0 /\ from[k] # None => here[k] = owner /\ told[k] = None

\* A settled call that is to be sent again is bound to the owner.
ShortCall(c) ==
  LET owner == LastOwner(history, asked[c])
  IN  /\ Open(c)
      /\ retries[c] <= 1
      /\ pc[c] \in {"redirected", "placed"} => to[c] = owner
      /\ pc[c] = "redirected" => retries[c] = 0
      /\ pc[c] = "retry" => retries[c] = 1 /\ owner # None /\ bound[asked[c]] = owner

SettledInv ==
  /\ (\E c \in Calls : settled[c]) => Quiet
  /\ \A c \in Calls : settled[c] => ShortCall(c)
  /\ \A k \in Commands : cmd[k] # None /\ settled[cmd[k].call] => ShortCommand(k)

\* What a node that runs shows while the cluster is quiet.
LEMMA QuietShows ==
  ASSUME TypeInv, Quiet, NEW n \in up, NEW name
  PROVE  /\ n \in Nodes
         /\ shown[n][name] = None => LastOwner(history, name) = None
         /\ shown[n][name] # None => LastOwner(history, name) = shown[n][name].node
<1>1. n \in Nodes /\ shown[n] = history[position[n]]
  BY TypeInvParts DEF ClusterType
<1>2. position[n] = Len(history)
  BY DEF Quiet
<1>. QED
  BY <1>1, <1>2 DEF LastOwner

LEMMA CallOf ==
  ASSUME TypeInv, NEW k \in Commands, cmd[k] # None
  PROVE  cmd[k].call \in Calls /\ cmd[k].name \in Names /\ cmd[k].op \in {"Allow", "RegRes"}
BY TypeInvParts DEF HandlerType, Command

\* A settled call has company only of settled ones, and what is on its way over a
\* connection is for the call that waits there.
LEMMA SettledQuiet ==
  ASSUME TypeInv, MatchInv, SettledInv, NEW c \in Calls, settled[c]
  PROVE  /\ Quiet /\ Undisturbed /\ Matching
         /\ \A d \in Calls : Open(d) => settled[d] /\ ShortCall(d)
         /\ \A k \in Commands : OnWay(k) => /\ cmd[k] # None /\ cmd[k].call \in Calls
                                            /\ settled[cmd[k].call] /\ ShortCommand(k)
<1>1. Quiet /\ Undisturbed /\ Matching
  BY DEF SettledInv, Undisturbed, MatchInv
<1>2. \A d \in Calls : Open(d) => settled[d] /\ ShortCall(d)
  BY <1>1 DEF Quiet, SettledInv
<1>3. \A k \in Commands : OnWay(k) => cmd[k] # None
  BY TypeInvParts DEF CommandInv, OnWay
<1>4. \A k \in Commands : OnWay(k) => settled[cmd[k].call]
  BY <1>1 DEF Quiet, OnWay
<1>. QED
  BY <1>1, <1>2, <1>3, <1>4, CallOf DEF SettledInv

\* A step after which no call is settled.
LEMMA UnsettledShort ==
  ASSUME TypeInv', \A c \in Calls : ~settled'[c]
  PROVE  SettledInv'
<1>1. HandlerType'
  BY TypePartsNext DEF TypeInv
<1>2. \A k \in Commands : cmd'[k] # None => cmd'[k].call \in Calls
  BY <1>1 DEF HandlerType, Command
<1>. QED
  BY <1>2 DEF SettledInv

\* The step leaves a command alone, but for an answer that is read.
LEMMA ShortCommandKept ==
  ASSUME NEW k \in Commands, ShortCommand(k), UNCHANGED history, cmd'[k] = cmd[k],
         held'[k] = held[k], told'[k] = told[k], via'[k] = via[k], here'[k] = here[k],
         from'[k] = from[k], answer'[k] = answer[k] \/ answer'[k] = None,
         retries'[cmd[k].call] = retries[cmd[k].call] \/ ~OnWay(k)
  PROVE  ShortCommand(k)'
BY DEF ShortCommand, NamesOwner, OnWay

\* The step leaves a call alone; its resource may be bound anew, to the owner.
LEMMA ShortCallKept ==
  ASSUME NEW c \in Calls, ShortCall(c), UNCHANGED history,
         pc'[c] = pc[c], asked'[c] = asked[c], to'[c] = to[c], retries'[c] = retries[c],
         bound'[asked[c]] \in {bound[asked[c]], LastOwner(history, asked[c])}
  PROVE  ShortCall(c)'
BY DEF ShortCall, Open, Waiting

\* A call whose command is sent.
LEMMA SendSettled ==
  ASSUME TypeInv, MatchInv, SettledInv, TypeInv', NEW c \in Calls, NEW n \in Nodes,
         NEW name \in Names, Allow(c, n, name) \/ RegisterTokenBucket(c, n, name)
  PROVE  SettledInv'
<1>1. PICK op \in {"Allow", "RegRes"} : SendCmd(c, n, op, name)
  BY DEF Allow, RegisterTokenBucket
<1>2. /\ UNCHANGED <<history, position, up>>
      /\ UNCHANGED <<to, bound, retries, answer, via, held, told>>
      /\ pc'[c] = op /\ asked'[c] = name
      /\ \A d \in Calls \ {c} : pc'[d] = pc[d] /\ asked'[d] = asked[d]
  BY <1>1, SendSteps
<1>0. PICK k \in Commands :
        /\ from[k] = None /\ here[k] = None /\ answer[k] = None
        /\ cmd'[k].call = c /\ cmd'[k].op = op /\ cmd'[k].name = name
        /\ from'[k] = n /\ here'[k] = n
        /\ \A j \in Commands \ {k} : cmd'[j] = cmd[j] /\ from'[j] = from[j] /\ here'[j] = here[j]
  BY <1>1, SendSteps
<1>3. /\ held[k] = None /\ told[k] = None /\ via[k] = {} /\ cmd'[k] # None
      /\ from[k] = None /\ here[k] = None /\ answer[k] = None
      /\ cmd'[k].call = c /\ cmd'[k].op = op /\ cmd'[k].name = name
      /\ from'[k] = n /\ here'[k] = n
      /\ \A j \in Commands \ {k} : cmd'[j] = cmd[j] /\ from'[j] = from[j] /\ here'[j] = here[j]
  <2>1. held[k] = None /\ told[k] = None /\ via[k] = {}
    BY <1>0, TypeInvParts DEF CommandInv
  <2>2. cmd'[k] # None
    BY <1>0, TypePartsNext DEF TypeInv, CommandInv
  <2>. QED
    BY <1>0, <2>1, <2>2
<1>4. ASSUME NEW d \in Calls \ {c}, ShortCall(d)
      PROVE  ShortCall(d)'
  BY <1>2, <1>4, ShortCallKept
<1>5. ASSUME NEW j \in Commands \ {k}, ShortCommand(j)
      PROVE  ShortCommand(j)'
  BY <1>2, <1>3, <1>5, ShortCommandKept
<1>6. pc[c] \in {"new", "retry"}
      /\ \/ settled' = [settled EXCEPT ![c] = Quiet] /\ pc[c] = "new"
         \/ /\ settled' = settled /\ pc[c] = "retry" /\ asked[c] = name /\ MaySendTo(name, n)
            /\ op = "Allow"
  <2>1. CASE Allow(c, n, name)
    <3>1. SendCmd(c, n, "Allow", name)
      BY <2>1 DEF Allow
    <3>2. pc'[c] = "Allow"
      BY <3>1, SendSteps
    <3>. QED
      BY <1>2, <2>1, <3>2 DEF Allow
  <2>2. CASE RegisterTokenBucket(c, n, name)
    BY <2>2 DEF RegisterTokenBucket
  <2>. QED
    BY <2>1, <2>2
<1>7. settled \in [Calls -> BOOLEAN] /\ CallInv /\ CommandInv
  BY TypeInvParts DEF CountType
<1>8. ASSUME Quiet, settled'[c], \A d \in Calls \ {c} : settled'[d] = settled[d]
      PROVE  Quiet'
  <2>1. \A d \in Calls : Open(d)' => settled'[d]
    BY <1>2, <1>8 DEF Quiet, Open, Waiting
  <2>2. \A j \in Commands : from'[j] # None \/ answer'[j] # None => settled'[cmd'[j].call]
    <3>1. ASSUME NEW j \in Commands \ {k}, from'[j] # None \/ answer'[j] # None
          PROVE  settled'[cmd'[j].call]
      <4>1. from[j] # None \/ answer[j] # None
        BY <1>2, <1>3, <3>1
      <4>2. settled[cmd[j].call] /\ cmd[j] # None
        BY <1>7, <1>8, <4>1 DEF Quiet, CommandInv
      <4>3. cmd[j].call \in Calls /\ cmd'[j] = cmd[j]
        BY <1>3, <4>2, CallOf
      <4>. QED
        BY <1>8, <4>2, <4>3
    <3>. QED
      BY <1>3, <1>8, <3>1
  <2>. QED
    BY <1>2, <1>8, <2>1, <2>2 DEF Quiet
<1>9. CASE settled' = [settled EXCEPT ![c] = Quiet] /\ pc[c] = "new"
  <2>1. Quiet \in BOOLEAN
    BY DEF Quiet
  <2>2. settled'[c] = Quiet /\ \A d \in Calls \ {c} : settled'[d] = settled[d]
    BY <1>7, <1>9, <2>1
  <2>3. retries[c] = 0
    BY <1>7, <1>9 DEF CallInv
  <2>4. ShortCall(c)'
    BY <1>2, <2>3 DEF ShortCall, Open, Waiting
  <2>5. ShortCommand(k)'
    BY <1>2, <1>3, <2>3 DEF ShortCommand
  <2>6. ASSUME NEW d \in Calls, settled'[d]
        PROVE  Quiet'
    <3>1. Quiet
      BY <2>2, <2>6 DEF SettledInv
    <3>. QED
      BY <1>8, <2>2, <3>1
  <2>7. ASSUME NEW d \in Calls, settled'[d]
        PROVE  ShortCall(d)'
    BY <1>4, <2>2, <2>4, <2>7 DEF SettledInv
  <2>8. ASSUME NEW j \in Commands, cmd'[j] # None, settled'[cmd'[j].call]
        PROVE  ShortCommand(j)'
    <3>1. CASE j # k
      <4>1. cmd'[j] = cmd[j] /\ cmd[j] # None
        BY <1>3, <2>8, <3>1
      <4>2. cmd[j].call \in Calls /\ cmd[j].call # c
        BY <1>7, <1>9, <4>1, CallOf DEF CommandInv
      <4>3. settled[cmd[j].call]
        BY <2>2, <2>8, <4>1, <4>2
      <4>. QED
        BY <1>5, <3>1, <4>1, <4>3 DEF SettledInv
    <3>. QED
      BY <2>5, <3>1
  <2>. QED
    BY <2>6, <2>7, <2>8 DEF SettledInv
<1>10. CASE /\ settled' = settled /\ pc[c] = "retry" /\ asked[c] = name /\ MaySendTo(name, n)
            /\ op = "Allow"
  <2>1. ASSUME settled[c]
        PROVE  ShortCall(c)' /\ ShortCommand(k)'
    <3>1. /\ LastOwner(history, name) # None /\ bound[name] = LastOwner(history, name)
          /\ retries[c] = 1
      BY <1>10, <2>1 DEF SettledInv, ShortCall
    <3>2. n = LastOwner(history, name)
      BY <1>10, <3>1 DEF MaySendTo
    <3>3. ShortCall(c)'
      BY <1>2, <3>1 DEF ShortCall, Open, Waiting
    <3>4. ShortCommand(k)'
      BY <1>2, <1>3, <1>10, <3>2 DEF ShortCommand
    <3>. QED
      BY <3>3, <3>4
  <2>2. ASSUME NEW d \in Calls, settled'[d]
        PROVE  Quiet'
    <3>1. Quiet
      BY <1>10, <2>2 DEF SettledInv
    <3>2. settled'[c]
      BY <1>10, <3>1 DEF Quiet, Open
    <3>. QED
      BY <1>8, <1>10, <3>1, <3>2
  <2>3. ASSUME NEW d \in Calls, settled'[d]
        PROVE  ShortCall(d)'
    BY <1>4, <1>10, <2>1, <2>3 DEF SettledInv
  <2>4. ASSUME NEW j \in Commands, cmd'[j] # None, settled'[cmd'[j].call]
        PROVE  ShortCommand(j)'
    <3>1. CASE j # k
      BY <1>3, <1>5, <1>10, <2>4, <3>1 DEF SettledInv
    <3>2. CASE j = k
      BY <1>3, <1>10, <2>1, <2>4, <3>2
    <3>. QED
      BY <3>1, <3>2
  <2>. QED
    BY <2>2, <2>3, <2>4 DEF SettledInv
<1>. QED
  BY <1>6, <1>9, <1>10

\* A step of one call that leaves the nodes alone, and after which nothing is on
\* its way for it: it stays as settled as it was, or ends.
LEMMA CallSettled ==
  ASSUME TypeInv, MatchInv, SettledInv, TypeInv', NEW c \in Calls,
         UNCHANGED <<history, position, up>>, UNCHANGED <<asked, from, here, via, held, told>>,
         \A d \in Calls \ {c} : /\ pc'[d] = pc[d] /\ to'[d] = to[d] /\ retries'[d] = retries[d]
                                /\ settled'[d] = settled[d],
         settled'[c] => settled[c] /\ (ShortCall(c) => ShortCall(c)'),
         Open(c)' => Open(c) /\ settled'[c] = settled[c],
         \A k \in Commands : /\ cmd'[k] # None => cmd'[k] = cmd[k]
                             /\ answer'[k] = answer[k] \/ answer'[k] = None,
         retries'[c] = retries[c] \/ UNCHANGED answer,
         (\E d \in Calls : settled[d]) =>
           /\ \A name \in Names : bound'[name] \in {bound[name], LastOwner(history, name)}
           /\ \A k \in Commands : OnWay(k)' => cmd[k].call # c
  PROVE  SettledInv'
<1>1. \A d \in Calls : settled'[d] => settled[d]
  OBVIOUS
<1>2. CommandInv' /\ CallInv
  BY TypeInvParts DEF TypeInv
<1>3. \A k \in Commands : OnWay(k)' => OnWay(k) /\ cmd'[k] = cmd[k]
  BY <1>2 DEF OnWay, CommandInv
<1>4. ASSUME NEW d \in Calls, settled'[d]
      PROVE  Quiet'
  <2>1. settled[d]
    BY <1>1, <1>4
  <2>2. /\ Quiet /\ \A e \in Calls : Open(e) => settled[e]
        /\ \A k \in Commands : OnWay(k) => cmd[k].call \in Calls /\ settled[cmd[k].call]
    BY <2>1, SettledQuiet
  <2>3. \A n \in up' : position'[n] = Len(history')
    BY <2>2 DEF Quiet
  <2>4. ASSUME NEW e \in Calls, Open(e)'
        PROVE  settled'[e]
    <3>1. CASE e = c
      BY <2>2, <2>4, <3>1
    <3>2. CASE e # c
      <4>1. Open(e)
        BY <2>4, <3>2 DEF Open, Waiting
      <4>. QED
        BY <2>2, <3>2, <4>1
    <3>. QED
      BY <3>1, <3>2
  <2>5. ASSUME NEW k \in Commands, OnWay(k)'
        PROVE  settled'[cmd'[k].call]
    <3>1. cmd'[k] = cmd[k] /\ cmd[k].call \in Calls \ {c} /\ settled[cmd[k].call]
      BY <1>3, <2>1, <2>2, <2>5
    <3>. QED
      BY <3>1
  <2>. QED
    BY <2>3, <2>4, <2>5 DEF Quiet, OnWay
<1>5. ASSUME NEW d \in Calls, settled'[d]
      PROVE  ShortCall(d)'
  <2>1. settled[d] /\ ShortCall(d)
    BY <1>1, <1>5 DEF SettledInv
  <2>2. CASE d = c
    BY <1>5, <2>1, <2>2
  <2>3. CASE d # c
    <3>1. asked[d] \in Names
      BY <1>2, <2>1 DEF ShortCall, CallInv
    <3>2. bound'[asked[d]] \in {bound[asked[d]], LastOwner(history, asked[d])}
      BY <2>1, <3>1
    <3>. QED
      BY <2>1, <2>3, <3>2, ShortCallKept
  <2>. QED
    BY <2>2, <2>3
<1>6. ASSUME NEW k \in Commands, cmd'[k] # None, settled'[cmd'[k].call]
      PROVE  ShortCommand(k)'
  <2>1. cmd'[k] = cmd[k] /\ cmd[k] # None
    BY <1>6
  <2>2. cmd[k].call \in Calls
    BY <2>1, CallOf
  <2>3. settled[cmd[k].call] /\ ShortCommand(k)
    BY <1>1, <1>6, <2>1, <2>2 DEF SettledInv
  <2>4. retries'[cmd[k].call] = retries[cmd[k].call] \/ ~OnWay(k)
    <3>1. CASE cmd[k].call # c
      BY <2>2, <3>1
    <3>2. CASE cmd[k].call = c /\ UNCHANGED answer
      BY <2>2, <2>3, <3>2 DEF OnWay
    <3>. QED
      BY <3>1, <3>2
  <2>. QED
    BY <2>1, <2>3, <2>4, ShortCommandKept
<1>. QED
  BY <1>4, <1>5, <1>6 DEF SettledInv

LEMMA FailSettled ==
  ASSUME TypeInv, MatchInv, SettledInv, TypeInv', NEW c \in Calls, SendFails(c) \/ BindFails(c)
  PROVE  SettledInv'
<1>1. /\ Return(c, "error") /\ settled' = [settled EXCEPT ![c] = FALSE] /\ ~Waiting(c)
      /\ UNCHANGED clusterVars /\ UNCHANGED handlerVars
      /\ UNCHANGED <<asked, bound, retries>>
  BY DEF SendFails, BindFails, Waiting
<1>2. ~settled'[c] /\ \A d \in Calls \ {c} : settled'[d] = settled[d]
  BY <1>1, TypeInvParts DEF CountType
<1>3. pc'[c] = "error" /\ \A d \in Calls \ {c} : pc'[d] = pc[d] /\ to'[d] = to[d]
  BY <1>1, ReturnSteps
<1>4. ~Open(c)'
  BY <1>3 DEF Open, Waiting
<1>5. UNCHANGED <<history, position, up>> /\ UNCHANGED <<cmd, from, answer, here, via, held, told>>
  BY <1>1 DEF clusterVars, registryVars, handlerVars
<1>6. (\E d \in Calls : settled[d]) => \A k \in Commands : OnWay(k)' => cmd[k].call # c
  BY <1>1, <1>5, SettledQuiet DEF Matching, Matched, OnWay
<1>. QED
  BY <1>1, <1>2, <1>3, <1>4, <1>5, <1>6, CallSettled

LEMMA BindSettled ==
  ASSUME TypeInv, MatchInv, SettledInv, TypeInv', NEW c \in Calls, Bind(c)
  PROVE  SettledInv'
<1>1. /\ pc[c] \in {"redirected", "placed"} /\ asked[c] \in Names /\ to[c] \in Nodes
      /\ UNCHANGED clusterVars /\ UNCHANGED handlerVars /\ UNCHANGED asked
      /\ \A name \in Names : bound'[name] = IF name = asked[c] THEN to[c] ELSE bound[name]
      /\ pc[c] = "redirected" => /\ pc'[c] = "retry" /\ retries'[c] = retries[c] + 1
                                 /\ settled'[c] = settled[c]
      /\ pc[c] = "placed" => pc'[c] = "registered" /\ ~settled'[c]
      /\ \A d \in Calls \ {c} : /\ pc'[d] = pc[d] /\ to'[d] = to[d]
                                /\ retries'[d] = retries[d] /\ settled'[d] = settled[d]
  BY BindSteps
<1>2. UNCHANGED <<history, position, up>> /\ UNCHANGED <<cmd, from, answer, here, via, held, told>>
  BY <1>1 DEF clusterVars, registryVars, handlerVars
<1>3. Open(c) /\ ~Waiting(c)
  BY <1>1 DEF Open, Waiting
<1>4. Open(c)' => settled'[c] = settled[c]
  BY <1>1 DEF Open, Waiting
<1>5. settled'[c] => settled[c] /\ (ShortCall(c) => ShortCall(c)')
  <2>. SUFFICES ASSUME settled'[c]
                PROVE  settled[c] /\ (ShortCall(c) => ShortCall(c)')
    OBVIOUS
  <2>1. pc[c] = "redirected" /\ pc'[c] = "retry" /\ retries'[c] = retries[c] + 1 /\ settled[c]
    BY <1>1
  <2>2. bound'[asked'[c]] = to[c] /\ to[c] # None
    BY <1>1
  <2>3. ASSUME ShortCall(c)
        PROVE  ShortCall(c)'
    <3>1. retries'[c] = 1 /\ to[c] = LastOwner(history', asked'[c])
      BY <1>1, <1>2, <2>1, <2>3 DEF ShortCall
    <3>. QED
      BY <2>1, <2>2, <3>1 DEF ShortCall, Open
  <2>. QED
    BY <2>1, <2>3
<1>6. ASSUME NEW d \in Calls, settled[d]
      PROVE  /\ \A name \in Names : bound'[name] \in {bound[name], LastOwner(history, name)}
             /\ \A k \in Commands : OnWay(k)' => cmd[k].call # c
  <2>1. ShortCall(c) /\ Matching
    BY <1>3, <1>6, SettledQuiet
  <2>2. to[c] = LastOwner(history, asked[c])
    BY <1>1, <2>1 DEF ShortCall
  <2>3. \A k \in Commands : OnWay(k)' => cmd[k].call # c
    BY <1>2, <1>3, <2>1 DEF Matching, Matched, OnWay
  <2>. QED
    BY <1>1, <2>2, <2>3
<1>. QED
  BY <1>1, <1>2, <1>3, <1>4, <1>5, <1>6, CallSettled

LEMMA ReadSettled ==
  ASSUME TypeInv, MatchInv, SettledInv, TypeInv', NEW c \in Calls, NEW k \in Commands,
         ReadAllow(c, k) \/ ReadRegRes(c, k)
  PROVE  SettledInv'
<1>1. /\ Waiting(c) /\ k \in Unread(at[c]) /\ answer[k] # None
      /\ \E result, node :
           /\ Read(c, k, result, node)
           /\ \/ node = None /\ result \in {"ok", "refused", "registered", "error"}
              \/ /\ node \in Nodes /\ node = answer[k].msg.node /\ answer[k].msg # None
                 /\ \/ pc[c] = "Allow" /\ answer[k].msg.redirected /\ result = "redirected"
                    \/ pc[c] = "RegRes" /\ node # at[c] /\ result = "placed"
  BY ReadCases
<1>2. PICK result, node :
        /\ Read(c, k, result, node)
        /\ \/ node = None /\ result \in {"ok", "refused", "registered", "error"}
           \/ /\ node \in Nodes /\ node = answer[k].msg.node /\ answer[k].msg # None
              /\ \/ pc[c] = "Allow" /\ answer[k].msg.redirected /\ result = "redirected"
                 \/ pc[c] = "RegRes" /\ node # at[c] /\ result = "placed"
  BY <1>1
<1>3. /\ UNCHANGED clusterVars /\ UNCHANGED <<asked, bound, retries, from, here, via, held, told>>
      /\ pc'[c] = result /\ to'[c] = node
      /\ settled'[c] = (settled[c] /\ node # None)
      /\ \A d \in Calls \ {c} : pc'[d] = pc[d] /\ to'[d] = to[d] /\ settled'[d] = settled[d]
      /\ answer'[k] = None
      /\ \A j \in Commands \ {k} : answer'[j] = answer[j]
      /\ \A j \in Commands : cmd'[j] # None => cmd'[j] = cmd[j]
  BY <1>1, <1>2, ReadSteps
<1>4. UNCHANGED <<history, position, up>>
  BY <1>3 DEF clusterVars, registryVars
<1>5. Open(c) /\ (Open(c)' => settled'[c] = settled[c])
  <2>1. settled[c] \in BOOLEAN
    BY TypeInvParts DEF CountType
  <2>. QED
    BY <1>1, <1>2, <1>3, <2>1 DEF Open, Waiting
<1>6. ASSUME settled'[c], ShortCall(c)
      PROVE  ShortCall(c)'
  <2>1. settled[c] /\ node # None
    BY <1>3, <1>6
  <2>2. /\ cmd[k].call = c /\ cmd[k].op = pc[c] /\ cmd[k].name = asked[c]
        /\ answer[k].on = at[c]
    BY <1>1, <2>1, ReadOwn, SettledQuiet
  <2>3. ShortCommand(k)
    BY <1>1, <2>1, SettledQuiet DEF OnWay
  <2>4. NamesOwner(k, at[c], answer[k].msg)
    BY <1>1, <1>2, <2>1, <2>2, <2>3 DEF ShortCommand
  <2>5. node = LastOwner(history, asked[c]) /\ (result = "redirected" => retries[c] = 0)
    BY <1>2, <2>1, <2>2, <2>4 DEF NamesOwner
  <2>6. result \in {"redirected", "placed"}
    BY <1>2, <2>1
  <2>. QED
    BY <1>3, <1>4, <1>6, <2>5, <2>6 DEF ShortCall, Open, Waiting
<1>7. ASSUME NEW d \in Calls, settled[d]
      PROVE  \A j \in Commands : OnWay(j)' => cmd[j].call # c
  <2>1. \A j \in Commands \ {k} : OnWay(j) => cmd[j].call # c
    BY <1>1, <1>7, ReadOwn, SettledQuiet
  <2>2. from[k] = None
    BY <1>1, TypeInvParts DEF CommandInv
  <2>3. ~OnWay(k)'
    BY <1>3, <2>2 DEF OnWay
  <2>4. \A j \in Commands \ {k} : OnWay(j)' => OnWay(j)
    BY <1>3 DEF OnWay
  <2>. QED
    BY <2>1, <2>3, <2>4
<1>. QED
  BY <1>3, <1>4, <1>5, <1>6, <1>7, CallSettled

\* A handler does something to its command, and the others stay.
LEMMA HandlerSettled ==
  ASSUME TypeInv, MatchInv, SettledInv, TypeInv', NEW k \in Commands,
         UNCHANGED clusterVars, UNCHANGED clientVars, UNCHANGED settled,
         \A j \in Commands : /\ cmd'[j] # None => cmd'[j] = cmd[j]
                             /\ OnWay(j)' => OnWay(j),
         \A j \in Commands \ {k} : /\ held'[j] = held[j] /\ told'[j] = told[j]
                                   /\ via'[j] = via[j] /\ here'[j] = here[j]
                                   /\ from'[j] = from[j] /\ answer'[j] = answer[j],
         cmd'[k] # None /\ settled[cmd[k].call] /\ ShortCommand(k) => ShortCommand(k)'
  PROVE  SettledInv'
<1>1. /\ UNCHANGED <<history, position, up>> /\ UNCHANGED <<pc, asked, to, bound, retries>>
  BY DEF clusterVars, registryVars, clientVars
<1>2. CommandInv'
  BY TypePartsNext DEF TypeInv
<1>3. ASSUME NEW d \in Calls, settled'[d]
      PROVE  Quiet'
  <2>1. /\ Quiet /\ \A j \in Commands : OnWay(j) => settled[cmd[j].call]
    BY <1>3, SettledQuiet
  <2>2. \A j \in Commands : OnWay(j)' => settled'[cmd'[j].call]
    BY <1>2, <2>1 DEF OnWay, CommandInv
  <2>. QED
    BY <1>1, <2>1, <2>2 DEF Quiet, OnWay, Open, Waiting
<1>4. ASSUME NEW d \in Calls, settled'[d]
      PROVE  ShortCall(d)'
  <2>1. ShortCall(d)
    BY <1>4 DEF SettledInv
  <2>. QED
    BY <1>1, <2>1, ShortCallKept
<1>5. ASSUME NEW j \in Commands, cmd'[j] # None, settled'[cmd'[j].call]
      PROVE  ShortCommand(j)'
  <2>1. cmd'[j] = cmd[j] /\ cmd[j] # None /\ settled[cmd[j].call]
    BY <1>5
  <2>2. ShortCommand(j)
    BY <2>1 DEF SettledInv
  <2>3. CASE j = k
    BY <1>5, <2>1, <2>2, <2>3
  <2>4. CASE j # k
    BY <1>1, <2>1, <2>2, <2>4, ShortCommandKept
  <2>. QED
    BY <2>3, <2>4
<1>. QED
  BY <1>3, <1>4, <1>5 DEF SettledInv

\* The last handler answers with the owner, or with an error.
LEMMA AnswerSettled ==
  ASSUME TypeInv, MatchInv, SettledInv, TypeInv', NEW k \in Commands,
         NEW msg \in Message \cup {None}, here[k] # None, Answer(k, msg),
         UNCHANGED clusterVars, UNCHANGED clientVars, UNCHANGED settled,
         settled[cmd[k].call] /\ ShortCommand(k) /\ from[k] # None /\ msg # None =>
           NamesOwner(k, from[k], msg)
  PROVE  SettledInv'
<1>1. /\ here'[k] = None /\ held'[k] = None /\ told'[k] = None /\ via'[k] = {} /\ from'[k] = None
      /\ from[k] # None => answer'[k] = [on |-> from[k], msg |-> msg]
      /\ from[k] = None => answer'[k] = answer[k]
      /\ \A j \in Commands : cmd'[j] # None => cmd'[j] = cmd[j]
      /\ \A j \in Commands \ {k} : /\ here'[j] = here[j] /\ held'[j] = held[j]
                                   /\ told'[j] = told[j] /\ via'[j] = via[j]
                                   /\ from'[j] = from[j] /\ answer'[j] = answer[j]
  BY AnswerSteps
<1>2. \A j \in Commands : OnWay(j)' => OnWay(j)
  BY AnswerOnWay
<1>3. UNCHANGED <<history, retries>>
  BY DEF clusterVars, registryVars, clientVars
<1>4. ASSUME cmd'[k] # None, settled[cmd[k].call], ShortCommand(k)
      PROVE  ShortCommand(k)'
  <2>1. cmd'[k] = cmd[k]
    BY <1>1, <1>4
  <2>2. answer'[k] # None /\ answer'[k].msg # None => NamesOwner(k, answer'[k].on, answer'[k].msg)
    <3>1. CASE from[k] # None
      <4>1. answer'[k].on = from[k] /\ answer'[k].msg = msg
        BY <1>1, <3>1
      <4>. QED
        BY <1>4, <3>1, <4>1
    <3>2. CASE from[k] = None
      BY <1>1, <1>4, <3>2 DEF ShortCommand
    <3>. QED
      BY <3>1, <3>2
  <2>3. ASSUME NEW n, NEW m, NamesOwner(k, n, m)
        PROVE  LET owner == LastOwner(history', cmd'[k].name)
               IN  IF cmd'[k].op = "Allow"
                     THEN m.redirected => m.node = owner /\ retries'[cmd'[k].call] = 0
                     ELSE ~m.redirected /\ m.node \in {n, owner}
    BY <1>3, <2>1, <2>3 DEF NamesOwner
  <2>4. answer'[k] # None /\ answer'[k].msg # None => NamesOwner(k, answer[k].on, answer[k].msg)'
    BY <2>2, <2>3 DEF NamesOwner
  <2>. QED
    BY <1>1, <2>4 DEF ShortCommand
<1>. QED
  BY <1>1, <1>2, <1>4, HandlerSettled

LEMMA LookupSettled ==
  ASSUME TypeInv, MatchInv, SettledInv, TypeInv', NEW k \in Commands, Lookup(k)
  PROVE  SettledInv'
<1>1. UNCHANGED clusterVars /\ UNCHANGED clientVars /\ UNCHANGED settled /\ here[k] # None
  BY DEF Lookup
<1>2. CASE shown[here[k]][cmd[k].name] = None
  <2>1. Answer(k, None)
    BY <1>2 DEF Lookup
  <2>. QED
    BY <1>1, <2>1, AnswerSettled
<1>3. CASE shown[here[k]][cmd[k].name] # None
  <2>1. /\ UNCHANGED <<cmd, from, here, via, told, answer>>
        /\ here[k] \in up
        /\ held'[k] # None => held'[k].node = shown[here[k]][cmd[k].name].node
        /\ \A j \in Commands \ {k} : held'[j] = held[j]
    BY <1>3, LookupSteps
  <2>2. UNCHANGED <<history, retries>>
    BY <1>1 DEF clusterVars, registryVars, clientVars
  <2>3. ASSUME cmd'[k] # None, settled[cmd[k].call], ShortCommand(k)
        PROVE  ShortCommand(k)'
    <3>1. Quiet
      <4>1. cmd[k].call \in Calls
        BY <2>1, <2>3, CallOf
      <4>. QED
        BY <2>3, <4>1, SettledQuiet
    <3>2. LastOwner(history, cmd[k].name) = shown[here[k]][cmd[k].name].node
      BY <1>3, <2>1, <3>1, QuietShows
    <3>. QED
      BY <2>1, <2>2, <2>3, <3>2 DEF ShortCommand, NamesOwner
  <2>4. \A j \in Commands : OnWay(j)' => OnWay(j)
    BY <2>1 DEF OnWay
  <2>. QED
    BY <1>1, <2>1, <2>3, <2>4, HandlerSettled
<1>. QED
  BY <1>2, <1>3

LEMMA DecideSettled ==
  ASSUME TypeInv, MatchInv, SettledInv, TypeInv', NEW k \in Commands, Decide(k)
  PROVE  SettledInv'
<1>1. PICK ok \in BOOLEAN :
        /\ UNCHANGED clusterVars /\ UNCHANGED clientVars /\ UNCHANGED settled
        /\ here[k] # None /\ held[k] # None /\ held[k].node = here[k]
        /\ Answer(k, Decided(k, ok))
  BY DecideAnswers
<1>2. /\ Decided(k, ok) \in Message
      /\ Decided(k, ok).redirected = (told[k] # None)
      /\ Decided(k, ok).node = IF told[k] = None THEN here[k] ELSE told[k]
  BY <1>1, DecidedMessage
<1>3. cmd[k].op = "Allow"
  BY <1>1, TypeInvParts DEF CommandInv
<1>4. ASSUME ShortCommand(k), from[k] # None
      PROVE  NamesOwner(k, from[k], Decided(k, ok))
  BY <1>2, <1>3, <1>4 DEF ShortCommand, NamesOwner
<1>. QED
  BY <1>1, <1>2, <1>4, AnswerSettled

LEMMA ForwardSettled ==
  ASSUME TypeInv, MatchInv, SettledInv, TypeInv', NEW k \in Commands, Forward(k)
  PROVE  SettledInv'
<1>1. UNCHANGED clusterVars /\ UNCHANGED clientVars /\ UNCHANGED settled /\ here[k] # None
  BY DEF Forward
<1>2. CASE held[k].node \notin up
  <2>1. Answer(k, None)
    BY <1>2 DEF Forward
  <2>. QED
    BY <1>1, <2>1, AnswerSettled
<1>3. CASE held[k].node \in up
  <2>1. /\ UNCHANGED <<cmd, from, answer>>
        /\ cmd[k].op = "Allow" /\ here[k] \in up /\ held[k] # None /\ held[k].node # here[k]
        /\ here'[k] = held[k].node /\ held'[k] = None /\ via'[k] = via[k] \cup {here[k]}
        /\ told'[k] = IF told[k] = None THEN held[k].node ELSE told[k]
        /\ \A j \in Commands \ {k} : /\ here'[j] = here[j] /\ held'[j] = held[j]
                                     /\ told'[j] = told[j] /\ via'[j] = via[j]
    BY <1>3, ForwardSteps
  <2>2. UNCHANGED <<history, retries>>
    BY <1>1 DEF clusterVars, registryVars, clientVars
  <2>3. here[k] \in Nodes
    BY <2>1, TypeInvParts DEF ClusterType
  <2>4. ASSUME ShortCommand(k)
        PROVE  ShortCommand(k)'
    <3>1. held[k].node = LastOwner(history, cmd[k].name) /\ via[k] = {}
      BY <2>1, <2>4 DEF ShortCommand
    <3>2. via'[k] = {here[k]}
      BY <2>1, <3>1
    <3>3. ~(retries[cmd[k].call] # 0 /\ from[k] # None)
      BY <2>1, <2>4, <3>1 DEF ShortCommand
    <3>. QED
      BY <2>1, <2>2, <2>3, <2>4, <3>1, <3>2, <3>3 DEF ShortCommand, NamesOwner
  <2>5. \A j \in Commands : OnWay(j)' => OnWay(j)
    BY <2>1 DEF OnWay
  <2>. QED
    BY <1>1, <2>1, <2>4, <2>5, HandlerSettled
<1>. QED
  BY <1>2, <1>3

LEMMA RegisterResourceSettled ==
  ASSUME TypeInv, MatchInv, SettledInv, TypeInv', NEW k \in Commands, RegisterResource(k)
  PROVE  SettledInv'
<1>1. PICK msg \in Message \cup {None} :
        /\ Answer(k, msg)
        /\ msg # None =>
             /\ ~msg.redirected
             /\ \/ /\ shown[here[k]][cmd[k].name] # None
                   /\ msg.node = shown[here[k]][cmd[k].name].node
                \/ msg.node = here[k]
  BY RegisterSays
<1>2. /\ UNCHANGED clusterVars /\ UNCHANGED clientVars /\ UNCHANGED settled
      /\ here[k] \in up /\ here[k] \in Nodes /\ cmd[k] \in Command /\ cmd[k].op = "RegRes"
  BY RegisterSays
<1>3. ASSUME settled[cmd[k].call], ShortCommand(k), from[k] # None, msg # None
      PROVE  NamesOwner(k, from[k], msg)
  <2>1. Quiet
    BY <1>2, <1>3, SettledQuiet DEF Command
  <2>2. shown[here[k]][cmd[k].name] # None =>
          LastOwner(history, cmd[k].name) = shown[here[k]][cmd[k].name].node
    BY <1>2, <2>1, QuietShows
  <2>3. here[k] = from[k]
    BY <1>2, <1>3 DEF ShortCommand
  <2>. QED
    BY <1>1, <1>2, <1>3, <2>2, <2>3 DEF NamesOwner
<1>. QED
  BY <1>1, <1>2, <1>3, AnswerSettled

LEMMA NextSettled == TypeInv /\ MatchInv /\ SettledInv /\ [Next]_vars => SettledInv'
<1>. SUFFICES ASSUME TypeInv, MatchInv, SettledInv, [Next]_vars
              PROVE  SettledInv'
  OBVIOUS
<1>0. TypeInv'
  BY NextTypes
<1>1. ASSUME Unsettle
      PROVE  SettledInv'
  BY <1>0, <1>1, UnsettledShort DEF Unsettle
<1>2. ASSUME NEW n \in Nodes, \/ ApplyNext(n) \/ Restore(n) \/ Crash(n) \/ Restart(n)
                              \/ \E q \in Requests, name \in Names : Register(q, n, name)
      PROVE  SettledInv'
  BY <1>1, <1>2 DEF ApplyNext, Restore, Crash, Restart, Register
<1>3. ASSUME NEW n \in Nodes, NEW name \in Names, NEW c \in Calls,
             Allow(c, n, name) \/ RegisterTokenBucket(c, n, name)
      PROVE  SettledInv'
  BY <1>0, <1>3, SendSettled
<1>4. ASSUME NEW c \in Calls, SendFails(c) \/ BindFails(c)
      PROVE  SettledInv'
  BY <1>0, <1>4, FailSettled
<1>5. ASSUME NEW c \in Calls, TimeOut(c)
      PROVE  SettledInv'
  BY <1>1, <1>5 DEF TimeOut
<1>6. ASSUME NEW c \in Calls, Bind(c)
      PROVE  SettledInv'
  BY <1>0, <1>6, BindSettled
<1>7. ASSUME NEW c \in Calls, NEW k \in Commands, ReadAllow(c, k) \/ ReadRegRes(c, k)
      PROVE  SettledInv'
  BY <1>0, <1>7, ReadSettled
<1>8. ASSUME NEW k \in Commands, Handle(k)
      PROVE  SettledInv'
  BY <1>0, <1>8, LookupSettled, DecideSettled, ForwardSettled, RegisterResourceSettled DEF Handle
<1>9. CASE UNCHANGED vars
  <2>1. /\ UNCHANGED <<history, position, up>> /\ UNCHANGED <<pc, asked, to, bound, retries, settled>>
        /\ UNCHANGED <<cmd, from, answer, here, via, held, told>>
    BY <1>9 DEF vars, clusterVars, registryVars, clientVars, handlerVars
  <2>2. (\E c \in Calls : settled'[c]) => Quiet'
    BY <2>1 DEF SettledInv, Quiet, Open, Waiting
  <2>3. \A c \in Calls : settled'[c] => ShortCall(c)'
    BY <2>1 DEF SettledInv, ShortCall, Open, Waiting
  <2>4. \A k \in Commands : cmd'[k] # None /\ settled'[cmd'[k].call] => ShortCommand(k)'
    BY <2>1 DEF SettledInv, ShortCommand, NamesOwner
  <2>. QED
    BY <2>2, <2>3, <2>4 DEF SettledInv
<1>. QED
  BY <1>2, <1>3, <1>4, <1>5, <1>6, <1>7, <1>8, <1>9 DEF Next

\* While the nodes that run agree, and nothing older is open, to come or unread, a
\* command is forwarded at most once and a call is sent again at most once, whatever
\* its resource was bound to before (AllowPbCmd, TCPClient.Allow).
THEOREM SettledShort == Spec => []SettledCallsAreShort
<1>1. Init => SettledInv
  BY DEF Init, SettledInv
<1>2. SettledInv => SettledCallsAreShort
  <2>. SUFFICES ASSUME SettledInv
                PROVE  SettledCallsAreShort
    OBVIOUS
  <2>1. \A c \in Calls : settled[c] => retries[c] <= 1
    BY DEF SettledInv, ShortCall
  <2>2. ASSUME NEW k \in Commands, cmd[k] # None, settled[cmd[k].call]
        PROVE  Cardinality(via[k]) <= 1
    <3>1. via[k] = {} \/ \E m \in Nodes : via[k] = {m}
      BY <2>2 DEF SettledInv, ShortCommand
    <3>2. Cardinality({}) = 0 /\ \A m \in Nodes : Cardinality({m}) = 1
      BY FS_EmptySet, FS_Singleton
    <3>. QED
      BY <3>1, <3>2
  <2>. QED
    BY <2>1, <2>2 DEF SettledCallsAreShort
<1>. QED
  BY <1>1, <1>2, NextSettled, TypeInvariant, MatchInvariant, PTL DEF Spec

=============================================================================
