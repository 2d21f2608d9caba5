--------------------- MODULE ResourceReplicationProofs ---------------------
(***************************************************************************)
(* Proofs about ResourceReplication, for any number of nodes, names,       *)
(* requests and crashes.                                                   *)
(***************************************************************************)
EXTENDS ResourceReplication, TLAPS

-----------------------------------------------------------------------------
(* The operators of the store.                                             *)

\* The fields of an entry are what they are named.
LEMMA EntryFields ==
  ASSUME NEW e \in Entries
  PROVE  /\ e.by \in Requests
         /\ e.name \in Names
         /\ e.action \in {"Put", "Remove", "Move"}
         /\ e.action # "Remove" => e.node \in Nodes
BY DEF Entries, Entry

\* Every call of the manager makes a well-formed entry.
LEMMA EntryTypes ==
  ASSUME NEW q \in Requests, NEW name \in Names, NEW node \in Nodes
  PROVE  /\ Entry(q, "Put", name, node) \in Entries
         /\ Entry(q, "Move", name, node) \in Entries
         /\ Entry(q, "Remove", name, None) \in Entries
BY DEF Entries, Entry

LEMMA EmptyTypes == EmptyRegistry \in Registries /\ EmptyStore \in Stores
BY DEF EmptyRegistry, EmptyStore, Registries, Stores

LEMMA ResourceOfType ==
  ASSUME NEW e \in Entries, e.action = "Put"
  PROVE  ResourceOf(e) \in Resource
BY EntryFields DEF ResourceOf, Resource

\* The registry a caller asks for is a registry.
LEMMA OutcomeType ==
  ASSUME NEW registry \in Registries, NEW e \in Entries
  PROVE  Outcome(registry, e) \in Registries
<1>1. ASSUME NEW name \in Names
      PROVE  Outcome(registry, e)[name] \in Resource \cup {None}
  <2>1. CASE name = e.name /\ e.action = "Put"
    BY <2>1, ResourceOfType DEF Outcome
  <2>2. CASE name = e.name /\ e.action = "Remove"
    BY <2>2 DEF Outcome
  <2>3. CASE name = e.name /\ e.action = "Move" /\ registry[name] # None
    <3>1. registry[name] \in Resource /\ e.node \in Nodes
      BY <2>3, EntryFields DEF Registries
    <3> QED
      BY <3>1, <2>3 DEF Outcome, Resource
  <2>4. CASE ~ (name = e.name /\ e.action \in {"Put", "Remove"})
             /\ ~ (name = e.name /\ e.action = "Move" /\ registry[name] # None)
    <3>1. Outcome(registry, e)[name] = registry[name]
      BY <2>4 DEF Outcome
    <3> QED
      BY <3>1 DEF Registries
  <2> QED
    BY <2>1, <2>2, <2>3, <2>4
<1> QED
  BY <1>1 DEF Outcome, Registries

\* Applying an entry leaves a store.
LEMMA ApplyType ==
  ASSUME NEW s \in Stores, NEW e \in Entries
  PROVE  ApplyEntry(s, e) \in Stores
<1>1. s.res \in Registries /\ s.index \in [Nodes -> SUBSET Names]
  BY DEF Stores
<1>2. e.name \in Names
  BY EntryFields
<1>3. CASE e.action = "Put"
  <2>1. ResourceOf(e) \in Resource /\ ResourceOf(e).node \in Nodes
    BY <1>3, ResourceOfType DEF Resource
  <2> QED
    BY <1>1, <1>2, <1>3, <2>1 DEF ApplyEntry, PutResource, Stores, Registries
<1>4. CASE e.action = "Remove"
  <2>1. CASE s.res[e.name] = None
    BY <1>4, <2>1 DEF ApplyEntry, RemoveResource
  <2>2. CASE s.res[e.name] # None
    <3>1. s.res[e.name] \in Resource /\ s.res[e.name].node \in Nodes
      BY <1>1, <1>2, <2>2 DEF Registries, Resource
    <3> DEFINE i == s.res[e.name].node
    <3>2. ApplyEntry(s, e) = [res   |-> [s.res EXCEPT ![e.name] = None],
                              index |-> [s.index EXCEPT ![i] = s.index[i] \ {e.name}]]
      BY <1>1, <1>2, <1>4, <2>2 DEF ApplyEntry, RemoveResource, Stores
    <3> QED
      BY <1>1, <1>2, <3>1, <3>2 DEF Stores, Registries
  <2> QED
    BY <2>1, <2>2
<1>5. CASE e.action = "Move"
  <2>1. CASE s.res[e.name] = None \/ s.res[e.name].node = e.node
    BY <1>5, <2>1 DEF ApplyEntry, MoveResource
  <2>2. CASE s.res[e.name] # None /\ s.res[e.name].node # e.node
    <3>1. s.res[e.name] \in Resource /\ e.node \in Nodes
      BY <1>1, <1>2, <1>5, <2>2, EntryFields DEF Registries
    <3>2. [s.res[e.name] EXCEPT !.node = e.node] \in Resource
      BY <3>1 DEF Resource
    <3>3. ApplyEntry(s, e) =
            [res   |-> [s.res EXCEPT ![e.name] = [s.res[e.name] EXCEPT !.node = e.node]],
             index |-> [s.index EXCEPT ![e.node] = s.index[e.node] \ {e.name}]]
      BY <1>1, <1>2, <1>5, <2>2 DEF ApplyEntry, MoveResource, Stores, Registries
    <3> QED
      BY <1>1, <1>2, <3>1, <3>2, <3>3 DEF Stores, Registries
  <2> QED
    BY <2>1, <2>2
<1> QED
  BY <1>3, <1>4, <1>5, EntryFields

\* What Apply does to the map the commands read is what the caller asked for.
LEMMA ApplyKeepsOutcome ==
  ASSUME NEW s \in Stores, NEW e \in Entries
  PROVE  ApplyEntry(s, e).res = Outcome(s.res, e)
<1>1. s.res \in Registries /\ s.index \in [Nodes -> SUBSET Names]
      /\ s = [res |-> s.res, index |-> s.index]
  BY DEF Stores
<1>2. e.name \in Names
  BY EntryFields
<1>3. CASE e.action = "Put"
  BY <1>1, <1>2, <1>3 DEF ApplyEntry, PutResource, Outcome, Registries
<1>4. CASE e.action = "Remove"
  <2>1. CASE s.res[e.name] = None
    BY <1>1, <1>2, <1>4, <2>1 DEF ApplyEntry, RemoveResource, Outcome, Registries
  <2>2. CASE s.res[e.name] # None
    <3>1. ApplyEntry(s, e).res = [s.res EXCEPT ![e.name] = None]
      BY <1>1, <1>2, <1>4, <2>2 DEF ApplyEntry, RemoveResource, Stores
    <3> QED
      BY <1>1, <1>2, <1>4, <3>1 DEF Outcome, Registries
  <2> QED
    BY <2>1, <2>2
<1>5. CASE e.action = "Move"
  <2>1. CASE s.res[e.name] = None
    BY <1>1, <1>2, <1>5, <2>1 DEF ApplyEntry, MoveResource, Outcome, Registries
  <2>2. CASE s.res[e.name] # None /\ s.res[e.name].node = e.node
    <3>1. s.res[e.name] \in Resource
      BY <1>1, <1>2, <2>2 DEF Registries
    <3>2. [s.res[e.name] EXCEPT !.node = e.node] = s.res[e.name]
      BY <3>1, <2>2 DEF Resource
    <3>3. ApplyEntry(s, e).res = s.res
      BY <1>5, <2>2 DEF ApplyEntry, MoveResource
    <3> QED
      BY <1>1, <1>2, <1>5, <2>2, <3>2, <3>3 DEF Outcome, Registries
  <2>3. CASE s.res[e.name] # None /\ s.res[e.name].node # e.node
    <3>1. ApplyEntry(s, e).res =
            [s.res EXCEPT ![e.name] = [s.res[e.name] EXCEPT !.node = e.node]]
      BY <1>1, <1>2, <1>5, <2>3 DEF ApplyEntry, MoveResource, Stores, Registries
    <3> QED
      BY <1>1, <1>2, <1>5, <2>3, <3>1 DEF Outcome, Registries
  <2> QED
    BY <2>1, <2>2, <2>3
<1> QED
  BY <1>3, <1>4, <1>5, EntryFields

\* Restoring a snapshot leaves a store.
LEMMA RestoreType ==
  ASSUME NEW s \in Stores, NEW snap \in Registries
  PROVE  RestoreSnapshot(s, snap) \in Stores
BY DEF RestoreSnapshot, Stores, Registries

\* Restoring over a store that has no name the snapshot lacks gives the snapshot.
LEMMA RestoreOverOlder ==
  ASSUME NEW s \in Stores, NEW snap \in Registries,
         \A name \in Names : s.res[name] # None => snap[name] # None
  PROVE  RestoreSnapshot(s, snap).res = snap
BY DEF RestoreSnapshot, Stores, Registries

-----------------------------------------------------------------------------
(* Type correctness.                                                       *)

\* A call of the manager proposes a well-formed entry of its own, a removal or a
\* move only where those are made, or finds the resource and proposes nothing.
LEMMA RequestProposes ==
  ASSUME NEW q \in Requests, NEW n \in Nodes, Request(q, n)
  PROVE  \/ \E e \in Entries : /\ Propose(q, n, e)
                               /\ e.by = q
                               /\ e.action = "Put" \/ e.action \in Operations
         \/ \E name \in Names : FindExisting(q, n, name)
<1>1. PICK name \in Names :
        \/ \E override \in BOOLEAN : Register(q, n, name, override)
        \/ FindExisting(q, n, name)
        \/ \E node \in Nodes : PutResourceToNode(q, n, name, node)
        \/ "Remove" \in Operations /\ RemoveResourceEverywhere(q, n, name)
        \/ "Move" \in Operations /\ \E node \in Nodes : UpdateResourceNodeId(q, n, name, node)
  BY DEF Request
<1>2. CASE \E override \in BOOLEAN : Register(q, n, name, override)
  <2> DEFINE e == Entry(q, "Put", name, n)
  <2>1. e \in Entries /\ e.action = "Put" /\ e.by = q
    BY EntryTypes DEF Entry
  <2>2. Propose(q, n, e)
    BY <1>2 DEF Register, LightestNode
  <2> QED
    BY <2>1, <2>2
<1>3. CASE \E node \in Nodes : PutResourceToNode(q, n, name, node)
  <2>1. PICK node \in Nodes : Propose(q, n, Entry(q, "Put", name, node))
    BY <1>3 DEF PutResourceToNode
  <2> DEFINE e == Entry(q, "Put", name, node)
  <2>2. e \in Entries /\ e.action = "Put" /\ e.by = q
    BY EntryTypes DEF Entry
  <2> QED
    BY <2>1, <2>2
<1>4. CASE "Remove" \in Operations /\ RemoveResourceEverywhere(q, n, name)
  <2> DEFINE e == Entry(q, "Remove", name, None)
  <2>1. e \in Entries
    BY DEF Entries
  <2>2. e.action = "Remove" /\ e.by = q
    BY DEF Entry
  <2>3. Propose(q, n, e)
    BY <1>4 DEF RemoveResourceEverywhere
  <2> QED
    BY <1>4, <2>1, <2>2, <2>3
<1>5. CASE "Move" \in Operations /\ \E node \in Nodes : UpdateResourceNodeId(q, n, name, node)
  <2>1. PICK node \in Nodes : Propose(q, n, Entry(q, "Move", name, node))
    BY <1>5 DEF UpdateResourceNodeId
  <2> DEFINE e == Entry(q, "Move", name, node)
  <2>2. e \in Entries /\ e.action = "Move" /\ e.by = q
    BY EntryTypes DEF Entry
  <2> QED
    BY <1>5, <2>1, <2>2
<1> QED
  BY <1>1, <1>2, <1>3, <1>4, <1>5

LEMMA InitType == Init => TypeOK
<1> SUFFICES ASSUME Init PROVE TypeOK
  OBVIOUS
<1> USE DEF Init, TypeOK
<1>1. /\ pc \in [Requests -> RequestStates]
      /\ at \in [Requests -> Nodes \cup {None}]
      /\ entry \in [Requests -> Entries \cup {None}]
  BY DEF RequestStates
<1>2. /\ log \in Seq(Entries) /\ Len(log) = 0
      /\ history \in Seq(Registries) /\ Len(history) = 1
  BY EmptyTypes
<1>3. /\ store \in [Nodes -> Stores]
      /\ applied \in [Nodes -> 0 .. Len(log)]
      /\ snapshot \in [Nodes -> Snapshots]
      /\ \A n \in Nodes : snapshot[n].index = 0 /\ applied[n] = 0
  BY <1>2, EmptyTypes DEF EmptySnapshot, Snapshots
<1>4. crashes \in 0 .. MaxCrashes
  BY OperationsAssumption
<1>5. /\ \A n \in Nodes : snapshot[n].index \in 0 .. Len(log)
      /\ \A n \in up : snapshot[n].index <= applied[n]
  BY <1>2, <1>3
<1> QED
  BY <1>1, <1>2, <1>3, <1>4, <1>5

\* Every action keeps the types.
LEMMA NextType == TypeOK /\ [Next]_vars => TypeOK'
<1> SUFFICES ASSUME TypeOK, [Next]_vars PROVE TypeOK'
  OBVIOUS
<1> USE DEF TypeOK, vars, requestVars, raftVars, nodeVars
<1>1. CASE UNCHANGED vars
  BY <1>1
<1>2. ASSUME NEW q \in Requests, NEW n \in Nodes, NEW e \in Entries, Propose(q, n, e)
      PROVE  TypeOK'
  <2>1. /\ pc' \in [Requests -> RequestStates]
        /\ at' \in [Requests -> Nodes \cup {None}]
        /\ entry' \in [Requests -> Entries \cup {None}]
    BY <1>2 DEF Propose, RequestStates
  <2>2. inflight' \in SUBSET {r \in Requests : entry'[r] \in Entries}
    BY <1>2 DEF Propose
  <2> QED
    BY <1>2, <2>1, <2>2 DEF Propose
<1>3. ASSUME NEW q \in Requests, NEW n \in Nodes, NEW name \in Names, FindExisting(q, n, name)
      PROVE  TypeOK'
  <2>1. Entry(q, "Put", name, LightestNode(n)) \in Entries
    BY EntryTypes DEF LightestNode
  <2>2. /\ pc' \in [Requests -> RequestStates]
        /\ at' \in [Requests -> Nodes \cup {None}]
        /\ entry' \in [Requests -> Entries \cup {None}]
    BY <1>3, <2>1 DEF FindExisting, RequestStates
  <2>3. inflight' \in SUBSET {r \in Requests : entry'[r] \in Entries}
    BY <1>3, <2>1 DEF FindExisting
  <2> QED
    BY <1>3, <2>2, <2>3 DEF FindExisting
<1>4. ASSUME NEW q \in Requests, NEW n \in Nodes, Request(q, n)
      PROVE  TypeOK'
  BY <1>2, <1>3, <1>4, RequestProposes
<1>5. ASSUME NEW q \in Requests, TimeOut(q)
      PROVE  TypeOK'
  <2>1. pc' \in [Requests -> RequestStates]
    BY <1>5 DEF TimeOut, RequestStates
  <2> QED
    BY <1>5, <2>1 DEF TimeOut
<1>6. ASSUME NEW q \in Requests, Commit(q)
      PROVE  TypeOK'
  <2>1. entry[q] \in Entries
    BY <1>6 DEF Commit
  <2>2. Outcome(history[Len(history)], entry[q]) \in Registries
    BY <2>1, OutcomeType
  <2>3. /\ log' \in Seq(Entries) /\ Len(log') = Len(log) + 1
        /\ history' \in Seq(Registries) /\ Len(history') = Len(history) + 1
    BY <1>6, <2>1, <2>2 DEF Commit
  <2>4. /\ applied' \in [Nodes -> 0 .. Len(log')]
        /\ \A n \in Nodes : snapshot'[n].index \in 0 .. Len(log')
    BY <1>6, <2>3 DEF Commit
  <2> QED
    BY <1>6, <2>3, <2>4 DEF Commit
<1>7. ASSUME NEW q \in Requests, Lose(q)
      PROVE  TypeOK'
  BY <1>7 DEF Lose
<1>8. ASSUME NEW n \in Nodes, Apply(n)
      PROVE  TypeOK'
  <2> DEFINE e == log[applied[n] + 1]
  <2>1. applied[n] + 1 \in 1 .. Len(log) /\ e \in Entries
    BY <1>8 DEF Apply
  <2>2. ApplyEntry(store[n], e) \in Stores
    BY <2>1, ApplyType
  <2>3. store' = [store EXCEPT ![n] = ApplyEntry(store[n], e)]
    BY <1>8 DEF Apply
  <2>4. store' \in [Nodes -> Stores]
    BY <2>2, <2>3
  <2>5. pc' \in [Requests -> RequestStates]
    BY <1>8, <2>1, EntryFields DEF Apply, RequestStates
  <2>6. applied' = [applied EXCEPT ![n] = applied[n] + 1]
    BY <1>8 DEF Apply
  <2>7. applied' \in [Nodes -> 0 .. Len(log)]
    BY <2>1, <2>6
  <2>8. \A m \in up : snapshot[m].index <= applied'[m]
    BY <2>6, <2>7 DEF Snapshots
  <2> QED
    BY <1>8, <2>4, <2>5, <2>7, <2>8 DEF Apply
<1>9. ASSUME NEW n \in Nodes, TakeSnapshot(n)
      PROVE  TypeOK'
  <2>1. [index |-> applied[n], res |-> SnapshotOf(store[n])] \in Snapshots
    BY DEF Snapshots, SnapshotOf, Stores
  <2>2. snapshot' = [snapshot EXCEPT
                       ![n] = [index |-> applied[n], res |-> SnapshotOf(store[n])]]
    BY <1>9 DEF TakeSnapshot
  <2>3. snapshot' \in [Nodes -> Snapshots] /\ snapshot'[n].index = applied[n]
    BY <2>1, <2>2
  <2>4. \A m \in Nodes : m # n => snapshot'[m] = snapshot[m]
    BY <2>2
  <2>5. ASSUME NEW m \in Nodes
        PROVE  /\ snapshot'[m].index \in 0 .. Len(log)
               /\ m \in up => snapshot'[m].index <= applied[m]
    <3>1. CASE m = n
      <4>1. applied[n] \in 0 .. Len(log)
        OBVIOUS
      <4> QED
        BY <3>1, <2>3, <4>1
    <3>2. CASE m # n
      BY <3>2, <2>4
    <3> QED
      BY <3>1, <3>2
  <2> QED
    BY <1>9, <2>3, <2>5 DEF TakeSnapshot
<1>10. ASSUME NEW n \in Nodes, NEW m \in Nodes, InstallSnapshot(n, m)
       PROVE  TypeOK'
  <2>1. snapshot[m] \in Snapshots /\ snapshot[m].res \in Registries
    BY DEF Snapshots
  <2>2. RestoreSnapshot(store[n], snapshot[m].res) \in Stores
    BY <2>1, RestoreType
  <2>3. /\ store' = [store EXCEPT ![n] = RestoreSnapshot(store[n], snapshot[m].res)]
        /\ applied' = [applied EXCEPT ![n] = snapshot[m].index]
        /\ snapshot' = [snapshot EXCEPT ![n] = snapshot[m]]
    BY <1>10 DEF InstallSnapshot
  <2>4. /\ store' \in [Nodes -> Stores]
        /\ applied' \in [Nodes -> 0 .. Len(log)]
        /\ snapshot' \in [Nodes -> Snapshots]
    BY <2>1, <2>2, <2>3
  <2>5. /\ snapshot'[n].index = applied'[n]
        /\ \A o \in Nodes : o # n => snapshot'[o] = snapshot[o] /\ applied'[o] = applied[o]
    BY <2>3
  <2>6. ASSUME NEW o \in Nodes
        PROVE  /\ snapshot'[o].index \in 0 .. Len(log)
               /\ o \in up => snapshot'[o].index <= applied'[o]
    <3>1. CASE o = n
      <4>1. applied'[n] \in 0 .. Len(log)
        BY <2>4
      <4> QED
        BY <3>1, <2>5, <4>1
    <3>2. CASE o # n
      BY <3>2, <2>5
    <3> QED
      BY <3>1, <3>2
  <2> QED
    BY <1>10, <2>4, <2>6 DEF InstallSnapshot
<1>11. ASSUME NEW n \in Nodes, Crash(n)
       PROVE  TypeOK'
  <2>1. /\ store' \in [Nodes -> Stores]
        /\ applied' \in [Nodes -> 0 .. Len(log)]
        /\ pc' \in [Requests -> RequestStates]
    BY <1>11, EmptyTypes DEF Crash, RequestStates
  <2>2. crashes' \in 0 .. MaxCrashes
    BY <1>11, OperationsAssumption DEF Crash
  <2>3. up' = up \ {n} /\ \A m \in up' : applied'[m] = applied[m]
    BY <1>11 DEF Crash
  <2> QED
    BY <1>11, <2>1, <2>2, <2>3 DEF Crash
<1>12. ASSUME NEW n \in Nodes, Restart(n)
       PROVE  TypeOK'
  <2>1. snapshot[n].res \in Registries
    BY DEF Snapshots
  <2>2. RestoreSnapshot(EmptyStore, snapshot[n].res) \in Stores
    BY <2>1, EmptyTypes, RestoreType
  <2>3. store' \in [Nodes -> Stores]
    BY <1>12, <2>2 DEF Restart
  <2>4. applied' \in [Nodes -> 0 .. Len(log)] /\ applied'[n] = snapshot[n].index
    BY <1>12 DEF Restart
  <2>5. up' = up \cup {n} /\ \A m \in Nodes : m # n => applied'[m] = applied[m]
    BY <1>12 DEF Restart
  <2>6. \A m \in up' : snapshot[m].index <= applied'[m]
    BY <2>4, <2>5
  <2> QED
    BY <1>12, <2>3, <2>4, <2>5, <2>6 DEF Restart
<1> QED
  BY <1>1, <1>4, <1>5, <1>6, <1>7, <1>8, <1>9, <1>10, <1>11, <1>12 DEF Next

\* Init and every action of the managers, raft and crashes keep the types, and
\* with them that no node is ahead of the log and no disk ahead of its node.
THEOREM TypeCorrect == Spec => []TypeOK
  BY InitType, NextType, PTL DEF Spec

-----------------------------------------------------------------------------
(* Whatever calls are made, removals and moves included.                   *)

\* A step commits an entry, changes one node, or touches neither log nor nodes.
LEMMA StepCases ==
  ASSUME [Next]_vars
  PROVE  \/ \E q \in Requests : Commit(q)
         \/ \E n \in Nodes : Apply(n) \/ TakeSnapshot(n) \/ Crash(n) \/ Restart(n)
         \/ \E n, m \in Nodes : InstallSnapshot(n, m)
         \/ UNCHANGED <<log, history, nodeVars>>
<1>1. ASSUME NEW q \in Requests, NEW n \in Nodes, Request(q, n)
      PROVE  UNCHANGED <<log, history, nodeVars>>
  BY <1>1, RequestProposes DEF Propose, FindExisting, raftVars
<1>2. ASSUME NEW q \in Requests, TimeOut(q) \/ Lose(q)
      PROVE  UNCHANGED <<log, history, nodeVars>>
  BY <1>2 DEF TimeOut, Lose, raftVars
<1>3. CASE UNCHANGED vars
  BY <1>3 DEF vars, raftVars
<1> QED
  BY <1>1, <1>2, <1>3 DEF Next

HistoryOfLog ==
  /\ history[1] = EmptyRegistry
  /\ \A i \in 1 .. Len(log) : history[i + 1] = Outcome(history[i], log[i])

\* The registry holds nothing that view lacks or has otherwise.
Covers(view, registry) ==
  \A name \in Names : registry[name] # None => view[name] = registry[name]

DisksMissNothing ==
  \A n \in Nodes : Covers(snapshot[n].res, history[snapshot[n].index + 1])

CoverInv == TypeOK /\ HistoryOfLog /\ DisksMissNothing /\ NothingMissing

\* Applying one entry to both keeps the view complete.
LEMMA OutcomeCovers ==
  ASSUME NEW view \in Registries, NEW registry \in Registries, NEW e \in Entries,
         Covers(view, registry)
  PROVE  Covers(Outcome(view, e), Outcome(registry, e))
<1> SUFFICES ASSUME NEW name \in Names, Outcome(registry, e)[name] # None
             PROVE  Outcome(view, e)[name] = Outcome(registry, e)[name]
  BY DEF Covers
<1>1. CASE name = e.name /\ e.action = "Put"
  BY <1>1 DEF Outcome
<1>2. CASE name = e.name /\ e.action = "Remove"
  BY <1>2 DEF Outcome
<1>3. CASE ~ (name = e.name /\ e.action \in {"Put", "Remove"})
  <2>1. registry[name] # None
    BY <1>3 DEF Outcome
  <2>2. view[name] = registry[name]
    BY <2>1 DEF Covers
  <2> QED
    BY <1>3, <2>1, <2>2 DEF Outcome
<1> QED
  BY <1>1, <1>2, <1>3

\* A restored store has all the snapshot has.
LEMMA RestoreCovers ==
  ASSUME NEW s \in Stores, NEW snap \in Registries, NEW registry \in Registries,
         Covers(snap, registry)
  PROVE  Covers(RestoreSnapshot(s, snap).res, registry)
BY DEF Covers, RestoreSnapshot

LEMMA InitCovers == Init => CoverInv
<1> SUFFICES ASSUME Init PROVE CoverInv
  OBVIOUS
<1>1. /\ Len(log) = 0 /\ history[1] = EmptyRegistry
      /\ \A n \in Nodes : applied[n] = 0 /\ snapshot[n] = EmptySnapshot
  BY DEF Init
<1>2. HistoryOfLog
  BY <1>1 DEF HistoryOfLog
<1>3. \A name \in Names : EmptyRegistry[name] = None
  BY DEF EmptyRegistry
<1>4. DisksMissNothing
  BY <1>1, <1>3 DEF DisksMissNothing, Covers, EmptySnapshot
<1>5. up = Nodes
  BY DEF Init
<1>6. NothingMissing
  BY <1>1, <1>3, <1>5 DEF NothingMissing, RegistryAt
<1> QED
  BY <1>2, <1>4, <1>6, InitType DEF CoverInv

\* The history stays the one the log makes.
LEMMA HistoryStep ==
  ASSUME TypeOK, HistoryOfLog, [Next]_vars
  PROVE  HistoryOfLog'
<1>1. ASSUME UNCHANGED <<log, history>>
      PROVE  HistoryOfLog'
  BY <1>1 DEF HistoryOfLog
<1>2. ASSUME NEW q \in Requests, Commit(q)
      PROVE  HistoryOfLog'
  <2>1. /\ log' = Append(log, entry[q])
        /\ history' = Append(history, Outcome(history[Len(history)], entry[q]))
    BY <1>2 DEF Commit
  <2>2. Len(history) = Len(log) + 1 /\ Len(log) \in Nat
    BY DEF TypeOK
  <2>3. \A i \in 1 .. Len(log) : log'[i] = log[i]
    BY <2>1 DEF TypeOK
  <2>4. \A i \in 1 .. Len(log) + 1 : history'[i] = history[i]
    BY <2>1, <2>2 DEF TypeOK
  <2>5. /\ Len(log') = Len(log) + 1
        /\ log'[Len(log) + 1] = entry[q]
        /\ history'[Len(log) + 2] = Outcome(history[Len(log) + 1], entry[q])
    BY <2>1, <2>2 DEF TypeOK
  <2>6. history'[1] = EmptyRegistry
    BY <2>2, <2>4 DEF HistoryOfLog
  <2>7. ASSUME NEW i \in 1 .. Len(log')
        PROVE  history'[i + 1] = Outcome(history'[i], log'[i])
    <3>1. CASE i \in 1 .. Len(log)
      <4>1. history'[i] = history[i] /\ history'[i + 1] = history[i + 1] /\ log'[i] = log[i]
        BY <2>2, <2>3, <2>4, <3>1
      <4> QED
        BY <3>1, <4>1 DEF HistoryOfLog
    <3>2. CASE i = Len(log) + 1
      <4>1. history'[i] = history[Len(log) + 1] /\ i + 1 = Len(log) + 2
        BY <2>2, <2>4, <3>2
      <4> QED
        BY <2>5, <3>2, <4>1
    <3> QED
      BY <2>2, <2>5, <3>1, <3>2
  <2> QED
    BY <2>6, <2>7 DEF HistoryOfLog
<1>3. \/ \E q \in Requests : Commit(q)
      \/ UNCHANGED <<log, history>>
  BY StepCases DEF Apply, TakeSnapshot, Crash, Restart, InstallSnapshot, raftVars
<1> QED
  BY <1>1, <1>2, <1>3

LEMMA NextCovers == CoverInv /\ [Next]_vars => CoverInv'
<1> SUFFICES ASSUME CoverInv, [Next]_vars PROVE CoverInv'
  OBVIOUS
<1>1. TypeOK /\ TypeOK'
  BY NextType DEF CoverInv
<1>2. HistoryOfLog /\ DisksMissNothing /\ NothingMissing
  BY DEF CoverInv
<1> SUFFICES HistoryOfLog' /\ DisksMissNothing' /\ NothingMissing'
  BY <1>1 DEF CoverInv
<1>2a. HistoryOfLog'
  BY <1>1, <1>2, HistoryStep
<1>3. ASSUME NEW n \in up
      PROVE  Covers(store[n].res, history[applied[n] + 1])
  BY <1>2, <1>3 DEF NothingMissing, Covers, RegistryAt
<1>4. CASE UNCHANGED <<log, history, nodeVars>>
  BY <1>2, <1>4 DEF HistoryOfLog, DisksMissNothing, NothingMissing, RegistryAt, nodeVars
<1>5. ASSUME NEW q \in Requests, Commit(q)
      PROVE  HistoryOfLog' /\ DisksMissNothing' /\ NothingMissing'
  <2>1. UNCHANGED nodeVars
    BY <1>5 DEF Commit
  <2>2. Len(history) = Len(log) + 1 /\ Len(log) \in Nat
    BY <1>1 DEF TypeOK
  <2>4. \A i \in 1 .. Len(log) + 1 : history'[i] = history[i]
    BY <1>1, <1>5, <2>2 DEF TypeOK, Commit
  <2>7. ASSUME NEW n \in Nodes
        PROVE  /\ history'[snapshot'[n].index + 1] = history[snapshot[n].index + 1]
               /\ history'[applied'[n] + 1] = history[applied[n] + 1]
    <3>1. snapshot[n].index \in 0 .. Len(log) /\ applied[n] \in 0 .. Len(log)
      BY <1>1 DEF TypeOK
    <3>2. snapshot' = snapshot /\ applied' = applied
      BY <2>1 DEF nodeVars
    <3> QED
      BY <2>2, <2>4, <3>1, <3>2
  <2>8. snapshot' = snapshot /\ store' = store /\ up' = up /\ up \in SUBSET Nodes
    BY <1>1, <2>1 DEF nodeVars, TypeOK
  <2>9. DisksMissNothing'
    BY <1>2, <2>7, <2>8 DEF DisksMissNothing
  <2>10. NothingMissing'
    BY <1>2, <2>7, <2>8 DEF NothingMissing, RegistryAt
  <2> QED
    BY <1>2a, <2>9, <2>10
<1>6. ASSUME NEW n \in Nodes, Apply(n)
      PROVE  HistoryOfLog' /\ DisksMissNothing' /\ NothingMissing'
  <2> DEFINE e == log[applied[n] + 1]
  <2>1. /\ UNCHANGED <<log, history, snapshot, up>>
        /\ n \in up
        /\ store' = [store EXCEPT ![n] = ApplyEntry(store[n], e)]
        /\ applied' = [applied EXCEPT ![n] = applied[n] + 1]
    BY <1>6 DEF Apply, raftVars
  <2>2. /\ applied[n] + 1 \in 1 .. Len(log) /\ applied[n] + 1 \in Nat
        /\ e \in Entries
        /\ store[n] \in Stores /\ store[n].res \in Registries
    BY <1>1, <1>6 DEF Apply, TypeOK, Stores
  <2>3. history[applied[n] + 1] \in Registries
    BY <1>1, <2>2 DEF TypeOK
  <2>4. history[(applied[n] + 1) + 1] = Outcome(history[applied[n] + 1], e)
    BY <1>2, <2>2 DEF HistoryOfLog
  <2>5. Covers(ApplyEntry(store[n], e).res, history[(applied[n] + 1) + 1])
    BY <1>3, <2>1, <2>2, <2>3, <2>4, ApplyKeepsOutcome, OutcomeCovers
  <2>6. /\ store'[n].res = ApplyEntry(store[n], e).res /\ applied'[n] = applied[n] + 1
        /\ \A m \in Nodes : m # n => store'[m] = store[m] /\ applied'[m] = applied[m]
    BY <1>1, <2>1 DEF TypeOK
  <2>7. \A m \in up : Covers(store'[m].res, history[applied'[m] + 1])
    BY <1>1, <1>3, <2>5, <2>6 DEF TypeOK
  <2> QED
    BY <1>2, <2>1, <2>7
    DEF HistoryOfLog, DisksMissNothing, NothingMissing, RegistryAt, Covers
<1>7. ASSUME NEW n \in Nodes, TakeSnapshot(n)
      PROVE  HistoryOfLog' /\ DisksMissNothing' /\ NothingMissing'
  <2>1. /\ UNCHANGED <<log, history, up, store, applied>>
        /\ n \in up
        /\ snapshot' = [snapshot EXCEPT ![n] = [index |-> applied[n], res |-> store[n].res]]
    BY <1>7 DEF TakeSnapshot, raftVars, SnapshotOf
  <2>2. /\ snapshot'[n].index = applied[n] /\ snapshot'[n].res = store[n].res
        /\ \A m \in Nodes : m # n => snapshot'[m] = snapshot[m]
    BY <1>1, <2>1 DEF TypeOK
  <2>3. \A m \in Nodes : Covers(snapshot'[m].res, history[snapshot'[m].index + 1])
    BY <1>2, <1>3, <2>1, <2>2 DEF DisksMissNothing
  <2> QED
    BY <1>2, <2>1, <2>3 DEF HistoryOfLog, DisksMissNothing, NothingMissing, RegistryAt
<1>8. ASSUME NEW n \in Nodes, NEW m \in Nodes, InstallSnapshot(n, m)
      PROVE  HistoryOfLog' /\ DisksMissNothing' /\ NothingMissing'
  <2>1. /\ UNCHANGED <<log, history, up>>
        /\ store' = [store EXCEPT ![n] = RestoreSnapshot(store[n], snapshot[m].res)]
        /\ applied' = [applied EXCEPT ![n] = snapshot[m].index]
        /\ snapshot' = [snapshot EXCEPT ![n] = snapshot[m]]
    BY <1>8 DEF InstallSnapshot, raftVars
  <2>2. /\ store[n] \in Stores /\ snapshot[m].res \in Registries
        /\ snapshot[m].index \in 0 .. Len(log)
    BY <1>1 DEF TypeOK, Snapshots
  <2>3. history[snapshot[m].index + 1] \in Registries
    BY <1>1, <2>2 DEF TypeOK
  <2>4. Covers(RestoreSnapshot(store[n], snapshot[m].res).res, history[snapshot[m].index + 1])
    BY <1>2, <2>2, <2>3, RestoreCovers DEF DisksMissNothing
  <2>5. /\ store'[n].res = RestoreSnapshot(store[n], snapshot[m].res).res
        /\ applied'[n] = snapshot[m].index /\ snapshot'[n] = snapshot[m]
        /\ \A o \in Nodes : o # n =>
             store'[o] = store[o] /\ applied'[o] = applied[o] /\ snapshot'[o] = snapshot[o]
    BY <1>1, <2>1 DEF TypeOK
  <2>6. \A o \in up : Covers(store'[o].res, history[applied'[o] + 1])
    BY <1>1, <1>3, <2>4, <2>5 DEF TypeOK
  <2>7. \A o \in Nodes : Covers(snapshot'[o].res, history[snapshot'[o].index + 1])
    BY <1>2, <2>5 DEF DisksMissNothing
  <2> QED
    BY <1>2, <2>1, <2>6, <2>7
    DEF HistoryOfLog, DisksMissNothing, NothingMissing, RegistryAt, Covers
<1>9. ASSUME NEW n \in Nodes, Crash(n)
      PROVE  HistoryOfLog' /\ DisksMissNothing' /\ NothingMissing'
  <2>1. /\ UNCHANGED <<log, history, snapshot>>
        /\ up' = up \ {n} /\ up \in SUBSET Nodes
        /\ \A m \in Nodes : m # n => store'[m] = store[m] /\ applied'[m] = applied[m]
    BY <1>1, <1>9 DEF Crash, raftVars, TypeOK
  <2> QED
    BY <1>2, <2>1 DEF HistoryOfLog, DisksMissNothing, NothingMissing, RegistryAt
<1>10. ASSUME NEW n \in Nodes, Restart(n)
       PROVE  HistoryOfLog' /\ DisksMissNothing' /\ NothingMissing'
  <2>1. /\ UNCHANGED <<log, history, snapshot>>
        /\ up' = up \cup {n}
        /\ store' = [store EXCEPT ![n] = RestoreSnapshot(EmptyStore, snapshot[n].res)]
        /\ applied' = [applied EXCEPT ![n] = snapshot[n].index]
    BY <1>10 DEF Restart, raftVars
  <2>2. snapshot[n].res \in Registries /\ snapshot[n].index \in 0 .. Len(log)
    BY <1>1 DEF TypeOK, Snapshots
  <2>3. history[snapshot[n].index + 1] \in Registries
    BY <1>1, <2>2 DEF TypeOK
  <2>4. Covers(RestoreSnapshot(EmptyStore, snapshot[n].res).res,
               history[snapshot[n].index + 1])
    BY <1>2, <2>2, <2>3, EmptyTypes, RestoreCovers DEF DisksMissNothing
  <2>5. /\ store'[n].res = RestoreSnapshot(EmptyStore, snapshot[n].res).res
        /\ applied'[n] = snapshot[n].index
        /\ \A o \in Nodes : o # n => store'[o] = store[o] /\ applied'[o] = applied[o]
    BY <1>1, <2>1 DEF TypeOK
  <2>6. \A o \in up' : Covers(store'[o].res, history[applied'[o] + 1])
    BY <1>1, <1>3, <2>1, <2>4, <2>5 DEF TypeOK
  <2> QED
    BY <1>2, <2>1, <2>6
    DEF HistoryOfLog, DisksMissNothing, NothingMissing, RegistryAt, Covers
<1> QED
  BY <1>4, <1>5, <1>6, <1>7, <1>8, <1>9, <1>10, StepCases

\* Whatever the calls, their interleaving with raft, snapshots and crashes, a
\* running node has every resource of the registry it has reached, as it is there.
THEOREM MissesNothing == Spec => []NothingMissing
<1>1. Spec => []CoverInv
  BY InitCovers, NextCovers, PTL DEF Spec
<1>2. CoverInv => NothingMissing
  BY DEF CoverInv
<1> QED
  BY <1>1, <1>2, PTL

-----------------------------------------------------------------------------
(* Where a node shows more than the registry, the name had it once.        *)

\* Every limiter of view is one that its name had in the first k states.
Traced(view, past, k) ==
  \A name \in Names :
    view[name] # None =>
      \E i \in 1 .. k :
        past[i][name] # None /\ past[i][name].limiter = view[name].limiter

DisksTraced == \A n \in Nodes : Traced(snapshot[n].res, history, snapshot[n].index + 1)

TracedInv == TypeOK /\ HistoryOfLog /\ DisksTraced /\ LimiterWasRegistered

\* What was traced stays so as the history goes on.
LEMMA TracedLonger ==
  ASSUME NEW view, NEW past, NEW later, NEW k \in Nat, NEW l \in Nat,
         k <= l, \A i \in 1 .. k : later[i] = past[i],
         Traced(view, past, k)
  PROVE  Traced(view, later, l)
<1>1. 1 .. k \subseteq 1 .. l
  OBVIOUS
<1> QED
  BY <1>1 DEF Traced

\* An entry adds the limiter it brings, keeps one or drops one.
LEMMA OutcomeTraced ==
  ASSUME NEW view \in Registries, NEW past, NEW k \in Nat, NEW e \in Entries,
         Traced(view, past, k), past[k + 1] = Outcome(past[k], e)
  PROVE  Traced(Outcome(view, e), past, k + 1)
<1> SUFFICES ASSUME NEW name \in Names, Outcome(view, e)[name] # None
             PROVE  \E i \in 1 .. k + 1 :
                      /\ past[i][name] # None
                      /\ past[i][name].limiter = Outcome(view, e)[name].limiter
  BY DEF Traced
<1>1. CASE name = e.name /\ e.action = "Put"
  <2>1. past[k + 1][name] = ResourceOf(e) /\ Outcome(view, e)[name] = ResourceOf(e)
    BY <1>1 DEF Outcome
  <2>2. k + 1 \in 1 .. k + 1
    OBVIOUS
  <2> QED
    BY <2>1, <2>2
<1>2. CASE ~ (name = e.name /\ e.action = "Put")
  <2>1. view[name] # None /\ view[name] \in Resource
    BY <1>2 DEF Outcome, Registries
  <2>2. Outcome(view, e)[name].limiter = view[name].limiter
    BY <1>2, <2>1 DEF Outcome, Resource
  <2>3. PICK i \in 1 .. k : past[i][name] # None /\ past[i][name].limiter = view[name].limiter
    BY <2>1 DEF Traced
  <2>4. i \in 1 .. k + 1
    OBVIOUS
  <2> QED
    BY <2>2, <2>3, <2>4
<1> QED
  BY <1>1, <1>2

\* A restored store has its limiters from the snapshot or from before.
LEMMA RestoreTraced ==
  ASSUME NEW s \in Stores, NEW snap \in Registries, NEW past, NEW k,
         Traced(s.res, past, k), Traced(snap, past, k)
  PROVE  Traced(RestoreSnapshot(s, snap).res, past, k)
BY DEF Traced, RestoreSnapshot

LEMMA InitTraced == Init => TracedInv
<1> SUFFICES ASSUME Init PROVE TracedInv
  OBVIOUS
<1>1. TypeOK /\ HistoryOfLog
  BY InitCovers DEF CoverInv
<1>2. \A name \in Names : EmptyRegistry[name] = None
  BY DEF EmptyRegistry
<1>3. \A n \in Nodes : snapshot[n].res = EmptyRegistry /\ store[n].res = EmptyRegistry
  BY DEF Init, EmptySnapshot, EmptyStore
<1>4. up = Nodes
  BY DEF Init
<1> QED
  BY <1>1, <1>2, <1>3, <1>4 DEF TracedInv, DisksTraced, Traced, LimiterWasRegistered

LEMMA NextTraced == TracedInv /\ [Next]_vars => TracedInv'
<1> SUFFICES ASSUME TracedInv, [Next]_vars PROVE TracedInv'
  OBVIOUS
<1>1. TypeOK /\ TypeOK'
  BY NextType DEF TracedInv
<1>2. HistoryOfLog /\ DisksTraced /\ HistoryOfLog'
  BY <1>1, HistoryStep DEF TracedInv
<1> DEFINE StoresTraced == \A n \in up : Traced(store[n].res, history, applied[n] + 1)
<1>3. StoresTraced
  BY DEF TracedInv, LimiterWasRegistered, Traced
<1>4. StoresTraced' => LimiterWasRegistered'
  BY DEF LimiterWasRegistered, Traced
<1> SUFFICES DisksTraced' /\ StoresTraced'
  BY <1>1, <1>2, <1>4 DEF TracedInv
<1>5. up \in SUBSET Nodes /\ \A n \in Nodes :
        /\ applied[n] \in Nat /\ snapshot[n].index \in Nat
        /\ store[n] \in Stores /\ store[n].res \in Registries
        /\ snapshot[n].res \in Registries
  BY <1>1 DEF TypeOK, Stores, Snapshots
<1>6. CASE UNCHANGED <<log, history, nodeVars>>
  BY <1>2, <1>3, <1>6 DEF DisksTraced, nodeVars
<1>7. ASSUME NEW q \in Requests, Commit(q)
      PROVE  DisksTraced' /\ StoresTraced'
  <2>1. up' = up /\ store' = store /\ applied' = applied /\ snapshot' = snapshot
    BY <1>7 DEF Commit, nodeVars
  <2>2. \A i \in 1 .. Len(log) + 1 : history'[i] = history[i]
    BY <1>1, <1>7 DEF TypeOK, Commit
  <2>3. ASSUME NEW n \in Nodes
        PROVE  /\ \A i \in 1 .. applied[n] + 1 : history'[i] = history[i]
               /\ \A i \in 1 .. snapshot[n].index + 1 : history'[i] = history[i]
    <3>1. applied[n] \in 0 .. Len(log) /\ snapshot[n].index \in 0 .. Len(log) /\ Len(log) \in Nat
      BY <1>1 DEF TypeOK
    <3> QED
      BY <2>2, <3>1
  <2> QED
    BY <1>2, <1>3, <1>5, <2>1, <2>3, TracedLonger DEF DisksTraced
<1>8. ASSUME NEW n \in Nodes, Apply(n)
      PROVE  DisksTraced' /\ StoresTraced'
  <2> DEFINE e == log[applied[n] + 1]
  <2>1. /\ UNCHANGED <<log, history, snapshot, up>>
        /\ n \in up
        /\ store' = [store EXCEPT ![n] = ApplyEntry(store[n], e)]
        /\ applied' = [applied EXCEPT ![n] = applied[n] + 1]
    BY <1>8 DEF Apply, raftVars
  <2>2. applied[n] + 1 \in 1 .. Len(log) /\ applied[n] + 1 \in Nat /\ e \in Entries
    BY <1>1, <1>8 DEF Apply, TypeOK
  <2>3. history[(applied[n] + 1) + 1] = Outcome(history[applied[n] + 1], e)
    BY <1>2, <2>2 DEF HistoryOfLog
  <2>4. Traced(ApplyEntry(store[n], e).res, history, (applied[n] + 1) + 1)
    BY <1>3, <1>5, <2>1, <2>2, <2>3, ApplyKeepsOutcome, OutcomeTraced
  <2>5. /\ store'[n].res = ApplyEntry(store[n], e).res /\ applied'[n] = applied[n] + 1
        /\ \A m \in Nodes : m # n => store'[m] = store[m] /\ applied'[m] = applied[m]
    BY <1>1, <2>1 DEF TypeOK
  <2> QED
    BY <1>2, <1>3, <1>5, <2>1, <2>4, <2>5 DEF DisksTraced
<1>9. ASSUME NEW n \in Nodes, TakeSnapshot(n)
      PROVE  DisksTraced' /\ StoresTraced'
  <2>1. /\ UNCHANGED <<history, up, store, applied>>
        /\ n \in up
        /\ snapshot' = [snapshot EXCEPT ![n] = [index |-> applied[n], res |-> store[n].res]]
    BY <1>9 DEF TakeSnapshot, raftVars, SnapshotOf
  <2>2. /\ snapshot'[n].index = applied[n] /\ snapshot'[n].res = store[n].res
        /\ \A m \in Nodes : m # n => snapshot'[m] = snapshot[m]
    BY <1>1, <2>1 DEF TypeOK
  <2> QED
    BY <1>2, <1>3, <2>1, <2>2 DEF DisksTraced
<1>10. ASSUME NEW n \in Nodes, NEW m \in Nodes, InstallSnapshot(n, m)
       PROVE  DisksTraced' /\ StoresTraced'
  <2>1. /\ UNCHANGED <<history, up>>
        /\ n \in up
        /\ applied[n] < snapshot[m].index
        /\ store' = [store EXCEPT ![n] = RestoreSnapshot(store[n], snapshot[m].res)]
        /\ applied' = [applied EXCEPT ![n] = snapshot[m].index]
        /\ snapshot' = [snapshot EXCEPT ![n] = snapshot[m]]
    BY <1>10 DEF InstallSnapshot, raftVars
  <2>2. Traced(store[n].res, history, snapshot[m].index + 1)
    <3>1. applied[n] + 1 <= snapshot[m].index + 1
      BY <1>5, <2>1
    <3> QED
      BY <1>3, <1>5, <2>1, <3>1, TracedLonger
  <2>3. Traced(RestoreSnapshot(store[n], snapshot[m].res).res, history, snapshot[m].index + 1)
    BY <1>2, <1>5, <2>2, RestoreTraced DEF DisksTraced
  <2>4. /\ store'[n].res = RestoreSnapshot(store[n], snapshot[m].res).res
        /\ applied'[n] = snapshot[m].index /\ snapshot'[n] = snapshot[m]
        /\ \A o \in Nodes : o # n =>
             store'[o] = store[o] /\ applied'[o] = applied[o] /\ snapshot'[o] = snapshot[o]
    BY <1>1, <2>1 DEF TypeOK
  <2> QED
    BY <1>2, <1>3, <1>5, <2>1, <2>3, <2>4 DEF DisksTraced
<1>11. ASSUME NEW n \in Nodes, Crash(n)
       PROVE  DisksTraced' /\ StoresTraced'
  <2>1. /\ UNCHANGED <<history, snapshot>>
        /\ up' = up \ {n}
        /\ \A m \in Nodes : m # n => store'[m] = store[m] /\ applied'[m] = applied[m]
    BY <1>1, <1>11 DEF Crash, raftVars, TypeOK
  <2> QED
    BY <1>2, <1>3, <1>5, <2>1 DEF DisksTraced
<1>12. ASSUME NEW n \in Nodes, Restart(n)
       PROVE  DisksTraced' /\ StoresTraced'
  <2>1. /\ UNCHANGED <<history, snapshot>>
        /\ up' = up \cup {n}
        /\ store' = [store EXCEPT ![n] = RestoreSnapshot(EmptyStore, snapshot[n].res)]
        /\ applied' = [applied EXCEPT ![n] = snapshot[n].index]
    BY <1>12 DEF Restart, raftVars
  <2>2. Traced(EmptyStore.res, history, snapshot[n].index + 1)
    BY DEF Traced, EmptyStore, EmptyRegistry
  <2>3. Traced(RestoreSnapshot(EmptyStore, snapshot[n].res).res, history, snapshot[n].index + 1)
    BY <1>2, <1>5, <2>2, EmptyTypes, RestoreTraced DEF DisksTraced
  <2>4. /\ store'[n].res = RestoreSnapshot(EmptyStore, snapshot[n].res).res
        /\ applied'[n] = snapshot[n].index
        /\ \A o \in Nodes : o # n => store'[o] = store[o] /\ applied'[o] = applied[o]
    BY <1>1, <2>1 DEF TypeOK
  <2> QED
    BY <1>2, <1>3, <1>5, <2>1, <2>3, <2>4 DEF DisksTraced
<1> QED
  BY <1>6, <1>7, <1>8, <1>9, <1>10, <1>11, <1>12, StepCases

\* Whatever the calls, a limiter that a running node finds under a name is one
\* the name had: a removed resource that a snapshot leaves behind is never
\* turned into another.
THEOREM LimitersWereRegistered == Spec => []LimiterWasRegistered
<1>1. Spec => []TracedInv
  BY InitTraced, NextTraced, PTL DEF Spec
<1>2. TracedInv => LimiterWasRegistered
  BY DEF TracedInv
<1> QED
  BY <1>1, <1>2, PTL

-----------------------------------------------------------------------------
(* Where nothing is removed, as with every command of the API.             *)

\* No registry of the history lacks a name an earlier one has.
Growing ==
  \A i, j \in 1 .. Len(history) :
    i <= j => \A name \in Names : history[i][name] # None => history[j][name] # None

Unused(action) ==
  /\ \A q \in inflight : entry[q].action # action
  /\ \A i \in 1 .. Len(log) : log[i].action # action

DisksFollowLog == \A n \in Nodes : snapshot[n].res = history[snapshot[n].index + 1]

StoresFollowLog == \A n \in Nodes : store[n].res = history[applied[n] + 1]

DownIsReset == \A n \in Nodes \ up : applied[n] = 0

FollowInv ==
  /\ TypeOK
  /\ HistoryOfLog
  /\ Unused("Remove")
  /\ Growing
  /\ DisksFollowLog
  /\ StoresFollowLog
  /\ DownIsReset

LEMMA InitFollows == Init => FollowInv
<1> SUFFICES ASSUME Init PROVE FollowInv
  OBVIOUS
<1>1. TypeOK /\ HistoryOfLog
  BY InitCovers DEF CoverInv
<1>2. /\ Len(history) = 1 /\ history[1] = EmptyRegistry
      /\ inflight = {} /\ Len(log) = 0 /\ up = Nodes
      /\ \A n \in Nodes : /\ applied[n] = 0 /\ snapshot[n] = EmptySnapshot
                          /\ store[n] = EmptyStore
  BY DEF Init
<1>3. Unused("Remove") /\ DownIsReset
  BY <1>2 DEF Unused, DownIsReset
<1>4. Growing
  BY <1>2 DEF Growing
<1>5. DisksFollowLog /\ StoresFollowLog
  BY <1>2 DEF DisksFollowLog, StoresFollowLog, EmptySnapshot, EmptyStore
<1> QED
  BY <1>1, <1>3, <1>4, <1>5 DEF FollowInv

\* What is on its way to the log or in it has no action that no call takes.
LEMMA UnusedStaysUnused ==
  ASSUME NEW action \in {"Remove", "Move"}, action \notin Operations,
         Unused(action), TypeOK, [Next]_vars
  PROVE  Unused(action)'
<1>1. CASE UNCHANGED vars
  BY <1>1 DEF Unused, vars, requestVars, raftVars
<1>2. ASSUME NEW q \in Requests, NEW n \in Nodes, Request(q, n)
      PROVE  Unused(action)'
  <2>1. ASSUME NEW e \in Entries, Propose(q, n, e), e.action # action
        PROVE  Unused(action)'
    BY <2>1 DEF Unused, Propose, TypeOK
  <2>2. ASSUME NEW name \in Names, FindExisting(q, n, name)
        PROVE  Unused(action)'
    <3>1. Entry(q, "Put", name, LightestNode(n)).action # action
      BY DEF Entry
    <3> QED
      BY <2>2, <3>1 DEF Unused, FindExisting, raftVars, TypeOK
  <2> QED
    BY <1>2, <2>1, <2>2, RequestProposes
<1>3. ASSUME NEW q \in Requests, Commit(q)
      PROVE  Unused(action)'
  <2>1. /\ log' = Append(log, entry[q]) /\ entry[q].action # action
        /\ inflight' = inflight \ {q} /\ entry' = entry
    BY <1>3 DEF Commit, Unused, requestVars
  <2>2. \A i \in 1 .. Len(log') : log'[i].action # action
    BY <2>1 DEF Unused, TypeOK
  <2> QED
    BY <2>1, <2>2 DEF Unused
<1>4. ASSUME NEW q \in Requests, TimeOut(q) \/ Lose(q)
      PROVE  Unused(action)'
  BY <1>4 DEF Unused, TimeOut, Lose, requestVars, raftVars
<1>5. ASSUME NEW n \in Nodes, NEW m \in Nodes,
             Apply(n) \/ TakeSnapshot(n) \/ Crash(n) \/ Restart(n) \/ InstallSnapshot(n, m)
      PROVE  Unused(action)'
  BY <1>5 DEF Unused, Apply, TakeSnapshot, Crash, Restart, InstallSnapshot,
              requestVars, raftVars
<1> QED
  BY <1>1, <1>2, <1>3, <1>4, <1>5 DEF Next

\* Nothing but a removal takes a name from the registry.
LEMMA OutcomeKeepsNames ==
  ASSUME NEW registry \in Registries, NEW e \in Entries, e.action # "Remove",
         NEW name \in Names, registry[name] # None
  PROVE  Outcome(registry, e)[name] # None
<1>1. CASE name = e.name /\ e.action = "Put"
  BY <1>1, ResourceOfType, StoreAssumption DEF Outcome
<1>2. CASE name = e.name /\ e.action = "Move"
  <2>1. registry[name] \in Resource /\ e.node \in Nodes
    BY <1>2, EntryFields DEF Registries
  <2>2. [registry[name] EXCEPT !.node = e.node] \in Resource
    BY <2>1 DEF Resource
  <2> QED
    BY <1>2, <2>2, StoreAssumption DEF Outcome
<1>3. CASE name # e.name
  BY <1>3 DEF Outcome
<1> QED
  BY <1>1, <1>2, <1>3, EntryFields

\* A committed entry extends the history and loses no name.
LEMMA CommitExtends ==
  ASSUME TypeOK, Growing, Unused("Remove"), NEW q \in Requests, Commit(q)
  PROVE  /\ Growing'
         /\ \A i \in 1 .. Len(history) : history'[i] = history[i]
         /\ UNCHANGED nodeVars
<1>1. /\ history' = Append(history, Outcome(history[Len(history)], entry[q]))
      /\ UNCHANGED nodeVars
      /\ q \in inflight
  BY DEF Commit
<1>2. Len(history) \in Nat \ {0} /\ history \in Seq(Registries)
  BY DEF TypeOK
<1>3. Len(history') = Len(history) + 1
  BY <1>1, <1>2
<1>4. /\ \A i \in 1 .. Len(history) : history'[i] = history[i]
      /\ history'[Len(history) + 1] = Outcome(history[Len(history)], entry[q])
  BY <1>1, <1>2
<1>5. entry[q] \in Entries /\ entry[q].action # "Remove"
  BY <1>1 DEF Unused, TypeOK
<1>6. history[Len(history)] \in Registries
  BY <1>2
<1>7. \A name \in Names :
        history[Len(history)][name] # None => history'[Len(history) + 1][name] # None
  BY <1>4, <1>5, <1>6, OutcomeKeepsNames
<1>8. ASSUME NEW i \in 1 .. Len(history'), NEW j \in 1 .. Len(history'), i <= j,
             NEW name \in Names, history'[i][name] # None
      PROVE  history'[j][name] # None
  <2>1. CASE j \in 1 .. Len(history)
    <3>1. i \in 1 .. Len(history)
      BY <1>8, <2>1
    <3> QED
      BY <1>4, <1>8, <2>1, <3>1 DEF Growing
  <2>2. CASE j = Len(history) + 1 /\ i = Len(history) + 1
    BY <1>8, <2>2
  <2>3. CASE j = Len(history) + 1 /\ i \in 1 .. Len(history)
    <3>1. Len(history) \in 1 .. Len(history) /\ i <= Len(history)
      BY <1>2, <2>3
    <3>2. history[i][name] # None
      BY <1>4, <1>8, <2>3
    <3>3. history[Len(history)][name] # None
      BY <2>3, <3>1, <3>2 DEF Growing
    <3> QED
      BY <1>7, <2>3, <3>3
  <2> QED
    BY <1>2, <1>3, <2>1, <2>2, <2>3
<1> QED
  BY <1>1, <1>4, <1>8 DEF Growing

LEMMA NextFollows ==
  ASSUME "Remove" \notin Operations
  PROVE  FollowInv /\ [Next]_vars => FollowInv'
<1> SUFFICES ASSUME FollowInv, [Next]_vars PROVE FollowInv'
  OBVIOUS
<1>1. TypeOK /\ TypeOK'
  BY NextType DEF FollowInv
<1>2. HistoryOfLog /\ Unused("Remove") /\ Growing /\ DisksFollowLog /\ StoresFollowLog /\ DownIsReset
  BY DEF FollowInv
<1>3. Unused("Remove")'
  BY <1>1, <1>2, UnusedStaysUnused
<1>4. HistoryOfLog'
  BY <1>1, <1>2, HistoryStep
<1> SUFFICES Growing' /\ DisksFollowLog' /\ StoresFollowLog' /\ DownIsReset'
  BY <1>1, <1>3, <1>4 DEF FollowInv
<1>5. ASSUME NEW n \in Nodes
      PROVE  /\ store[n] \in Stores /\ store[n].res \in Registries
             /\ snapshot[n].res \in Registries
             /\ snapshot[n].index \in 0 .. Len(log) /\ snapshot[n].index \in Nat
             /\ applied[n] \in 0 .. Len(log) /\ applied[n] \in Nat
             /\ snapshot[n].index + 1 \in 1 .. Len(history)
             /\ applied[n] + 1 \in 1 .. Len(history)
  <2>1. /\ store[n] \in Stores /\ store[n].res \in Registries
        /\ snapshot[n].res \in Registries
    BY <1>1 DEF TypeOK, Stores, Snapshots
  <2>2. /\ snapshot[n].index \in 0 .. Len(log)
        /\ applied[n] \in 0 .. Len(log)
        /\ Len(history) = Len(log) + 1
    BY <1>1 DEF TypeOK
  <2> QED
    BY <2>1, <2>2
<1>6. CASE UNCHANGED <<log, history, nodeVars>>
  BY <1>2, <1>6 DEF Growing, DisksFollowLog, StoresFollowLog, DownIsReset, nodeVars
<1>7. ASSUME NEW q \in Requests, Commit(q)
      PROVE  Growing' /\ DisksFollowLog' /\ StoresFollowLog' /\ DownIsReset'
  <2>1. /\ Growing'
        /\ \A i \in 1 .. Len(history) : history'[i] = history[i]
        /\ UNCHANGED nodeVars
    BY <1>1, <1>2, <1>7, CommitExtends
  <2> QED
    BY <1>2, <1>5, <2>1 DEF DisksFollowLog, StoresFollowLog, DownIsReset, nodeVars
<1>8. ASSUME NEW n \in Nodes, Apply(n)
      PROVE  Growing' /\ DisksFollowLog' /\ StoresFollowLog' /\ DownIsReset'
  <2> DEFINE e == log[applied[n] + 1]
  <2>1. /\ UNCHANGED <<log, history, snapshot, up>>
        /\ n \in up
        /\ store' = [store EXCEPT ![n] = ApplyEntry(store[n], e)]
        /\ applied' = [applied EXCEPT ![n] = applied[n] + 1]
    BY <1>8 DEF Apply, raftVars
  <2>2. applied[n] + 1 \in 1 .. Len(log) /\ e \in Entries
    BY <1>1, <1>8 DEF Apply, TypeOK
  <2>3. history[(applied[n] + 1) + 1] = Outcome(history[applied[n] + 1], e)
    BY <1>2, <2>2 DEF HistoryOfLog
  <2>4. ApplyEntry(store[n], e).res = history[(applied[n] + 1) + 1]
    BY <1>2, <1>5, <2>2, <2>3, ApplyKeepsOutcome DEF StoresFollowLog
  <2>5. /\ store'[n].res = ApplyEntry(store[n], e).res /\ applied'[n] = applied[n] + 1
        /\ \A m \in Nodes : m # n => store'[m] = store[m] /\ applied'[m] = applied[m]
    BY <1>1, <2>1 DEF TypeOK
  <2>6. StoresFollowLog'
    BY <1>2, <2>1, <2>4, <2>5 DEF StoresFollowLog
  <2> QED
    BY <1>2, <2>1, <2>5, <2>6 DEF Growing, DisksFollowLog, DownIsReset
<1>9. ASSUME NEW n \in Nodes, TakeSnapshot(n)
      PROVE  Growing' /\ DisksFollowLog' /\ StoresFollowLog' /\ DownIsReset'
  <2>1. /\ UNCHANGED <<log, history, up, store, applied>>
        /\ snapshot' = [snapshot EXCEPT ![n] = [index |-> applied[n], res |-> store[n].res]]
    BY <1>9 DEF TakeSnapshot, raftVars, SnapshotOf
  <2>2. /\ snapshot'[n].index = applied[n] /\ snapshot'[n].res = store[n].res
        /\ \A m \in Nodes : m # n => snapshot'[m] = snapshot[m]
    BY <1>1, <2>1 DEF TypeOK
  <2>3. DisksFollowLog'
    BY <1>2, <2>1, <2>2 DEF DisksFollowLog, StoresFollowLog
  <2> QED
    BY <1>2, <2>1, <2>3 DEF Growing, StoresFollowLog, DownIsReset
<1>10. ASSUME NEW n \in Nodes, NEW m \in Nodes, InstallSnapshot(n, m)
       PROVE  Growing' /\ DisksFollowLog' /\ StoresFollowLog' /\ DownIsReset'
  <2>1. /\ UNCHANGED <<log, history, up>>
        /\ n \in up
        /\ applied[n] < snapshot[m].index
        /\ store' = [store EXCEPT ![n] = RestoreSnapshot(store[n], snapshot[m].res)]
        /\ applied' = [applied EXCEPT ![n] = snapshot[m].index]
        /\ snapshot' = [snapshot EXCEPT ![n] = snapshot[m]]
    BY <1>10 DEF InstallSnapshot, raftVars
  <2>2. applied[n] + 1 <= snapshot[m].index + 1
    BY <1>5, <2>1
  <2>3. \A name \in Names : store[n].res[name] # None => snapshot[m].res[name] # None
    <3>1. /\ store[n].res = history[applied[n] + 1]
          /\ snapshot[m].res = history[snapshot[m].index + 1]
      BY <1>2 DEF StoresFollowLog, DisksFollowLog
    <3>2. applied[n] + 1 \in 1 .. Len(history) /\ snapshot[m].index + 1 \in 1 .. Len(history)
      BY <1>5
    <3>3. \A name \in Names : history[applied[n] + 1][name] # None
                                => history[snapshot[m].index + 1][name] # None
      BY <1>2, <2>2, <3>2 DEF Growing
    <3> QED
      BY <3>1, <3>3
  <2>4. RestoreSnapshot(store[n], snapshot[m].res).res = history[snapshot[m].index + 1]
    BY <1>2, <1>5, <2>3, RestoreOverOlder DEF DisksFollowLog
  <2>5. /\ store'[n].res = RestoreSnapshot(store[n], snapshot[m].res).res
        /\ applied'[n] = snapshot[m].index /\ snapshot'[n] = snapshot[m]
        /\ \A o \in Nodes : o # n =>
             store'[o] = store[o] /\ applied'[o] = applied[o] /\ snapshot'[o] = snapshot[o]
    BY <1>1, <2>1 DEF TypeOK
  <2>6. StoresFollowLog'
    BY <1>2, <2>1, <2>4, <2>5 DEF StoresFollowLog
  <2>7. DisksFollowLog'
    BY <1>2, <2>1, <2>5 DEF DisksFollowLog
  <2> QED
    BY <1>2, <2>1, <2>5, <2>6, <2>7 DEF Growing, DownIsReset
<1>11. ASSUME NEW n \in Nodes, Crash(n)
       PROVE  Growing' /\ DisksFollowLog' /\ StoresFollowLog' /\ DownIsReset'
  <2>1. /\ UNCHANGED <<log, history, snapshot>>
        /\ up' = up \ {n}
        /\ store' = [store EXCEPT ![n] = EmptyStore]
        /\ applied' = [applied EXCEPT ![n] = 0]
    BY <1>11 DEF Crash, raftVars
  <2>2. /\ store'[n].res = EmptyRegistry /\ applied'[n] = 0
        /\ \A o \in Nodes : o # n => store'[o] = store[o] /\ applied'[o] = applied[o]
    BY <1>1, <2>1 DEF TypeOK, EmptyStore
  <2>3. StoresFollowLog'
    BY <1>2, <2>1, <2>2 DEF StoresFollowLog, HistoryOfLog
  <2> QED
    BY <1>2, <2>1, <2>2, <2>3 DEF Growing, DisksFollowLog, DownIsReset
<1>12. ASSUME NEW n \in Nodes, Restart(n)
       PROVE  Growing' /\ DisksFollowLog' /\ StoresFollowLog' /\ DownIsReset'
  <2>1. /\ UNCHANGED <<log, history, snapshot>>
        /\ up' = up \cup {n}
        /\ store' = [store EXCEPT ![n] = RestoreSnapshot(EmptyStore, snapshot[n].res)]
        /\ applied' = [applied EXCEPT ![n] = snapshot[n].index]
    BY <1>12 DEF Restart, raftVars
  <2>2. \A name \in Names : EmptyStore.res[name] = None
    BY DEF EmptyStore, EmptyRegistry
  <2>3. RestoreSnapshot(EmptyStore, snapshot[n].res).res = history[snapshot[n].index + 1]
    BY <1>2, <1>5, <2>2, EmptyTypes, RestoreOverOlder DEF DisksFollowLog
  <2>4. /\ store'[n].res = RestoreSnapshot(EmptyStore, snapshot[n].res).res
        /\ applied'[n] = snapshot[n].index
        /\ \A o \in Nodes : o # n => store'[o] = store[o] /\ applied'[o] = applied[o]
    BY <1>1, <2>1 DEF TypeOK
  <2>5. StoresFollowLog'
    BY <1>2, <2>1, <2>3, <2>4 DEF StoresFollowLog
  <2> QED
    BY <1>2, <2>1, <2>4, <2>5 DEF Growing, DisksFollowLog, DownIsReset
<1> QED
  BY <1>6, <1>7, <1>8, <1>9, <1>10, <1>11, <1>12, StepCases

\* Where nothing is removed, a running node shows the registry that the part of
\* the log it has applied makes, by whatever mix of entries, snapshots of other
\* nodes and restarts it got there.
THEOREM StoresFollow ==
  ASSUME "Remove" \notin Operations
  PROVE  Spec => []StoreFollowsLog
<1>1. FollowInv /\ [Next]_vars => FollowInv'
  BY NextFollows
<1>2. FollowInv => StoreFollowsLog
  BY DEF FollowInv, StoresFollowLog, StoreFollowsLog, RegistryAt, TypeOK
<1> QED
  BY InitFollows, <1>1, <1>2, PTL DEF Spec

-----------------------------------------------------------------------------
(* The nodes implement the abstract registry.                              *)

\* A commit is a change of one name.
LEMMA CommitChanges ==
  ASSUME TypeOK, NEW q \in Requests, Commit(q)
  PROVE  \E name \in Names : Registry!Change(name)
<1>1. /\ history' = Append(history, Outcome(history[Len(history)], entry[q]))
      /\ UNCHANGED <<store, applied>>
      /\ q \in inflight
  BY DEF Commit, nodeVars
<1>2. entry[q] \in Entries /\ entry[q].name \in Names
  BY <1>1, EntryFields DEF TypeOK
<1> DEFINE registry == Outcome(history[Len(history)], entry[q])
<1>3. history[Len(history)] \in Registries
  BY DEF TypeOK
<1>4. registry \in Registries
  BY <1>2, <1>3, OutcomeType
<1>5. \A other \in Names \ {entry[q].name} : registry[other] = history[Len(history)][other]
  BY DEF Outcome
<1>6. history' = Append(history, registry)
  BY <1>1
<1>7. UNCHANGED <<[n \in Nodes |-> applied[n] + 1], [n \in Nodes |-> store[n].res]>>
  BY <1>1
<1>8. Registry!Change(entry[q].name)
  BY <1>4, <1>5, <1>6, <1>7 DEF Registry!Change
<1> QED
  BY <1>2, <1>8

\* Going from one applied index to a later one is following the history.
LEMMA MovesFollow ==
  ASSUME TypeOK, TypeOK', StoresFollowLog', NEW n \in Nodes,
         UNCHANGED history,
         applied'[n] \in Nat, applied[n] <= applied'[n], applied'[n] < Len(history),
         \A m \in Nodes : m # n => store'[m] = store[m] /\ applied'[m] = applied[m]
  PROVE  Registry!Follow(n)
<1> DEFINE position == [m \in Nodes |-> applied[m] + 1]
           shown    == [m \in Nodes |-> store[m].res]
           i        == applied'[n] + 1
<1>1. i \in position[n] .. Len(history)
  <2>1. applied[n] \in Nat /\ Len(history) \in Nat
    BY DEF TypeOK
  <2> QED
    BY <2>1
<1>2. position' = [position EXCEPT ![n] = i]
  OBVIOUS
<1>3. store'[n].res = history[i]
  BY DEF StoresFollowLog
<1>4. shown' = [shown EXCEPT ![n] = history[i]]
  BY <1>3
<1> QED
  BY <1>1, <1>2, <1>4 DEF Registry!Follow

LEMMA StepsRefine ==
  ASSUME FollowInv, FollowInv', [Next]_vars
  PROVE  [Registry!Next]_(Registry!vars)
<1>1. TypeOK /\ TypeOK' /\ StoresFollowLog' /\ DownIsReset
  BY DEF FollowInv
<1>2. CASE UNCHANGED <<log, history, nodeVars>>
  BY <1>2 DEF Registry!vars, nodeVars
<1>3. ASSUME NEW q \in Requests, Commit(q)
      PROVE  Registry!Next
  BY <1>1, <1>3, CommitChanges DEF Registry!Next
<1>4. ASSUME NEW n \in Nodes, Apply(n)
      PROVE  Registry!Next
  <2>1. /\ UNCHANGED history
        /\ applied[n] < Len(log)
        /\ applied'[n] = applied[n] + 1
        /\ \A m \in Nodes : m # n => store'[m] = store[m] /\ applied'[m] = applied[m]
    BY <1>1, <1>4 DEF Apply, raftVars, TypeOK
  <2>2. /\ applied'[n] \in Nat /\ applied[n] <= applied'[n] /\ applied'[n] < Len(history)
    BY <1>1, <2>1 DEF TypeOK
  <2> QED
    BY <1>1, <2>1, <2>2, MovesFollow DEF Registry!Next
<1>5. ASSUME NEW n \in Nodes, TakeSnapshot(n)
      PROVE  UNCHANGED Registry!vars
  BY <1>5 DEF TakeSnapshot, raftVars, Registry!vars
<1>6. ASSUME NEW n \in Nodes, NEW m \in Nodes, InstallSnapshot(n, m)
      PROVE  Registry!Next
  <2>1. /\ UNCHANGED history
        /\ applied[n] < snapshot[m].index
        /\ applied'[n] = snapshot[m].index
        /\ \A o \in Nodes : o # n => store'[o] = store[o] /\ applied'[o] = applied[o]
    BY <1>1, <1>6 DEF InstallSnapshot, raftVars, TypeOK
  <2>2. /\ snapshot[m].index \in 0 .. Len(log) /\ applied[n] \in Nat
        /\ Len(history) = Len(log) + 1
    BY <1>1 DEF TypeOK
  <2>3. /\ applied'[n] \in Nat /\ applied[n] <= applied'[n] /\ applied'[n] < Len(history)
    BY <2>1, <2>2
  <2> QED
    BY <1>1, <2>1, <2>3, MovesFollow DEF Registry!Next
<1>7. ASSUME NEW n \in Nodes, Crash(n)
      PROVE  Registry!Next
  <2>1. /\ UNCHANGED history
        /\ store' = [store EXCEPT ![n] = EmptyStore]
        /\ applied' = [applied EXCEPT ![n] = 0]
    BY <1>7 DEF Crash, raftVars
  <2>2. /\ applied'[n] + 1 = 1 /\ store'[n].res = EmptyRegistry
        /\ \A m \in Nodes : m # n => store'[m] = store[m] /\ applied'[m] = applied[m]
    BY <1>1, <2>1 DEF EmptyStore, TypeOK
  <2> DEFINE position == [m \in Nodes |-> applied[m] + 1]
             shown    == [m \in Nodes |-> store[m].res]
  <2>3. position' = [position EXCEPT ![n] = 1]
    BY <2>2
  <2>4. shown' = [shown EXCEPT ![n] = EmptyRegistry]
    BY <2>2
  <2>5. Registry!Forget(n)
    BY <2>1, <2>3, <2>4 DEF Registry!Forget
  <2> QED
    BY <2>5 DEF Registry!Next
<1>8. ASSUME NEW n \in Nodes, Restart(n)
      PROVE  Registry!Next
  <2>1. /\ UNCHANGED history
        /\ n \notin up
        /\ applied'[n] = snapshot[n].index
        /\ \A o \in Nodes : o # n => store'[o] = store[o] /\ applied'[o] = applied[o]
    BY <1>1, <1>8 DEF Restart, raftVars, TypeOK
  <2>2. applied[n] = 0
    BY <1>1, <2>1 DEF DownIsReset
  <2>3. snapshot[n].index \in 0 .. Len(log) /\ Len(history) = Len(log) + 1
    BY <1>1 DEF TypeOK
  <2>4. /\ applied'[n] \in Nat /\ applied[n] <= applied'[n] /\ applied'[n] < Len(history)
    BY <2>1, <2>2, <2>3
  <2> QED
    BY <1>1, <2>1, <2>4, MovesFollow DEF Registry!Next
<1> QED
  BY <1>2, <1>3, <1>4, <1>5, <1>6, <1>7, <1>8, StepCases

\* Where nothing is removed, what reads find on the nodes is a behaviour of the
\* abstract registry: one history, and every node moves forward in it until it
\* restarts.
THEOREM KeepsRegistry ==
  ASSUME "Remove" \notin Operations
  PROVE  Spec => ImplementsRegistry
<1>1. Init => Registry!Init
  <2> SUFFICES ASSUME Init PROVE Registry!Init
    OBVIOUS
  <2>1. \A n \in Nodes : applied[n] + 1 = 1 /\ store[n].res = EmptyRegistry
    BY DEF Init, EmptyStore
  <2>2. /\ [n \in Nodes |-> applied[n] + 1] = [n \in Nodes |-> 1]
        /\ [n \in Nodes |-> store[n].res] = [n \in Nodes |-> EmptyRegistry]
    BY <2>1
  <2>3. history = <<EmptyRegistry>>
    BY DEF Init
  <2> QED
    BY <2>2, <2>3 DEF Registry!Init
<1>2. FollowInv /\ [Next]_vars => FollowInv'
  BY NextFollows
<1>3. FollowInv /\ FollowInv' /\ [Next]_vars => [Registry!Next]_(Registry!vars)
  BY StepsRefine
<1> QED
  BY InitFollows, <1>1, <1>2, <1>3, PTL DEF Spec, ImplementsRegistry, Registry!Spec

-----------------------------------------------------------------------------
(* Where nothing is moved, the index of each node holds all its resources. *)

\* Every resource of the store is in its node's map.
Indexed(s) ==
  \A name \in Names : s.res[name] # None => name \in s.index[s.res[name].node]

LEMMA PutIndexes ==
  ASSUME NEW s \in Stores, NEW e \in Entries, Indexed(s), e.action = "Put"
  PROVE  Indexed(ApplyEntry(s, e))
<1>1. e.name \in Names /\ ResourceOf(e) \in Resource /\ ResourceOf(e).node \in Nodes
  BY EntryFields, ResourceOfType DEF Resource
<1>2. s.res \in Registries /\ s.index \in [Nodes -> SUBSET Names]
  BY DEF Stores
<1> DEFINE t == ApplyEntry(s, e)
           i == ResourceOf(e).node
<1>3. /\ t.res = [s.res EXCEPT ![e.name] = ResourceOf(e)]
      /\ t.index = [s.index EXCEPT ![i] = s.index[i] \cup {e.name}]
  BY DEF ApplyEntry, PutResource
<1>4. ASSUME NEW name \in Names, t.res[name] # None
      PROVE  name \in t.index[t.res[name].node]
  <2>1. CASE name = e.name
    <3>1. t.res[name] = ResourceOf(e)
      BY <1>1, <1>2, <1>3, <2>1 DEF Registries
    <3>2. t.index[i] = s.index[i] \cup {e.name}
      BY <1>1, <1>2, <1>3
    <3> QED
      BY <2>1, <3>1, <3>2
  <2>2. CASE name # e.name
    <3>1. t.res[name] = s.res[name]
      BY <1>2, <1>3, <2>2 DEF Registries
    <3>2. s.res[name].node \in Nodes
      BY <1>2, <1>4, <3>1 DEF Registries, Resource
    <3>3. name \in s.index[s.res[name].node]
      BY <1>4, <3>1 DEF Indexed
    <3> QED
      BY <1>1, <1>2, <1>3, <3>1, <3>2, <3>3
  <2> QED
    BY <2>1, <2>2
<1> QED
  BY <1>4 DEF Indexed

LEMMA RemoveIndexes ==
  ASSUME NEW s \in Stores, NEW e \in Entries, Indexed(s), e.action = "Remove"
  PROVE  Indexed(ApplyEntry(s, e))
<1>1. e.name \in Names
  BY EntryFields
<1>2. s.res \in Registries /\ s.index \in [Nodes -> SUBSET Names]
  BY DEF Stores
<1>3. CASE s.res[e.name] = None
  BY <1>3 DEF ApplyEntry, RemoveResource
<1>4. CASE s.res[e.name] # None
  <2> DEFINE t == ApplyEntry(s, e)
             i == s.res[e.name].node
  <2>1. /\ t.res = [s.res EXCEPT ![e.name] = None]
        /\ t.index = [s.index EXCEPT ![i] = s.index[i] \ {e.name}]
    BY <1>1, <1>2, <1>4 DEF ApplyEntry, RemoveResource, Stores
  <2>2. ASSUME NEW name \in Names, t.res[name] # None
        PROVE  name \in t.index[t.res[name].node]
    <3>1. name # e.name
      BY <1>2, <2>1, <2>2 DEF Registries
    <3>2. t.res[name] = s.res[name]
      BY <1>2, <2>1, <3>1 DEF Registries
    <3>3. s.res[name].node \in Nodes
      BY <1>2, <2>2, <3>2 DEF Registries, Resource
    <3>4. name \in s.index[s.res[name].node]
      BY <2>2, <3>2 DEF Indexed
    <3> QED
      BY <1>2, <2>1, <3>1, <3>2, <3>3, <3>4
  <2> QED
    BY <2>2 DEF Indexed
<1> QED
  BY <1>3, <1>4

LEMMA RestoreIndexes ==
  ASSUME NEW s \in Stores, NEW snap \in Registries, Indexed(s)
  PROVE  Indexed(RestoreSnapshot(s, snap))
<1> DEFINE t == RestoreSnapshot(s, snap)
<1>1. s.res \in Registries /\ t.res \in Registries
  BY RestoreType DEF Stores
<1>2. ASSUME NEW name \in Names, t.res[name] # None
      PROVE  name \in t.index[t.res[name].node]
  <2>1. t.res[name].node \in Nodes
    BY <1>1, <1>2 DEF Registries, Resource
  <2>2. CASE snap[name] # None
    BY <2>1, <2>2 DEF RestoreSnapshot
  <2>3. CASE snap[name] = None
    <3>1. t.res[name] = s.res[name]
      BY <2>3 DEF RestoreSnapshot
    <3>2. name \in s.index[s.res[name].node]
      BY <1>2, <3>1 DEF Indexed
    <3> QED
      BY <2>1, <3>1, <3>2 DEF RestoreSnapshot
  <2> QED
    BY <2>2, <2>3
<1> QED
  BY <1>2 DEF Indexed

IndexInv == TypeOK /\ Unused("Move") /\ \A n \in Nodes : Indexed(store[n])

LEMMA NextIndexes ==
  ASSUME "Move" \notin Operations
  PROVE  IndexInv /\ [Next]_vars => IndexInv'
<1> SUFFICES ASSUME IndexInv, [Next]_vars PROVE IndexInv'
  OBVIOUS
<1>1. TypeOK /\ TypeOK' /\ Unused("Move")
  BY NextType DEF IndexInv
<1>2. Unused("Move")'
  BY <1>1, UnusedStaysUnused
<1>3. \A n \in Nodes : Indexed(store[n])
  BY DEF IndexInv
<1>4. Indexed(EmptyStore)
  BY DEF Indexed, EmptyStore, EmptyRegistry
<1> SUFFICES \A n \in Nodes : Indexed(store'[n])
  BY <1>1, <1>2 DEF IndexInv, Indexed
<1>5. CASE store' = store
  BY <1>3, <1>5
<1>6. ASSUME NEW n \in Nodes, Apply(n)
      PROVE  \A m \in Nodes : Indexed(store'[m])
  <2> DEFINE e == log[applied[n] + 1]
  <2>1. store' = [store EXCEPT ![n] = ApplyEntry(store[n], e)]
    BY <1>6 DEF Apply
  <2>2. applied[n] + 1 \in 1 .. Len(log) /\ e \in Entries /\ store[n] \in Stores
    BY <1>1, <1>6 DEF Apply, TypeOK
  <2>3. e.action \in {"Put", "Remove"}
    BY <1>1, <2>2, EntryFields DEF Unused
  <2>4. Indexed(ApplyEntry(store[n], e))
    BY <1>3, <2>2, <2>3, PutIndexes, RemoveIndexes
  <2>5. store \in [Nodes -> Stores]
    BY <1>1 DEF TypeOK
  <2> QED
    BY <1>3, <2>1, <2>4, <2>5
<1>7. ASSUME NEW n \in Nodes, NEW m \in Nodes, InstallSnapshot(n, m)
      PROVE  \A o \in Nodes : Indexed(store'[o])
  <2>1. store' = [store EXCEPT ![n] = RestoreSnapshot(store[n], snapshot[m].res)]
    BY <1>7 DEF InstallSnapshot
  <2>2. store \in [Nodes -> Stores] /\ store[n] \in Stores /\ snapshot[m].res \in Registries
    BY <1>1 DEF TypeOK, Snapshots
  <2>3. Indexed(RestoreSnapshot(store[n], snapshot[m].res))
    BY <1>3, <2>2, RestoreIndexes
  <2> QED
    BY <1>3, <2>1, <2>2, <2>3
<1>8. ASSUME NEW n \in Nodes, Crash(n) \/ Restart(n)
      PROVE  \A m \in Nodes : Indexed(store'[m])
  <2>1. store \in [Nodes -> Stores] /\ snapshot[n].res \in Registries
    BY <1>1 DEF TypeOK, Snapshots
  <2>2. Indexed(RestoreSnapshot(EmptyStore, snapshot[n].res))
    BY <1>4, <2>1, EmptyTypes, RestoreIndexes
  <2>3. \/ store' = [store EXCEPT ![n] = EmptyStore]
        \/ store' = [store EXCEPT ![n] = RestoreSnapshot(EmptyStore, snapshot[n].res)]
    BY <1>8 DEF Crash, Restart
  <2> QED
    BY <1>3, <1>4, <2>1, <2>2, <2>3
<1>9. ASSUME NEW q \in Requests, Commit(q)
      PROVE  store' = store
  BY <1>9 DEF Commit, nodeVars
<1>10. ASSUME NEW n \in Nodes, TakeSnapshot(n)
       PROVE  store' = store
  BY <1>10 DEF TakeSnapshot
<1>11. CASE UNCHANGED <<log, history, nodeVars>>
  BY <1>5, <1>11 DEF nodeVars
<1> QED
  BY <1>5, <1>6, <1>7, <1>8, <1>9, <1>10, <1>11, StepCases

\* Where nothing is moved, the map of each node under a node's id, which
\* moveNodeResources takes the resources from, has all of that node's resources.
THEOREM IndexCovers ==
  ASSUME "Move" \notin Operations
  PROVE  Spec => []IndexCoversStore
<1>1. Init => IndexInv
  <2> SUFFICES ASSUME Init PROVE IndexInv
    OBVIOUS
  <2>1. Unused("Move")
    BY DEF Init, Unused
  <2>2. \A n \in Nodes : Indexed(store[n])
    BY DEF Init, Indexed, EmptyStore, EmptyRegistry
  <2> QED
    BY <2>1, <2>2, InitType DEF IndexInv
<1>2. IndexInv /\ [Next]_vars => IndexInv'
  BY NextIndexes
<1>3. IndexInv => IndexCoversStore
  BY DEF IndexInv, Indexed, IndexCoversStore
<1> QED
  BY <1>1, <1>2, <1>3, PTL DEF Spec

-----------------------------------------------------------------------------
(* Where resources are only put, what a caller was told is registered is.  *)

\* A request that has its entry on the way or in the log keeps that entry.
Proposed ==
  /\ \A q \in inflight : pc[q] # "new" /\ entry[q].by = q
  /\ \A i \in 1 .. Len(log) :
       LET q == log[i].by IN q \in Requests /\ pc[q] # "new" /\ entry[q] = log[i]

Registered(q) ==
  entry[q].name \in Names /\ history[Len(history)][entry[q].name] # None

AnsweredInv ==
  /\ FollowInv
  /\ Unused("Move")
  /\ Proposed
  /\ \A q \in Requests : pc[q] \in {"ok", "existing"} => Registered(q)

\* A request that is not new has an entry it does not change.
LEMMA EntriesStay ==
  ASSUME [Next]_vars, TypeOK, NEW q \in Requests, pc[q] # "new"
  PROVE  entry'[q] = entry[q] /\ pc'[q] # "new"
<1>1. CASE UNCHANGED vars
  BY <1>1 DEF vars, requestVars
<1>2. ASSUME NEW r \in Requests, NEW n \in Nodes, Request(r, n)
      PROVE  entry'[q] = entry[q] /\ pc'[q] # "new"
  <2>1. pc[r] = "new" /\ r # q
    BY <1>2, RequestProposes DEF Propose, FindExisting
  <2>2. \/ \E e \in Entries : Propose(r, n, e)
        \/ \E name \in Names : FindExisting(r, n, name)
    BY <1>2, RequestProposes
  <2> QED
    BY <2>1, <2>2 DEF Propose, FindExisting, TypeOK
<1>3. ASSUME NEW r \in Requests, TimeOut(r) \/ Commit(r) \/ Lose(r)
      PROVE  entry'[q] = entry[q] /\ pc'[q] # "new"
  BY <1>3 DEF TimeOut, Commit, Lose, requestVars, TypeOK
<1>4. ASSUME NEW n \in Nodes, NEW m \in Nodes,
             Apply(n) \/ TakeSnapshot(n) \/ Crash(n) \/ Restart(n) \/ InstallSnapshot(n, m)
      PROVE  entry'[q] = entry[q] /\ pc'[q] # "new"
  BY <1>4 DEF Apply, TakeSnapshot, Crash, Restart, InstallSnapshot, requestVars, TypeOK
<1> QED
  BY <1>1, <1>2, <1>3, <1>4 DEF Next

LEMMA ProposedStays ==
  ASSUME TypeOK, Proposed, [Next]_vars
  PROVE  Proposed'
<1>1. ASSUME NEW q \in inflight', q \notin inflight
      PROVE  pc'[q] # "new" /\ entry'[q].by = q
  <2>1. PICK n \in Nodes, r \in Requests, e \in Entries :
          Propose(r, n, e) /\ e.by = r
    <3>1. PICK r \in Requests, n \in Nodes : Request(r, n)
      BY <1>1 DEF Next, vars, requestVars, raftVars, TimeOut, Commit, Lose, Apply,
                  TakeSnapshot, Crash, Restart, InstallSnapshot
    <3> QED
      BY <1>1, <3>1, RequestProposes DEF FindExisting, raftVars
  <2>2. r = q
    BY <1>1, <2>1 DEF Propose
  <2> QED
    BY <2>1, <2>2 DEF Propose, TypeOK
<1>2. ASSUME NEW q \in inflight'
      PROVE  pc'[q] # "new" /\ entry'[q].by = q
  <2>1. CASE q \in inflight
    <3>1. q \in Requests /\ pc[q] # "new" /\ entry[q].by = q
      BY <2>1 DEF Proposed, TypeOK
    <3> QED
      BY <3>1, EntriesStay
  <2> QED
    BY <1>1, <2>1
<1>3. ASSUME NEW i \in 1 .. Len(log)
      PROVE  LET q == log[i].by IN q \in Requests /\ pc'[q] # "new" /\ entry'[q] = log[i]
  BY EntriesStay DEF Proposed
<1>4. ASSUME NEW i \in 1 .. Len(log')
      PROVE  LET q == log'[i].by IN q \in Requests /\ pc'[q] # "new" /\ entry'[q] = log'[i]
  <2>1. CASE log' = log
    BY <1>3, <2>1
  <2>2. ASSUME NEW r \in Requests, Commit(r)
        PROVE  LET q == log'[i].by IN q \in Requests /\ pc'[q] # "new" /\ entry'[q] = log'[i]
    <3>1. log' = Append(log, entry[r]) /\ r \in inflight
      BY <2>2 DEF Commit
    <3>2. CASE i \in 1 .. Len(log)
      BY <1>3, <3>1, <3>2 DEF TypeOK
    <3>3. CASE i = Len(log) + 1
      <4>1. log'[i] = entry[r]
        BY <3>1, <3>3 DEF TypeOK
      <4>2. entry[r].by = r /\ pc[r] # "new"
        BY <3>1 DEF Proposed
      <4>3. entry'[r] = entry[r] /\ pc'[r] # "new"
        BY <4>2, EntriesStay
      <4> QED
        BY <4>1, <4>2, <4>3
    <3>4. Len(log') = Len(log) + 1 /\ Len(log) \in Nat
      BY <3>1 DEF TypeOK
    <3> QED
      BY <3>2, <3>3, <3>4
  <2>3. \/ \E r \in Requests : Commit(r)
        \/ log' = log
    BY StepCases DEF Apply, TakeSnapshot, Crash, Restart, InstallSnapshot, raftVars
  <2> QED
    BY <2>1, <2>2, <2>3
<1> QED
  BY <1>2, <1>4 DEF Proposed

\* A name that some registry of the history has is in the last one after any step.
LEMMA HadStaysLast ==
  ASSUME TypeOK, TypeOK', Growing', [Next]_vars, NEW i \in 1 .. Len(history),
         NEW name \in Names, history[i][name] # None
  PROVE  history'[Len(history')][name] # None
<1>1. CASE history' = history
  <2>1. Len(history) \in 1 .. Len(history) /\ i <= Len(history)
    BY DEF TypeOK
  <2>2. /\ Len(history') \in 1 .. Len(history') /\ i \in 1 .. Len(history')
        /\ i <= Len(history') /\ history'[i][name] # None
    BY <1>1, <2>1
  <2> QED
    BY <2>2 DEF Growing
<1>2. ASSUME NEW q \in Requests, Commit(q)
      PROVE  history'[Len(history')][name] # None
  <2>1. history' = Append(history, Outcome(history[Len(history)], entry[q]))
    BY <1>2 DEF Commit
  <2>2. /\ Len(history') = Len(history) + 1 /\ Len(history) \in Nat
        /\ history'[i] = history[i]
    BY <2>1 DEF TypeOK
  <2>3. /\ Len(history') \in 1 .. Len(history') /\ i \in 1 .. Len(history')
        /\ i <= Len(history')
    BY <2>2
  <2>4. history'[i][name] # None
    BY <2>2
  <2> QED
    BY <2>3, <2>4 DEF Growing
<1>3. \/ \E q \in Requests : Commit(q)
      \/ history' = history
  BY StepCases DEF Apply, TakeSnapshot, Crash, Restart, InstallSnapshot, raftVars
<1> QED
  BY <1>1, <1>2, <1>3

\* The three ways to come to an answer: to have had it, to find the name, to see
\* one's own entry applied.
LEMMA AnswerCases ==
  ASSUME TypeOK, [Next]_vars, NEW q \in Requests, pc'[q] \in {"ok", "existing"}
  PROVE  \/ pc[q] \in {"ok", "existing"}
         \/ \E n \in Nodes, name \in Names : FindExisting(q, n, name)
         \/ \E n \in Nodes : Apply(n) /\ log[applied[n] + 1].by = q
<1>1. CASE UNCHANGED vars
  BY <1>1 DEF vars, requestVars
<1>2. ASSUME NEW r \in Requests, NEW n \in Nodes, Request(r, n), pc[q] \notin {"ok", "existing"}
      PROVE  \E name \in Names : FindExisting(q, n, name)
  <2>1. \A e \in Entries : ~ Propose(r, n, e)
    BY <1>2 DEF Propose, TypeOK
  <2>2. PICK name \in Names : FindExisting(r, n, name)
    BY <1>2, <2>1, RequestProposes
  <2>3. r = q
    BY <1>2, <2>2 DEF FindExisting, TypeOK
  <2> QED
    BY <2>2, <2>3
<1>3. ASSUME NEW r \in Requests, TimeOut(r) \/ Commit(r) \/ Lose(r)
      PROVE  pc[q] \in {"ok", "existing"}
  BY <1>3 DEF TimeOut, Commit, Lose, requestVars, TypeOK
<1>4. ASSUME NEW n \in Nodes, Apply(n), pc[q] \notin {"ok", "existing"}
      PROVE  log[applied[n] + 1].by = q
  BY <1>4 DEF Apply, TypeOK
<1>5. ASSUME NEW n \in Nodes, NEW m \in Nodes,
             TakeSnapshot(n) \/ Crash(n) \/ Restart(n) \/ InstallSnapshot(n, m)
      PROVE  pc[q] \in {"ok", "existing"}
  BY <1>5 DEF TakeSnapshot, Crash, Restart, InstallSnapshot, requestVars, TypeOK
<1> QED
  BY <1>1, <1>2, <1>3, <1>4, <1>5 DEF Next

LEMMA NextAnswered ==
  ASSUME Operations \cap {"Remove", "Move"} = {}
  PROVE  AnsweredInv /\ [Next]_vars => AnsweredInv'
<1> SUFFICES ASSUME AnsweredInv, [Next]_vars PROVE AnsweredInv'
  OBVIOUS
<1>1. /\ FollowInv /\ TypeOK /\ HistoryOfLog /\ StoresFollowLog
      /\ Unused("Remove") /\ Unused("Move") /\ Proposed
  BY DEF AnsweredInv, FollowInv
<1>2. FollowInv' /\ TypeOK' /\ Growing'
  BY <1>1, NextFollows DEF FollowInv
<1>3. Unused("Move")' /\ Proposed'
  BY <1>1, UnusedStaysUnused, ProposedStays
<1>4. ASSUME NEW q \in Requests, pc[q] \in {"ok", "existing"}
      PROVE  Registered(q)'
  <2>1. Registered(q)
    BY <1>4 DEF AnsweredInv
  <2>2. entry'[q] = entry[q]
    BY <1>1, <1>4, EntriesStay
  <2>3. Len(history) \in 1 .. Len(history)
    BY <1>1 DEF TypeOK
  <2> QED
    BY <1>1, <1>2, <2>1, <2>2, <2>3, HadStaysLast DEF Registered
<1>5. ASSUME NEW q \in Requests, NEW n \in Nodes, NEW name \in Names, FindExisting(q, n, name)
      PROVE  Registered(q)'
  <2>1. entry' = [entry EXCEPT ![q] = Entry(q, "Put", name, LightestNode(n))]
        /\ store[n].res[name] # None
    BY <1>5 DEF FindExisting
  <2>2. entry'[q].name = name
    BY <1>1, <2>1 DEF TypeOK, Entry
  <2>3. history[applied[n] + 1][name] # None
    BY <1>1, <2>1 DEF StoresFollowLog
  <2>4. applied[n] \in 0 .. Len(log) /\ Len(history) = Len(log) + 1
    BY <1>1 DEF TypeOK
  <2>5. applied[n] + 1 \in 1 .. Len(history)
    BY <2>4
  <2>6. history'[Len(history')][name] # None
    BY <1>1, <1>2, <2>3, <2>5, HadStaysLast
  <2> QED
    BY <2>2, <2>6 DEF Registered
<1>6. ASSUME NEW q \in Requests, NEW n \in Nodes, Apply(n), log[applied[n] + 1].by = q
      PROVE  Registered(q)'
  <2> DEFINE i == applied[n] + 1
             e == log[i]
  <2>1. i \in 1 .. Len(log) /\ e \in Entries
    BY <1>1, <1>6 DEF Apply, TypeOK
  <2>2. entry[q] = e /\ entry' = entry
    BY <1>1, <1>6, <2>1 DEF Proposed, Apply
  <2>3. e.name \in Names /\ e.action = "Put"
    BY <1>1, <2>1, EntryFields DEF Unused
  <2>4. history[i + 1] = Outcome(history[i], e)
    BY <1>1, <2>1 DEF HistoryOfLog
  <2>5. Outcome(history[i], e)[e.name] # None
    BY <2>1, <2>3, ResourceOfType, StoreAssumption DEF Outcome
  <2>6. i + 1 \in 1 .. Len(history)
    BY <1>1, <2>1 DEF TypeOK
  <2>7. history'[Len(history')][e.name] # None
    BY <1>1, <1>2, <2>3, <2>4, <2>5, <2>6, HadStaysLast
  <2> QED
    BY <2>2, <2>3, <2>7 DEF Registered
<1>7. ASSUME NEW q \in Requests, pc'[q] \in {"ok", "existing"}
      PROVE  Registered(q)'
  BY <1>1, <1>4, <1>5, <1>6, <1>7, AnswerCases
<1> QED
  BY <1>2, <1>3, <1>7 DEF AnsweredInv

\* Where resources are only put, as by the commands of the API, a name that a
\* caller was told is registered is in the log for good: no time out, lost
\* proposal, crash or restart takes it back.
THEOREM AnswersHold ==
  ASSUME Operations \cap {"Remove", "Move"} = {}
  PROVE  Spec => []AnsweredIsRegistered
<1>1. Init => AnsweredInv
  <2> SUFFICES ASSUME Init PROVE AnsweredInv
    OBVIOUS
  <2>1. Unused("Move") /\ Proposed
    BY DEF Init, Unused, Proposed
  <2>2. \A q \in Requests : pc[q] = "new"
    BY DEF Init
  <2> QED
    BY <2>1, <2>2, InitFollows DEF AnsweredInv
<1>2. AnsweredInv /\ [Next]_vars => AnsweredInv'
  BY NextAnswered
<1>3. AnsweredInv => AnsweredIsRegistered
  BY DEF AnsweredInv, Registered, AnsweredIsRegistered
<1> QED
  BY <1>1, <1>2, <1>3, PTL DEF Spec

=============================================================================
