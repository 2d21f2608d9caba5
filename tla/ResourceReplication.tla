------------------------ MODULE ResourceReplication ------------------------
(***************************************************************************)
(* The resource managers of a cluster (internal/mgr) and the calls the     *)
(* commands and the tests make on them.  A call that changes the store     *)
(* becomes an entry that is handed to raft (replicateEntryPB); raft is an  *)
(* external library, taken here for the one log it agrees on: a proposal   *)
(* is committed once or lost, every live node applies the log in order,    *)
(* may get a snapshot in place of a part of it, and replays it from its    *)
(* own last snapshot when it restarts.  Replicate returns when the node    *)
(* that proposed has applied the entry, or with an error after ten         *)
(* seconds, when the entry may still be on its way.                        *)
(***************************************************************************)
EXTENDS ResourceStore, Naturals, Sequences, FiniteSets

CONSTANTS
  Operations,   \* the calls made: a subset of AllOperations
  MaxCrashes    \* bound: how often a node may crash

AllOperations == {"Register", "PutToNode", "Remove", "Move"}

ASSUME OperationsAssumption ==
  /\ Operations \subseteq AllOperations
  /\ MaxCrashes \in Nat

VARIABLES
  pc,           \* of a request: "new", "waiting", or how it ended
  at,           \* the node that serves a request
  entry,        \* the entry a request proposed, or found no need to
  inflight,     \* the requests whose entry raft has neither committed nor lost
  log,          \* the committed entries
  up,           \* the nodes that run
  store,        \* the store of each node
  applied,      \* how much of the log each node has applied
  snapshot,     \* the last snapshot on each node's disk
  crashes,
  history       \* of the log: the registry before its first entry, after each

requestVars == <<pc, at, entry>>
raftVars    == <<inflight, log, history>>
nodeVars    == <<up, store, applied, snapshot, crashes>>
vars == <<requestVars, raftVars, nodeVars>>

EmptySnapshot == [index |-> 0, res |-> EmptyRegistry]

Init ==
  /\ pc = [q \in Requests |-> "new"]
  /\ at = [q \in Requests |-> None]
  /\ entry = [q \in Requests |-> None]
  /\ inflight = {}
  /\ log = <<>>
  /\ up = Nodes
  /\ store = [n \in Nodes |-> EmptyStore]
  /\ applied = [n \in Nodes |-> 0]
  /\ snapshot = [n \in Nodes |-> EmptySnapshot]
  /\ crashes = 0
  /\ history = <<EmptyRegistry>>

-----------------------------------------------------------------------------
(* Requests.                                                               *)

\* replicateEntryPB, up to the wait for Replicate.
Propose(q, n, e) ==
  /\ pc[q] = "new"
  /\ n \in up
  /\ pc' = [pc EXCEPT ![q] = "waiting"]
  /\ at' = [at EXCEPT ![q] = n]
  /\ entry' = [entry EXCEPT ![q] = e]
  /\ inflight' = inflight \cup {q}
  /\ UNCHANGED <<log, history, nodeVars>>

\* The node PutResource gives a resource to.  Only UpdateNodeLoading changes it,
\* and the ticker that would call that is commented out (res_mgr.go:74-78).
LightestNode(n) == n

\* RegisterResourcePbCmd where the name is unknown to the node, or overridden.
\* The client asks for token buckets only, so no other type is refused here.
Register(q, n, name, override) ==
  /\ override \/ store[n].res[name] = None
  /\ Propose(q, n, Entry(q, "Put", name, LightestNode(n)))

\* RegisterResourcePbCmd where the node knows the name: nothing is proposed.
FindExisting(q, n, name) ==
  /\ pc[q] = "new"
  /\ n \in up
  /\ store[n].res[name] # None
  /\ pc' = [pc EXCEPT ![q] = "existing"]
  /\ at' = [at EXCEPT ![q] = n]
  /\ entry' = [entry EXCEPT ![q] = Entry(q, "Put", name, LightestNode(n))]
  /\ UNCHANGED <<raftVars, nodeVars>>

PutResourceToNode(q, n, name, node) == Propose(q, n, Entry(q, "Put", name, node))

RemoveResourceEverywhere(q, n, name) == Propose(q, n, Entry(q, "Remove", name, None))

UpdateResourceNodeId(q, n, name, node) == Propose(q, n, Entry(q, "Move", name, node))

TimeOutIgnored(q) ==   \* mutant: the error of Replicate is not returned
  /\ pc[q] = "waiting"
  /\ pc' = [pc EXCEPT ![q] = "ok"]
  /\ UNCHANGED <<at, entry, raftVars, nodeVars>>

\* Replicate's context expires; what becomes of the entry stays open.
TimeOut(q) ==
  /\ pc[q] = "waiting"
  /\ pc' = [pc EXCEPT ![q] = "error"]
  /\ UNCHANGED <<at, entry, raftVars, nodeVars>>

Request(q, n) ==
  \E name \in Names :
    \/ /\ "Register" \in Operations
       /\ \/ \E override \in BOOLEAN : Register(q, n, name, override)
          \/ FindExisting(q, n, name)
    \/ /\ "PutToNode" \in Operations
       /\ \E node \in Nodes : PutResourceToNode(q, n, name, node)
    \/ "Remove" \in Operations /\ RemoveResourceEverywhere(q, n, name)
    \/ /\ "Move" \in Operations
       /\ \E node \in Nodes : UpdateResourceNodeId(q, n, name, node)

-----------------------------------------------------------------------------
(* Raft.                                                                   *)

\* Enough nodes run to elect a leader and to agree on an entry.
Majority == 2 * Cardinality(up) > Cardinality(Nodes)

\* A majority runs and has the entry on disk.
Commit(q) ==
  /\ q \in inflight
  /\ Majority
  /\ inflight' = inflight \ {q}
  /\ log' = Append(log, entry[q])
  /\ history' = Append(history, Outcome(history[Len(history)], entry[q]))
  /\ UNCHANGED <<requestVars, nodeVars>>

\* The proposal does not survive a change of leader.
Lose(q) ==
  /\ q \in inflight
  /\ inflight' = inflight \ {q}
  /\ UNCHANGED <<requestVars, log, history, nodeVars>>

\* Apply on node n; the request that waits there for this entry is over.
Apply(n) ==
  /\ n \in up
  /\ applied[n] < Len(log)
  /\ LET e == log[applied[n] + 1]
     IN  /\ store' = [store EXCEPT ![n] = ApplyEntry(@, e)]
         /\ pc' = IF pc[e.by] = "waiting" /\ at[e.by] = n
                    THEN [pc EXCEPT ![e.by] = "ok"] ELSE pc
  /\ applied' = [applied EXCEPT ![n] = @ + 1]
  /\ UNCHANGED <<at, entry, raftVars, up, snapshot, crashes>>

TakeOwnSnapshot(n) ==   \* mutant: of nodeStore's map of the node, and not of store
  /\ n \in up
  /\ applied[n] > snapshot[n].index
  /\ LET own == [name \in Names |->
                  IF name \in store[n].index[n] THEN store[n].res[name] ELSE None]
     IN  snapshot' = [snapshot EXCEPT ![n] = [index |-> applied[n], res |-> own]]
  /\ UNCHANGED <<requestVars, raftVars, up, store, applied, crashes>>

TakeSnapshot(n) ==
  /\ n \in up
  /\ applied[n] > snapshot[n].index
  /\ snapshot' = [snapshot EXCEPT
                    ![n] = [index |-> applied[n], res |-> SnapshotOf(store[n])]]
  /\ UNCHANGED <<requestVars, raftVars, up, store, applied, crashes>>

InstallAnySnapshot(n, m) ==   \* mutant: a snapshot the node is past is restored
  /\ n \in up /\ m \in up
  /\ snapshot[m].index > 0
  /\ store' = [store EXCEPT ![n] = RestoreSnapshot(@, snapshot[m].res)]
  /\ applied' = [applied EXCEPT ![n] = snapshot[m].index]
  /\ snapshot' = [snapshot EXCEPT ![n] = snapshot[m]]
  /\ UNCHANGED <<requestVars, raftVars, up, crashes>>

\* A node that is behind is sent another's snapshot instead of the entries.
InstallSnapshot(n, m) ==
  /\ n \in up /\ m \in up
  /\ applied[n] < snapshot[m].index
  /\ store' = [store EXCEPT ![n] = RestoreSnapshot(@, snapshot[m].res)]
  /\ applied' = [applied EXCEPT ![n] = snapshot[m].index]
  /\ snapshot' = [snapshot EXCEPT ![n] = snapshot[m]]
  /\ UNCHANGED <<requestVars, raftVars, up, crashes>>

-----------------------------------------------------------------------------
(* Crashes.                                                                *)

\* The process dies: its store is gone, and the calls it was serving fail.
Crash(n) ==
  /\ n \in up
  /\ crashes < MaxCrashes
  /\ crashes' = crashes + 1
  /\ up' = up \ {n}
  /\ store' = [store EXCEPT ![n] = EmptyStore]
  /\ applied' = [applied EXCEPT ![n] = 0]
  /\ pc' = [q \in Requests |->
              IF pc[q] = "waiting" /\ at[q] = n THEN "error" ELSE pc[q]]
  /\ UNCHANGED <<at, entry, raftVars, snapshot>>

RestartFromFirstEntry(n) ==   \* mutant: replays what the snapshot holds already
  /\ n \notin up
  /\ up' = up \cup {n}
  /\ store' = [store EXCEPT ![n] = RestoreSnapshot(EmptyStore, snapshot[n].res)]
  /\ UNCHANGED <<requestVars, raftVars, applied, snapshot, crashes>>

\* WithRestart: the last snapshot is restored, Apply replays what follows it.
Restart(n) ==
  /\ n \notin up
  /\ up' = up \cup {n}
  /\ store' = [store EXCEPT ![n] = RestoreSnapshot(EmptyStore, snapshot[n].res)]
  /\ applied' = [applied EXCEPT ![n] = snapshot[n].index]
  /\ UNCHANGED <<requestVars, raftVars, snapshot, crashes>>

-----------------------------------------------------------------------------

Next ==
  \/ \E q \in Requests, n \in Nodes : Request(q, n)
  \/ \E q \in Requests : TimeOut(q) \/ Commit(q) \/ Lose(q)
  \/ \E n \in Nodes : Apply(n) \/ TakeSnapshot(n) \/ Crash(n) \/ Restart(n)
  \/ \E n, m \in Nodes : InstallSnapshot(n, m)

\* A running node learns from a leader how far the log is committed, and there is
\* a leader only while a majority runs.
Deliver(n) == Majority /\ Apply(n)

\* Raft keeps delivering the log as long as it can.  Nothing restarts a node.
Fairness == \A n \in Nodes : WF_vars(Deliver(n))

Spec == Init /\ [][Next]_vars

FairSpec == Spec /\ Fairness

-----------------------------------------------------------------------------
(* Properties.                                                             *)

RequestStates == {"new", "waiting", "existing", "ok", "error"}

Snapshots == [index : Nat, res : Registries]

\* The variables have their types; no node is ahead of the log, no disk ahead
\* of its node, and only a request that proposed has an entry on its way.
TypeOK ==
  /\ pc \in [Requests -> RequestStates]
  /\ at \in [Requests -> Nodes \cup {None}]
  /\ entry \in [Requests -> Entries \cup {None}]
  /\ inflight \in SUBSET {q \in Requests : entry[q] \in Entries}
  /\ log \in Seq(Entries)
  /\ up \in SUBSET Nodes
  /\ store \in [Nodes -> Stores]
  /\ applied \in [Nodes -> 0 .. Len(log)]
  /\ snapshot \in [Nodes -> Snapshots]
  /\ crashes \in 0 .. MaxCrashes
  /\ history \in Seq(Registries)
  /\ Len(history) = Len(log) + 1
  /\ \A n \in Nodes : snapshot[n].index \in 0 .. Len(log)
  /\ \A n \in up : snapshot[n].index <= applied[n]

\* The registry as of the part of the log node n has applied.
RegistryAt(n) == history[applied[n] + 1]

\* A node that has applied a part of the log, entry by entry, by a snapshot of
\* another node or by its own snapshot and a replay, shows the registry that
\* part of the log makes: no path through Apply, Restore and a restart differs
\* from another.
StoreFollowsLog ==
  \A n \in up : store[n].res = RegistryAt(n)

\* moveNodeResources finds every resource of a node in that node's map.
IndexCoversStore ==
  \A n \in Nodes, name \in Names :
    store[n].res[name] # None => name \in store[n].index[store[n].res[name].node]

\* What a caller was told is registered is in the log for good, whatever
\* crashes, times out or is lost.
AnsweredIsRegistered ==
  \A q \in Requests :
    pc[q] \in {"ok", "existing"} => history[Len(history)][entry[q].name] # None

\* A node's store is some state of one history of the registry, and moves only
\* forward in it, until the node restarts.
Registry ==
  INSTANCE ResourceRegistry WITH
    Empty    <- EmptyRegistry,
    position <- [n \in Nodes |-> applied[n] + 1],
    shown    <- [n \in Nodes |-> store[n].res]

ImplementsRegistry == Registry!Spec

\* Node n is down, or so many nodes are that no leader can be elected.
CutOff(n) == n \notin up \/ ~Majority

Knows(n, q) == entry[q] # None /\ store[n].res[entry[q].name] # None

\* What a caller was told is registered comes to be known at every node that is
\* not cut off for good, also when the node that answered stays down.
RegisteredSpreads ==
  \A n \in Nodes, q \in Requests :
    <>[]CutOff(n) \/ (pc[q] \in {"ok", "existing"} ~> Knows(n, q))

\* With removals a node may show more than the registry, but never misses or
\* misplaces what the registry has.
NothingMissing ==
  \A n \in up, name \in Names :
    RegistryAt(n)[name] # None => store[n].res[name] = RegistryAt(n)[name]

\* Whatever limiter a node finds under a name, that name had it at some point
\* of the log the node has applied.
LimiterWasRegistered ==
  \A n \in up, name \in Names :
    store[n].res[name] # None =>
      \E i \in 1 .. applied[n] + 1 :
        /\ history[i][name] # None
        /\ history[i][name].limiter = store[n].res[name].limiter

-----------------------------------------------------------------------------
(* What the tests say, and the code does not do.                           *)

\* res_mgr_test.go:146-148: a node that is past the removal of a name answers
\* GetResource with nil, false.
RemovedIsGone ==
  \A n \in up, name \in Names :
    RegistryAt(n)[name] = None => store[n].res[name] = None

=============================================================================
