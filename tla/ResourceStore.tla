--------------------------- MODULE ResourceStore ---------------------------
(***************************************************************************)
(* The resource store of one node (internal/mgr): the map from names to    *)
(* resources that every command reads (store), and the per-node index of   *)
(* it that moveNodeResources reads (nodeStore).  The operators here are    *)
(* what the manager does to both under its mutex when it applies an entry, *)
(* takes a snapshot or restores one.                                       *)
(*                                                                         *)
(* A resource is the node that answers for it and its limiter.  A limiter  *)
(* is named after the registration that made it: two limiters are told     *)
(* apart, their token counts are not kept here.                            *)
(***************************************************************************)

CONSTANTS
  Names,        \* resource names
  Nodes,        \* node ids
  Requests,     \* calls of the manager; a limiter is named after the one that made it
  None          \* no resource, no node

Resource == [node : Nodes, limiter : Requests]

ASSUME StoreAssumption == None \notin Resource /\ None \notin Nodes

\* What the names of a cluster stand for.
Registries == [Names -> Resource \cup {None}]

Stores ==
  [res   : Registries,             \* store
   index : [Nodes -> SUBSET Names] \* the names in each node's map of nodeStore
  ]

EmptyRegistry == [name \in Names |-> None]

EmptyStore == [res |-> EmptyRegistry, index |-> [i \in Nodes |-> {}]]

-----------------------------------------------------------------------------
(* Entries of the log, each proposed by one request.                       *)

Entry(by, action, name, node) == [by |-> by, action |-> action, name |-> name, node |-> node]

Entries ==
       {Entry(q, action, name, i) : q \in Requests, action \in {"Put", "Move"},
                                    name \in Names, i \in Nodes}
  \cup {Entry(q, "Remove", name, None) : q \in Requests, name \in Names}

\* The resource a Put entry carries.
ResourceOf(e) == [node |-> e.node, limiter |-> e.by]

\* What the caller of the manager asks the registry to become.
Outcome(registry, e) ==
  [name \in Names |->
     CASE name = e.name /\ e.action = "Put"    -> ResourceOf(e)
       [] name = e.name /\ e.action = "Remove" -> None
       [] name = e.name /\ e.action = "Move" /\ registry[name] # None ->
            [registry[name] EXCEPT !.node = e.node]
       [] OTHER -> registry[name]]

-----------------------------------------------------------------------------
(* What the manager does.                                                  *)

PutOnceInIndex(s, name, resource) ==   \* mutant: a name that is known is not indexed again
  [res   |-> [s.res EXCEPT ![name] = resource],
   index |-> IF s.res[name] = None
               THEN [s.index EXCEPT ![resource.node] = @ \cup {name}] ELSE s.index]

\* putResource: the name stays in the map of the node that had it before.
PutResource(s, name, resource) ==
  [res   |-> [s.res EXCEPT ![name] = resource],
   index |-> [s.index EXCEPT ![resource.node] = @ \cup {name}]]

\* removeResource
RemoveResource(s, name) ==
  IF s.res[name] = None
    THEN s
    ELSE [s EXCEPT !.res[name] = None, !.index[s.res[name].node] = @ \ {name}]

MoveTakesAny(s, name, dst) ==   \* mutant: the node id is assigned only when the map exists
  IF s.res[name] = None \/ s.index[dst] = {} THEN s ELSE [s EXCEPT !.res[name].node = dst]

\* updateResourceNodeId: res.NodeID is assigned before nodeStore is looked up
\* under it, so source and destination are the same map: the name is put into
\* it and deleted again, and the map that really had the name keeps it.
MoveResource(s, name, dst) ==
  CASE s.res[name] = None -> s
    [] s.res[name] # None /\ s.res[name].node = dst -> s
    [] s.res[name] # None /\ s.res[name].node # dst ->
         [s EXCEPT !.res[name].node = dst, !.index[dst] = @ \ {name}]

\* Apply
ApplyEntry(s, e) ==
  CASE e.action = "Put" -> PutResource(s, e.name, ResourceOf(e))
    [] e.action = "Remove" -> RemoveResource(s, e.name)
    [] e.action = "Move" -> MoveResource(s, e.name, e.node)

\* createSnapshotPB: every resource of store, and nothing of nodeStore.
SnapshotOf(s) == s.res

RestoreSkipsKnown(s, snapshot) ==   \* mutant: a name the node has is not overwritten
  [s EXCEPT !.res = [name \in Names |->
                       IF s.res[name] = None THEN snapshot[name] ELSE s.res[name]]]

\* Restore: putResource of every entry of the snapshot, over what is there.
RestoreSnapshot(s, snapshot) ==
  LET named == {name \in Names : snapshot[name] # None}
  IN  [res   |-> [name \in Names |-> IF name \in named THEN snapshot[name] ELSE s.res[name]],
       index |-> [i \in Nodes |->
                    s.index[i] \cup {name \in named : snapshot[name].node = i}]]

=============================================================================
