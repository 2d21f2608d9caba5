-------------------------- MODULE ResourceRegistry --------------------------
(***************************************************************************)
(* What the cluster's store promises its readers: there is one history of  *)
(* the registry, changed one name at a time, and a node shows some state   *)
(* of it.  A node moves forward along the history, by a step or by many,   *)
(* and starts over from the empty registry only when it restarts.          *)
(***************************************************************************)
EXTENDS Naturals, Sequences

CONSTANTS
  Names,
  Nodes,
  Registries,   \* the states of the registry
  Empty         \* the one it starts from

VARIABLES
  history,      \* every state the registry has been in
  position,     \* how far each node has followed it
  shown         \* what a read on each node finds

vars == <<history, position, shown>>

Init ==
  /\ history = <<Empty>>
  /\ position = [n \in Nodes |-> 1]
  /\ shown = [n \in Nodes |-> Empty]

\* One name is registered, removed or moved.
Change(name) ==
  \E registry \in Registries :
    /\ \A other \in Names \ {name} : registry[other] = history[Len(history)][other]
    /\ history' = Append(history, registry)
    /\ UNCHANGED <<position, shown>>

\* A node follows the history to a later state.
Follow(n) ==
  \E i \in position[n] .. Len(history) :
    /\ position' = [position EXCEPT ![n] = i]
    /\ shown' = [shown EXCEPT ![n] = history[i]]
    /\ UNCHANGED history

\* A node stops and forgets what it had.
Forget(n) ==
  /\ position' = [position EXCEPT ![n] = 1]
  /\ shown' = [shown EXCEPT ![n] = Empty]
  /\ UNCHANGED history

Next ==
  \/ \E name \in Names : Change(name)
  \/ \E n \in Nodes : Follow(n) \/ Forget(n)

Spec == Init /\ [][Next]_vars

=============================================================================
