----------------------------- MODULE Discovery -----------------------------
(***************************************************************************)
(* How a client finds the nodes of a cluster: the pool of its connections  *)
(* (client/conn.go) and what the nodes tell it about each other.  Every    *)
(* checkInterval, and when a command finds no leader, establishConns asks  *)
(* a node for the nodes of the cluster with Meow, brings the pool up to    *)
(* date and dials who is missing.                                          *)
(*                                                                         *)
(* A node answers Meow from a cache (internal/cluster/probe): a node makes *)
(* its own entry when it is first asked for it and once more when it is    *)
(* ready, and its peers keep what they were given; nothing is made again   *)
(* until a node restarts.  The API of a node that starts is there before   *)
(* raft has told it the members of the cluster (cmd/ratecat/main.go); such *)
(* a node answers Meow with no nodes at all.                               *)
(*                                                                         *)
(* A connection is made with one life of a node and is dead after it: the  *)
(* client never clears connected and never dials the same connection       *)
(* again.  Of the flags of a connection leader is kept; active is TRUE in  *)
(* every member's entry, as each makes its own.                            *)
(*                                                                         *)
(* A node that runs may hang: its API accepts connections, but does not    *)
(* answer within the second that the client waits, for as long as it takes.*)
(***************************************************************************)
EXTENDS Naturals, Sequences

CONSTANTS
  Nodes,
  None,
  InitAddrs,     \* initAddrs, as the nodes that have these addresses
  MaxRestarts    \* bound: how often nodes restart, all together

Lives == 0 .. MaxRestarts

\* What the pool has of a node.
Conn == [life : Lives, leader : BOOLEAN]

ASSUME PoolAssumption ==
  /\ InitAddrs \in Seq(Nodes)
  /\ MaxRestarts \in Nat
  /\ None \notin Nodes \cup BOOLEAN \cup Conn

VARIABLES
  \* the nodes
  up,            \* the nodes that run, with an API that accepts connections
  hung,          \* those of them whose API does not answer in time
  joined,        \* those of them whose raft node has the members of the cluster
  ready,         \* those of them that WaitReady has let through
  life,          \* how often a node has restarted
  leader,        \* the leader raft has elected
  info,          \* nodeInfoCache of a node: of each node, whether it is the leader
  \* the client
  pool,          \* of a node: its connection's life and its flags
  \* establishConns, which holds the pool's mutex
  step,          \* "idle", "dial", "ask", "update"
  done,          \* the pooled connections asked, or listed nodes updated, so far
  next,          \* the address to dial
  dialled,       \* the life of the node it has dialled
  resp,          \* respMsg: of each node it lists, whether it is the leader; None with an err
  \* history, for the properties only
  wasLeader,     \* the nodes that have been leader
  restarts       \* how often nodes have restarted

nodeVars == <<up, hung, joined, ready, life, restarts, leader, wasLeader>>
refreshVars == <<step, done, next, dialled, resp>>
vars == <<nodeVars, info, pool, refreshVars>>

Nothing == [n \in Nodes |-> None]

Init ==
  /\ up = Nodes
  /\ hung = {}
  /\ joined = {}
  /\ ready = {}
  /\ life = [n \in Nodes |-> 0]
  /\ leader = None
  /\ info = [n \in Nodes |-> Nothing]
  /\ pool = Nothing
  /\ step = "idle"
  /\ done = {}
  /\ next = 1
  /\ dialled = None
  /\ resp = None
  /\ wasLeader = {}
  /\ restarts = 0

\* The connection the pool has for n works.
Live(n) == pool[n] # None /\ n \in up /\ pool[n].life = life[n]

\* A command sent on it is answered in time.
Working(n) == Live(n) /\ n \notin hung

-----------------------------------------------------------------------------
(* The nodes.                                                              *)

\* The process starts, and its API boots.
Start(n) ==
  /\ n \notin up
  /\ restarts < MaxRestarts
  /\ restarts' = restarts + 1
  /\ up' = up \cup {n}
  /\ life' = [life EXCEPT ![n] = @ + 1]
  /\ UNCHANGED <<hung, joined, ready, leader, wasLeader, info, pool, refreshVars>>

\* The raft node has started: it has all members, by its configuration or log.
Join(n) ==
  /\ n \in up \ joined
  /\ joined' = joined \cup {n}
  /\ UNCHANGED <<up, hung, ready, life, restarts, leader, wasLeader>>
  /\ UNCHANGED <<info, pool, refreshVars>>

Elect(n) ==
  /\ n \in joined
  /\ leader' = n
  /\ wasLeader' = wasLeader \cup {n}
  /\ UNCHANGED <<up, hung, joined, ready, life, restarts, info, pool, refreshVars>>

\* The API of n stops to answer in time, and answers again.
Hang(n) ==
  /\ n \in up \ hung
  /\ hung' = hung \cup {n}
  /\ UNCHANGED <<up, joined, ready, life, restarts, leader, wasLeader>>
  /\ UNCHANGED <<info, pool, refreshVars>>

Recover(n) ==
  /\ n \in hung
  /\ hung' = hung \ {n}
  /\ UNCHANGED <<up, joined, ready, life, restarts, leader, wasLeader>>
  /\ UNCHANGED <<info, pool, refreshVars>>

\* The process stops or dies, or ends itself as it is not ready in ten seconds.
Crash(n) ==
  /\ n \in up
  /\ up' = up \ {n}
  /\ hung' = hung \ {n}
  /\ joined' = joined \ {n}
  /\ ready' = ready \ {n}
  /\ leader' = IF leader = n THEN None ELSE leader
  /\ info' = [info EXCEPT ![n] = Nothing]
  /\ UNCHANGED <<life, restarts, wasLeader, pool, refreshVars>>

\* GetCurNodeInfo, of a node that has joined: the entry of its cache, or a new one.
OwnInfo(n) == IF info[n][n] = None THEN leader = n ELSE info[n][n]

\* GetPeerNodeInfo on node n, of each other member: the entry of the cache, or
\* what the peer answers, if it does within half a second.
PeerInfo(n, reached) ==
  [m \in Nodes |->
     IF info[n][m] # None THEN info[n][m]
     ELSE IF m \in reached THEN OwnInfo(m)
     ELSE None]

\* The caches when node n has asked those peers, and has own as its own entry.
CachesAfter(n, reached, own) ==
  [m \in Nodes |->
     IF m = n THEN [PeerInfo(n, reached) EXCEPT ![n] = own]
     ELSE IF m \in reached /\ info[n][m] = None THEN [info[m] EXCEPT ![m] = OwnInfo(m)]
     ELSE info[m]]

\* GetNodeInfo over gRPC, by a peer or by the node itself while it waits to be
\* ready.
GetNodeInfo(n) ==
  /\ n \in joined
  /\ info' = [info EXCEPT ![n][n] = OwnInfo(n)]
  /\ UNCHANGED <<nodeVars, pool, refreshVars>>

\* WaitReady returns true, after Ready has made the node's own entry anew and
\* asked for those of its peers.
BecomeReady(n) ==
  /\ n \in joined \ ready
  /\ ready' = ready \cup {n}
  /\ \E reached \in SUBSET (joined \ {n}) : info' = CachesAfter(n, reached, leader = n)
  /\ UNCHANGED <<up, hung, joined, life, restarts, leader, wasLeader, pool, refreshVars>>

MeowListsPeers(n, reached) ==   \* mutant: a node does not list itself
  IF n \in joined THEN [PeerInfo(n, reached) EXCEPT ![n] = None] ELSE Nothing

MeowMarksLikeItself(n, reached) ==   \* mutant: a peer gets the flag of the node that asks
  IF n \in joined
    THEN [m \in Nodes |-> IF m = n \/ m \in reached THEN OwnInfo(n) ELSE info[n][m]]
    ELSE Nothing

\* Meow lists the members that node n has, or gets, an entry of.
Meow(n, reached) ==
  IF n \in joined THEN [PeerInfo(n, reached) EXCEPT ![n] = OwnInfo(n)] ELSE Nothing

AnswerMeow(n) ==
  \E reached \in SUBSET (joined \ {n}) :
    /\ resp' = Meow(n, reached)
    /\ info' = IF n \in joined THEN CachesAfter(n, reached, OwnInfo(n)) ELSE info

-----------------------------------------------------------------------------
(* establishConns.                                                         *)

\* getServerInfo asks the pooled connections one after the other, in any order,
\* and takes the first answer.
AskPooled(n) ==
  /\ step = "idle"
  /\ n \notin done /\ Working(n)
  /\ AnswerMeow(n)
  /\ step' = "update"
  /\ done' = {}
  /\ UNCHANGED <<nodeVars, pool, next, dialled>>

\* Three times the connection is dead, or its node does not answer in time.
AskPooledFails(n) ==
  /\ step = "idle"
  /\ n \notin done /\ pool[n] # None /\ ~Working(n)
  /\ done' = done \cup {n}
  /\ UNCHANGED <<nodeVars, info, pool, step, next, dialled, resp>>

\* None has answered: the initial addresses are next.
AskInit ==
  /\ step = "idle"
  /\ \A n \in Nodes : pool[n] # None => n \in done
  /\ step' = "dial"
  /\ done' = {}
  /\ next' = 1
  /\ resp' = None
  /\ UNCHANGED <<nodeVars, info, pool, dialled>>

\* The next address is dialled, and its node accepts.  What an earlier one has
\* answered counts no more: the answer of this one takes its place, or its error.
Dial ==
  /\ step = "dial"
  /\ next <= Len(InitAddrs)
  /\ InitAddrs[next] \in up
  /\ step' = "ask"
  /\ dialled' = life[InitAddrs[next]]
  /\ resp' = None
  /\ UNCHANGED <<nodeVars, info, pool, done, next>>

DialFailsTwice ==   \* mutant: an address that fails takes the next one with it
  /\ step = "dial"
  /\ next <= Len(InitAddrs)
  /\ InitAddrs[next] \notin up \ hung
  /\ next' = next + 2
  /\ resp' = None
  /\ UNCHANGED <<nodeVars, info, pool, step, done, dialled>>

DialFailsEndsSearch ==   \* mutant: an address that fails ends the search like one that hangs
  /\ step = "dial"
  /\ next <= Len(InitAddrs)
  /\ InitAddrs[next] \notin up \ hung
  /\ step' = "idle"
  /\ next' = 1
  /\ resp' = None
  /\ UNCHANGED <<nodeVars, info, pool, done, dialled>>

\* The node is down, or does not even accept in time: the address after it is next,
\* and if there is none, this error is what getServerInfo returns.
DialFails ==
  /\ step = "dial"
  /\ next <= Len(InitAddrs)
  /\ InitAddrs[next] \notin up \ hung
  /\ next' = next + 1
  /\ resp' = None
  /\ UNCHANGED <<nodeVars, info, pool, step, done, dialled>>

\* The node that was dialled is asked.  Its connection goes to the pool, in the
\* place of the one that was there, and the next address is dialled all the same.
AskDialled ==
  /\ step = "ask"
  /\ LET n == InitAddrs[next]
     IN  /\ n \in up \ hung
         /\ dialled = life[n]
         /\ AnswerMeow(n)
         /\ pool' = [pool EXCEPT ![n] = [life |-> dialled, leader |-> FALSE]]
  /\ step' = "dial"
  /\ next' = next + 1
  /\ dialled' = None
  /\ UNCHANGED <<nodeVars, done>>

\* It is dead, or does not answer in time: that is the end of the search, and no
\* address after it is dialled.
AskDialledFails ==
  /\ step = "ask"
  /\ LET n == InitAddrs[next] IN ~(n \in up \ hung /\ dialled = life[n])
  /\ step' = "idle"
  /\ dialled' = None
  /\ next' = 1
  /\ resp' = None
  /\ UNCHANGED <<nodeVars, info, pool, done>>

\* All addresses were tried; establishConns goes on if the last one answered.
DialledAll ==
  /\ step = "dial"
  /\ next > Len(InitAddrs)
  /\ step' = IF resp = None THEN "idle" ELSE "update"
  /\ next' = 1
  /\ UNCHANGED <<nodeVars, info, pool, done, dialled, resp>>

\* A node of the answer: the flags of its connection are set, or it is dialled,
\* which may fail as above.
UpdateNode(n) ==
  /\ step = "update"
  /\ resp[n] # None /\ n \notin done
  /\ done' = done \cup {n}
  /\ \/ /\ pool[n] # None
        /\ pool' = [pool EXCEPT ![n].leader = resp[n]]
     \/ /\ pool[n] = None /\ n \in up
        /\ pool' = [pool EXCEPT ![n] = [life |-> life[n], leader |-> resp[n]]]
     \/ /\ pool[n] = None /\ n \notin up \ hung
        /\ UNCHANGED pool
  /\ UNCHANGED <<nodeVars, info, step, next, dialled, resp>>

\* Then the connections to nodes that are not in the answer are removed.
RemoveZombies ==
  /\ step = "update"
  /\ \A n \in Nodes : resp[n] # None => n \in done
  /\ pool' = [n \in Nodes |-> IF resp[n] = None THEN None ELSE pool[n]]
  /\ step' = "idle"
  /\ done' = {}
  /\ resp' = None
  /\ UNCHANGED <<nodeVars, info, next, dialled>>

Refresh ==
  \/ \E n \in Nodes : AskPooled(n) \/ AskPooledFails(n) \/ UpdateNode(n)
  \/ AskInit \/ Dial \/ DialFails \/ AskDialled \/ AskDialledFails \/ DialledAll
  \/ RemoveZombies

-----------------------------------------------------------------------------

Next ==
  \/ \E n \in Nodes :
       \/ Start(n) \/ Join(n) \/ Elect(n) \/ Crash(n) \/ Hang(n) \/ Recover(n)
       \/ GetNodeInfo(n) \/ BecomeReady(n)
  \/ Refresh

Spec == Init /\ [][Next]_vars

\* checkConns calls establishConns again and again, and each of its steps has a
\* time limit; a raft node that runs gets to know its members.  Nothing starts a
\* node, elects a leader, makes a node ready or ends its hanging.
FairSpec == Spec /\ WF_vars(Refresh) /\ \A n \in Nodes : WF_vars(Join(n))

-----------------------------------------------------------------------------
(* Properties.                                                             *)

Flags == BOOLEAN \cup {None}

\* The variables have their types, and no connection is newer than its node.
TypeOK ==
  /\ up \in SUBSET Nodes
  /\ hung \in SUBSET up
  /\ joined \in SUBSET up
  /\ ready \in SUBSET joined
  /\ life \in [Nodes -> Lives]
  /\ leader \in joined \cup {None}
  /\ info \in [Nodes -> [Nodes -> Flags]]
  /\ pool \in [Nodes -> Conn \cup {None}]
  /\ \A n \in Nodes : pool[n] # None => pool[n].life <= life[n]
  /\ step \in {"idle", "dial", "ask", "update"}
  /\ done \in SUBSET Nodes
  /\ next \in 1 .. Len(InitAddrs) + 1
  /\ dialled \in Lives \cup {None}
  /\ resp \in [Nodes -> Flags] \cup {None}
  /\ wasLeader \in SUBSET Nodes
  /\ restarts \in Lives

\* Through the cache of a node, the caches of its peers and the flags of the
\* client, a node that is marked leader has been leader, if long ago.
MarkedWasLeader == \A n \in Nodes : pool[n] # None /\ pool[n].leader => n \in wasLeader

\* The connections to nodes that an answer does not list are removed, and a peer
\* that is slow is not listed; but the pool is emptied only by the answer of a
\* node that lists nobody.
EmptiedByEmptyAnswer ==
  [][pool # Nothing /\ pool' = Nothing => resp = Nothing]_vars

\* The i-th initial address is that of a node that answers, and no node that
\* hangs has an address before it.
Reachable(i) ==
  /\ InitAddrs[i] \in up \ hung
  /\ \A j \in 1 .. i - 1 : InitAddrs[j] \notin hung

\* A client whose connections are dead or hang gets one to a node that runs, and
\* again and again one that is answered, as long as the search gets to an initial
\* address of a node that answers.  A node that hangs may have an address after
\* it; one before it ends every search (AskDialledFails), for as long as it hangs.
ClientReconnects ==
  \A i \in DOMAIN InitAddrs :
    <>[]Reachable(i) =>
      /\ <>[](\E n \in Nodes : Live(n))
      /\ []<>(\E n \in Nodes : Working(n))

=============================================================================
