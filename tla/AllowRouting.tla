---------------------------- MODULE AllowRouting ----------------------------
(***************************************************************************)
(* The Allow command, from TCPClient.Allow to the limiter that decides it  *)
(* and back (client/client.go, internal/cmd/cmd_allow.go), and beside it   *)
(* RegisterTokenBucket, which binds resources too.  Each node looks the    *)
(* resource up in its own store; where the store names another node the    *)
(* command is forwarded there and looked up again.  A client that gets the *)
(* answer of a forwarded command binds the resource to the node the answer *)
(* names and sends the command once more.                                  *)
(*                                                                         *)
(* A connection takes one call at a time, which reads the first answer     *)
(* there is: an answer that comes after its call has given up is read by   *)
(* the next one, whatever that has asked.  The two kinds of answers have   *)
(* the same field for the node.  CommandStream has the bytes; here an      *)
(* answer is whole.  Answers are not in any order, as workers write them.  *)
(*                                                                         *)
(* The stores are those of ResourceRegistry: states of one history, each   *)
(* node at a position of its own.  Every node has its own copy of every    *)
(* limiter; only the copy of the node the resource belongs to is spent.  A *)
(* call asks for one token, and no time passes that would fill a bucket.   *)
(***************************************************************************)
EXTENDS ResourceStore, Naturals, Sequences, FiniteSets

CONSTANTS
  Calls,        \* the calls on the client, each made once
  Commands,     \* bound: of the commands and answers there are at once, each has a place
  Burst,        \* burst
  MaxFaults     \* bound: how often a node may crash or restore a snapshot

\* A command as a node gets it, and the call that has sent it.
Command == [call : Calls, op : {"Allow", "RegRes"}, name : Names]

\* AllowCmdResp and RegResCmdResp, as either is decoded: redirected and ok are
\* not fields of the second, and false when it is read.
Message == [redirected : BOOLEAN, ok : BOOLEAN, node : Nodes]

\* An answer that is on the connection to a node: a message, or an error.
AnswerOn == [on : Nodes, msg : Message \cup {None}]

Held == [node : Nodes, limiter : Requests, copy : Nat \ {0}]

ASSUME RoutingAssumption ==
  /\ Burst \in Nat \ {0}
  /\ MaxFaults \in Nat
  /\ None \notin Command \cup Message \cup AnswerOn

VARIABLES
  history,      \* every state of the registry
  position,     \* how far in it each node is
  shown,        \* the store of each node
  up,           \* the nodes that run
  copies,       \* of a limiter on a node: the tokens of each copy it has had, the last in its store
  faults,       \* crashes and restored snapshots so far
  \* the client
  pc,           \* of a call: "new", the command it waits for the answer of, "redirected" or
                \* "placed" before it binds, "retry", or how it ended
  asked,        \* the resource a call is about
  at,           \* the node over whose connection it was last sent
  to,           \* the node that it will bind the resource to
  bound,        \* resPool: the node whose connection a resource is bound to
  \* the commands on the nodes and the answers
  cmd,          \* the command in a place
  from,         \* the node over whose connection its answer will go, None when it has or cannot
  answer,       \* its answer, until it is read
  here,         \* the node that handles it, None when it is done
  via,          \* the nodes that have forwarded it
  held,         \* what GetResource returned to the handler
  told,         \* the node the first of them saw, and forwarded it to
  \* history, for the properties only
  retries,      \* how often a call was redirected
  charged,      \* the tokens a call has taken
  granted,      \* the tokens taken from a limiter
  givenUp,      \* a read was given up
  settled       \* the call was made in a quiet cluster, and nothing has changed since

registryVars == <<history, position, shown>>
clusterVars  == <<registryVars, up, faults>>
clientVars   == <<pc, asked, at, to, bound, retries, givenUp>>
handlerVars  == <<cmd, from, answer, here, via, held, told>>
vars == <<clusterVars, copies, clientVars, handlerVars, charged, granted, settled>>

Registry == INSTANCE ResourceRegistry WITH Empty <- EmptyRegistry

Init ==
  /\ Registry!Init
  /\ up = Nodes
  /\ copies = [n \in Nodes |-> [l \in Requests |-> <<>>]]
  /\ faults = 0
  /\ pc = [c \in Calls |-> "new"]
  /\ asked = [c \in Calls |-> None]
  /\ at = [c \in Calls |-> None]
  /\ to = [c \in Calls |-> None]
  /\ bound = [name \in Names |-> None]
  /\ cmd = [k \in Commands |-> None]
  /\ from = [k \in Commands |-> None]
  /\ answer = [k \in Commands |-> None]
  /\ here = [k \in Commands |-> None]
  /\ via = [k \in Commands |-> {}]
  /\ held = [k \in Commands |-> None]
  /\ told = [k \in Commands |-> None]
  /\ retries = [c \in Calls |-> 0]
  /\ charged = [c \in Calls |-> 0]
  /\ granted = [l \in Requests |-> 0]
  /\ givenUp = FALSE
  /\ settled = [c \in Calls |-> FALSE]

Latest == history[Len(history)]

\* The cluster or a connection changes: no call can count on it any more.
Unsettle == settled' = [c \in Calls |-> FALSE]

\* A call waits for an answer.
Waiting(c) == pc[c] \in {"Allow", "RegRes"}

\* The answers that can be read over the connection to n.
Unread(n) == {k \in Commands : answer[k] # None /\ answer[k].on = n}

\* A command that no node handles and whose answer is not to come leaves its place.
Clear ==
  cmd' = [k \in Commands |->
            IF here'[k] = None /\ from'[k] = None /\ answer'[k] = None THEN None ELSE cmd[k]]

-----------------------------------------------------------------------------
(* The registry.                                                           *)

\* The registration q of a resource for node n is committed.
Register(q, n, name) ==
  /\ \A i \in 1 .. Len(history), other \in Names :
       history[i][other] # None => history[i][other].limiter # q
  /\ Registry!Change(name)
  /\ Latest'[name] = [node |-> n, limiter |-> q]
  /\ Unsettle
  /\ UNCHANGED <<up, faults, copies, clientVars, handlerVars, charged, granted>>

ApplyKeepsKnown(n) ==   \* mutant: a name that the node knows is not put again
  /\ n \in up
  /\ position[n] < Len(history)
  /\ position' = [position EXCEPT ![n] = @ + 1]
  /\ shown' = [shown EXCEPT ![n] =
       [name \in Names |-> IF @[name] = None THEN history[position[n] + 1][name] ELSE @[name]]]
  /\ copies' = [copies EXCEPT ![n] =
       [l \in Requests |->
          IF \E name \in Names : shown'[n][name] # shown[n][name] /\ shown'[n][name].limiter = l
            THEN Append(@[l], Burst) ELSE @[l]]]
  /\ Unsettle
  /\ UNCHANGED <<history, up, faults, clientVars, handlerVars, charged, granted>>

\* Apply: the next entry puts a resource, with a limiter as it was made.
ApplyNext(n) ==
  /\ n \in up
  /\ Registry!Follow(n)
  /\ position'[n] = position[n] + 1
  /\ copies' = [copies EXCEPT ![n] =
       [l \in Requests |->
          IF \E name \in Names : shown'[n][name] # shown[n][name] /\ shown'[n][name].limiter = l
            THEN Append(@[l], Burst) ELSE @[l]]]
  /\ Unsettle
  /\ UNCHANGED <<up, faults, clientVars, handlerVars, charged, granted>>

\* Restore, of another node's snapshot or of its own: every resource is put
\* again, with a limiter as its copy was when and where the snapshot was taken.
Restore(n) ==
  /\ n \in up
  /\ faults < MaxFaults
  /\ faults' = faults + 1
  /\ Registry!Follow(n)
  /\ position'[n] > position[n]
  /\ \E level \in [Requests -> 0 .. Burst] :
       copies' = [copies EXCEPT ![n] =
         [l \in Requests |->
            IF \E name \in Names : shown'[n][name] # None /\ shown'[n][name].limiter = l
              THEN Append(@[l], level[l]) ELSE @[l]]]
  /\ Unsettle
  /\ UNCHANGED <<up, clientVars, handlerVars, charged, granted>>

\* A node dies, with its connection and the commands it handles; a node that waits
\* for it, or for one that waits for it, answers with an error.  What it has
\* forwarded goes on: AllowPbCmd does not look at its context.
Crash(n) ==
  /\ n \in up
  /\ faults < MaxFaults
  /\ faults' = faults + 1
  /\ up' = up \ {n}
  /\ Registry!Forget(n)
  /\ LET broken == {c \in Calls : Waiting(c) /\ at[c] = n}
     IN  /\ pc' = [c \in Calls |-> IF c \in broken THEN "error" ELSE pc[c]]
         /\ at' = [c \in Calls |-> IF c \in broken THEN None ELSE at[c]]
  /\ LET failed == {k \in Commands : from[k] \notin {None, n} /\ n \in via[k] \cup {here[k]}}
     IN  /\ from' = [k \in Commands |-> IF from[k] = n \/ k \in failed THEN None ELSE from[k]]
         /\ answer' = [k \in Commands |->
                         IF k \in failed THEN [on |-> from[k], msg |-> None]
                         ELSE IF k \in Unread(n) THEN None ELSE answer[k]]
  /\ LET dead == {k \in Commands : here[k] = n}
     IN  /\ here' = [k \in Commands |-> IF k \in dead THEN None ELSE here[k]]
         /\ held' = [k \in Commands |-> IF k \in dead THEN None ELSE held[k]]
         /\ told' = [k \in Commands |-> IF k \in dead THEN None ELSE told[k]]
         /\ via'  = [k \in Commands |-> IF k \in dead THEN {} ELSE via[k]]
  /\ Clear
  /\ Unsettle
  /\ UNCHANGED <<copies, asked, to, bound, retries, charged, granted, givenUp>>

Restart(n) ==
  /\ n \notin up
  /\ up' = up \cup {n}
  /\ Unsettle
  /\ UNCHANGED <<registryVars, faults, copies, clientVars, handlerVars, charged, granted>>

-----------------------------------------------------------------------------
(* The client.                                                             *)

\* getLeaderConn: the leader, by what the client knows, which may be old, and
\* any node where it knows of none.
LeaderConn == Nodes

\* getResourceConn: the node the resource is bound to, or the leader.
MaySendTo(name, n) == IF bound[name] = None THEN n \in LeaderConn ELSE n = bound[name]

Open(c) == Waiting(c) \/ pc[c] \in {"redirected", "placed", "retry"}

\* The nodes that run agree, and every call that is open, and every command whose
\* answer is to come or to be read, was made since they do.
Quiet ==
  /\ \A n \in up : position[n] = Len(history)
  /\ \A c \in Calls : Open(c) => settled[c]
  /\ \A k \in Commands : from[k] # None \/ answer[k] # None => settled[cmd[k].call]

\* SendCmd gets the mutex of the connection to n, and writes the command.
SendCmd(c, n, op, name) ==
  /\ n \in up
  /\ \A d \in Calls : Waiting(d) => at[d] # n
  /\ pc' = [pc EXCEPT ![c] = op]
  /\ asked' = [asked EXCEPT ![c] = name]
  /\ at' = [at EXCEPT ![c] = n]
  /\ \E k \in Commands :
       /\ cmd[k] = None
       /\ cmd' = [cmd EXCEPT ![k] = [call |-> c, op |-> op, name |-> name]]
       /\ from' = [from EXCEPT ![k] = n]
       /\ here' = [here EXCEPT ![k] = n]
  /\ UNCHANGED <<clusterVars, copies, to, bound, retries, givenUp, answer, via, held, told,
                 charged, granted>>

Allow(c, n, name) ==
  /\ \/ pc[c] = "new" /\ settled' = [settled EXCEPT ![c] = Quiet]
     \/ pc[c] = "retry" /\ asked[c] = name /\ UNCHANGED settled
  /\ MaySendTo(name, n)
  /\ SendCmd(c, n, "Allow", name)

RegisterTokenBucket(c, n, name) ==
  /\ pc[c] = "new"
  /\ settled' = [settled EXCEPT ![c] = Quiet]
  /\ n \in LeaderConn
  /\ SendCmd(c, n, "RegRes", name)

\* A call returns.
Return(c, result) ==
  /\ pc' = [pc EXCEPT ![c] = result]
  /\ at' = [at EXCEPT ![c] = None]
  /\ to' = [to EXCEPT ![c] = None]

\* The node does not run, its connection has broken, or the pool has none to it.
SendFails(c) ==
  /\ pc[c] \in {"new", "retry"}
  /\ Return(c, "error")
  /\ settled' = [settled EXCEPT ![c] = FALSE]
  /\ UNCHANGED <<clusterVars, copies, asked, bound, retries, givenUp, handlerVars, charged, granted>>

\* The second that SetDeadline gives is over, or a part of an answer is read, or
\* what such a read has left.  The nodes go on, and the connection stays.
TimeOut(c) ==
  /\ Waiting(c)
  /\ \E lost \in SUBSET Unread(at[c]) :
       answer' = [k \in Commands |-> IF k \in lost THEN None ELSE answer[k]]
  /\ Return(c, "error")
  /\ givenUp' = TRUE
  /\ Unsettle
  /\ UNCHANGED <<from, here>>
  /\ Clear
  /\ UNCHANGED <<clusterVars, copies, asked, bound, retries, via, held, told, charged, granted>>

\* An answer there is on the connection is read, and it is taken for the call's own.
Read(c, k, result, node) ==
  /\ answer' = [answer EXCEPT ![k] = None]
  /\ pc' = [pc EXCEPT ![c] = result]
  /\ at' = IF node = None THEN [at EXCEPT ![c] = None] ELSE at
  /\ to' = [to EXCEPT ![c] = node]
  /\ settled' = IF node = None THEN [settled EXCEPT ![c] = FALSE] ELSE settled
  /\ UNCHANGED <<from, here>>
  /\ Clear
  /\ UNCHANGED <<clusterVars, copies, asked, bound, retries, givenUp, via, held, told,
                 charged, granted>>

\* Allow returns, or has to bind the resource to another node.
ReadAllow(c, k) ==
  /\ pc[c] = "Allow"
  /\ k \in Unread(at[c])
  /\ LET m == answer[k].msg
     IN  \/ m = None /\ Read(c, k, "error", None)
         \/ m # None /\ ~m.redirected /\ Read(c, k, IF m.ok THEN "ok" ELSE "refused", None)
         \/ m # None /\ m.redirected /\ Read(c, k, "redirected", m.node)

\* RegisterTokenBucket likewise: a resource that is not of the node it has asked
\* is bound to its node.
ReadRegRes(c, k) ==
  /\ pc[c] = "RegRes"
  /\ k \in Unread(at[c])
  /\ LET m == answer[k].msg
     IN  \/ m = None /\ Read(c, k, "error", None)
         \/ m # None /\ m.node = at[c] /\ Read(c, k, "registered", None)
         \/ m # None /\ m.node # at[c] /\ Read(c, k, "placed", m.node)

BindToAsked(c) ==   \* mutant: the resource is bound to the node that answered
  /\ pc[c] \in {"redirected", "placed"}
  /\ bound' = [bound EXCEPT ![asked[c]] = at[c]]
  /\ IF pc[c] = "redirected"
       THEN /\ retries' = [retries EXCEPT ![c] = @ + 1]
            /\ Return(c, "retry")
            /\ UNCHANGED settled
       ELSE /\ Return(c, "registered")
            /\ settled' = [settled EXCEPT ![c] = FALSE]
            /\ UNCHANGED retries
  /\ UNCHANGED <<clusterVars, copies, asked, givenUp, handlerVars, charged, granted>>

\* bindResourceConn, some time after the answer was read: RegisterTokenBucket
\* returns, Allow calls itself.
Bind(c) ==
  /\ pc[c] \in {"redirected", "placed"}
  /\ bound' = [bound EXCEPT ![asked[c]] = to[c]]
  /\ IF pc[c] = "redirected"
       THEN /\ retries' = [retries EXCEPT ![c] = @ + 1]
            /\ Return(c, "retry")
            /\ UNCHANGED settled
       ELSE /\ Return(c, "registered")
            /\ settled' = [settled EXCEPT ![c] = FALSE]
            /\ UNCHANGED retries
  /\ UNCHANGED <<clusterVars, copies, asked, givenUp, handlerVars, charged, granted>>

\* The pool has no connection to the node of the answer.
BindFails(c) ==
  /\ pc[c] \in {"redirected", "placed"}
  /\ Return(c, "error")
  /\ settled' = [settled EXCEPT ![c] = FALSE]
  /\ UNCHANGED <<clusterVars, copies, asked, bound, retries, givenUp, handlerVars, charged, granted>>

-----------------------------------------------------------------------------
(* The commands on the nodes.                                              *)

\* The last handler is done, and the answer goes back along the handlers that
\* wait for it, if the connection is still there, and there it stays until it is
\* read.
Answer(k, msg) ==
  /\ answer' = IF from[k] # None THEN [answer EXCEPT ![k] = [on |-> from[k], msg |-> msg]] ELSE answer
  /\ from' = [from EXCEPT ![k] = None]
  /\ here' = [here EXCEPT ![k] = None]
  /\ held' = [held EXCEPT ![k] = None]
  /\ told' = [told EXCEPT ![k] = None]
  /\ via' = [via EXCEPT ![k] = {}]
  /\ Clear

DecidedAnywhere(k, ok) ==   \* mutant: the answer is marked redirected, forwarded or not
  [redirected |-> TRUE, ok |-> ok, node |-> IF told[k] = None THEN here[k] ELSE told[k]]

\* The answer of an owner: that of a forwarded command is marked redirected, with
\* the node the first handler saw.
Decided(k, ok) ==
  [redirected |-> told[k] # None, ok |-> ok,
   node |-> IF told[k] = None THEN here[k] ELSE told[k]]

\* GetResource: the resource as the store has it now, and this copy of its
\* limiter, whatever becomes of the store before the handler goes on.
Lookup(k) ==
  /\ here[k] # None
  /\ cmd[k].op = "Allow"
  /\ held[k] = None
  /\ LET n == here[k]
         r == shown[n][cmd[k].name]
     IN  IF r = None
           THEN Answer(k, None)
           ELSE /\ held' = [held EXCEPT ![k] =
                              [node |-> r.node, limiter |-> r.limiter,
                               copy |-> Len(copies[n][r.limiter])]]
                /\ UNCHANGED <<cmd, from, here, via, told, answer>>
  /\ UNCHANGED <<clusterVars, copies, clientVars, charged, granted, settled>>

DecideAnywhere(k) ==   \* mutant: AtSameNode is not asked
  /\ here[k] # None
  /\ held[k] # None
  /\ LET n == here[k]
         h == held[k]
     IN  IF copies[n][h.limiter][h.copy] > 0
           THEN /\ copies' = [copies EXCEPT ![n][h.limiter][h.copy] = @ - 1]
                /\ charged' = [charged EXCEPT ![cmd[k].call] = @ + 1]
                /\ granted' = [granted EXCEPT ![h.limiter] = @ + 1]
                /\ Answer(k, Decided(k, TRUE))
           ELSE Answer(k, Decided(k, FALSE)) /\ UNCHANGED <<copies, charged, granted>>
  /\ UNCHANGED <<clusterVars, clientVars, settled>>

\* The resource is this node's: its limiter decides.
Decide(k) ==
  /\ here[k] # None
  /\ held[k] # None
  /\ held[k].node = here[k]
  /\ LET n == here[k]
         h == held[k]
     IN  IF copies[n][h.limiter][h.copy] > 0
           THEN /\ copies' = [copies EXCEPT ![n][h.limiter][h.copy] = @ - 1]
                /\ charged' = [charged EXCEPT ![cmd[k].call] = @ + 1]
                /\ granted' = [granted EXCEPT ![h.limiter] = @ + 1]
                /\ Answer(k, Decided(k, TRUE))
           ELSE Answer(k, Decided(k, FALSE)) /\ UNCHANGED <<copies, charged, granted>>
  /\ UNCHANGED <<clusterVars, clientVars, settled>>

ForwardToAny(k) ==   \* mutant: a node that does not run is sent the command
  /\ here[k] # None
  /\ held[k] # None
  /\ held[k].node # here[k]
  /\ here' = [here EXCEPT ![k] = held[k].node]
  /\ via' = [via EXCEPT ![k] = @ \cup {here[k]}]
  /\ told' = IF told[k] = None THEN [told EXCEPT ![k] = held[k].node] ELSE told
  /\ held' = [held EXCEPT ![k] = None]
  /\ UNCHANGED <<clusterVars, copies, clientVars, cmd, from, answer, charged, granted, settled>>

\* ForwardAllowCmd: the node of the resource handles the command, if it runs.
Forward(k) ==
  /\ here[k] # None
  /\ held[k] # None
  /\ held[k].node # here[k]
  /\ IF held[k].node \in up
       THEN /\ here' = [here EXCEPT ![k] = held[k].node]
            /\ via' = [via EXCEPT ![k] = @ \cup {here[k]}]
            /\ told' = IF told[k] = None THEN [told EXCEPT ![k] = held[k].node] ELSE told
            /\ held' = [held EXCEPT ![k] = None]
            /\ UNCHANGED <<cmd, from, answer>>
       ELSE Answer(k, None)
  /\ UNCHANGED <<clusterVars, copies, clientVars, charged, granted, settled>>

\* RegisterResourcePbCmd: the node of the resource as the store has it, or this
\* node, which LightestNode is, when an entry that puts it here was applied; or
\* an error.
RegisterResource(k) ==
  /\ here[k] # None
  /\ cmd[k].op = "RegRes"
  /\ LET n == here[k]
         Placed(node) == [redirected |-> FALSE, ok |-> FALSE, node |-> node]
         Known(registry) == registry[cmd[k].name] # None
     IN  \/ Known(shown[n]) /\ Answer(k, Placed(shown[n][cmd[k].name].node))
         \/ /\ \E i \in 1 .. position[n] :
                 Known(history[i]) /\ history[i][cmd[k].name].node = n
            /\ Answer(k, Placed(n))
         \/ Answer(k, None)
  /\ UNCHANGED <<clusterVars, copies, clientVars, charged, granted, settled>>

Handle(k) == Lookup(k) \/ Decide(k) \/ Forward(k) \/ RegisterResource(k)

-----------------------------------------------------------------------------

Next ==
  \/ \E n \in Nodes :
       \/ \E name \in Names :
            \/ \E q \in Requests : Register(q, n, name)
            \/ \E c \in Calls : Allow(c, n, name) \/ RegisterTokenBucket(c, n, name)
       \/ ApplyNext(n) \/ Restore(n) \/ Crash(n) \/ Restart(n)
  \/ \E c \in Calls :
       \/ SendFails(c) \/ TimeOut(c) \/ Bind(c) \/ BindFails(c)
       \/ \E k \in Commands : ReadAllow(c, k) \/ ReadRegRes(c, k)
  \/ \E k \in Commands : Handle(k)

Spec == Init /\ [][Next]_vars

Majority == 2 * Cardinality(up) > Cardinality(Nodes)

Deliver(n) == Majority /\ ApplyNext(n)

\* Several nodes run, and no majority.
Stranded == Cardinality(up) > 1 /\ ~Majority

\* A handler that can go on does, and while a majority runs, which elects a leader,
\* raft keeps delivering the log to a node that runs.  Nothing makes a client call
\* or read, and nothing restarts a node.
FairSpec ==
  /\ Spec
  /\ \A k \in Commands : WF_vars(Handle(k))
  /\ \A n \in Nodes : WF_vars(Deliver(n))

-----------------------------------------------------------------------------
(* Properties.                                                             *)

CallStates == {"new", "Allow", "RegRes", "redirected", "placed", "retry",
               "ok", "refused", "registered", "error"}

\* The variables have their types, a node shows what the history says it has
\* reached, and a handler that runs, runs on a node that does.
TypeOK ==
  /\ history \in Seq(Registries)
  /\ position \in [Nodes -> 1 .. Len(history)]
  /\ \A n \in Nodes : shown[n] = history[position[n]]
  /\ up \in SUBSET Nodes
  /\ copies \in [Nodes -> [Requests -> Seq(0 .. Burst)]]
  /\ faults \in 0 .. MaxFaults
  /\ pc \in [Calls -> CallStates]
  /\ asked \in [Calls -> Names \cup {None}]
  /\ at \in [Calls -> Nodes \cup {None}]
  /\ to \in [Calls -> Nodes \cup {None}]
  /\ bound \in [Names -> Nodes \cup {None}]
  /\ cmd \in [Commands -> Command \cup {None}]
  /\ from \in [Commands -> Nodes \cup {None}]
  /\ answer \in [Commands -> AnswerOn \cup {None}]
  /\ here \in [Commands -> up \cup {None}]
  /\ via \in [Commands -> SUBSET Nodes]
  /\ held \in [Commands -> Held \cup {None}]
  /\ told \in [Commands -> Nodes \cup {None}]
  /\ retries \in [Calls -> Nat]
  /\ charged \in [Calls -> Nat]
  /\ granted \in [Requests -> Nat]
  /\ givenUp \in BOOLEAN
  /\ settled \in [Calls -> BOOLEAN]

\* What the node that a limiter was registered for has had of it.
OwnerCopies(l) ==
  {copies[n][l] : n \in {m \in Nodes :
     \E i \in 1 .. Len(history), name \in Names : history[i][name] = [node |-> m, limiter |-> l]}}

\* Wherever the calls for a limiter arrive, and however they are forwarded
\* between stores that disagree, all of them together get one burst for each
\* copy of it that its owner has had: a new one comes only with an entry that
\* is applied again or a snapshot.
OneBurstPerCopy ==
  \A l \in Requests :
    granted[l] > 0 => \E owned \in OwnerCopies(l) : granted[l] <= Burst * Len(owned)

\* Node n has been the owner of the resource.
Owned(n, name) ==
  \E i \in 1 .. Len(history) : history[i][name] # None /\ history[i][name].node = n

\* A resource is bound to a node that has been its owner, never to one that only
\* forwarded, as long as no read was given up; from then on, when a call may take
\* another's answer for its own, to one that has been the owner of some resource.
BoundWasOwner ==
  \A name \in Names :
    bound[name] # None =>
      \E other \in Names : Owned(bound[name], other) /\ (other = name \/ givenUp)

\* While the nodes agree, no older call is open that binds the resource to an
\* older owner, and no older answer is to come or left on a connection, a command
\* is forwarded at most once and a call sent again at most once, wherever its
\* resource was bound before.
SettledCallsAreShort ==
  /\ \A c \in Calls : settled[c] => retries[c] <= 1
  /\ \A k \in Commands :
       cmd[k] # None /\ settled[cmd[k].call] => Cardinality(via[k]) <= 1

\* Nodes whose stores disagree may send a command back and forth, and no
\* deadline stops them; but it ends, as they come to agree, or when only some
\* nodes are left that are no majority, and these may be more than one.
HandlersEnd ==
  <>[]Stranded \/ \A k \in Commands : []<>(here[k] = None)

-----------------------------------------------------------------------------
(* What the tests say, and the code does not do.                           *)

\* client_test.go:77-91: Allow("test", burst+1) is refused, and a whole burst
\* is there after it: a call that is refused takes nothing.
RefusedIsFree ==
  \A c \in Calls : pc[c] = "refused" => charged[c] = 0

=============================================================================
