--------------------------- MODULE DiscoveryProofs ---------------------------
(***************************************************************************)
(* Proofs about Discovery, for any number of nodes, initial addresses      *)
(* and restarts.                                                           *)
(***************************************************************************)
EXTENDS Discovery, TLAPS

USE PoolAssumption

-----------------------------------------------------------------------------
(* The inductive invariant: who is marked leader, in a cache, an answer or *)
(* the pool, has been leader; and the answer that establishConns goes on   *)
(* with is that of a node the pool has a connection to, which lists itself *)
(* if it lists anybody.                                                    *)

NodeInv ==
  /\ up \in SUBSET Nodes
  /\ hung \in SUBSET up
  /\ joined \in SUBSET up
  /\ ready \in SUBSET joined
  /\ life \in [Nodes -> Lives]
  /\ restarts \in Lives
  /\ \A n \in Nodes : life[n] <= restarts
  /\ leader \in joined \cup {None}
  /\ wasLeader \in SUBSET Nodes
  /\ leader # None => leader \in wasLeader

\* Flags of nodes, of which those that are TRUE are those of former leaders.
Truthful(flags) ==
  /\ flags \in [Nodes -> Flags]
  /\ \A m \in Nodes : flags[m] # None /\ flags[m] = TRUE => m \in wasLeader

InfoInv == info \in [Nodes -> [Nodes -> Flags]] /\ \A n \in Nodes : Truthful(info[n])

PoolInv ==
  /\ pool \in [Nodes -> Conn \cup {None}]
  /\ \A n \in Nodes : pool[n] # None => pool[n].life <= life[n]
  /\ \A n \in Nodes : pool[n] # None /\ pool[n].leader = TRUE => n \in wasLeader

\* The node that was asked last is listed, and has its connection in the pool.
Answered ==
  /\ Truthful(resp)
  /\ resp # Nothing => \E n \in Nodes : resp[n] # None /\ pool[n] # None

RefreshInv ==
  /\ step \in {"idle", "dial", "ask", "update"}
  /\ done \in SUBSET Nodes
  /\ next \in 1 .. Len(InitAddrs) + 1
  /\ dialled \in Lives \cup {None}
  /\ resp \in [Nodes -> Flags] \cup {None}
  /\ step = "update" => Answered
  /\ step = "dial" /\ resp # None => Answered
  /\ step = "ask" => next <= Len(InitAddrs)

DiscoveryInv == NodeInv /\ InfoInv /\ PoolInv /\ RefreshInv

-----------------------------------------------------------------------------
(* What a step that leaves a part of the state alone keeps of it.          *)

LEMMA NodeKept == ASSUME NodeInv, UNCHANGED nodeVars PROVE NodeInv'
BY DEF NodeInv, nodeVars

LEMMA InfoKept ==
  ASSUME InfoInv, UNCHANGED info, wasLeader \subseteq wasLeader'
  PROVE  InfoInv'
BY DEF InfoInv, Truthful

LEMMA PoolKept ==
  ASSUME PoolInv, UNCHANGED pool, wasLeader \subseteq wasLeader',
         \A n \in Nodes : life[n] \in Nat /\ life'[n] \in Nat /\ life[n] <= life'[n]
  PROVE  PoolInv'
<1>1. ASSUME NEW n \in Nodes, pool[n] # None
      PROVE  pool[n].life <= life'[n]
  <2>1. pool[n] \in Conn
    BY <1>1 DEF PoolInv
  <2>2. pool[n].life \in Nat /\ pool[n].life <= life[n]
    BY <1>1, <2>1 DEF PoolInv, Conn, Lives
  <2>. QED
    BY <2>2
<1>. QED
  BY <1>1 DEF PoolInv

LEMMA RefreshKept ==
  ASSUME RefreshInv, UNCHANGED refreshVars, UNCHANGED pool, wasLeader \subseteq wasLeader'
  PROVE  RefreshInv'
<1>1. UNCHANGED <<step, done, next, dialled, resp>>
  BY DEF refreshVars
<1>2. Answered => Answered'
  BY <1>1 DEF Answered, Truthful
<1>. QED
  BY <1>1, <1>2 DEF RefreshInv

-----------------------------------------------------------------------------
(* What the nodes say.                                                     *)

LEMMA NothingTruthful == Truthful(Nothing) /\ \A n \in Nodes : Nothing[n] = None
BY DEF Truthful, Nothing, Flags

\* A node that makes its own entry sees whether it is the leader.
LEMMA OwnInfoTruthful ==
  ASSUME NodeInv, InfoInv, NEW n \in Nodes
  PROVE  /\ OwnInfo(n) \in Flags /\ OwnInfo(n) # None
         /\ OwnInfo(n) = TRUE => n \in wasLeader
<1>1. info[n][n] \in Flags
  BY DEF InfoInv
<1>2. CASE info[n][n] = None
  <2>1. OwnInfo(n) = (leader = n)
    BY <1>2 DEF OwnInfo
  <2>2. (leader = n) \in BOOLEAN
    OBVIOUS
  <2>3. leader = n => n \in wasLeader
    BY DEF NodeInv
  <2>. QED
    BY <2>1, <2>2, <2>3, Zenon DEF Flags
<1>3. CASE info[n][n] # None
  <2>1. OwnInfo(n) = info[n][n]
    BY <1>3 DEF OwnInfo
  <2>. QED
    BY <1>1, <1>3, <2>1 DEF InfoInv, Truthful
<1>. QED
  BY <1>2, <1>3

LEMMA PeerInfoTruthful ==
  ASSUME NodeInv, InfoInv, NEW n \in Nodes, NEW reached \in SUBSET Nodes
  PROVE  Truthful(PeerInfo(n, reached))
<1>. DEFINE flags == PeerInfo(n, reached)
<1>1. ASSUME NEW m \in Nodes
      PROVE  flags[m] \in Flags /\ (flags[m] # None /\ flags[m] = TRUE => m \in wasLeader)
  <2>1. CASE info[n][m] # None
    <3>1. flags[m] = info[n][m]
      BY <2>1 DEF PeerInfo
    <3>. QED
      BY <3>1 DEF InfoInv, Truthful
  <2>2. CASE info[n][m] = None /\ m \in reached
    <3>1. flags[m] = OwnInfo(m)
      BY <2>2 DEF PeerInfo
    <3>. QED
      BY <3>1, OwnInfoTruthful
  <2>3. CASE info[n][m] = None /\ m \notin reached
    <3>1. flags[m] = None
      BY <2>3 DEF PeerInfo
    <3>. QED
      BY <3>1 DEF Flags
  <2>. QED
    BY <2>1, <2>2, <2>3
<1>2. flags = [m \in Nodes |-> flags[m]]
  BY DEF PeerInfo
<1>. HIDE DEF flags
<1>3. flags \in [Nodes -> Flags]
  BY <1>1, <1>2
<1>4. Truthful(flags)
  BY <1>1, <1>3 DEF Truthful
<1>. QED
  BY <1>4 DEF flags

\* One flag is set anew.
LEMMA FlagSet ==
  ASSUME NEW flags, Truthful(flags), NEW n \in Nodes, NEW own \in Flags,
         own # None /\ own = TRUE => n \in wasLeader
  PROVE  Truthful([flags EXCEPT ![n] = own]) /\ [flags EXCEPT ![n] = own][n] = own
BY DEF Truthful

LEMMA MeowTruthful ==
  ASSUME NodeInv, InfoInv, NEW n \in Nodes, NEW reached \in SUBSET Nodes
  PROVE  /\ Truthful(Meow(n, reached))
         /\ Meow(n, reached) # Nothing => Meow(n, reached)[n] # None
<1>1. CASE n \in joined
  <2>1. Meow(n, reached) = [PeerInfo(n, reached) EXCEPT ![n] = OwnInfo(n)]
    BY <1>1 DEF Meow
  <2>. DEFINE flags == PeerInfo(n, reached)
              own == OwnInfo(n)
  <2>2. own \in Flags /\ own # None /\ (own = TRUE => n \in wasLeader)
    BY OwnInfoTruthful
  <2>3. Truthful(flags)
    BY PeerInfoTruthful
  <2>4. Meow(n, reached) = [flags EXCEPT ![n] = own]
    BY <2>1
  <2>. HIDE DEF flags, own
  <2>5. Truthful([flags EXCEPT ![n] = own]) /\ [flags EXCEPT ![n] = own][n] = own
    BY <2>2, <2>3, FlagSet
  <2>. QED
    BY <2>2, <2>4, <2>5
<1>2. CASE n \notin joined
  <2>1. Meow(n, reached) = Nothing
    BY <1>2 DEF Meow
  <2>. QED
    BY <2>1, NothingTruthful
<1>. QED
  BY <1>1, <1>2

LEMMA CachesTruthful ==
  ASSUME NodeInv, InfoInv, NEW n \in Nodes, NEW reached \in SUBSET Nodes,
         NEW own \in Flags, own # None /\ own = TRUE => n \in wasLeader,
         info' = CachesAfter(n, reached, own), UNCHANGED wasLeader
  PROVE  InfoInv'
<1>1. ASSUME NEW m \in Nodes
      PROVE  Truthful(info'[m])
  <2>1. CASE m = n
    <3>1. info'[m] = [PeerInfo(n, reached) EXCEPT ![n] = own]
      BY <2>1 DEF CachesAfter
    <3>. DEFINE flags == PeerInfo(n, reached)
    <3>2. Truthful(flags) /\ info'[m] = [flags EXCEPT ![n] = own]
      BY <3>1, PeerInfoTruthful
    <3>. HIDE DEF flags
    <3>3. Truthful([flags EXCEPT ![n] = own])
      BY <3>2, FlagSet
    <3>. QED
      BY <3>2, <3>3
  <2>2. CASE m # n /\ m \in reached /\ info[n][m] = None
    <3>1. info'[m] = [info[m] EXCEPT ![m] = OwnInfo(m)]
      BY <2>2 DEF CachesAfter
    <3>2. Truthful(info[m])
      BY DEF InfoInv
    <3>. DEFINE flags == info[m]
                flag == OwnInfo(m)
    <3>3. flag \in Flags /\ (flag = TRUE => m \in wasLeader)
      BY OwnInfoTruthful
    <3>4. Truthful(flags) /\ info'[m] = [flags EXCEPT ![m] = flag]
      BY <3>1, <3>2
    <3>. HIDE DEF flags, flag
    <3>5. Truthful([flags EXCEPT ![m] = flag])
      BY <3>3, <3>4, FlagSet
    <3>. QED
      BY <3>4, <3>5
  <2>3. CASE m # n /\ ~(m \in reached /\ info[n][m] = None)
    <3>1. info'[m] = info[m]
      BY <2>3 DEF CachesAfter
    <3>. QED
      BY <3>1 DEF InfoInv
  <2>. QED
    BY <2>1, <2>2, <2>3
<1>2. info' = [m \in Nodes |-> info'[m]]
  BY DEF CachesAfter
<1>3. info' \in [Nodes -> [Nodes -> Flags]]
  <2>1. \A m \in Nodes : info'[m] \in [Nodes -> Flags]
    BY <1>1 DEF Truthful
  <2>. QED
    BY <1>2, <2>1
<1>. QED
  BY <1>1, <1>3 DEF InfoInv, Truthful


-----------------------------------------------------------------------------
(* Every step keeps the invariant.                                         *)

LEMMA InitInv == Init => DiscoveryInv
<1>. SUFFICES ASSUME Init
              PROVE  DiscoveryInv
  OBVIOUS
<1>1. NodeInv
  BY DEF Init, NodeInv, Lives
<1>2. InfoInv
  <2>1. info = [n \in Nodes |-> Nothing] /\ Nothing \in [Nodes -> Flags]
    BY NothingTruthful DEF Init, Truthful
  <2>. QED
    BY <2>1, NothingTruthful DEF InfoInv
<1>3. PoolInv
  BY DEF Init, PoolInv, Nothing
<1>4. RefreshInv
  <2>1. Len(InitAddrs) \in Nat /\ 1 \in 1 .. Len(InitAddrs) + 1
    OBVIOUS
  <2>. QED
    BY <2>1 DEF Init, RefreshInv
<1>. QED
  BY <1>1, <1>2, <1>3, <1>4 DEF DiscoveryInv

LEMMA LivesAreNumbers ==
  ASSUME NodeInv, NEW n \in Nodes
  PROVE  life[n] \in Nat /\ life[n] \in Lives /\ life[n] <= life[n]
BY DEF NodeInv, Lives

LEMMA StartInv ==
  ASSUME DiscoveryInv, NEW n \in Nodes, Start(n)
  PROVE  DiscoveryInv'
<1>1. NodeInv /\ InfoInv /\ PoolInv /\ RefreshInv
  BY DEF DiscoveryInv
<1>2. /\ UNCHANGED <<hung, joined, ready, leader, wasLeader, info, pool>>
      /\ UNCHANGED refreshVars
      /\ restarts < MaxRestarts /\ restarts' = restarts + 1
      /\ up' = up \cup {n}
      /\ life' = [life EXCEPT ![n] = @ + 1]
  BY DEF Start
<1>3. /\ life \in [Nodes -> Lives]
      /\ restarts \in Nat /\ restarts' \in Lives /\ restarts' = restarts + 1
      /\ \A m \in Nodes : life[m] \in Nat /\ life[m] <= restarts
  BY <1>1, <1>2 DEF NodeInv, Lives
<1>4. \A m \in Nodes : life'[m] = IF m = n THEN life[m] + 1 ELSE life[m]
  BY <1>2, <1>3
<1>5. \A m \in Nodes : life'[m] \in Nat /\ life[m] <= life'[m] /\ life'[m] <= restarts'
  BY <1>3, <1>4
<1>6. life' \in [Nodes -> Lives]
  <2>1. \A m \in Nodes : life'[m] \in Lives
    BY <1>3, <1>5 DEF Lives
  <2>. QED
    BY <1>2, <1>3, <2>1
<1>7. NodeInv'
  BY <1>1, <1>2, <1>3, <1>5, <1>6 DEF NodeInv
<1>8. InfoInv' /\ RefreshInv'
  BY <1>1, <1>2, InfoKept, RefreshKept
<1>9. PoolInv'
  BY <1>1, <1>2, <1>3, <1>5, PoolKept
<1>. QED
  BY <1>7, <1>8, <1>9 DEF DiscoveryInv

LEMMA JoinElectInv ==
  ASSUME DiscoveryInv, NEW n \in Nodes, Join(n) \/ Elect(n) \/ Hang(n) \/ Recover(n)
  PROVE  DiscoveryInv'
<1>1. NodeInv /\ InfoInv /\ PoolInv /\ RefreshInv
  BY DEF DiscoveryInv
<1>2. /\ UNCHANGED <<up, ready, life, restarts, info, pool>>
      /\ UNCHANGED refreshVars
      /\ wasLeader \subseteq wasLeader'
  BY DEF Join, Elect, Hang, Recover
<1>3. NodeInv'
  <2>1. CASE Join(n)
    BY <1>1, <2>1 DEF Join, NodeInv
  <2>2. CASE Elect(n)
    BY <1>1, <2>2 DEF Elect, NodeInv
  <2>3. CASE Hang(n) \/ Recover(n)
    BY <1>1, <2>3 DEF Hang, Recover, NodeInv
  <2>. QED
    BY <2>1, <2>2, <2>3
<1>4. InfoInv' /\ RefreshInv'
  BY <1>1, <1>2, InfoKept, RefreshKept
<1>5. PoolInv'
  BY <1>1, <1>2, LivesAreNumbers, PoolKept
<1>. QED
  BY <1>3, <1>4, <1>5 DEF DiscoveryInv

LEMMA CrashInv ==
  ASSUME DiscoveryInv, NEW n \in Nodes, Crash(n)
  PROVE  DiscoveryInv'
<1>1. NodeInv /\ InfoInv /\ PoolInv /\ RefreshInv
  BY DEF DiscoveryInv
<1>2. /\ UNCHANGED <<life, restarts, wasLeader, pool>>
      /\ UNCHANGED refreshVars
      /\ info' = [info EXCEPT ![n] = Nothing]
  BY DEF Crash
<1>3. NodeInv'
  BY <1>1 DEF Crash, NodeInv
<1>4. InfoInv'
  <2>1. Nothing \in [Nodes -> Flags] /\ info \in [Nodes -> [Nodes -> Flags]]
    BY <1>1, NothingTruthful DEF Truthful, InfoInv
  <2>2. info' \in [Nodes -> [Nodes -> Flags]]
    BY <1>2, <2>1
  <2>3. \A m \in Nodes : info'[m] = Nothing \/ info'[m] = info[m]
    BY <1>2, <2>1
  <2>4. \A m \in Nodes : Truthful(info'[m])
    BY <1>1, <2>3, NothingTruthful DEF InfoInv
  <2>. QED
    BY <1>2, <2>2, <2>4 DEF InfoInv, Truthful
<1>5. PoolInv'
  BY <1>1, <1>2, LivesAreNumbers, PoolKept
<1>6. RefreshInv'
  BY <1>1, <1>2, RefreshKept
<1>. QED
  BY <1>3, <1>4, <1>5, <1>6 DEF DiscoveryInv

LEMMA GetNodeInfoInv ==
  ASSUME DiscoveryInv, NEW n \in Nodes, GetNodeInfo(n)
  PROVE  DiscoveryInv'
<1>1. NodeInv /\ InfoInv /\ PoolInv /\ RefreshInv
  BY DEF DiscoveryInv
<1>2. /\ UNCHANGED nodeVars /\ UNCHANGED pool /\ UNCHANGED refreshVars
      /\ info' = [info EXCEPT ![n][n] = OwnInfo(n)]
  BY DEF GetNodeInfo
<1>3. UNCHANGED <<life, wasLeader>>
  BY <1>2 DEF nodeVars
<1>4. InfoInv'
  <2>. DEFINE own == OwnInfo(n)
              flags == [info[n] EXCEPT ![n] = own]
  <2>1. own \in Flags /\ (own = TRUE => n \in wasLeader)
    BY <1>1, OwnInfoTruthful
  <2>2. info' = [info EXCEPT ![n] = flags]
    BY <1>2
  <2>. HIDE DEF own
  <2>3. Truthful(flags)
    BY <1>1, <2>1, FlagSet DEF InfoInv
  <2>. HIDE DEF flags
  <2>4. flags \in [Nodes -> Flags] /\ info \in [Nodes -> [Nodes -> Flags]]
    BY <1>1, <2>3 DEF Truthful, InfoInv
  <2>5. info' \in [Nodes -> [Nodes -> Flags]]
    BY <2>2, <2>4
  <2>6. \A m \in Nodes : info'[m] = flags \/ info'[m] = info[m]
    BY <2>2, <2>4
  <2>7. \A m \in Nodes : Truthful(info'[m])
    BY <1>1, <2>3, <2>6 DEF InfoInv
  <2>. QED
    BY <1>3, <2>5, <2>7 DEF InfoInv, Truthful
<1>5. NodeInv' /\ RefreshInv'
  BY <1>1, <1>2, <1>3, NodeKept, RefreshKept
<1>6. PoolInv'
  BY <1>1, <1>2, <1>3, LivesAreNumbers, PoolKept
<1>. QED
  BY <1>4, <1>5, <1>6 DEF DiscoveryInv

LEMMA BecomeReadyInv ==
  ASSUME DiscoveryInv, NEW n \in Nodes, BecomeReady(n)
  PROVE  DiscoveryInv'
<1>1. NodeInv /\ InfoInv /\ PoolInv /\ RefreshInv
  BY DEF DiscoveryInv
<1>2. /\ UNCHANGED <<up, hung, joined, life, restarts, leader, wasLeader, pool>>
      /\ UNCHANGED refreshVars
      /\ n \in joined /\ ready' = ready \cup {n}
  BY DEF BecomeReady
<1>3. PICK reached \in SUBSET (joined \ {n}) : info' = CachesAfter(n, reached, leader = n)
  BY DEF BecomeReady
<1>4. NodeInv'
  BY <1>1, <1>2 DEF NodeInv
<1>5. InfoInv'
  <2>1. PICK own \in BOOLEAN : own = (leader = n)
    BY Zenon
  <2>2. own \in Flags
    BY DEF Flags
  <2>3. own = TRUE => n \in wasLeader
    BY <1>1, <2>1 DEF NodeInv
  <2>4. reached \in SUBSET Nodes
    BY <1>1, <1>3 DEF NodeInv
  <2>5. info' = CachesAfter(n, reached, own)
    BY <1>3, <2>1, Zenon
  <2>. QED
    BY <1>1, <1>2, <2>2, <2>3, <2>4, <2>5, CachesTruthful
<1>6. RefreshInv'
  BY <1>1, <1>2, RefreshKept
<1>7. PoolInv'
  BY <1>1, <1>2, LivesAreNumbers, PoolKept
<1>. QED
  BY <1>4, <1>5, <1>6, <1>7 DEF DiscoveryInv

\* A node that is asked answers with what it has, and lists itself.
LEMMA AnswerMeowSteps ==
  ASSUME NodeInv, InfoInv, NEW n \in Nodes, AnswerMeow(n), UNCHANGED wasLeader
  PROVE  InfoInv' /\ Truthful(resp') /\ (resp' # Nothing => resp'[n] # None)
<1>1. PICK reached \in SUBSET (joined \ {n}) :
        /\ resp' = Meow(n, reached)
        /\ info' = IF n \in joined THEN CachesAfter(n, reached, OwnInfo(n)) ELSE info
  BY DEF AnswerMeow
<1>2. reached \in SUBSET Nodes
  BY DEF NodeInv
<1>3. Truthful(resp') /\ (resp' # Nothing => resp'[n] # None)
  BY <1>1, <1>2, MeowTruthful
<1>4. InfoInv'
  <2>1. CASE n \in joined
    <3>. DEFINE own == OwnInfo(n)
    <3>1. own \in Flags /\ (own = TRUE => n \in wasLeader) /\ info' = CachesAfter(n, reached, own)
      BY <1>1, <2>1, OwnInfoTruthful
    <3>. HIDE DEF own
    <3>. QED
      BY <1>2, <3>1, CachesTruthful
  <2>2. CASE n \notin joined
    BY <1>1, <2>2, InfoKept
  <2>. QED
    BY <2>1, <2>2
<1>. QED
  BY <1>3, <1>4

LEMMA AskPooledInv ==
  ASSUME DiscoveryInv, NEW n \in Nodes, AskPooled(n)
  PROVE  DiscoveryInv'
<1>1. NodeInv /\ InfoInv /\ PoolInv /\ RefreshInv
  BY DEF DiscoveryInv
<1>2. /\ UNCHANGED nodeVars /\ UNCHANGED <<pool, next, dialled>>
      /\ AnswerMeow(n) /\ pool[n] # None
      /\ step' = "update" /\ done' = {}
  BY DEF AskPooled, Working, Live
<1>3. UNCHANGED <<life, wasLeader>>
  BY <1>2 DEF nodeVars
<1>4. InfoInv' /\ Truthful(resp') /\ (resp' # Nothing => resp'[n] # None)
  BY <1>1, <1>2, <1>3, AnswerMeowSteps
<1>5. NodeInv' /\ PoolInv'
  BY <1>1, <1>2, <1>3, NodeKept, LivesAreNumbers, PoolKept
<1>6. Answered'
  BY <1>2, <1>3, <1>4 DEF Answered, Truthful
<1>7. RefreshInv'
  <2>1. resp' \in [Nodes -> Flags]
    BY <1>4 DEF Truthful
  <2>. QED
    BY <1>1, <1>2, <1>6, <2>1 DEF RefreshInv
<1>. QED
  BY <1>4, <1>5, <1>7 DEF DiscoveryInv

LEMMA AskDialledInv ==
  ASSUME DiscoveryInv, AskDialled
  PROVE  DiscoveryInv' /\ pool' # Nothing
<1>. DEFINE n == InitAddrs[next]
            conn == [life |-> dialled, leader |-> FALSE]
<1>1. NodeInv /\ InfoInv /\ PoolInv /\ RefreshInv
  BY DEF DiscoveryInv
<1>2. /\ UNCHANGED nodeVars /\ UNCHANGED done
      /\ step = "ask" /\ step' = "dial" /\ next' = next + 1 /\ dialled' = None
      /\ dialled = life[n] /\ AnswerMeow(n)
      /\ pool' = [pool EXCEPT ![n] = conn]
  BY DEF AskDialled
<1>3. UNCHANGED <<life, wasLeader>>
  BY <1>2 DEF nodeVars
<1>4. next \in 1 .. Len(InitAddrs) /\ Len(InitAddrs) \in Nat
  BY <1>1, <1>2 DEF RefreshInv
<1>5. n \in Nodes /\ next' \in 1 .. Len(InitAddrs) + 1
  <2>1. n \in Nodes
    BY <1>4
  <2>2. next' \in 1 .. Len(InitAddrs) + 1
    BY <1>2, <1>4
  <2>. QED
    BY <2>1, <2>2
<1>6. conn.life = life[n] /\ conn.leader = FALSE /\ life[n] \in Lives /\ life[n] \in Nat
  BY <1>1, <1>2, <1>5, LivesAreNumbers
<1>7. conn \in Conn
  BY <1>2, <1>6 DEF Conn
<1>. HIDE DEF n, conn
<1>8. conn # None
  BY <1>7
<1>9. InfoInv' /\ Truthful(resp') /\ (resp' # Nothing => resp'[n] # None)
  BY <1>1, <1>2, <1>3, <1>5, AnswerMeowSteps
<1>10. \A m \in Nodes : pool'[m] = IF m = n THEN conn ELSE pool[m]
  BY <1>1, <1>2 DEF PoolInv
<1>11. pool' \in [Nodes -> Conn \cup {None}]
  BY <1>1, <1>2, <1>5, <1>7 DEF PoolInv
<1>12. PoolInv'
  <2>1. \A m \in Nodes : pool'[m] # None => pool'[m].life <= life[m]
    BY <1>1, <1>6, <1>10 DEF PoolInv
  <2>2. \A m \in Nodes : pool'[m] # None /\ pool'[m].leader = TRUE => m \in wasLeader
    BY <1>1, <1>6, <1>10 DEF PoolInv
  <2>. QED
    BY <1>1, <1>2, <1>3, <1>11, <2>1, <2>2 DEF PoolInv
<1>13. Answered' /\ pool' # Nothing
  <2>1. pool'[n] # None
    BY <1>5, <1>8, <1>10
  <2>2. Answered'
    BY <1>3, <1>5, <1>9, <2>1 DEF Answered, Truthful, Nothing
  <2>. QED
    BY <1>5, <2>1, <2>2, NothingTruthful
<1>14. RefreshInv'
  <2>1. resp' \in [Nodes -> Flags]
    BY <1>9 DEF Truthful
  <2>2. done' \in SUBSET Nodes
    BY <1>1, <1>2 DEF RefreshInv
  <2>. QED
    BY <1>2, <1>5, <1>13, <2>1, <2>2 DEF RefreshInv
<1>15. NodeInv'
  BY <1>1, <1>2, NodeKept
<1>. QED
  BY <1>9, <1>12, <1>13, <1>14, <1>15 DEF DiscoveryInv

\* The steps that dial, or give up, change establishConns alone.
LEMMA DialInv ==
  ASSUME DiscoveryInv,
         \/ \E n \in Nodes : AskPooledFails(n)
         \/ AskInit \/ Dial \/ DialFails \/ AskDialledFails \/ DialledAll
  PROVE  DiscoveryInv'
<1>1. NodeInv /\ InfoInv /\ PoolInv /\ RefreshInv
  BY DEF DiscoveryInv
<1>2. UNCHANGED nodeVars /\ UNCHANGED <<info, pool>>
  BY DEF AskPooledFails, AskInit, Dial, DialFails, AskDialledFails, DialledAll
<1>3. UNCHANGED <<life, wasLeader>>
  BY <1>2 DEF nodeVars
<1>4. NodeInv' /\ InfoInv' /\ PoolInv'
  BY <1>1, <1>2, <1>3, NodeKept, InfoKept, LivesAreNumbers, PoolKept
<1>5. /\ step \in {"idle", "dial", "ask", "update"}
      /\ next \in 1 .. Len(InitAddrs) + 1 /\ Len(InitAddrs) \in Nat
      /\ dialled \in Lives \cup {None}
      /\ resp \in [Nodes -> Flags] \cup {None}
      /\ done \in SUBSET Nodes
  BY <1>1 DEF RefreshInv
<1>6. RefreshInv'
  <2>1. CASE AskInit
    <3>1. /\ step' = "dial" /\ done' = {} /\ next' = 1 /\ resp' = None /\ UNCHANGED dialled
      BY <2>1 DEF AskInit
    <3>. QED
      BY <1>5, <3>1 DEF RefreshInv
  <2>2. CASE Dial
    <3>1. /\ step = "dial" /\ step' = "ask" /\ next <= Len(InitAddrs)
          /\ InitAddrs[next] \in up /\ dialled' = life[InitAddrs[next]]
          /\ resp' = None /\ UNCHANGED <<done, next>>
      BY <2>2 DEF Dial
    <3>2. dialled' \in Lives
      BY <1>1, <3>1, LivesAreNumbers DEF NodeInv
    <3>. QED
      BY <1>5, <3>1, <3>2 DEF RefreshInv
  <2>3. CASE DialFails
    <3>1. /\ step = "dial" /\ next <= Len(InitAddrs)
          /\ next' = next + 1 /\ resp' = None /\ UNCHANGED <<step, done, dialled>>
      BY <2>3 DEF DialFails
    <3>2. next' \in 1 .. Len(InitAddrs) + 1
      BY <1>5, <3>1
    <3>. QED
      BY <1>5, <3>1, <3>2 DEF RefreshInv
  <2>4. CASE AskDialledFails
    <3>1. /\ step' = "idle" /\ dialled' = None /\ resp' = None /\ next' = 1
          /\ UNCHANGED done
      BY <2>4 DEF AskDialledFails
    <3>2. done' \in SUBSET Nodes /\ next' \in 1 .. Len(InitAddrs) + 1
      BY <1>5, <3>1
    <3>. QED
      BY <3>1, <3>2 DEF RefreshInv
  <2>5. CASE DialledAll /\ resp = None
    <3>1. step' = "idle" /\ resp' = None /\ next' = 1 /\ UNCHANGED <<done, dialled>>
      BY <2>5 DEF DialledAll
    <3>2. done' \in SUBSET Nodes /\ next' \in 1 .. Len(InitAddrs) + 1 /\ dialled' \in Lives \cup {None}
      BY <1>5, <3>1
    <3>. QED
      BY <3>1, <3>2 DEF RefreshInv
  <2>6. CASE DialledAll /\ resp # None
    <3>1. /\ step = "dial" /\ step' = "update" /\ next' = 1
          /\ UNCHANGED <<done, resp, dialled>>
      BY <2>6 DEF DialledAll
    <3>2. Answered'
      BY <1>1, <1>2, <1>3, <2>6, <3>1 DEF RefreshInv, Answered, Truthful
    <3>3. /\ done' \in SUBSET Nodes /\ next' \in 1 .. Len(InitAddrs) + 1
          /\ dialled' \in Lives \cup {None} /\ resp' \in [Nodes -> Flags] \cup {None}
      BY <1>5, <3>1
    <3>. QED
      BY <3>1, <3>2, <3>3 DEF RefreshInv
  <2>7. ASSUME NEW n \in Nodes, AskPooledFails(n) PROVE RefreshInv'
    <3>1. /\ step = "idle" /\ done' = done \cup {n}
          /\ UNCHANGED <<step, next, dialled, resp>>
      BY <2>7 DEF AskPooledFails
    <3>. QED
      BY <1>1, <1>5, <3>1 DEF RefreshInv
  <2>. QED
    BY <2>1, <2>2, <2>3, <2>4, <2>5, <2>6, <2>7
<1>. QED
  BY <1>4, <1>6 DEF DiscoveryInv


LEMMA ConnectionSet ==
  ASSUME PoolInv, UNCHANGED <<life, wasLeader>>, NEW n \in Nodes, NEW conn \in Conn,
         pool' = [pool EXCEPT ![n] = conn],
         conn.life <= life[n], conn.leader = TRUE => n \in wasLeader
  PROVE  PoolInv' /\ \A m \in Nodes : pool[m] # None => pool'[m] # None
<1>1. conn # None
  OBVIOUS
<1>2. pool \in [Nodes -> Conn \cup {None}]
  BY DEF PoolInv
<1>3. \A m \in Nodes : pool'[m] = IF m = n THEN conn ELSE pool[m]
  BY <1>2
<1>4. pool' \in [Nodes -> Conn \cup {None}]
  BY <1>2
<1>5. \A m \in Nodes : pool'[m] # None =>
         pool'[m].life <= life[m] /\ (pool'[m].leader = TRUE => m \in wasLeader)
  BY <1>3 DEF PoolInv
<1>. QED
  BY <1>1, <1>3, <1>4, <1>5 DEF PoolInv

\* A connection that is kept has its flag set, one that is new its life.
LEMMA UpdateSteps ==
  ASSUME DiscoveryInv, NEW n \in Nodes, UpdateNode(n)
  PROVE  /\ DiscoveryInv'
         /\ pool # Nothing => pool' # Nothing
<1>1. NodeInv /\ InfoInv /\ PoolInv /\ RefreshInv
  BY DEF DiscoveryInv
<1>2. /\ UNCHANGED nodeVars /\ UNCHANGED <<info, step, next, dialled, resp>>
      /\ step = "update" /\ resp[n] # None /\ done' = done \cup {n}
  BY DEF UpdateNode
<1>3. UNCHANGED <<life, wasLeader>>
  BY <1>2 DEF nodeVars
<1>4. Answered /\ resp[n] \in BOOLEAN /\ (resp[n] = TRUE => n \in wasLeader)
  BY <1>1, <1>2 DEF RefreshInv, Answered, Truthful, Flags
<1>5. life[n] \in Lives /\ life[n] \in Nat
  BY <1>1, LivesAreNumbers
<1>6. PoolInv' /\ \A m \in Nodes : pool[m] # None => pool'[m] # None
  <2>. DEFINE flag == resp[n]
              kept == [pool[n] EXCEPT !.leader = flag]
              new == [life |-> life[n], leader |-> flag]
  <2>1. CASE pool[n] # None /\ pool' = [pool EXCEPT ![n].leader = resp[n]]
    <3>1. pool[n] \in Conn /\ pool[n].life <= life[n]
      BY <1>1, <2>1 DEF PoolInv
    <3>2. pool' = [pool EXCEPT ![n] = kept]
      BY <2>1
    <3>. HIDE DEF flag
    <3>3. flag \in BOOLEAN /\ (flag = TRUE => n \in wasLeader)
      BY <1>4 DEF flag
    <3>4. kept \in Conn /\ kept.life = pool[n].life /\ kept.leader = flag
      BY <3>1, <3>3 DEF Conn
    <3>5. kept.life <= life[n] /\ (kept.leader = TRUE => n \in wasLeader)
      BY <3>1, <3>3, <3>4
    <3>. HIDE DEF kept
    <3>. QED
      BY <1>1, <1>3, <3>2, <3>4, <3>5, ConnectionSet
  <2>2. CASE pool' = [pool EXCEPT ![n] = new]
    <3>. HIDE DEF flag
    <3>1. flag \in BOOLEAN /\ (flag = TRUE => n \in wasLeader)
      BY <1>4 DEF flag
    <3>2. new \in Conn /\ new.life = life[n] /\ new.leader = flag
      BY <1>5, <3>1 DEF Conn
    <3>3. new.life <= life[n] /\ (new.leader = TRUE => n \in wasLeader)
      BY <1>5, <3>1, <3>2
    <3>. HIDE DEF new
    <3>. QED
      BY <1>1, <1>3, <2>2, <3>2, <3>3, ConnectionSet
  <2>3. CASE UNCHANGED pool
    BY <1>1, <1>3, <2>3 DEF PoolInv
  <2>. QED
    BY <2>1, <2>2, <2>3 DEF UpdateNode
<1>7. Answered'
  BY <1>2, <1>3, <1>4, <1>6 DEF Answered, Truthful
<1>8. RefreshInv'
  BY <1>1, <1>2, <1>7 DEF RefreshInv
<1>9. NodeInv' /\ InfoInv'
  BY <1>1, <1>2, <1>3, NodeKept, InfoKept
<1>10. pool # Nothing => pool' # Nothing
  <2>1. SUFFICES ASSUME pool' = Nothing PROVE pool = Nothing
    OBVIOUS
  <2>2. \A m \in Nodes : pool[m] = None
    BY <1>6, <2>1, NothingTruthful
  <2>. QED
    BY <1>1, <2>2 DEF PoolInv, Nothing
<1>. QED
  BY <1>6, <1>8, <1>9, <1>10 DEF DiscoveryInv

LEMMA ZombiesInv ==
  ASSUME DiscoveryInv, RemoveZombies
  PROVE  /\ DiscoveryInv'
         /\ resp # Nothing => pool' # Nothing
<1>1. NodeInv /\ InfoInv /\ PoolInv /\ RefreshInv
  BY DEF DiscoveryInv
<1>2. /\ UNCHANGED nodeVars /\ UNCHANGED <<info, next, dialled>>
      /\ step = "update" /\ step' = "idle" /\ done' = {} /\ resp' = None
      /\ pool' = [n \in Nodes |-> IF resp[n] = None THEN None ELSE pool[n]]
  BY DEF RemoveZombies
<1>3. UNCHANGED <<life, wasLeader>>
  BY <1>2 DEF nodeVars
<1>4. NodeInv' /\ InfoInv'
  BY <1>1, <1>2, <1>3, NodeKept, InfoKept
<1>5. RefreshInv'
  BY <1>1, <1>2 DEF RefreshInv
<1>6. PoolInv'
  BY <1>1, <1>2, <1>3 DEF PoolInv
<1>7. resp # Nothing => pool' # Nothing
  <2>1. SUFFICES ASSUME resp # Nothing PROVE pool' # Nothing
    OBVIOUS
  <2>2. PICK n \in Nodes : resp[n] # None /\ pool[n] # None
    BY <1>1, <1>2, <2>1 DEF RefreshInv, Answered
  <2>3. pool'[n] # None
    BY <1>2, <2>2
  <2>. QED
    BY <2>3, NothingTruthful
<1>. QED
  BY <1>4, <1>5, <1>6, <1>7 DEF DiscoveryInv

LEMMA NextInv == DiscoveryInv /\ [Next]_vars => DiscoveryInv'
<1>. SUFFICES ASSUME DiscoveryInv, [Next]_vars
              PROVE  DiscoveryInv'
  OBVIOUS
<1>1. ASSUME NEW n \in Nodes, Start(n) PROVE DiscoveryInv'
  BY <1>1, StartInv
<1>2. ASSUME NEW n \in Nodes, Join(n) \/ Elect(n) \/ Hang(n) \/ Recover(n) PROVE DiscoveryInv'
  BY <1>2, JoinElectInv
<1>3. ASSUME NEW n \in Nodes, Crash(n) PROVE DiscoveryInv'
  BY <1>3, CrashInv
<1>4. ASSUME NEW n \in Nodes, GetNodeInfo(n) PROVE DiscoveryInv'
  BY <1>4, GetNodeInfoInv
<1>5. ASSUME NEW n \in Nodes, BecomeReady(n) PROVE DiscoveryInv'
  BY <1>5, BecomeReadyInv
<1>7. ASSUME Refresh PROVE DiscoveryInv'
  BY <1>7, AskPooledInv, AskDialledInv, DialInv, UpdateSteps, ZombiesInv DEF Refresh
<1>8. CASE UNCHANGED vars
  <2>1. UNCHANGED nodeVars /\ UNCHANGED <<info, pool, life, wasLeader>>
        /\ UNCHANGED refreshVars
    BY <1>8 DEF vars, nodeVars
  <2>. QED
    BY <2>1, NodeKept, InfoKept, LivesAreNumbers, PoolKept, RefreshKept DEF DiscoveryInv
<1>. QED
  BY <1>1, <1>2, <1>3, <1>4, <1>5, <1>7, <1>8 DEF Next

LEMMA DiscoveryInvariant == Spec => []DiscoveryInv
BY InitInv, NextInv, PTL DEF Spec

-----------------------------------------------------------------------------

\* Whichever nodes restart while establishConns is under way: it never dials
\* past the last address, uses an answer it does not have, or keeps a
\* connection that is newer than its node (ConnectionPool).
THEOREM TypeCorrect == Spec => []TypeOK
<1>1. DiscoveryInv => TypeOK
  BY DEF DiscoveryInv, NodeInv, InfoInv, PoolInv, RefreshInv, TypeOK
<1>. QED
  BY <1>1, DiscoveryInvariant, PTL

\* The caches are never made anew and the flags of the pool are older still,
\* but a connection that getLeaderConn takes for the leader's is that of a node
\* that raft has elected (nodeProber.GetCurNodeInfo, CmdDispatcher.Meow).
THEOREM MarksAreOfLeaders == Spec => []MarkedWasLeader
<1>1. DiscoveryInv => MarkedWasLeader
  <2>. SUFFICES ASSUME DiscoveryInv, NEW n \in Nodes, pool[n] # None, pool[n].leader
                PROVE  n \in wasLeader
    BY DEF MarkedWasLeader
  <2>1. pool[n] \in Conn
    BY DEF DiscoveryInv, PoolInv
  <2>2. pool[n].leader \in BOOLEAN
    BY <2>1 DEF Conn
  <2>3. pool[n].leader = TRUE
    BY <2>2
  <2>. QED
    BY <2>3 DEF DiscoveryInv, PoolInv
<1>. QED
  BY <1>1, DiscoveryInvariant, PTL

\* A refresh drops every connection of the pool only on the word of a node that
\* lists nobody, as one that has not joined does: who lists a node lists itself,
\* and its connection stays (ConnectionPool.establishConns).
THEOREM PoolEmptied == Spec => EmptiedByEmptyAnswer
<1>1. ASSUME DiscoveryInv, [Next]_vars, pool # Nothing, pool' = Nothing
      PROVE  resp = Nothing
  <2>1. CASE AskDialled
    BY <1>1, <2>1, AskDialledInv
  <2>2. ASSUME NEW n \in Nodes, UpdateNode(n) PROVE FALSE
    BY <1>1, <2>2, UpdateSteps
  <2>3. CASE RemoveZombies
    BY <1>1, <2>3, ZombiesInv
  <2>4. CASE /\ ~AskDialled /\ ~RemoveZombies
             /\ \A n \in Nodes : ~UpdateNode(n)
    <3>1. UNCHANGED pool
      BY <1>1, <2>4 DEF Next, Refresh, Start, Join, Elect, Crash, Hang, Recover, GetNodeInfo,
           BecomeReady, AskPooled, AskPooledFails, AskInit, Dial, DialFails, AskDialledFails,
           DialledAll, vars
    <3>. QED
      BY <1>1, <3>1
  <2>. QED
    BY <2>1, <2>2, <2>3, <2>4
<1>2. DiscoveryInv /\ [Next]_vars => [pool # Nothing /\ pool' = Nothing => resp = Nothing]_vars
  BY <1>1
<1>. QED
  BY <1>2, DiscoveryInvariant, PTL DEF Spec, EmptiedByEmptyAnswer

=============================================================================
