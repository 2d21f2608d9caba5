--------------------------- MODULE CommandStream ---------------------------
(***************************************************************************)
(* The commands that goroutines of a client send over one connection       *)
(* (client/conn.go, sendCmd in client/client.go) and the server that       *)
(* answers them (internal/server/api/event_handler.go).  A connection is   *)
(* two streams of bytes; neither a request nor an answer carries an id.    *)
(* The client holds the connection's mutex while it writes a request and   *)
(* reads an answer, and gives up after a second, but leaves the connection *)
(* as it is.  An answer is a header and a body, read one after the other.  *)
(*                                                                         *)
(* The server decodes requests in the event loop of the connection and     *)
(* answers them there, or on a pool of workers.                            *)
(***************************************************************************)
EXTENDS Naturals, Sequences

CONSTANTS
  Calls,      \* the commands the client's goroutines send, each sent once
  None

ASSUME StreamAssumption == None \notin Calls

VARIABLES
  \* the client
  pc,         \* of a call: "new", "waiting" for the mutex, reading the "head" or
              \* the "body" of an answer, "done", "failed"
  holder,     \* mu: the call that holds the connection
  head,       \* the call whose answer's header was read
  got,        \* the call whose answer was returned
  \* the connection
  open,
  inbound,    \* requests the server has not decoded
  outbound,   \* pieces of answers the client has not read
  \* the server
  server,     \* "up", "down", or "spinning" in an event loop that never ends
  pooled,     \* WorkerPool
  running,    \* the commands that workers have
  \* history, for the properties only
  sent,       \* the calls in the order in which they were written
  givenUp     \* a read was given up before its answer was all read

clientVars == <<pc, holder, head, got, sent, givenUp>>
serverVars == <<server, pooled, running>>
connVars   == <<open, inbound, outbound>>
vars == <<clientVars, serverVars, connVars>>

Init ==
  /\ pc = [c \in Calls |-> "new"]
  /\ holder = None
  /\ head = [c \in Calls |-> None]
  /\ got = [c \in Calls |-> None]
  /\ open = TRUE
  /\ inbound = <<>>
  /\ outbound = <<>>
  /\ server = "up"
  /\ pooled \in BOOLEAN
  /\ running = {}
  /\ sent = <<>>
  /\ givenUp = FALSE

-----------------------------------------------------------------------------
(* The client.                                                             *)

\* Meow, GetResource, Allow, ... want the connection.
Call(c) ==
  /\ pc[c] = "new"
  /\ pc' = [pc EXCEPT ![c] = "waiting"]
  /\ UNCHANGED <<holder, head, got, sent, givenUp, serverVars, connVars>>

SendUnlocked(c) ==   \* mutant: SendCmd does not lock
  /\ pc[c] = "waiting"
  /\ open
  /\ holder' = c
  /\ pc' = [pc EXCEPT ![c] = "head"]
  /\ inbound' = Append(inbound, c)
  /\ sent' = Append(sent, c)
  /\ UNCHANGED <<head, got, givenUp, serverVars, open, outbound>>

\* The call gets the mutex and writes its request.
Send(c) ==
  /\ pc[c] = "waiting"
  /\ holder = None
  /\ open
  /\ holder' = c
  /\ pc' = [pc EXCEPT ![c] = "head"]
  /\ inbound' = Append(inbound, c)
  /\ sent' = Append(sent, c)
  /\ UNCHANGED <<head, got, givenUp, serverVars, open, outbound>>

\* The write fails; connected is still true, so nothing dials again.
SendFails(c) ==
  /\ pc[c] = "waiting"
  /\ holder = None
  /\ ~open
  /\ pc' = [pc EXCEPT ![c] = "failed"]
  /\ UNCHANGED <<holder, head, got, sent, givenUp, serverVars, connVars>>

Unlock(c, result) ==
  /\ pc' = [pc EXCEPT ![c] = result]
  /\ holder' = None
  /\ head' = [head EXCEPT ![c] = None]

\* The six bytes of a header are the next ones in the stream.
ReadHead(c) ==
  /\ pc[c] = "head"
  /\ outbound # <<>>
  /\ Head(outbound).part = "head"
  /\ pc' = [pc EXCEPT ![c] = "body"]
  /\ head' = [head EXCEPT ![c] = Head(outbound).of]
  /\ outbound' = Tail(outbound)
  /\ UNCHANGED <<holder, got, sent, givenUp, serverVars, open, inbound>>

\* The bytes read as a header are those of a body that was left: no magic
\* number.  They are gone, and with them a part of the body, all of it, or all
\* of it and a part of the header that follows.
ReadGarbage(c) ==
  /\ pc[c] = "head"
  /\ outbound # <<>>
  /\ Head(outbound).part = "body"
  /\ \E k \in 1 .. 3 : outbound' = SubSeq(outbound, k, Len(outbound))
  /\ Unlock(c, "failed")
  /\ UNCHANGED <<got, sent, givenUp, serverVars, open, inbound>>

\* conn.Read returns a part of the header: it is gone, what follows stays.
ReadShortHead(c) ==
  /\ pc[c] = "head"
  /\ outbound # <<>>
  /\ Head(outbound).part = "head"
  /\ outbound' = Tail(outbound)
  /\ givenUp' = TRUE
  /\ Unlock(c, "failed")
  /\ UNCHANGED <<got, sent, serverVars, open, inbound>>

\* The body is read, and it is this call's answer, by whoever was asked.
ReadBody(c) ==
  /\ pc[c] = "body"
  /\ outbound # <<>>
  /\ outbound' = Tail(outbound)
  /\ got' = [got EXCEPT ![c] = head[c]]
  /\ Unlock(c, "done")
  /\ UNCHANGED <<sent, givenUp, serverVars, open, inbound>>

\* conn.Read returns a part of the body, or it is larger than MaxRespDataSize
\* and not read: the rest stays.
ReadShortBody(c) ==
  /\ pc[c] = "body"
  /\ outbound # <<>>
  /\ givenUp' = TRUE
  /\ Unlock(c, "failed")
  /\ UNCHANGED <<got, sent, serverVars, connVars>>

TimeOutLocked(c) ==   \* mutant: the mutex is not released on an error
  /\ pc[c] \in {"head", "body"}
  /\ givenUp' = TRUE
  /\ pc' = [pc EXCEPT ![c] = "failed"]
  /\ head' = [head EXCEPT ![c] = None]
  /\ UNCHANGED <<holder, got, sent, serverVars, connVars>>

\* The deadline passes.  The connection stays, and so does what comes later.
TimeOut(c) ==
  /\ pc[c] \in {"head", "body"}
  /\ givenUp' = TRUE
  /\ Unlock(c, "failed")
  /\ UNCHANGED <<got, sent, serverVars, connVars>>

\* The server has closed the connection, and all it wrote is read.
ReadEOF(c) ==
  /\ pc[c] \in {"head", "body"}
  /\ ~open
  /\ outbound = <<>>
  /\ Unlock(c, "failed")
  /\ UNCHANGED <<got, sent, givenUp, serverVars, connVars>>

Read(c) ==
  \/ ReadHead(c) \/ ReadShortHead(c) \/ ReadGarbage(c)
  \/ ReadBody(c) \/ ReadShortBody(c)
  \/ TimeOut(c) \/ ReadEOF(c)

-----------------------------------------------------------------------------
(* The server.                                                             *)

\* EncodeCmdResp, of what the command returned or of its error.
Answer(c) == <<[part |-> "head", of |-> c], [part |-> "body", of |-> c]>>

\* Writes to a connection that is closed, or that waits for the event loop, are lost.
Write(c) == outbound' = IF open /\ server = "up" THEN outbound \o Answer(c) ELSE outbound

OnTrafficPeeks ==   \* mutant: the request is not taken from the buffer
  /\ server = "up"
  /\ open
  /\ inbound # <<>>
  /\ ~pooled
  /\ Write(Head(inbound))
  /\ UNCHANGED <<clientVars, serverVars, open, inbound>>

\* OnTraffic decodes a request and answers it before it looks at the next one.
OnTraffic ==
  /\ server = "up"
  /\ open
  /\ inbound # <<>>
  /\ ~pooled
  /\ inbound' = Tail(inbound)
  /\ Write(Head(inbound))
  /\ UNCHANGED <<clientVars, serverVars, open>>

\* OnTraffic hands it to a worker, or closes the connection if the pool, which
\* all connections share, has none.
OnTrafficPooled ==
  /\ server = "up"
  /\ open
  /\ inbound # <<>>
  /\ pooled
  /\ \/ /\ running' = running \cup {Head(inbound)}
        /\ inbound' = Tail(inbound)
        /\ UNCHANGED open
     \/ /\ open' = FALSE
        /\ inbound' = <<>>
        /\ UNCHANGED running
  /\ UNCHANGED <<clientVars, server, pooled, outbound>>

\* A worker is done; workers end in any order.
Work(c) ==
  /\ c \in running
  /\ running' = running \ {c}
  /\ Write(c)
  /\ UNCHANGED <<clientVars, server, pooled, open, inbound>>

\* OnTraffic is called with a part of a request.  DecodeCmdReq's error is none
\* of those it is compared with, and Process gets no header: the process dies,
\* or, where a worker does, the loop goes on with what is left, for ever.
OnPartialRequest ==
  /\ server = "up"
  /\ open
  /\ inbound # <<>>
  /\ IF pooled
       THEN server' = "spinning" /\ UNCHANGED <<open, inbound, running>>
       ELSE server' = "down" /\ open' = FALSE /\ inbound' = <<>> /\ running' = {}
  /\ UNCHANGED <<clientVars, pooled, outbound>>

\* The server stops or crashes.
Stop ==
  /\ server # "down"
  /\ server' = "down"
  /\ open' = FALSE
  /\ inbound' = <<>>
  /\ running' = {}
  /\ UNCHANGED <<clientVars, pooled, outbound>>

-----------------------------------------------------------------------------

Next ==
  \/ \E c \in Calls : Call(c) \/ Send(c) \/ SendFails(c) \/ Read(c) \/ Work(c)
  \/ OnTraffic \/ OnTrafficPooled \/ OnPartialRequest \/ Stop

Spec == Init /\ [][Next]_vars

\* Go's mutex starves nobody, and a read ends with its deadline at the latest.
\* Nothing is assumed of the server.
FairSpec ==
  /\ Spec
  /\ \A c \in Calls : WF_vars(Send(c) \/ SendFails(c)) /\ WF_vars(Read(c))

-----------------------------------------------------------------------------
(* Properties.                                                             *)

Piece == [part : {"head", "body"}, of : Calls]

\* The variables have their types, and a reader is who holds the mutex.
TypeOK ==
  /\ pc \in [Calls -> {"new", "waiting", "head", "body", "done", "failed"}]
  /\ holder \in Calls \cup {None}
  /\ \A c \in Calls : pc[c] \in {"head", "body"} <=> holder = c
  /\ head \in [Calls -> Calls \cup {None}]
  /\ got \in [Calls -> Calls \cup {None}]
  /\ open \in BOOLEAN
  /\ inbound \in Seq(Calls)
  /\ outbound \in Seq(Piece)
  /\ server \in {"up", "down", "spinning"}
  /\ pooled \in BOOLEAN
  /\ running \in SUBSET Calls
  /\ sent \in Seq(Calls)
  /\ givenUp \in BOOLEAN

\* As long as no read on the connection was given up, by a deadline or a short
\* read, a call that returns has the answer to its own command, though nothing
\* in the stream says whose it is.
AnswersMatchUntilGivenUp ==
  ~givenUp => \A c \in Calls : pc[c] = "done" => got[c] = c

\* Where a call was sent, 0 before it is.
SentAt(c) == IF \E i \in DOMAIN sent : sent[i] = c
               THEN CHOOSE i \in DOMAIN sent : sent[i] = c
               ELSE 0

\* Whatever is left in the stream, an answer is returned to one call at most,
\* and never to one that was sent before the command it answers.
AnswersAreUsedOnce ==
  \A c, d \in Calls :
    /\ pc[c] = "done" => SentAt(got[c]) \in 1 .. SentAt(c)
    /\ pc[c] = "done" /\ pc[d] = "done" /\ got[c] = got[d] => c = d

\* A call returns, whatever becomes of the server and of the calls before it.
CallsReturn == \A c \in Calls : pc[c] = "waiting" ~> pc[c] \in {"done", "failed"}

=============================================================================
