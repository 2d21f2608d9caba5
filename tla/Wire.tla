-------------------------------- MODULE Wire --------------------------------
(***************************************************************************)
(* Bytes between processes.  A raft entry, a snapshot and a gRPC message   *)
(* are one protobuf message; requests and answers of the API are framed    *)
(* (internal/endec/codec.go) and follow each other in a stream.            *)
(*                                                                         *)
(* A message that is stored or sent alone may lose its end, and may come   *)
(* from a version of the program that has fields this one does not know.   *)
(* A stream loses nothing; what its reader makes of a part of a frame is   *)
(* CommandStream's subject.                                                *)
(***************************************************************************)
EXTENDS Protobuf

CONSTANTS
  Messages,          \* messages that are sent alone, each with its type
  Requests,          \* the name of a command and its message, if it has one
  HandlerTypes,      \* of the name of a command: the type its handler expects, or None
  None,
  Answers,           \* the messages commands return, and errors
  UnknownFields,     \* fields of a later version, as bytes
  MaxRespDataSize,
  MaxFrames          \* bound: how many frames follow each other in a stream

VARIABLES
  carrier,   \* "none" yet, a "message" alone, a stream of "requests" or "answers"
  sent,      \* what was written, in order
  bytes,     \* what is there to read
  whole,     \* nothing of it is missing
  got        \* what was read, in order

vars == <<carrier, sent, bytes, whole, got>>

Init ==
  /\ carrier = "none"
  /\ sent = <<>>
  /\ bytes = <<>>
  /\ whole = TRUE
  /\ got = <<>>

-----------------------------------------------------------------------------
(* Frames.                                                                 *)

\* An unsigned integer of w bytes, little endian.
LittleEndian(n, w) == [i \in 1 .. w |-> (n \div 256^(i - 1)) % 256]

FromLittleEndian(b) == FoldRight(LAMBDA byte, n : n * 256 + byte, b, 0)

After(b, n) == SubSeq(b, n + 1, Len(b))

cmdReqMagicNumBytes         == LittleEndian(\h1015, 2)
cmdRespSuccessMagicNumBytes == LittleEndian(\h1016, 2)
cmdRespErrorMagicNumBytes   == LittleEndian(\h1017, 2)

HeaderMsgLenSize == 2
ReqHeaderSize    == 8
RespHeaderSize   == 6

\* A request has a header with the name of the command, and its message, if any.
EncodeCmdReq(r) ==
  LET headerMsg == Marshal("CmdHeader", [Cmd |-> r.cmd])
      cmdMsg == IF HandlerTypes[r.cmd] = None THEN <<>> ELSE Marshal(HandlerTypes[r.cmd], r.msg)
  IN  cmdReqMagicNumBytes \o LittleEndian(Len(headerMsg) + Len(cmdMsg), 4)
        \o LittleEndian(Len(headerMsg), 2) \o headerMsg \o cmdMsg

\* A read from a stream: what it gives, and what it leaves there.
Read(value, rest) == [ok |-> TRUE, value |-> value, rest |-> rest]
Fails(rest)       == [ok |-> FALSE, value |-> <<>>, rest |-> rest]

\* Next takes nothing where less is there than it is asked for.
DecodeCmdReq(b) ==
  LET totalLen == FromLittleEndian(SubSeq(b, 3, 6))
      headerMsgLen == FromLittleEndian(SubSeq(b, 7, 8))
      afterHeader == After(b, ReqHeaderSize)
      data == SubSeq(afterHeader, 1, totalLen)
      Decoded(header) ==
        IF ~header.ok THEN Fails(After(afterHeader, totalLen))
        ELSE Read([cmd |-> header.value.Cmd, data |-> After(data, headerMsgLen)],
                  After(afterHeader, totalLen))
  IN  IF Len(b) < ReqHeaderSize THEN Fails(b)
      ELSE IF \/ SubSeq(b, 1, 2) # cmdReqMagicNumBytes
              \/ totalLen < HeaderMsgLenSize
              \/ headerMsgLen < 1
              \/ Len(afterHeader) < totalLen
        THEN Fails(afterHeader)
      ELSE Decoded(Unmarshal("CmdHeader", SubSeq(data, 1, headerMsgLen)))

EncodeCmdResp(magic, resp) == magic \o LittleEndian(Len(resp), 4) \o resp

\* process: a message, or an error of which only the text is kept.
process(a) ==
  IF a.error
    THEN EncodeCmdResp(cmdRespErrorMagicNumBytes, Marshal("CmdError", [New("CmdError") EXCEPT !.Msg = a.msg.Msg]))
    ELSE EncodeCmdResp(cmdRespSuccessMagicNumBytes, Marshal(a.type, a.msg))

\* A body that is too long is refused when its header has been taken.
DecodeCmdResp(b) ==
  LET magic == SubSeq(b, 1, 2)
      cmdMsgLen == FromLittleEndian(SubSeq(b, 3, 6))
      afterHeader == After(b, RespHeaderSize)
  IN  IF Len(b) < RespHeaderSize THEN Fails(<<>>)
      ELSE IF \/ magic \notin {cmdRespSuccessMagicNumBytes, cmdRespErrorMagicNumBytes}
              \/ cmdMsgLen > MaxRespDataSize
        THEN Fails(afterHeader)
      ELSE IF Len(afterHeader) < cmdMsgLen THEN Fails(<<>>)
      ELSE Read([error |-> magic = cmdRespErrorMagicNumBytes, data |-> SubSeq(afterHeader, 1, cmdMsgLen)],
                After(afterHeader, cmdMsgLen))

-----------------------------------------------------------------------------
(* A message alone: newEntryPB and Apply, Snapshot and Restore, gRPC.      *)

Send(m) ==
  /\ carrier = "none"
  /\ carrier' = "message"
  /\ sent' = <<m>>
  /\ bytes' = Marshal(m.type, m.msg)
  /\ UNCHANGED <<whole, got>>

\* It is written by a later version of the program.
Extend(u) ==
  /\ carrier = "message"
  /\ got = <<>>
  /\ bytes = Marshal(sent[1].type, sent[1].msg)
  /\ \/ bytes' = u \o bytes
     \/ bytes' = bytes \o u
  /\ UNCHANGED <<carrier, sent, whole, got>>

\* Its end is lost.
Cut(n) ==
  /\ carrier = "message"
  /\ got = <<>>
  /\ bytes' = SubSeq(bytes, 1, n)
  /\ whole
  /\ whole' = FALSE
  /\ UNCHANGED <<carrier, sent, got>>

Receive ==
  /\ carrier = "message"
  /\ got = <<>>
  /\ got' = <<Unmarshal(sent[1].type, bytes)>>
  /\ UNCHANGED <<carrier, sent, bytes, whole>>

-----------------------------------------------------------------------------
(* A stream of frames.                                                     *)

Request(r) ==
  /\ carrier \in {"none", "requests"}
  /\ Len(sent) < MaxFrames
  /\ carrier' = "requests"
  /\ sent' = Append(sent, r)
  /\ bytes' = bytes \o EncodeCmdReq(r)
  /\ UNCHANGED <<whole, got>>

\* What the handler of a command gets of the body of a request.
Process(cmd, data) ==
  LET Handler(msg) == IF msg.ok THEN [ok |-> TRUE, cmd |-> cmd, msg |-> msg.value] ELSE Error
  IN  Handler(IF HandlerTypes[cmd] = None THEN Ok(None, 0) ELSE Unmarshal(HandlerTypes[cmd], data))

Serve ==
  /\ carrier = "requests"
  /\ bytes # <<>>
  /\ \E req \in {DecodeCmdReq(bytes)} :
       /\ bytes' = req.rest
       /\ got' = Append(got, IF req.ok THEN Process(req.value.cmd, req.value.data) ELSE Error)
  /\ UNCHANGED <<carrier, sent, whole>>

Answer(a) ==
  /\ carrier \in {"none", "answers"}
  /\ Len(sent) < MaxFrames
  /\ carrier' = "answers"
  /\ sent' = Append(sent, a)
  /\ bytes' = bytes \o process(a)
  /\ UNCHANGED <<whole, got>>

\* The client knows what its command returns.
Returned(resp, type) ==
  LET Message(msg) ==
        IF msg.ok THEN [ok |-> TRUE, error |-> resp.value.error, msg |-> msg.value] ELSE Error
  IN  IF ~resp.ok THEN Error
      ELSE Message(Unmarshal(IF resp.value.error THEN "CmdError" ELSE type, resp.value.data))

ReadAnswer ==
  /\ carrier = "answers"
  /\ bytes # <<>>
  /\ Len(got) < Len(sent)
  /\ \E resp \in {DecodeCmdResp(bytes)} :
       /\ bytes' = resp.rest
       /\ got' = Append(got, Returned(resp, sent[Len(got) + 1].type))
  /\ UNCHANGED <<carrier, sent, whole>>

-----------------------------------------------------------------------------

Next ==
  \/ \E m \in Messages : Send(m)
  \/ \E u \in UnknownFields : Extend(u)
  \/ \E n \in 0 .. Len(bytes) - 1 : Cut(n)
  \/ Receive
  \/ \E r \in Requests : Request(r)
  \/ Serve
  \/ \E a \in Answers : Answer(a)
  \/ ReadAnswer

Spec == Init /\ [][Next]_vars

-----------------------------------------------------------------------------
(* Properties.                                                             *)

\* Size, by which a buffer is made, and MarshalToSizedBuffer, which fills it from
\* its end, were generated apart: they agree on every message and on what it
\* contains, lengths that take two bytes included.
SizesExact ==
  carrier = "message" =>
    Len(MarshalToSizedBuffer(sent[1].type, sent[1].msg)) = Size(sent[1].type, sent[1].msg)

\* DecodeCmdResp refuses the answer, and leaves its body in the stream.
TooLong(a) == Len(process(a)) - RespHeaderSize > MaxRespDataSize

InStep(i) == carrier # "answers" \/ \A j \in 1 .. i : ~TooLong(sent[j])

\* The reader gets what the writer had: every field, nil pointers apart from empty
\* messages, whatever fields of a later version come with it, and frame after
\* frame, up to an answer that is too long.  Of an error only the text arrives.
ReadAsWritten ==
  \A i \in DOMAIN got :
    /\ whole /\ InStep(i) =>
         got[i] = CASE carrier = "message"  -> Ok(sent[i].msg, Len(bytes))
                    [] carrier = "requests" -> [ok |-> TRUE, cmd |-> sent[i].cmd, msg |-> sent[i].msg]
                    [] carrier = "answers"  ->
                         [ok |-> TRUE, error |-> sent[i].error,
                          msg |-> IF sent[i].error THEN [Code |-> 0, Msg |-> sent[i].msg.Msg]
                                                   ELSE sent[i].msg]
    /\ InStep(i - 1) /\ ~InStep(i) => ~got[i].ok

\* What is left of a message that lost its end, a snapshot that was not all
\* written, say, is refused, or it is read as the message without its last
\* fields or last entries: no field has a value it did not have.
CutLosesOnlyTheEnd ==
  carrier = "message" /\ got # <<>> /\ got[1].ok =>
    \A f \in Fields(sent[1].type) :
      LET had == sent[1].msg[f.field]
          has == got[1].value[f.field]
      IN  \/ has = had
          \/ has = Zero(f)
          \/ f.kind = "repeated" /\ IsPrefix(has, had)

=============================================================================
