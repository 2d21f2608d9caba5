------------------------------ MODULE Protobuf ------------------------------
(***************************************************************************)
(* What the generated code (proto/ratecat_api_v1.pb.go and                 *)
(* internal/cluster/pb/ratecat_cluster_v1.pb.go) makes of a message, and   *)
(* what it reads from bytes.  Each type has three functions that were      *)
(* written out separately and must agree: MarshalToSizedBuffer, Size and   *)
(* Unmarshal.  Here each is a table, in the order of its statements; the   *)
(* code the generator repeats for every field of a kind is written once.   *)
(*                                                                         *)
(* A byte is a number, a string or a []byte a sequence of bytes, a double  *)
(* the eight bytes of its bits.  A pointer to a message is a sequence of   *)
(* at most one, so that nil and an empty message differ.  Numbers are      *)
(* those below 2^31, where widths do not show.                             *)
(***************************************************************************)
EXTENDS Integers, Sequences, SequencesExt, TLC

\* The kinds of fields.
Num(f)      == [kind |-> "number", field |-> f]      \* an integer or an enum, a varint
Flag(f)     == [kind |-> "bool", field |-> f]
Dbl(f)      == [kind |-> "double", field |-> f]
Str(f)      == [kind |-> "bytes", field |-> f]       \* a string or bytes
Sub(f, T)   == [kind |-> "message", field |-> f, type |-> T]
Each(f, T)  == [kind |-> "repeated", field |-> f, type |-> T]
OneOf(f, T) == [kind |-> "oneof", field |-> f, type |-> T]

\* A field that is written under a tag byte, and one that is read if its tag has
\* this wire type.
W(tag, f)  == [tag |-> tag, as |-> f]
R(wire, f) == [wire |-> wire, as |-> f]

-----------------------------------------------------------------------------
(* The types.                                                              *)

CmdErrorMarshal == << W(\h12, Str("Msg")), W(\h8, Num("Code")) >>
CmdErrorSize == << Num("Code"), Str("Msg") >>
CmdErrorUnmarshal == 1 :> R(0, Num("Code")) @@ 2 :> R(2, Str("Msg"))

CmdHeaderMarshal == << W(\ha, Str("Cmd")) >>
CmdHeaderSize == << Str("Cmd") >>
CmdHeaderUnmarshal == 1 :> R(2, Str("Cmd"))

NodeInfoMarshal == << W(\h42, Sub("ActiveSince", "Timestamp")), W(\h38, Flag("Active")),
    W(\h30, Flag("Leader")), W(\h2a, Str("Type")), W(\h22, Str("GrpcEndpoint")),
    W(\h1a, Str("ApiEndpoint")), W(\h12, Str("Name")), W(\h8, Num("Id")) >>
NodeInfoSizeOld == << Num("Id"), Str("Name"), Str("ApiEndpoint"), Str("GrpcEndpoint"),
    Str("Type"), Flag("Leader"), Flag("Active") >>   \* mutant: not generated anew for ActiveSince
NodeInfoSize == << Num("Id"), Str("Name"), Str("ApiEndpoint"), Str("GrpcEndpoint"),
    Str("Type"), Flag("Leader"), Flag("Active"), Sub("ActiveSince", "Timestamp") >>
NodeInfoUnmarshal == 1 :> R(0, Num("Id")) @@ 2 :> R(2, Str("Name")) @@
    3 :> R(2, Str("ApiEndpoint")) @@ 4 :> R(2, Str("GrpcEndpoint")) @@
    5 :> R(2, Str("Type")) @@ 6 :> R(0, Flag("Leader")) @@ 7 :> R(0, Flag("Active")) @@
    8 :> R(2, Sub("ActiveSince", "Timestamp"))

MeowCmdRespMarshal == << W(\h12, Each("Nodes", "NodeInfo")), W(\h8, Num("NodeId")) >>
MeowCmdRespSize == << Num("NodeId"), Each("Nodes", "NodeInfo") >>
MeowCmdRespUnmarshal == 1 :> R(0, Num("NodeId")) @@ 2 :> R(2, Each("Nodes", "NodeInfo"))

AllowCmdMarshal == << W(\h10, Num("Events")), W(\ha, Str("Resource")) >>
AllowCmdSize == << Str("Resource"), Num("Events") >>
AllowCmdUnmarshal == 1 :> R(2, Str("Resource")) @@ 2 :> R(0, Num("Events"))

AllowCmdRespMarshal == << W(\h18, Flag("Ok")), W(\h10, Num("NodeId")),
    W(\h8, Flag("Redirected")) >>
AllowCmdRespSize == << Flag("Redirected"), Num("NodeId"), Flag("Ok") >>
AllowCmdRespUnmarshal == 1 :> R(0, Flag("Redirected")) @@ 2 :> R(0, Num("NodeId")) @@
    3 :> R(0, Flag("Ok"))

RegResCmdMarshal == << W(\h22, OneOf("TokenBucket", "TokenBucketParam")),
    W(\h18, Flag("Override")), W(\h10, Num("Type")), W(\ha, Str("Resource")) >>
RegResCmdSize == << Str("Resource"), Num("Type"), Flag("Override"),
    OneOf("TokenBucket", "TokenBucketParam") >>
RegResCmdUnmarshal == 1 :> R(2, Str("Resource")) @@ 2 :> R(0, Num("Type")) @@
    3 :> R(0, Flag("Override")) @@ 4 :> R(2, OneOf("TokenBucket", "TokenBucketParam"))

RegResCmdRespMarshalFirst == << W(\h8, Num("NodeId")) >>   \* mutant: the field has number 1
RegResCmdRespMarshal == << W(\h10, Num("NodeId")) >>
RegResCmdRespSize == << Num("NodeId") >>
RegResCmdRespUnmarshal == 2 :> R(0, Num("NodeId"))

GetResCmdMarshal == << W(\ha, Str("Resource")) >>
GetResCmdSize == << Str("Resource") >>
GetResCmdUnmarshal == 1 :> R(2, Str("Resource"))

ResourceMarshal == << W(\h32, OneOf("TokenBucket", "TokenBucketLimiter")),
    W(\h2a, Sub("LastUpdated", "Timestamp")), W(\h22, Sub("Rps", "ReqPerSec")),
    W(\h18, Num("LimiterType")), W(\h10, Num("NodeId")), W(\ha, Str("Name")) >>
ResourceSize == << Str("Name"), Num("NodeId"), Num("LimiterType"), Sub("Rps", "ReqPerSec"),
    Sub("LastUpdated", "Timestamp"), OneOf("TokenBucket", "TokenBucketLimiter") >>
ResourceUnmarshal == 1 :> R(2, Str("Name")) @@ 2 :> R(0, Num("NodeId")) @@
    3 :> R(0, Num("LimiterType")) @@ 4 :> R(2, Sub("Rps", "ReqPerSec")) @@
    5 :> R(2, Sub("LastUpdated", "Timestamp")) @@
    6 :> R(2, OneOf("TokenBucket", "TokenBucketLimiter"))

ReqPerSecMarshal == << W(\h12, Each("Histories", "ReqPerSecEntry")), W(\h8, Num("ReqCount")) >>
ReqPerSecSize == << Num("ReqCount"), Each("Histories", "ReqPerSecEntry") >>
ReqPerSecUnmarshal == 1 :> R(0, Num("ReqCount")) @@
    2 :> R(2, Each("Histories", "ReqPerSecEntry"))

ReqPerSecEntryMarshal == << W(\h12, Sub("Time", "Timestamp")), W(\h9, Dbl("Rps")) >>
ReqPerSecEntrySize == << Dbl("Rps"), Sub("Time", "Timestamp") >>
ReqPerSecEntryUnmarshal == 1 :> R(1, Dbl("Rps")) @@ 2 :> R(2, Sub("Time", "Timestamp"))

TokenBucketParamMarshal == << W(\h10, Num("Burst")), W(\h9, Dbl("Rate")) >>
TokenBucketParamSize == << Dbl("Rate"), Num("Burst") >>
TokenBucketParamUnmarshal == 1 :> R(1, Dbl("Rate")) @@ 2 :> R(0, Num("Burst"))

TokenBucketLimiterMarshal == << W(\h32, Sub("NextFill", "Timestamp")),
    W(\h2a, Sub("LastFilled", "Timestamp")), W(\h20, Num("FillPeriod")),
    W(\h19, Dbl("TokenCount")), W(\h10, Num("Burst")), W(\h9, Dbl("Rate")) >>
TokenBucketLimiterSize == << Dbl("Rate"), Num("Burst"), Dbl("TokenCount"),
    Num("FillPeriod"), Sub("LastFilled", "Timestamp"), Sub("NextFill", "Timestamp") >>
TokenBucketLimiterUnmarshal == 1 :> R(1, Dbl("Rate")) @@ 2 :> R(0, Num("Burst")) @@
    3 :> R(1, Dbl("TokenCount")) @@ 4 :> R(0, Num("FillPeriod")) @@
    5 :> R(2, Sub("LastFilled", "Timestamp")) @@ 6 :> R(2, Sub("NextFill", "Timestamp"))

LeakyBucketLimiterMarshal == << W(\h32, Sub("NextDrain", "Timestamp")),
    W(\h2a, Sub("LastDrained", "Timestamp")), W(\h20, Num("DrainPeriod")),
    W(\h19, Dbl("Drops")), W(\h10, Num("Capability")), W(\h9, Dbl("Rate")) >>
LeakyBucketLimiterSize == << Dbl("Rate"), Num("Capability"), Dbl("Drops"),
    Num("DrainPeriod"), Sub("LastDrained", "Timestamp"), Sub("NextDrain", "Timestamp") >>
LeakyBucketLimiterUnmarshal == 1 :> R(1, Dbl("Rate")) @@ 2 :> R(0, Num("Capability")) @@
    3 :> R(1, Dbl("Drops")) @@ 4 :> R(0, Num("DrainPeriod")) @@
    5 :> R(2, Sub("LastDrained", "Timestamp")) @@ 6 :> R(2, Sub("NextDrain", "Timestamp"))

EntryMarshal == << W(\h22, Sub("Resource", "Resource")), W(\h18, Num("SrcNodeId")),
    W(\h10, Num("Action")), W(\ha, Str("Id")) >>
EntrySize == << Str("Id"), Num("Action"), Num("SrcNodeId"), Sub("Resource", "Resource") >>
EntryUnmarshal == 1 :> R(2, Str("Id")) @@ 2 :> R(0, Num("Action")) @@
    3 :> R(0, Num("SrcNodeId")) @@ 4 :> R(2, Sub("Resource", "Resource"))

EntrySnapshotMarshal == << W(\ha, Each("Entries", "Entry")) >>
EntrySnapshotSize == << Each("Entries", "Entry") >>
EntrySnapshotUnmarshal == 1 :> R(2, Each("Entries", "Entry"))

AvgRpsReqMarshal == << W(\h8, Num("LastSecs")) >>
AvgRpsReqSize == << Num("LastSecs") >>
AvgRpsReqUnmarshal == 1 :> R(0, Num("LastSecs"))

IsEntryAppliedReqMarshal == << W(\ha, Str("Id")) >>
IsEntryAppliedReqSize == << Str("Id") >>
IsEntryAppliedReqUnmarshal == 1 :> R(2, Str("Id"))

\* types.Timestamp, of gogo/protobuf.
TimestampMarshal == << W(\h10, Num("Nanos")), W(\h8, Num("Seconds")) >>
TimestampSize == << Num("Seconds"), Num("Nanos") >>
TimestampUnmarshal == 1 :> R(0, Num("Seconds")) @@ 2 :> R(0, Num("Nanos"))

MarshalOf == [ CmdError |-> CmdErrorMarshal, CmdHeader |-> CmdHeaderMarshal,
   NodeInfo |-> NodeInfoMarshal, MeowCmdResp |-> MeowCmdRespMarshal,
   AllowCmd |-> AllowCmdMarshal, AllowCmdResp |-> AllowCmdRespMarshal,
   RegResCmd |-> RegResCmdMarshal, RegResCmdResp |-> RegResCmdRespMarshal,
   GetResCmd |-> GetResCmdMarshal, Resource |-> ResourceMarshal,
   ReqPerSec |-> ReqPerSecMarshal, ReqPerSecEntry |-> ReqPerSecEntryMarshal,
   TokenBucketParam |-> TokenBucketParamMarshal,
   TokenBucketLimiter |-> TokenBucketLimiterMarshal,
   LeakyBucketLimiter |-> LeakyBucketLimiterMarshal, Entry |-> EntryMarshal,
   EntrySnapshot |-> EntrySnapshotMarshal, AvgRpsReq |-> AvgRpsReqMarshal,
   IsEntryAppliedReq |-> IsEntryAppliedReqMarshal, Timestamp |-> TimestampMarshal]

SizeOf == [ CmdError |-> CmdErrorSize, CmdHeader |-> CmdHeaderSize,
   NodeInfo |-> NodeInfoSize, MeowCmdResp |-> MeowCmdRespSize, AllowCmd |-> AllowCmdSize,
   AllowCmdResp |-> AllowCmdRespSize, RegResCmd |-> RegResCmdSize,
   RegResCmdResp |-> RegResCmdRespSize, GetResCmd |-> GetResCmdSize,
   Resource |-> ResourceSize, ReqPerSec |-> ReqPerSecSize,
   ReqPerSecEntry |-> ReqPerSecEntrySize, TokenBucketParam |-> TokenBucketParamSize,
   TokenBucketLimiter |-> TokenBucketLimiterSize,
   LeakyBucketLimiter |-> LeakyBucketLimiterSize, Entry |-> EntrySize,
   EntrySnapshot |-> EntrySnapshotSize, AvgRpsReq |-> AvgRpsReqSize,
   IsEntryAppliedReq |-> IsEntryAppliedReqSize, Timestamp |-> TimestampSize]

UnmarshalOf == [ CmdError |-> CmdErrorUnmarshal, CmdHeader |-> CmdHeaderUnmarshal,
   NodeInfo |-> NodeInfoUnmarshal, MeowCmdResp |-> MeowCmdRespUnmarshal,
   AllowCmd |-> AllowCmdUnmarshal, AllowCmdResp |-> AllowCmdRespUnmarshal,
   RegResCmd |-> RegResCmdUnmarshal, RegResCmdResp |-> RegResCmdRespUnmarshal,
   GetResCmd |-> GetResCmdUnmarshal, Resource |-> ResourceUnmarshal,
   ReqPerSec |-> ReqPerSecUnmarshal, ReqPerSecEntry |-> ReqPerSecEntryUnmarshal,
   TokenBucketParam |-> TokenBucketParamUnmarshal,
   TokenBucketLimiter |-> TokenBucketLimiterUnmarshal,
   LeakyBucketLimiter |-> LeakyBucketLimiterUnmarshal, Entry |-> EntryUnmarshal,
   EntrySnapshot |-> EntrySnapshotUnmarshal, AvgRpsReq |-> AvgRpsReqUnmarshal,
   IsEntryAppliedReq |-> IsEntryAppliedReqUnmarshal, Timestamp |-> TimestampUnmarshal]

-----------------------------------------------------------------------------
(* Writing.                                                                *)

\* The two values that are equal to 0 in Go.
DoubleZero == {<<0, 0, 0, 0, 0, 0, 0, 0>>, <<0, 0, 0, 0, 0, 0, 0, 128>>}

\* Groups of seven bits, the lowest first.
encodeVarint[v \in Nat] ==
  IF v < 128 THEN <<v>> ELSE <<(v % 128) + 128>> \o encodeVarint[v \div 128]

Len64(x) == IF x = 0 THEN 0 ELSE Cardinality({k \in 0 .. 30 : 2^k <= x})

sov(x) == (Max({Len64(x), 1}) + 6) \div 7

\* proto3 leaves out what has the zero value; a message is left out only where
\* the pointer is nil.
Omitted(f, value) ==
  CASE f.kind = "number" -> value = 0
    [] f.kind = "bool"   -> ~value
    [] f.kind = "double" -> value \in DoubleZero
    [] OTHER             -> value = <<>>

RECURSIVE Size(_, _)
Size(T, m) ==
  LET LenSize(l) == 1 + l + sov(l)
      FieldSize(f) ==
        LET value == m[f.field]
        IN  CASE Omitted(f, value)    -> 0
              [] f.kind = "number"    -> 1 + sov(value)
              [] f.kind = "bool"      -> 2
              [] f.kind = "double"    -> 9
              [] f.kind = "bytes"     -> LenSize(Len(value))
              [] OTHER -> FoldLeft(LAMBDA n, e : n + LenSize(Size(f.type, e)), 0, value)
  IN  FoldLeft(LAMBDA n, f : n + FieldSize(f), 0, SizeOf[T])

\* A buffer of a size, filled from its end.  (One that is too small would end the
\* program.)
Fill(size, bytes) == [i \in 1 .. size - Len(bytes) |-> 0] \o bytes

\* The last field is written first, each before what is there.
RECURSIVE MarshalToSizedBuffer(_, _)
MarshalToSizedBuffer(T, m) ==
  LET Delimited(bytes) == encodeVarint[Len(bytes)] \o bytes
      Put(w) ==
        LET f == w.as
            value == m[f.field]
            Message(e) == <<w.tag>> \o Delimited(MarshalToSizedBuffer(f.type, e))
        IN  CASE Omitted(f, value)    -> <<>>
              [] f.kind = "number"    -> <<w.tag>> \o encodeVarint[value]
              [] f.kind = "bool"      -> <<w.tag, 1>>
              [] f.kind = "double"    -> <<w.tag>> \o value
              [] f.kind = "bytes"     -> <<w.tag>> \o Delimited(value)
              [] f.kind = "oneof"     ->
                   LET l == Size(f.type, value[1]) IN Fill(1 + l + sov(l), Message(value[1]))
              [] OTHER -> FoldRight(LAMBDA e, bytes : Message(e) \o bytes, value, <<>>)
  IN  FoldLeft(LAMBDA bytes, w : Put(w) \o bytes, <<>>, MarshalOf[T])

\* A buffer of the message's size is made, and as much of its beginning returned
\* as was written.
Marshal(T, m) ==
  LET bytes == MarshalToSizedBuffer(T, m)
  IN  SubSeq(Fill(Size(T, m), bytes), 1, Len(bytes))

-----------------------------------------------------------------------------
(* Reading.                                                                *)

Fields(T) == {UnmarshalOf[T][k].as : k \in DOMAIN UnmarshalOf[T]}

Zero(f) ==
  CASE f.kind = "number" -> 0
    [] f.kind = "bool"   -> FALSE
    [] f.kind = "double" -> <<0, 0, 0, 0, 0, 0, 0, 0>>
    [] OTHER             -> <<>>

\* &T{}
New(T) ==
  [name \in {f.field : f \in Fields(T)} |-> Zero(CHOOSE f \in Fields(T) : f.field = name)]

\* What a read gives: a value, and the index it ends at, or an error.
Ok(value, end) == [ok |-> TRUE, value |-> value, end |-> end]
Error == [ok |-> FALSE]

\* The varint after index i: no more than ten bytes, and none past the end.
ReadVarint(b, i) ==
  LET ends == {j \in i + 1 .. Min({i + 10, Len(b)}) : b[j] < 128}
      last == Min(ends)
  IN  IF ends = {} THEN Error
      ELSE Ok(FoldRight(LAMBDA byte, v : v * 128 + (byte % 128), SubSeq(b, i + 1, last), 0), last)

ReadBytesUnchecked(b, i) ==   \* mutant: takes what is left, if it is less than the length says
  LET l == ReadVarint(b, i)
      end == Min({l.end + l.value, Len(b)})
  IN  IF ~l.ok THEN Error ELSE Ok(SubSeq(b, l.end + 1, end), end)

\* A length, and as many bytes.
ReadBytes(b, i) ==
  LET l == ReadVarint(b, i)
  IN  IF ~l.ok \/ l.end + l.value > Len(b) THEN Error
      ELSE Ok(SubSeq(b, l.end + 1, l.end + l.value), l.end + l.value)

\* The end of a field that nobody knows, groups with all that is in them.
RECURSIVE Skip(_, _, _)
Skip(b, i, depth) ==
  LET tag == ReadVarint(b, i)
      wire == tag.value % 8
      v == ReadVarint(b, tag.end)
      GoOn(end, d) == IF d = 0 THEN Ok(0, end) ELSE Skip(b, end, d)
  IN  IF i >= Len(b) \/ ~tag.ok THEN Error
      ELSE CASE wire = 0 -> IF v.ok THEN GoOn(v.end, depth) ELSE Error
             [] wire = 1 -> GoOn(tag.end + 8, depth)
             [] wire = 2 -> IF v.ok THEN GoOn(v.end + v.value, depth) ELSE Error
             [] wire = 3 -> GoOn(tag.end, depth + 1)
             [] wire = 4 -> IF depth = 0 THEN Error ELSE GoOn(tag.end, depth - 1)
             [] wire = 5 -> GoOn(tag.end + 4, depth)
             [] OTHER    -> Error

\* Unmarshal, from index i on, into a message.  A message that is there already is
\* added to, one of a oneof is replaced.
RECURSIVE UnmarshalInto(_, _, _, _)
UnmarshalInto(T, m, b, i) ==
  LET tag == ReadVarint(b, i)
      num == tag.value \div 8
      wire == tag.value % 8
      f == UnmarshalOf[T][num].as
      Read ==
        CASE f.kind = "number" -> ReadVarint(b, tag.end)
          [] f.kind = "bool"   ->
               LET v == ReadVarint(b, tag.end) IN IF v.ok THEN Ok(v.value # 0, v.end) ELSE v
          [] f.kind = "double" ->
               IF tag.end + 8 > Len(b) THEN Error
               ELSE Ok(SubSeq(b, tag.end + 1, tag.end + 8), tag.end + 8)
          [] f.kind = "bytes"  -> ReadBytes(b, tag.end)
          [] OTHER ->
               LET old == m[f.field]
                   into == IF f.kind = "message" /\ old # <<>> THEN old[1] ELSE New(f.type)
                   Element(e, end) ==
                     IF ~e.ok THEN Error
                     ELSE Ok(IF f.kind = "repeated" THEN Append(old, e.value) ELSE <<e.value>>, end)
                   Message(v) ==
                     IF ~v.ok THEN Error ELSE Element(UnmarshalInto(f.type, into, v.value, 0), v.end)
               IN  Message(ReadBytes(b, tag.end))
      Pass(skipped) ==
        IF ~skipped.ok \/ skipped.end > Len(b) THEN Error ELSE UnmarshalInto(T, m, b, skipped.end)
      Assign(read) ==
        IF ~read.ok THEN Error
        ELSE UnmarshalInto(T, [m EXCEPT ![f.field] = read.value], b, read.end)
  IN  IF i >= Len(b) THEN Ok(m, i)
      ELSE IF ~tag.ok \/ wire = 4 \/ num = 0 THEN Error
      ELSE IF num \notin DOMAIN UnmarshalOf[T] THEN Pass(Skip(b, i, 0))
      ELSE IF wire # UnmarshalOf[T][num].wire THEN Error
      ELSE Assign(Read)

Unmarshal(T, b) == UnmarshalInto(T, New(T), b, 0)

=============================================================================
