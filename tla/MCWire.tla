------------------------------- MODULE MCWire -------------------------------
(* Messages of every type: with no field set, with one, with all but one,  *)
(* with all; with pointers to empty messages, and lengths and numbers of   *)
(* one byte, two bytes and more.                                           *)
EXTENDS Wire

Types == DOMAIN UnmarshalOf

Long == [i \in 1 .. 130 |-> 8]

\* Values other than zero that a field may have; the last is one with all in it.
RECURSIVE Samples(_)
Samples(f) ==
  LET FullOf(T) == [name \in {g.field : g \in Fields(T)} |->
                      Samples(CHOOSE g \in Fields(T) : g.field = name)[1]]
  IN  CASE f.kind = "number" -> <<300, 1, 127, 128, 16384, 2147483647>>
        [] f.kind = "bool"   -> <<TRUE>>
        [] f.kind = "double" -> <<<<0, 0, 0, 0, 0, 0, 248, 127>>, <<1, 8, 128, 0, 0, 0, 240, 63>>>>
        [] f.kind = "bytes"  -> <<<<8, 18>>, Long>>
        [] f.kind = "repeated" -> <<<<New(f.type), FullOf(f.type)>>, <<New(f.type)>>>>
        [] OTHER -> <<<<FullOf(f.type)>>, <<New(f.type)>>>>

Full(T) == [name \in {f.field : f \in Fields(T)} |->
              Samples(CHOOSE f \in Fields(T) : f.field = name)[1]]

Sample(T) ==
  {New(T), Full(T)}
    \cup UNION {{[New(T) EXCEPT ![f.field] = Samples(f)[k]] : k \in DOMAIN Samples(f)} : f \in Fields(T)}
    \cup {[Full(T) EXCEPT ![f.field] = Zero(f)] : f \in Fields(T)}

MCMessages == UNION {{[type |-> T, msg |-> m] : m \in Sample(T)} : T \in Types}

\* Meow, Allow, RegRes, GetRes: any distinct names.
MCHandlerTypes ==
  <<77>> :> None @@ <<65>> :> "AllowCmd" @@ <<82>> :> "RegResCmd" @@ <<71>> :> "GetResCmd"

MCRequests ==
  {[cmd |-> <<77>>, msg |-> None]} \cup
  UNION {{[cmd |-> c, msg |-> m] : m \in {New(MCHandlerTypes[c]), Full(MCHandlerTypes[c])}} :
           c \in DOMAIN MCHandlerTypes \ {<<77>>}}

MCAnswers ==
  UNION {{[error |-> FALSE, type |-> T, msg |-> m] : m \in {New(T), Full(T)}} :
           T \in {"MeowCmdResp", "AllowCmdResp", "RegResCmdResp", "Resource"}}
    \cup {[error |-> TRUE, type |-> "AllowCmdResp", msg |-> m] : m \in Sample("CmdError")}

\* A varint, a double, bytes, a group with a group and bytes in it, a fixed32;
\* field numbers of one byte and of two.
MCUnknownFields ==
  {<<120, 5>>, <<121, 1, 2, 3, 4, 5, 6, 7, 8>>, <<250, 1, 3, 8, 1, 8>>,
   <<123, 123, 124, 122, 1, 124, 124>>, <<125, 1, 2, 3, 4>>}

=============================================================================
