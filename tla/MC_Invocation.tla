--------------------------- MODULE MC_Invocation ---------------------------
(***************************************************************************)
(* Calls for module Invocation: every pairing of an Objective-C encoding  *)
(* with the JVM type a mirror gives it, with sample values that tell the  *)
(* interesting bytes apart (a negative value, whose upper bytes are 0xFF; *)
(* a byte above 127; a 64-bit value whose low word is zero), for methods  *)
(* of up to two arguments and closures of up to two parameters.           *)
(***************************************************************************)
EXTENDS Invocation, TLC

(* Little-endian bytes of an integer that fits in 32 bits.                 *)
Le(x, n) == Ext([i \in 1..4 |-> (x \div (256 ^ (i - 1))) % 256], n, TRUE)
High == <<0, 0, 0, 0, 1, 0, 0, 0>>    \* 2^32

MC_FloatValues == {1}

Box(cls, rep) == [cls |-> cls, rep |-> rep]

(* Arguments: an encoding and a JVM box a mirror passes for it.            *)
ArgCases ==
     {<<"c", Box("Character", Le(65, 2))>>, <<"c", Box("Boolean", <<1>>)>>,
      <<"s", Box("Short", Le(-2, 2))>>, <<"i", Box("Integer", Le(-2, 4))>>,
      <<"l", Box("Integer", Le(-2, 4))>>, <<"q", Box("Long", High)>>,
      <<"q", Box("Long", Le(-2, 8))>>, <<"f", Box("Float", FloatRep(1))>>,
      <<"d", Box("Double", DoubleRep(1))>>, <<"^", Box("Pointer", Le(4096, 8))>>,
      <<"@", Box("ObjCObject", Le(4096, 8))>>}

(* Returns: an encoding, the native value, and the declared Kotlin kind.   *)
ReturnCases ==
     {<<"c", <<200>>, "CHAR">>, <<"c", <<1>>, "BOOLEAN">>, <<"C", <<1>>, "BOOLEAN">>,
      <<"s", Le(-2, 2), "SHORT">>, <<"i", Le(-2, 4), "INT">>, <<"l", Le(-2, 4), "INT">>,
      <<"q", High, "LONG">>, <<"q", Le(-2, 8), "LONG">>, <<"Q", High, "LONG">>,
      <<"f", FloatRep(1), "FLOAT">>, <<"d", DoubleRep(1), "DOUBLE">>,
      <<"^", Le(4096, WordSize), "POINTER">>, <<"@", Le(4096, WordSize), "ID">>}

ArgLists == UNION {[1..n -> ArgCases] : n \in 0..2}

MsgSendCalls ==
  {[op |-> "msgSend", receiver |-> "object",
    params |-> [k \in DOMAIN a |-> a[k][1]], args |-> [k \in DOMAIN a |-> a[k][2]],
    ret |-> r[1], retValue |-> Box(r[1], r[2]), retKind |-> r[3]] :
     a \in ArgLists, r \in ReturnCases}

NilCalls ==
  {[op |-> "msgSend", receiver |-> "nil", params |-> <<>>, args |-> <<>>,
    ret |-> r[1], retValue |-> Box(r[1], r[2]), retKind |-> r[3]] : r \in ReturnCases}

(* Closure parameters: a kind and the native value its caller passes, of  *)
(* type ffiTypeFromTypeKind(kind).                                         *)
ParamCases ==
     {<<"INT", Le(-2, 4)>>, <<"SHORT", Le(-2, 2)>>, <<"CHAR", <<200>>>>,
      <<"BOOLEAN", <<1>>>>, <<"FLOAT", FloatRep(1)>>, <<"DOUBLE", DoubleRep(1)>>,
      <<"LONG", Le(-2, WordSize)>>}
     \cup (IF WordSize = 8 THEN {<<"LONG", High>>} ELSE {})

(* Closure results: a declared kind and the box the closure returns.       *)
ResultCases ==
     {<<"INT", Box("Integer", Le(-2, 4))>>, <<"LONG", Box("Long", High)>>,
      <<"LONG", Box("Long", Le(-2, 8))>>, <<"SHORT", Box("Short", Le(-2, 2))>>,
      <<"CHAR", Box("Character", Le(321, 2))>>, <<"BOOLEAN", Box("Boolean", <<1>>)>>,
      <<"FLOAT", Box("Float", FloatRep(1))>>, <<"DOUBLE", Box("Double", DoubleRep(1))>>}

ParamLists == UNION {[1..n -> ParamCases] : n \in 0..2}

ClosureCalls ==
  {[op |-> "closure", receiver |-> "object",
    params |-> [k \in DOMAIN p |-> p[k][1]],
    args |-> [k \in DOMAIN p |-> Box(ffiTypeFromTypeKind(p[k][1]), p[k][2])],
    ret |-> r[1], retValue |-> r[2], retKind |-> r[1]] :
     p \in ParamLists, r \in ResultCases}

(* The heap: a block above 4 GiB on x86_64 (so a truncated pointer is    *)
(* another address), and at most 2^40 bytes of it.                         *)
MC_BlockAddress == IF WordSize = 8 THEN <<0, 16, 0, 0, 1, 0, 0, 0>> ELSE <<0, 16, 0, 0>>
MC_MaxBlockBytes == IF WordSize = 8 THEN 5 ELSE 4

(* malloc sizes: a word, a negative jlong, and 2^32 + 8.                  *)
MallocCalls ==
  {[op |-> "malloc", receiver |-> "object", params |-> <<>>, args |-> <<n>>,
    ret |-> "v", retValue |-> Box("v", <<>>), retKind |-> "UNIT"] :
     n \in {Le(8, 8), Le(-1, 8), <<8, 0, 0, 0, 1, 0, 0, 0>>}}

MC_Calls == MsgSendCalls \cup NilCalls \cup ClosureCalls \cup MallocCalls

=============================================================================
