----------------------------- MODULE Invocation -----------------------------
(***************************************************************************)
(* The value path of a call across the bridge, at the level of bytes:      *)
(*                                                                         *)
(*  - Native.objc_msgSend: coerceArrayOfJVMToNative stores each boxed      *)
(*    argument into a `void *arg` and copies it into the args vector;      *)
(*    MsgSendInvocation gives libffi one slot per method argument, typed   *)
(*    by the method's own encoding; ffi_call writes the return register   *)
(*    into `void *result`; coerceNativeToJVM reads it at the declared     *)
(*    Kotlin type and boxes it through the varargs of valueOf.            *)
(*  - closureHandler: each raw argument is read as a void pointer and     *)
(*    coerced at the closure's parameter type; the closure's boxed       *)
(*    result is stored into the ffi return buffer.                         *)
(*                                                                         *)
(* A value is a little-endian byte sequence.  Undef is a byte nobody      *)
(* wrote (an uninitialised local, the unused part of a register, memory   *)
(* past an object).  Floating-point bytes are symbolic: FloatRep(f) and   *)
(* DoubleRep(f) are the IEEE single and double encodings of the real f.   *)
(* The platform fixes the size of a pointer and of a long, and where a    *)
(* double return value lives (xmm0 on x86_64, the x87 stack on i386).     *)
(***************************************************************************)
EXTENDS Integers, Sequences, SequencesExt, TypeModel

CONSTANTS
  Platform,      \* "x86_64" or "i386"
  FloatValues,   \* the real numbers that floating-point samples stand for
  Calls,         \* the calls a run considers (see the comment on VARIABLES)
  BlockAddress,  \* the WordSize bytes of the address malloc returns
  MaxBlockBytes  \* malloc fails for a size that needs more bytes than this

ASSUME Platform \in {"x86_64", "i386"}

WordSize == IF Platform = "x86_64" THEN 8 ELSE 4

Undef == -1

FloatRep(f) == [i \in 1..4 |-> 1000 + 10 * f + i]
DoubleRep(f) == [i \in 1..8 |-> 2000 + 10 * f + i]
FloatOf(rep) == CHOOSE f \in FloatValues : rep \in {FloatRep(f), DoubleRep(f)}

(* The first n bytes of storage b; past its end the bytes are undefined.  *)
Bytes(b, n) == [i \in 1..n |-> IF i <= Len(b) THEN b[i] ELSE Undef]

(* C integer conversion of the value held in b to an n-byte type.         *)
Ext(b, n, signed) ==
  LET fill == IF b = <<>> THEN 0
              ELSE IF Last(b) = Undef THEN Undef
              ELSE IF signed /\ Last(b) >= 128 THEN 255 ELSE 0
  IN  IF n <= Len(b) THEN SubSeq(b, 1, n)
      ELSE b \o [i \in 1..(n - Len(b)) |-> fill]

(* Sizes the Objective-C runtime gives each encoding, and libffi each type.*)
EncSize(code) ==
  CASE code \in {"c", "C"} -> 1
    [] code \in {"s", "S"} -> 2
    [] code \in {"i", "I", "l", "L", "f"} -> 4
    [] code \in {"q", "Q", "d"} -> 8
    [] OTHER -> WordSize
EncSigned(code) == code \in {"c", "s", "i", "l", "q"}
FloatClass(code) == code \in {"f", "d"}
FfiSize(t) ==
  CASE t = "schar" -> 1 [] t = "sshort" -> 2 [] t \in {"sint", "float"} -> 4
    [] t \in {"sint64", "double"} -> 8 [] OTHER -> WordSize

(* Width of the JVM value of each Type kind (a mirror or Pointer holds a   *)
(* jlong), and the JVM box class of each kind.                            *)
JvmWidth(kind) ==
  CASE kind = "BOOLEAN" -> 1 [] kind \in {"SHORT", "CHAR"} -> 2
    [] kind \in {"INT", "FLOAT"} -> 4 [] OTHER -> 8
JvmSigned(cls) == cls \notin {"Character", "Boolean"}

-----------------------------------------------------------------------------
(* JVM -> native: the C type each arm of coerceJVMToNative stores through. *)
BoxCType ==
  ("Integer" :> "int") @@ ("Long" :> "long") @@ ("Short" :> "short")
  @@ ("Float" :> "float") @@ ("Double" :> "double") @@ ("Character" :> "char")
  @@ ("Boolean" :> "BOOL") @@ ("Pointer" :> "long") @@ ("ObjCObject" :> "long")
CSize(ctype) ==
  CASE ctype \in {"char", "BOOL"} -> 1 [] ctype = "short" -> 2
    [] ctype \in {"int", "float"} -> 4 [] ctype = "double" -> 8
    [] OTHER -> WordSize

(* Mutant: the Long arm stores through an int.                             *)
StoreBox_LongAsInt(kv) ==
  IF kv.cls \in {"Float", "Double"} THEN kv.rep
  ELSE IF kv.cls = "Long" THEN Ext(kv.rep, 4, TRUE)
  ELSE Ext(kv.rep, CSize(BoxCType[kv.cls]), JvmSigned(kv.cls))

(* coerceJVMToNative(env, obj, ret): the bytes the store through ret    *)
(* at the C type of the arm writes.                                        *)
StoreBox(kv) ==
  IF kv.cls \in {"Float", "Double"} THEN kv.rep
  ELSE Ext(kv.rep, CSize(BoxCType[kv.cls]), JvmSigned(kv.cls))

(* coerceArrayOfJVMToNative: `void *arg` receives the store (a wider one   *)
(* runs past it) and push_back copies its WordSize bytes into the vector. *)
ArgBlock(args) == FlattenSeq([i \in DOMAIN args |-> Bytes(StoreBox(args[i]), WordSize)])

(* calculateArgumentTypesAndValues: slot k of the method points at         *)
(* &args[k-1] and libffi reads the size of ffiTypeFromEncoding of the     *)
(* method's own encoding from there; the method sees its declared width.  *)
CalleeArg(args, encs, k) ==
  LET block == ArgBlock(args)
      off == (k - 1) * WordSize
      n == FfiSize(ffiTypeFromEncoding(<<encs[k]>>))
      passed == [i \in 1..n |-> IF off + i <= Len(block) THEN block[off + i] ELSE Undef]
  IN  Bytes(passed, EncSize(encs[k]))

-----------------------------------------------------------------------------
(* Native -> JVM.                                                          *)

(* What libffi stores for a double return type: xmm0 on x86_64 (a float    *)
(* leaves its upper half undefined); on i386 the x87 register, which holds *)
(* the value itself, stored as a double.                                   *)
FpuReturn(r) ==
  IF Platform = "x86_64" THEN Bytes(r, 8) ELSE DoubleRep(FloatOf(r))

(* The integer return register a pointer return type reads: the value,    *)
(* truncated to a word, or nothing for a float-class result.              *)
IntReturn(code, r) ==
  IF FloatClass(code) THEN Bytes(<<>>, WordSize) ELSE Bytes(r, WordSize)

(* Mutant: objc_msgSend with a pointer return for every method.            *)
ResultWord_NoFpret(code, r) == Bytes(IntReturn(code, r), WordSize)

(* MsgSendInvocation::invoke: the entry point and ffi return type chosen   *)
(* from the return encoding; ffi_call stores the return into the          *)
(* WordSize bytes of `void *result` (a double store runs past it).        *)
ResultWord(code, r) ==
  LET d == MsgSendDispatch(<<code>>)
  IN  Bytes(IF d.ret = "double" THEN FpuReturn(r) ELSE IntReturn(code, r), WordSize)

(* coerceNativeToJVM(env, value, type) on the bytes of `void *value`: a    *)
(* cast read at the kind's C type, passed through the varargs of valueOf  *)
(* (or of the (J)V constructor of Pointer and of a mirror), where the JVM *)
(* reads the Java type: a long or pointer read as jlong, a char promoted  *)
(* to int and narrowed to jchar.                                          *)
NativeToJvmBytes(word, kind) ==
  CASE kind = "INT"     -> Bytes(word, 4)
    [] kind = "SHORT"   -> Bytes(word, 2)
    [] kind = "CHAR"    -> Ext(Bytes(word, 1), 2, TRUE)
    [] kind = "BOOLEAN" -> Bytes(word, 1)
    [] kind = "FLOAT"   -> Bytes(word, 4)
    [] kind = "DOUBLE"  -> Bytes(word, 8)
    [] OTHER            -> Bytes(Bytes(word, WordSize), 8)

-----------------------------------------------------------------------------
(* Closures.                                                               *)

(* Mutant: the handler reads each raw argument as an int.                  *)
HandlerArgWord_Int(x) == Bytes(x.rep, 4)

(* coerceArrayOfNativeToJVM: a void-pointer read of args[i], WordSize of  *)
(* storage libffi gives the argument (the value, then undefined bytes).   *)
HandlerArgWord(x) == Bytes(x.rep, WordSize)

(* closureHandler's coerceJVMToNative(env, result, ret): the native caller *)
(* reads the cif's return type, ffiTypeFromTypeKind of the declared kind. *)
HandlerResult(kv, kind) == Bytes(StoreBox(kv), FfiSize(ffiTypeFromTypeKind(kind)))

-----------------------------------------------------------------------------
(* The thin accessors: Native.malloc, free, getWord and setWord.           *)

(* A jlong converted to size_t, unsigned and WordSize bytes wide.          *)
SizeT(n) == Bytes(n, WordSize)

(* Whether the little-endian unsigned a is at least b (same length).       *)
RECURSIVE UGeq(_, _)
UGeq(a, b) ==
  IF a = <<>> THEN TRUE
  ELSE IF Last(a) # Last(b) THEN Last(a) > Last(b)
  ELSE UGeq(Front(a), Front(b))

(* malloc(size): NULL when it cannot or will not give the block, else the  *)
(* block at BlockAddress; any allocation may fail.                         *)
MallocResults(size) ==
  {[i \in 1..WordSize |-> 0]}
  \cup (IF \A i \in (MaxBlockBytes + 1)..WordSize : size[i] = 0
        THEN {BlockAddress} ELSE {})

(* Java_jet_objc_Native_malloc returns the jlong at &memory: the pointer's *)
(* WordSize bytes, then whatever follows the local (a read past it).       *)
MallocReturn(memory) == Bytes(memory, 8)

(* Native.free reads the pointer as the first WordSize bytes of the jlong; *)
(* getWord and setWord convert the jlong to a pointer, which keeps its low *)
(* WordSize bytes.  Both then reach memory at that address.                *)
FreePointer(p) == Bytes(p, WordSize)
GetWordPointer(p) == Bytes(p, WordSize)
SetWordPointer(p) == Bytes(p, WordSize)

-----------------------------------------------------------------------------
(* A call: op "msgSend", "closure" or "malloc"; receiver "object" or "nil"; params  *)
(* the method's argument encodings (msgSend) or the closure's parameter   *)
(* kinds; args the values passed (JVM boxes for msgSend, native values    *)
(* [cls |-> ffi type, rep] for a closure); ret the method's return        *)
(* encoding or the closure's return kind, with the Kotlin-declared kind   *)
(* in retKind; retValue what the method or the closure returns.  A malloc *)
(* call passes the jlong bytes in args[1] and then hands the pointer it   *)
(* got to free and to getWord / setWord.                                   *)

VARIABLES call, outcome
vars == <<call, outcome>>

Pending == [kind |-> "pending", args |-> <<>>, result |-> <<>>, size |-> <<>>]

(* Native.objc_msgSend with MsgSendInvocation.  For a nil receiver         *)
(* class_getInstanceMethod(Nil, sel) is NULL: method_getNumberOfArguments *)
(* is 0, so libffi passes no receiver and no selector, and                *)
(* method_copyReturnType(NULL) either yields an empty encoding or a NULL   *)
(* that ffiTypeFromEncoding dereferences.                                  *)
objc_msgSend ==
  /\ call.op = "msgSend"
  /\ outcome = Pending
  /\ IF call.receiver = "nil"
     THEN \/ outcome' = [Pending EXCEPT !.kind = "crash"]
          \/ outcome' = [Pending EXCEPT !.kind = "undefined"]
     ELSE outcome' =
            [Pending EXCEPT
               !.kind = "returned",
               !.args = [k \in DOMAIN call.params |-> CalleeArg(call.args, call.params, k)],
               !.result = NativeToJvmBytes(ResultWord(call.ret, call.retValue.rep), call.retKind)]
  /\ UNCHANGED call

(* closureHandler's value path: coerce each raw argument, call the bridge *)
(* invoke, store the boxed result into the return buffer.                 *)
closureHandler ==
  /\ call.op = "closure"
  /\ outcome = Pending
  /\ outcome' =
       [Pending EXCEPT
          !.kind = "returned",
          !.args = [k \in DOMAIN call.params |->
                      NativeToJvmBytes(HandlerArgWord(call.args[k]), call.params[k])],
          !.result = HandlerResult(call.retValue, call.retKind)]
  /\ UNCHANGED call

(* Kotlin allocates with Native.malloc, then passes the jlong it got to    *)
(* Native.free and to getWord / setWord: args records the pointer each of  *)
(* them reaches, size the size_t malloc was asked for.                     *)
Java_jet_objc_Native_malloc ==
  /\ call.op = "malloc"
  /\ outcome = Pending
  /\ \E memory \in MallocResults(SizeT(call.args[1])) :
       LET p == MallocReturn(memory) IN
       outcome' = [Pending EXCEPT !.kind = "returned", !.result = p,
                                  !.args = <<FreePointer(p), GetWordPointer(p), SetWordPointer(p)>>,
                                  !.size = IF memory = BlockAddress THEN SizeT(call.args[1]) ELSE <<>>]
  /\ UNCHANGED call

Init == call \in Calls /\ outcome = Pending
Next == objc_msgSend \/ closureHandler \/ Java_jet_objc_Native_malloc
Spec == Init /\ [][Next]_vars

-----------------------------------------------------------------------------
(* What each value should be: the source value converted to the type of   *)
(* the receiving side (C conversion to the declared width and signedness). *)

ExpectedNative(kv, n) ==
  IF kv.cls \in {"Float", "Double"} THEN kv.rep ELSE Ext(kv.rep, n, JvmSigned(kv.cls))
ExpectedJvm(rep, signed, kind) ==
  IF kind \in {"FLOAT", "DOUBLE"} THEN rep ELSE Ext(rep, JvmWidth(kind), signed)

Returned == outcome.kind = "returned"

(* Every argument of a Native.objc_msgSend call reaches the Objective-C    *)
(* method as the JVM value converted to the method's declared parameter   *)
(* type, whatever the neighbouring arguments (spec section 4.4, step 2).  *)
ArgumentsDelivered ==
  Returned /\ call.op = "msgSend" =>
    \A k \in DOMAIN call.params :
      outcome.args[k] = ExpectedNative(call.args[k], EncSize(call.params[k]))

(* The JVM caller of Native.objc_msgSend receives the method's return      *)
(* value converted to the declared Kotlin type: through objc_msgSend_fpret *)
(* and a double ffi return for float and double (spec section 4.4, step   *)
(* 3), through objc_msgSend otherwise.                                     *)
ResultDelivered ==
  Returned /\ call.op = "msgSend" =>
    outcome.result = ExpectedJvm(call.retValue.rep, EncSigned(call.ret), call.retKind)

(* A trampoline invoked by native code delivers exactly the values it was *)
(* called with, coerced, to the closure, and the closure's result to its  *)
(* native caller (spec section 8).                                         *)
ClosureCallDelivered ==
  Returned /\ call.op = "closure" =>
    /\ \A k \in DOMAIN call.params :
         outcome.args[k] = ExpectedJvm(call.args[k].rep, TRUE, call.params[k])
    /\ outcome.result =
         ExpectedNative(call.retValue, FfiSize(ffiTypeFromTypeKind(call.retKind)))

(* The jlong Kotlin gets from Native.malloc(n) is the address of a block  *)
(* of at least n bytes, zero-extended, and free, getWord and setWord given *)
(* it reach that block; or it is 0 (spec section 6: "allocate N bytes").   *)
MallocDelivered ==
  LET n == call.args[1]
      zero == [i \in 1..8 |-> 0]
  IN  Returned /\ call.op = "malloc" =>
        \/ outcome.result = zero
        \/ /\ outcome.result = Ext(BlockAddress, 8, FALSE)
           /\ n[8] >= 128 \/ UGeq(Ext(outcome.size, 8, FALSE), n)
           /\ outcome.args = <<BlockAddress, BlockAddress, BlockAddress>>

=============================================================================
