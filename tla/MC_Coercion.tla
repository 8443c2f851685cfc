---------------------------- MODULE MC_Coercion ----------------------------
(***************************************************************************)
(* Checks Coercion over bounded inputs.  A probe takes one value across    *)
(* the boundary and back:                                                  *)
(*   "managed": a boxed value passed to a native method that returns it    *)
(*              (coerceJVMToNative, then coerceNativeToJVM at the kind     *)
(*              the mirror method declares);                               *)
(*   "native":  a native value passed to a closure that returns it         *)
(*              (coerceNativeToJVM at the closure's parameter kind, then   *)
(*              coerceJVMToNative of the closure's result);                *)
(*   "object":  a native object pointer returned as ID or as a mirror      *)
(*              class or as a class object, then passed back to native   *)
(*              code.                                                      *)
(* Class hierarchy: NSObject <- NSString <- NSMutableString <- NSCFString, *)
(* NSString <- PrivMid <- PrivLeaf, and a second root NSProxy; the classes *)
(* without a mirror are NSCFString, PrivMid, PrivLeaf and NSProxy.         *)
(***************************************************************************)
EXTENDS Coercion, TLC

MC_ObjCClasses == {"NSObject", "NSString", "NSMutableString", "NSCFString",
                   "PrivMid", "PrivLeaf", "NSProxy"}
MC_Superclass ==
  ("NSObject" :> NoClass) @@ ("NSString" :> "NSObject")
  @@ ("NSMutableString" :> "NSString") @@ ("NSCFString" :> "NSMutableString")
  @@ ("PrivMid" :> "NSString") @@ ("PrivLeaf" :> "PrivMid") @@ ("NSProxy" :> NoClass)
MC_Mirrored == {"NSObject", "NSString", "NSMutableString"}
(* One object of each class, at addresses 1..7. *)
MC_ClassOfObject ==
  <<"NSObject", "NSString", "NSMutableString", "NSCFString", "PrivMid", "PrivLeaf", "NSProxy">>

(* The Type kind a mirror method or a closure declares for each box class. *)
KindOfBox == [Integer |-> "INT", Long |-> "LONG", Short |-> "SHORT",
              Float |-> "FLOAT", Double |-> "DOUBLE", Character |-> "CHAR",
              Boolean |-> "BOOLEAN"]
CTypeOfKind == [INT |-> "int", LONG |-> "long", SHORT |-> "short", FLOAT |-> "float",
                DOUBLE |-> "double", CHAR |-> "char", BOOLEAN |-> "BOOL"]

(* Payloads at the edges of each type (floats stand for bit patterns).    *)
BoxSamples ==
  [Integer |-> {-2147483647 - 1, -7, 0, 2147483647}, Long |-> {-1, 0, 42},
   Short |-> {-32768, -1, 32767}, Float |-> {0, 1}, Double |-> {0, 1},
   Character |-> {0, 65, 127, 128, 233, 255, 256, 65535}, Boolean |-> {0, 1}]
NativeSamples ==
  [INT |-> {-2147483647 - 1, -7, 2147483647}, LONG |-> {-1, 42}, SHORT |-> {-32768, 32767},
   FLOAT |-> {0, 1}, DOUBLE |-> {0, 1}, CHAR |-> {-128, -23, 0, 127}, BOOLEAN |-> {0, 1}]

ManagedInputs == UNION {{[cls |-> b, v |-> x] : x \in BoxSamples[b]} : b \in DOMAIN BoxSamples}
NativeInputs ==
  UNION {{[kind |-> k, word |-> [c |-> CTypeOfKind[k], v |-> x]] : x \in NativeSamples[k]}
         : k \in DOMAIN NativeSamples}
ObjectInputs ==
  [word : {[c |-> "id", v |-> a] : a \in 0..Len(MC_ClassOfObject)},
   type : {TypeOf("ID"), ObjectType("NSString"), TypeOf("CLASS")}]

VARIABLES dir, input, stage, mid, out
probe == <<dir, input, stage, mid, out>>

Init ==
  /\ \/ dir = "managed" /\ input \in ManagedInputs
     \/ dir = "native" /\ input \in NativeInputs
     \/ dir = "object" /\ input \in ObjectInputs
  /\ stage = "start"
  /\ mid = input
  /\ out = input

(* First crossing of the boundary. *)
Cross ==
  /\ stage = "start"
  /\ stage' = "crossed"
  /\ mid' = CASE dir = "managed" -> coerceJVMToNative(input)
              [] dir = "native"  -> coerceNativeToJVM(input.word, TypeOf(input.kind))
              [] dir = "object"  -> coerceNativeToJVM(input.word, input.type)
  /\ UNCHANGED <<dir, input, out>>

(* The callee hands the value straight back across the boundary, unless   *)
(* the first crossing was fatal.                                          *)
CrossBack ==
  /\ stage = "crossed"
  /\ dir # "managed" => mid.cls # "FATAL"
  /\ stage' = "done"
  /\ out' = CASE dir = "managed" -> coerceNativeToJVM(mid, TypeOf(KindOfBox[input.cls]))
              [] OTHER           -> coerceJVMToNative(mid)
  /\ UNCHANGED <<dir, input, mid>>

Spec == Init /\ [][Cross \/ CrossBack]_probe

(* Native to managed to native (spec section 8, first property): a value   *)
(* of every primitive kind that a native caller hands to a closure and the *)
(* closure hands back reaches the native side with the same value and C    *)
(* type.                                                                   *)
NativeRoundTrip ==
  dir = "native" /\ stage = "done" => out = input.word

(* Managed to native to managed (spec section 8, first property, "vice     *)
(* versa"): a boxed value passed to a native method that returns it comes  *)
(* back equal.                                                             *)
ManagedRoundTrip ==
  dir = "managed" /\ stage = "done" => out = input

(* The mirror built for a non-null native object is of the nearest class   *)
(* on its class chain that has a mirror (spec 4.3 tie-break, 8 fourth      *)
(* property), is fatal when no class on the chain has one, and passing the *)
(* mirror back to native code yields the same object pointer.              *)
NearestMirror ==
  dir = "object" /\ input.type.kind # "CLASS" /\ input.word.v # 0 /\ stage # "start" =>
    LET mirrored == SelectSeq(ClassChain(MC_ClassOfObject[input.word.v]),
                              LAMBDA k : k \in MC_Mirrored)
    IN  IF mirrored = <<>> THEN mid = Unsupported
        ELSE /\ mid.cls = Head(mirrored)
             /\ stage = "done" => out.v = input.word.v

=============================================================================
