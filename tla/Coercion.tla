------------------------------ MODULE Coercion ------------------------------
(***************************************************************************)
(* The Value Coercion Engine of KotlinNative.cc: coerceJVMToNative and     *)
(* coerceNativeToJVM, with createMirrorObjectOfClass and the walk up the   *)
(* Objective-C class chain to the nearest class with a JVM mirror.        *)
(*                                                                         *)
(* A managed value is a record [cls, v]: its runtime class and payload.    *)
(* A native word is a record [c, v]: the C type last stored into it and    *)
(* the value of that type; reading it as a narrower integer type keeps     *)
(* the low bits (little-endian), as a cast read of the word does.          *)
(* Integers keep the width at which they are converted (char 8, jchar 16). *)
(* A native object pointer is NULL or the address of an object, whose      *)
(* class object_getClass reports as ClassOfObject[address].                *)
(***************************************************************************)
EXTENDS Integers, Sequences, SequencesExt, TypeModel

CONSTANTS
  ObjCClasses,   \* Objective-C classes the native side may hand over
  Superclass,    \* Superclass[c]: class_getSuperclass(c), or NoClass at a root
  Mirrored,      \* classes c for which FindClass("objc/" + c) succeeds
  NoClass,       \* model value: class_getSuperclass of a root class
  ClassOfObject  \* object_getClass of each native object address (not 0)

ASSUME
  /\ Mirrored \subseteq ObjCClasses
  /\ Superclass \in [ObjCClasses -> ObjCClasses \cup {NoClass}]
  /\ DOMAIN ClassOfObject \subseteq Nat \ {0}
  /\ ClassOfObject \in [DOMAIN ClassOfObject -> ObjCClasses]

(* The address createNativeClosureForFunction returns: no object has it.  *)
TrampolineAddress == -1

NULL == [c |-> "pointer", v |-> 0]
Nil == [cls |-> "Nil", v |-> 0]            \* the jet.objc.Nil singleton
Unsupported == [cls |-> "FATAL", v |-> 0]  \* a diagnostic, then exit(42)

(* Two's-complement conversion of an integer to a `bits`-wide type.       *)
Wrap(x, bits, signed) ==
  LET m == x % (2^bits)
  IN  IF signed /\ m >= 2^(bits - 1) THEN m - 2^bits ELSE m

(* The integer C types narrower than a pointer: width and signedness.     *)
NarrowInt == [char |-> <<8, TRUE>>, BOOL |-> <<8, TRUE>>, short |-> <<16, TRUE>>]

(* A cast read of C type t: the value held in the low bytes of the word.  *)
ReadAs(word, t) ==
  IF t \in DOMAIN NarrowInt /\ word.c # t
  THEN Wrap(word.v, NarrowInt[t][1], NarrowInt[t][2])
  ELSE word.v

(* Mutant: the Character arm stores the jchar without narrowing to char.   *)
JvmPrimitiveToNative_Wide(obj) ==
  CASE obj.cls = "Integer"   -> [c |-> "int", v |-> obj.v]
    [] obj.cls = "Long"      -> [c |-> "long", v |-> obj.v]
    [] obj.cls = "Short"     -> [c |-> "short", v |-> obj.v]
    [] obj.cls = "Float"     -> [c |-> "float", v |-> obj.v]
    [] obj.cls = "Double"    -> [c |-> "double", v |-> obj.v]
    [] obj.cls = "Character" -> [c |-> "short", v |-> obj.v]
    [] obj.cls = "Boolean"   -> [c |-> "BOOL", v |-> obj.v]

(* The java.lang.* arm of coerceJVMToNative: the field value stored as     *)
(* the C type of the arm (a jchar into a char, a jboolean into a BOOL).    *)
JvmPrimitiveToNative(obj) ==
  CASE obj.cls = "Integer"   -> [c |-> "int", v |-> obj.v]
    [] obj.cls = "Long"      -> [c |-> "long", v |-> obj.v]
    [] obj.cls = "Short"     -> [c |-> "short", v |-> obj.v]
    [] obj.cls = "Float"     -> [c |-> "float", v |-> obj.v]
    [] obj.cls = "Double"    -> [c |-> "double", v |-> obj.v]
    [] obj.cls = "Character" -> [c |-> "char", v |-> Wrap(obj.v, 8, TRUE)]
    [] obj.cls = "Boolean"   -> [c |-> "BOOL", v |-> obj.v]

BoxClasses == {"Integer", "Long", "Short", "Float", "Double", "Character", "Boolean"}

(* coerceJVMToNative dispatches on the runtime class of the value, in this *)
(* order: java.lang wrappers (another java.lang class such as String is   *)
(* NULL after a diagnostic), kotlin.Unit, Pointer, ObjCObject mirrors, a   *)
(* FunctionN closure (which becomes a trampoline address), anything else   *)
(* NULL after a diagnostic (jet.objc.Nil among them).                      *)
coerceJVMToNative(obj) ==
  CASE obj.cls \in BoxClasses  -> JvmPrimitiveToNative(obj)
    [] obj.cls = "String"      -> NULL
    [] obj.cls = "Unit"        -> NULL
    [] obj.cls = "Pointer"     -> [c |-> "long", v |-> obj.v]
    [] obj.cls \in ObjCClasses -> [c |-> "long", v |-> obj.v]
    [] obj.cls = "Function"    -> [c |-> "pointer", v |-> TrampolineAddress]
    [] OTHER                   -> NULL

-----------------------------------------------------------------------------
(* Mirror resolution for TYPE_ID and TYPE_OBJECT.                          *)

(* The class chain of c: c, its superclass, ... up to the root.            *)
RECURSIVE ClassChain(_)
ClassChain(c) == IF c = NoClass THEN <<>> ELSE <<c>> \o ClassChain(Superclass[c])

(* Mutant: the walk starts at the superclass of the object's class.        *)
MirrorClassOf_SkipSelf(c) ==
  LET RECURSIVE Walk(_)
      Walk(k) == IF k = NoClass THEN NoClass
                 ELSE IF k \in Mirrored THEN k ELSE Walk(Superclass[k])
  IN  IF c = NoClass THEN NoClass ELSE Walk(Superclass[c])

(* The while loop of coerceNativeToJVM: FindClass on "objc/" + the class   *)
(* name, clearing the exception and moving to the superclass until a class *)
(* is found; NoClass when the chain is exhausted.                          *)
MirrorClassOf(c) ==
  LET RECURSIVE Walk(_)
      Walk(k) == IF k = NoClass THEN NoClass
                 ELSE IF k \in Mirrored THEN k ELSE Walk(Superclass[k])
  IN  Walk(c)

(* The TYPE_CLASS arm for a non-NULL class: FindClass("objc/" + its name)  *)
(* and the static object$ field of that class.  Nothing walks the chain:   *)
(* a class without a mirror leaves FindClass NULL and GetStaticFieldID on  *)
(* it fails.                                                               *)
ClassObjectOf(ptr) ==
  IF ClassOfObject[ptr] \in Mirrored
  THEN [cls |-> ClassOfObject[ptr] \o "$object", v |-> ptr]
  ELSE Unsupported

(* createMirrorObjectOfClass: new mirror(pointer); no retain.              *)
createMirrorObjectOfClass(ptr, cls) == [cls |-> cls, v |-> ptr]

(* coerceNativeToJVM for the primitive, selector and pointer kinds: box    *)
(* the value read at the kind's C type with valueOf; a char or BOOL passes *)
(* through the varargs of CallStaticObjectMethod as an int and is then     *)
(* narrowed to the jchar / jboolean valueOf takes.                         *)
NativeScalarToJVM(word, kind) ==
  CASE kind = "VOID"     -> [cls |-> "null", v |-> 0]
    [] kind = "INT"      -> [cls |-> "Integer", v |-> ReadAs(word, "int")]
    [] kind = "LONG"     -> [cls |-> "Long", v |-> ReadAs(word, "long")]
    [] kind = "SHORT"    -> [cls |-> "Short", v |-> ReadAs(word, "short")]
    [] kind = "FLOAT"    -> [cls |-> "Float", v |-> ReadAs(word, "float")]
    [] kind = "DOUBLE"   -> [cls |-> "Double", v |-> ReadAs(word, "double")]
    [] kind = "CHAR"     -> [cls |-> "Character", v |-> Wrap(ReadAs(word, "char"), 16, FALSE)]
    [] kind = "BOOLEAN"  -> [cls |-> "Boolean", v |-> Wrap(ReadAs(word, "BOOL"), 8, FALSE)]
    [] kind = "SELECTOR" -> [cls |-> "ObjCSelector", v |-> word.v]
    [] kind = "POINTER"  -> [cls |-> "Pointer", v |-> word.v]

(* coerceNativeToJVM: a NULL class or untyped object is Nil; a class      *)
(* object is the object$ singleton of its mirror (a missing mirror is not  *)
(* handled: FindClass returns NULL and the JNI calls after it fail); a     *)
(* NULL typed object is a mirror of the declared class around NULL; any    *)
(* other object is a mirror of the nearest mirrored class on its chain.    *)
coerceNativeToJVM(word, type) ==
  LET kind == type.kind IN
  CASE kind \in {"CLASS", "ID"} /\ word.v = 0 -> Nil
    [] kind = "CLASS" -> ClassObjectOf(word.v)
    [] kind = "OBJECT" /\ word.v = 0 ->
         createMirrorObjectOfClass(0, type.className)
    [] kind \in {"ID", "OBJECT"} ->
         IF MirrorClassOf(ClassOfObject[word.v]) = NoClass THEN Unsupported
         ELSE createMirrorObjectOfClass(word.v, MirrorClassOf(ClassOfObject[word.v]))
    [] kind = "FATAL" -> Unsupported
    [] OTHER -> NativeScalarToJVM(word, kind)

=============================================================================
