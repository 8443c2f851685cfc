------------------------------ MODULE TypeModel ------------------------------
(***************************************************************************)
(* The Type Model of KotlinNative.cc: the decoders from an Objective-C     *)
(* type encoding to an ffi type (ffiTypeFromEncoding), from a reflected    *)
(* JVM type name to a Type (typeFromReflectString), from a Type kind to an *)
(* ffi type (ffiTypeFromTypeKind), and the choice of dispatch entry point  *)
(* and ffi signature in MsgSendInvocation.                                 *)
(*                                                                         *)
(* An encoding is a sequence of one-character strings.  A reflected name   *)
(* is what Class.toString() returns: a record of its form ("primitive",    *)
(* "class" or "interface") and its dotted name split at the dots.          *)
(***************************************************************************)
EXTENDS Naturals, Sequences, SequencesExt

CONSTANTS
  AssertsEnabled,    \* the build keeps assert() (no NDEBUG)
  KotlinFunctions    \* simple names of kotlin.FunctionN interfaces

ASSUME AssertsEnabled \in BOOLEAN

(* r const, n in, N inout, o out, O bycopy, R byref, V oneway             *)
IGNORED_TYPE_ENCODINGS == {"r", "n", "N", "o", "O", "R", "V"}

(* The switch of ffiTypeFromEncoding over the first remaining character.   *)
FfiTypeOfCode ==
  ("c" :> "schar") @@ ("C" :> "schar") @@ ("i" :> "sint") @@ ("I" :> "sint")
  @@ ("s" :> "sshort") @@ ("S" :> "sshort") @@ ("l" :> "slong") @@ ("L" :> "slong")
  @@ ("q" :> "sint64") @@ ("Q" :> "sint64") @@ ("f" :> "float")
  @@ ("d" :> "double") @@ ("v" :> "void")

(* Mutant: `if` instead of `while`: only one qualifier is skipped.          *)
StripQualifiers_Once(enc) ==
  IF enc # <<>> /\ Head(enc) \in IGNORED_TYPE_ENCODINGS THEN Tail(enc) ELSE enc

(* The while loop of ffiTypeFromEncoding skipping the qualifiers.          *)
RECURSIVE StripQualifiers(_)
StripQualifiers(enc) ==
  IF enc # <<>> /\ Head(enc) \in IGNORED_TYPE_ENCODINGS
  THEN StripQualifiers(Tail(enc))
  ELSE enc

(* Structs, arrays, objects, selectors, C bool and the terminating NUL of  *)
(* an encoding that is all qualifiers fall to the default: pointer.        *)
ffiTypeFromEncoding(enc) ==
  LET rest == StripQualifiers(enc)
  IN  IF rest # <<>> /\ Head(rest) \in DOMAIN FfiTypeOfCode
      THEN FfiTypeOfCode[Head(rest)]
      ELSE "pointer"

(* MsgSendInvocation::invoke: the entry point and ffi return type are      *)
(* chosen from the method's declared return encoding alone.                *)
MsgSendDispatch(retEnc) ==
  IF ffiTypeFromEncoding(retEnc) \in {"double", "float"}
  THEN [fun |-> "objc_msgSend_fpret", ret |-> "double"]
  ELSE [fun |-> "objc_msgSend", ret |-> "pointer"]

(* calculateArgumentTypesAndValues: receiver and selector are pointers,    *)
(* every further slot takes the method's own argument encoding.            *)
MsgSendArgTypes(argEncs) ==
  <<"pointer", "pointer">> \o [i \in DOMAIN argEncs |-> ffiTypeFromEncoding(argEncs[i])]

-----------------------------------------------------------------------------
(* Types (struct Type) and the reflected-name decoder.                     *)

Fatal == [kind |-> "FATAL"]          \* exit(42) after a diagnostic
TypeOf(k) == [kind |-> k]
ObjectType(path) == [kind |-> "OBJECT", className |-> path]

PrimitiveKinds ==
  ("char" :> "CHAR") @@ ("boolean" :> "BOOLEAN") @@ ("int" :> "INT")
  @@ ("short" :> "SHORT") @@ ("long" :> "LONG") @@ ("float" :> "FLOAT")
  @@ ("double" :> "DOUBLE") @@ ("void" :> "VOID")

OBJC_PACKAGE_PREFIX == "objc"

(* The assert on the mirror-namespace prefix, compiled out under NDEBUG.   *)
MirrorPrefixAssert(path) ==
  AssertsEnabled => (Len(path) >= 2 /\ path[1] = OBJC_PACKAGE_PREFIX)

(* Mutant: the mirror-namespace assert left out.                            *)
typeFromReflectString_NoAssert(name) ==
  CASE name.form = "primitive" /\ name.path[1] \in DOMAIN PrimitiveKinds ->
         TypeOf(PrimitiveKinds[name.path[1]])
    [] name.form = "interface" /\ name.path = <<"jet", "objc", "ObjCClass">> ->
         TypeOf("CLASS")
    [] name.form = "interface" /\ name.path[1] = "kotlin"
         /\ Len(name.path) = 2 /\ name.path[2] \in KotlinFunctions -> Fatal
    [] name.form # "class" -> Fatal
    [] name.path = <<"jet", "objc", "Pointer">> -> TypeOf("POINTER")
    [] name.path = <<"jet", "objc", "ObjCSelector">> -> TypeOf("SELECTOR")
    [] name.path = <<"jet", "objc", "ObjCObject">> -> TypeOf("ID")
    [] OTHER -> ObjectType(name.path)

(* typeFromReflectString: exact names for primitives and void, the         *)
(* ObjCClass interface, the three jet.objc wrapper classes; a FunctionN    *)
(* interface and any other non-class are fatal; any other class is a       *)
(* mirror class whose dots become slashes (kept here as the path).         *)
typeFromReflectString(name) ==
  CASE name.form = "primitive" /\ name.path[1] \in DOMAIN PrimitiveKinds ->
         TypeOf(PrimitiveKinds[name.path[1]])
    [] name.form = "interface" /\ name.path = <<"jet", "objc", "ObjCClass">> ->
         TypeOf("CLASS")
    [] name.form = "interface" /\ name.path[1] = "kotlin"
         /\ Len(name.path) = 2 /\ name.path[2] \in KotlinFunctions -> Fatal
    [] name.form # "class" -> Fatal
    [] name.path = <<"jet", "objc", "Pointer">> -> TypeOf("POINTER")
    [] name.path = <<"jet", "objc", "ObjCSelector">> -> TypeOf("SELECTOR")
    [] name.path = <<"jet", "objc", "ObjCObject">> -> TypeOf("ID")
    [] ~MirrorPrefixAssert(name.path) -> Fatal
    [] OTHER -> ObjectType(name.path)

(* ffiTypeFromTypeKind: the ffi type of a closure parameter or result.     *)
ffiTypeFromTypeKind(kind) ==
  CASE kind = "VOID" -> "void"
    [] kind = "INT" -> "sint"
    [] kind = "LONG" -> "slong"
    [] kind = "SHORT" -> "sshort"
    [] kind = "FLOAT" -> "float"
    [] kind = "DOUBLE" -> "double"
    [] kind \in {"CHAR", "BOOLEAN"} -> "schar"
    [] OTHER -> "pointer"

=============================================================================
