--------------------------- MODULE MC_TypeModel ---------------------------
(***************************************************************************)
(* Checks the decoders of TypeModel over bounded inputs: every type        *)
(* encoding up to MaxEncLen characters over an alphabet of qualifiers,     *)
(* primitive codes and non-primitive codes, and a set of reflected names   *)
(* inside and outside the documented domain.  The probe grows one         *)
(* encoding a character at a time; the name is fixed per behaviour.       *)
(***************************************************************************)
EXTENDS TypeModel, TLC

CONSTANTS MaxEncLen

Alphabet ==
  IGNORED_TYPE_ENCODINGS \cup {"c", "C", "i", "s", "l", "q", "f", "d", "v", "@", "B", "{", "^"}

Prim(n) == [form |-> "primitive", path |-> <<n>>]
Cls(p) == [form |-> "class", path |-> p]
Itf(p) == [form |-> "interface", path |-> p]

Names ==
  {Prim(n) : n \in {"int", "char", "double", "void", "byte"}}
  \cup {Itf(<<"jet", "objc", "ObjCClass">>), Itf(<<"kotlin", "Function1">>),
        Itf(<<"java", "lang", "Runnable">>)}
  \cup {Cls(<<"jet", "objc", "Pointer">>), Cls(<<"jet", "objc", "ObjCSelector">>),
        Cls(<<"jet", "objc", "ObjCObject">>), Cls(<<"objc", "NSString">>),
        Cls(<<"objc", "foundation", "NSArray">>), Cls(<<"objc">>),
        Cls(<<"java", "lang", "String">>), Cls(<<"java", "lang", "Integer">>)}

(* The domain on which spec section 4.2 says the decoder succeeds.         *)
DocumentedDomain ==
  {Prim(n) : n \in DOMAIN PrimitiveKinds}
  \cup {Itf(<<"jet", "objc", "ObjCClass">>)}
  \cup {Cls(<<"jet", "objc", w>>) : w \in {"Pointer", "ObjCSelector", "ObjCObject"}}
  \cup {nm \in Names : nm.form = "class" /\ Len(nm.path) >= 2 /\ nm.path[1] = "objc"}

VARIABLES enc, name
probe == <<enc, name>>

Init ==
  /\ enc = <<>>
  /\ name \in Names

Grow ==
  /\ Len(enc) < MaxEncLen
  /\ \E ch \in Alphabet : enc' = Append(enc, ch)
  /\ UNCHANGED name

Spec == Init /\ [][Grow]_probe

(* ffiTypeFromEncoding: any number of leading qualifier characters never   *)
(* changes the ffi type an encoding decodes to ("rl" decodes as "l").      *)
QualifiersIgnored ==
  \A q \in IGNORED_TYPE_ENCODINGS :
    ffiTypeFromEncoding(<<q>> \o enc) = ffiTypeFromEncoding(enc)

(* typeFromReflectString decodes every name of its documented domain and   *)
(* fails fatally on every other name (spec sections 4.2 and 8).            *)
ReflectDecodeTotal ==
  (typeFromReflectString(name) = Fatal) <=> (name \notin DocumentedDomain)
=============================================================================
