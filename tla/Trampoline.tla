----------------------------- MODULE Trampoline -----------------------------
(***************************************************************************)
(* The Callback Trampoline Factory of KotlinNative.cc:                     *)
(* createNativeClosureForFunction, with reflectMethodFromKotlinFunction   *)
(* and calculateClosureArgumentTypes, as called by coerceJVMToNative for  *)
(* a Kotlin closure; and native code later calling what it was given.     *)
(*                                                                         *)
(* A closure's class is abstracted to its declared methods, in the order  *)
(* Class.getDeclaredMethods returns them (which the JVM does not fix),    *)
(* and to whether the types of its non-bridge invoke decode.  The libffi  *)
(* and JNI steps that can fail are named in EnvFailures.                  *)
(***************************************************************************)
EXTENDS Sequences, SequencesExt

CONSTANTS
  Closures,     \* closure objects coerced to native code
  Methods,      \* Methods[f]: declared methods of f's class, [name, bridge]
  Decodable,    \* closures whose parameter and return types typeFromJavaClass accepts
  EnvFailures   \* steps that may fail: "GetJavaVM", "prep_cif", "closure_alloc", "prep_closure"

ASSUME
  /\ Decodable \subseteq Closures
  /\ EnvFailures \subseteq {"GetJavaVM", "prep_cif", "closure_alloc", "prep_closure"}

VARIABLES
  process,   \* "running", or how it ended: "exit" (exit(42)), "crash"
  stored,    \* stored[f]: what coerceJVMToNative wrote for f: "unset", "entry", "null"
  invokeOf,  \* invokeOf[f]: data->invokeMethodID of f's ClosureData, once complete
  invoked    \* invoked[f]: the method closureHandler called for f, or "none"

vars == <<process, stored, invokeOf, invoked>>

NoMethod == [name |-> "none", bridge |-> FALSE]

(* reflectMethodFromKotlinFunction: the first declared method named invoke *)
(* whose isBridge() equals `bridge`; NULL (after a diagnostic) if none.    *)
reflectMethod(methods, bridge) ==
  LET i == SelectInSeq(methods, LAMBDA m : m.name = "invoke" /\ m.bridge = bridge)
  IN  IF i = 0 THEN NoMethod ELSE methods[i]

(* createNativeClosureForFunction, in the order of its steps: GetJavaVM   *)
(* (failure returns 0); the non-bridge invoke, on which getReturnType is   *)
(* called (a NULL method crashes the JNI call); the return and parameter  *)
(* types (an undecodable one exits); ffi_prep_cif, ffi_closure_alloc,     *)
(* ffi_prep_closure_loc (each failure returns 0); the bridge invoke, given *)
(* to FromReflectedMethod (NULL crashes it); the entry point.             *)
createNativeClosureForFunction(f) ==
  LET plain == reflectMethod(Methods[f], FALSE)
      bridgeInvoke == reflectMethod(Methods[f], TRUE)
  IN
  /\ process = "running"
  /\ stored[f] = "unset"
  /\ \/ /\ "GetJavaVM" \in EnvFailures
        /\ stored' = [stored EXCEPT ![f] = "null"]
        /\ UNCHANGED <<process, invokeOf>>
     \/ /\ plain = NoMethod
        /\ process' = "crash"
        /\ UNCHANGED <<stored, invokeOf>>
     \/ /\ plain # NoMethod
        /\ f \notin Decodable
        /\ process' = "exit"
        /\ UNCHANGED <<stored, invokeOf>>
     \/ /\ plain # NoMethod
        /\ f \in Decodable
        /\ EnvFailures \ {"GetJavaVM"} # {}
        /\ stored' = [stored EXCEPT ![f] = "null"]
        /\ UNCHANGED <<process, invokeOf>>
     \/ /\ plain # NoMethod
        /\ f \in Decodable
        /\ bridgeInvoke = NoMethod
        /\ process' = "crash"
        /\ UNCHANGED <<stored, invokeOf>>
     \/ /\ plain # NoMethod
        /\ f \in Decodable
        /\ bridgeInvoke # NoMethod
        /\ stored' = [stored EXCEPT ![f] = "entry"]
        /\ invokeOf' = [invokeOf EXCEPT ![f] = bridgeInvoke]
        /\ UNCHANGED process
  /\ UNCHANGED invoked

(* Native code calls the function pointer it was given for f: a NULL one  *)
(* faults; an entry point runs closureHandler, which calls the method     *)
(* whose ID the ClosureData holds.                                         *)
CallTrampoline(f) ==
  /\ process = "running"
  /\ stored[f] # "unset"
  /\ invoked[f] = NoMethod
  /\ IF stored[f] = "null"
     THEN /\ process' = "crash"
          /\ UNCHANGED invoked
     ELSE /\ invoked' = [invoked EXCEPT ![f] = invokeOf[f]]
          /\ UNCHANGED process
  /\ UNCHANGED <<stored, invokeOf>>

Init ==
  /\ process = "running"
  /\ stored = [f \in Closures |-> "unset"]
  /\ invokeOf = [f \in Closures |-> NoMethod]
  /\ invoked = [f \in Closures |-> NoMethod]

Next == \E f \in Closures : createNativeClosureForFunction(f) \/ CallTrampoline(f)

Spec == Init /\ [][Next]_vars

=============================================================================
