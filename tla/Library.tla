------------------------------ MODULE Library ------------------------------
(***************************************************************************)
(* The Runtime Introspection Cache of KotlinNative.cc and the loading of   *)
(* the library: JNI_OnLoad builds the JVMDeclarationsCache (every class    *)
(* through findClass, and the fields and methods looked up on them, in     *)
(* the constructor's order) and the global autorelease pool.               *)
(*                                                                         *)
(* No lookup is checked and no exception is cleared.  A failed lookup      *)
(* leaves its NoClassDefFoundError / NoSuchFieldError / NoSuchMethodError  *)
(* pending; HotSpot's FindClass, GetFieldID and GetMethodID then return    *)
(* NULL while an exception is pending, and crash when handed a NULL class. *)
(* After JNI_OnLoad returns, the JDK's NativeLibrary.load checks for a     *)
(* pending exception: it rethrows it from System.loadLibrary and unloads   *)
(* the library.  That check is the environment, not this repository.       *)
(*                                                                         *)
(* A declaration the class path lacks is in `absent`, chosen once.  The    *)
(* library is never unloaded once loaded: the cache's global references    *)
(* (never deleted) keep its class loader reachable.                        *)
(***************************************************************************)
EXTENDS Naturals, Sequences, SequencesExt, FiniteSets

Member(cls, name) == [of |-> cls, name |-> name]

(* A class itself, as a declaration the class path may lack.               *)
ClassDecl(cls) == Member(cls, "<class>")

Boxes == <<"java/lang/Integer", "java/lang/Long", "java/lang/Short", "java/lang/Float",
           "java/lang/Double", "java/lang/Character", "java/lang/Boolean">>

(* The lookups of the JVMDeclarationsCache constructor, in its order.      *)
Lookups ==
  <<ClassDecl("jet/objc/ObjCObject"), ClassDecl("jet/objc/ObjCSelector"),
    ClassDecl("jet/objc/Pointer"), ClassDecl("jet/objc/Nil"),
    Member("jet/objc/ObjCObject", "pointer"), Member("jet/objc/Pointer", "peer"),
    Member("jet/objc/Nil", "INSTANCE")>>
  \o [i \in 1..7 |-> ClassDecl(Boxes[i])]
  \o <<ClassDecl("kotlin/Unit"), ClassDecl("java/lang/Object"), ClassDecl("java/lang/Class"),
       ClassDecl("java/lang/reflect/Method"),
       Member("java/lang/Object", "getClass"), Member("java/lang/Object", "toString"),
       Member("java/lang/Class", "getName"), Member("java/lang/Class", "getDeclaredMethods"),
       Member("java/lang/Class", "isAssignableFrom"),
       Member("java/lang/reflect/Method", "isBridge"),
       Member("java/lang/reflect/Method", "getReturnType"),
       Member("java/lang/reflect/Method", "getParameterTypes"),
       Member("java/lang/reflect/Method", "name")>>
  \o [i \in 1..7 |-> Member(Boxes[i], "value")]
  \o [i \in 1..7 |-> Member(Boxes[i], "valueOf")]
  \o <<Member("jet/objc/ObjCSelector", "<init>"), Member("jet/objc/Pointer", "<init>")>>

Declarations == Range(Lookups)

VARIABLES
  absent,   \* the declarations the class path lacks
  cache,    \* the global cache pointer: "none", "live"
  handles,  \* handles[d]: what the cache holds for d: "resolved" or "null"
  pending,  \* an exception is pending on the loading thread
  pool,     \* the global autoReleasePool: "none", "live"
  library   \* System.loadLibrary: "loading", "jni_onload_returned", "loaded",
            \* "failed" (exception thrown), or "crash"

vars == <<absent, cache, handles, pending, pool, library>>

(* Mutant: findClass clears the exception FindClass left pending, as the   *)
(* mirror walk of coerceNativeToJVM does.                                  *)
findClass_ClearsException(d, st) ==
  [st EXCEPT !.handles[d] = IF st.pending \/ d \in absent THEN "null" ELSE "resolved",
             !.pending = FALSE]

(* findClass: FindClass (NULL when the class is missing or an exception is *)
(* already pending; a missing class leaves NoClassDefFoundError pending),  *)
(* then NewGlobalRef, which keeps NULL.                                     *)
findClass(d, st) ==
  [st EXCEPT !.handles[d] = IF st.pending \/ d \in absent THEN "null" ELSE "resolved",
             !.pending = st.pending \/ d \in absent]

(* GetFieldID / GetStaticFieldID / GetMethodID / GetStaticMethodID on the  *)
(* class handle found earlier: resolving a NULL class handle crashes;      *)
(* otherwise NULL when the member is missing or an exception is pending.   *)
GetMemberID(d, st) ==
  IF st.handles[ClassDecl(d.of)] = "null"
  THEN [st EXCEPT !.crash = TRUE]
  ELSE [st EXCEPT !.handles[d] = IF st.pending \/ d \in absent THEN "null" ELSE "resolved",
                  !.pending = st.pending \/ d \in absent]

(* One statement of the constructor; nothing runs after a crash.           *)
Lookup(st, d) ==
  IF st.crash THEN st
  ELSE IF d.name = "<class>" THEN findClass(d, st) ELSE GetMemberID(d, st)

(* new JVMDeclarationsCache(env): the lookups in order, none checked.      *)
JVMDeclarationsCache ==
  FoldLeft(Lookup, [handles |-> [d \in Declarations |-> "null"], pending |-> FALSE,
                    crash |-> FALSE], Lookups)

(* JNI_OnLoad on the (attached) loading thread: build the cache, create    *)
(* the autorelease pool ([[NSAutoreleasePool alloc] init], no JNI call)    *)
(* and return JNI_VERSION_1_6 whatever the cache holds.                    *)
JNI_OnLoad ==
  /\ library = "loading"
  /\ LET built == JVMDeclarationsCache IN
       IF built.crash
       THEN /\ library' = "crash"
            /\ UNCHANGED <<cache, handles, pending, pool>>
       ELSE /\ cache' = "live"
            /\ handles' = built.handles
            /\ pending' = built.pending
            /\ pool' = "live"
            /\ library' = "jni_onload_returned"
  /\ UNCHANGED absent

(* The JDK after JNI_OnLoad: a pending exception fails System.loadLibrary  *)
(* and the library is unloaded (without JNI_OnUnload); otherwise the       *)
(* native methods of jet.objc.Native become callable.                      *)
NativeLibraryLoad ==
  /\ library = "jni_onload_returned"
  /\ library' = IF pending THEN "failed" ELSE "loaded"
  /\ UNCHANGED <<absent, cache, handles, pending, pool>>

Init ==
  /\ absent \in {{}} \cup {{d} : d \in Declarations}
  /\ cache = "none"
  /\ handles = [d \in Declarations |-> "null"]
  /\ pending = FALSE
  /\ pool = "none"
  /\ library = "loading"

Next == JNI_OnLoad \/ NativeLibraryLoad

Spec == Init /\ [][Next]_vars

-----------------------------------------------------------------------------

(* Spec section 4.1: initialisation resolves every handle or fails loudly; *)
(* there is no partial-success mode.  Whichever declaration is missing, a  *)
(* library that Kotlin code can call into has every cache handle resolved: *)
(* the constructor checks nothing, so this rests on no lookup clearing the *)
(* exception a failed one left pending until NativeLibrary.load sees it.   *)
CacheCompleteOrFatal ==
  library = "loaded" => \A d \in Declarations : handles[d] = "resolved"

=============================================================================
