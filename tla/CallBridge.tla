----------------------------- MODULE CallBridge -----------------------------
(***************************************************************************)
(* The thread-level behaviour of the JVM <-> Objective-C bridge of         *)
(* src/objc/runtime.objc/native/KotlinNative.cc.                           *)
(*                                                                         *)
(* Managed (JVM) threads call Native.objc_msgSend; while the native method *)
(* runs it may call back, on the same thread, through a trampoline made    *)
(* for a Kotlin closure passed as an argument; native threads that never   *)
(* saw the JVM may call a stored trampoline at any time.  closureHandler   *)
(* attaches such a thread to the JVM, pushes a JNI local frame, runs the   *)
(* closure (which may call objc_msgSend again), pops the frame and         *)
(* detaches only if it attached.  JNI_OnLoad creates the declarations     *)
(* cache every bridge call reads.  JNI_OnUnload is not an action: the JVM  *)
(* calls it only once the library's class loader is unreachable, and the   *)
(* cache's global class references, never deleted, keep it reachable.      *)
(*                                                                         *)
(* Values are abstracted away: an argument is either a plain value or a    *)
(* closure (which makes a trampoline); a closure returns a value or a      *)
(* closure.  Coercion of values is modelled in module Coercion.            *)
(***************************************************************************)
EXTENDS Naturals, Sequences, SequencesExt

CONSTANTS
  ManagedThreads,        \* JVM threads (attached for their whole life)
  NativeThreads,         \* native threads (e.g. dispatch queues), not attached
  NoThread,              \* model value: no owner
  MaxDepth,              \* bound on the bridge frames nested on one thread
  MaxTrampolines,        \* bound on the trampolines created (never freed)
  AttachCanFail,         \* AttachCurrentThread may return an error
  PushLocalFrameCanFail  \* PushLocalFrame may fail (out of memory)

ASSUME
  /\ ManagedThreads \cap NativeThreads = {}
  /\ NoThread \notin ManagedThreads \cup NativeThreads
  /\ MaxDepth \in Nat \ {0}
  /\ MaxTrampolines \in Nat
  /\ AttachCanFail \in BOOLEAN
  /\ PushLocalFrameCanFail \in BOOLEAN

Threads == ManagedThreads \cup NativeThreads

VARIABLES
  cache,        \* the global JVMDeclarationsCache *cache: "none", "live"
  pool,         \* the global autoReleasePool: creating thread and state
  attached,     \* attached[t]: thread t is attached to the JVM
  stack,        \* stack[t]: the bridge frames on thread t, innermost last
  localFrames,  \* localFrames[t]: JNI local frames of t, each tagged with the
                \* stack position of the bridge frame that created it
  trampolines,  \* number of ffi closures created by createNativeClosureForFunction
  delivered     \* delivered[t]: what the last trampoline call on t left in
                \* the native return slot

vars == <<cache, pool, attached, stack, localFrames, trampolines, delivered>>

(* A frame of Native.objc_msgSend: the native method is running.           *)
MsgSendFrame == [kind |-> "msgSend"]

(* A frame of closureHandler: the managed closure is running; the handler  *)
(* keeps in its local `attached` whether the thread was attached on entry. *)
HandlerFrame(wasAttached) == [kind |-> "handler", attachedBefore |-> wasAttached]

Frames == {MsgSendFrame} \cup {HandlerFrame(b) : b \in BOOLEAN}

(* Managed code runs on t: a JVM thread outside the bridge, or a closure    *)
(* called by closureHandler.                                               *)
RunsManaged(t) ==
  IF stack[t] = <<>> THEN t \in ManagedThreads ELSE Last(stack[t]).kind = "handler"

(* Native code runs on t: a native thread outside the bridge, or the       *)
(* Objective-C method called by objc_msgSend.                              *)
RunsNative(t) ==
  IF stack[t] = <<>> THEN t \in NativeThreads ELSE Last(stack[t]).kind = "msgSend"

HandlerFrames(t) == {i \in DOMAIN stack[t] : stack[t][i].kind = "handler"}

(* JNI_OnLoad: build the cache and the autorelease pool.  The JVM runs it  *)
(* on the (attached) thread calling System.loadLibrary, so GetEnv succeeds *)
(* and the attach / detach branches are not taken.                         *)
JNI_OnLoad(t) ==
  /\ t \in ManagedThreads
  /\ stack[t] = <<>>
  /\ cache = "none"
  /\ cache' = "live"
  /\ pool' = [owner |-> t, state |-> "live"]
  /\ UNCHANGED <<attached, stack, localFrames, trampolines, delivered>>

(* Mutant: the local frame tagged one position too low.                    *)
objc_msgSend_TagOffByOne(t, closures) ==
  /\ RunsManaged(t)
  /\ cache = "live"
  /\ Len(stack[t]) < MaxDepth
  /\ trampolines + closures <= MaxTrampolines
  /\ stack' = [stack EXCEPT ![t] = Append(@, MsgSendFrame)]
  /\ localFrames' = [localFrames EXCEPT ![t] = Append(@, Len(stack[t]))]
  /\ trampolines' = trampolines + closures
  /\ UNCHANGED <<cache, pool, attached, delivered>>

(* Native.objc_msgSend up to ffi_call: read the receiver through the cache,*)
(* coerce the arguments (each closure among them becomes a new trampoline  *)
(* in coerceJVMToNative), resolve the method and call it.  The JVM gives   *)
(* the native method its own local frame.  Managed code can only call the  *)
(* native method while its library is loaded.                              *)
objc_msgSend(t, closures) ==
  /\ RunsManaged(t)
  /\ cache = "live"
  /\ Len(stack[t]) < MaxDepth
  /\ trampolines + closures <= MaxTrampolines
  /\ stack' = [stack EXCEPT ![t] = Append(@, MsgSendFrame)]
  /\ localFrames' = [localFrames EXCEPT ![t] = Append(@, Len(stack[t]) + 1)]
  /\ trampolines' = trampolines + closures
  /\ UNCHANGED <<cache, pool, attached, delivered>>

(* The Objective-C method returns: coerceNativeToJVM builds the result and *)
(* the JVM discards the native method's local frame (and any above it).    *)
MsgSendReturn(t) ==
  /\ stack[t] # <<>>
  /\ Last(stack[t]).kind = "msgSend"
  /\ stack' = [stack EXCEPT ![t] = Front(@)]
  /\ localFrames' = [localFrames EXCEPT ![t] =
                       SelectSeq(@, LAMBDA owner : owner < Len(stack[t]))]
  /\ UNCHANGED <<cache, pool, attached, trampolines, delivered>>

(* Mutant: closureHandler without its PushLocalFrame call.                 *)
HandlerEnter_NoPush(t) ==
  /\ RunsNative(t)
  /\ trampolines > 0
  /\ Len(stack[t]) < MaxDepth
  /\ attached' = [attached EXCEPT ![t] = TRUE]
  /\ stack' = [stack EXCEPT ![t] = Append(@, HandlerFrame(attached[t]))]
  /\ UNCHANGED <<cache, pool, trampolines, delivered, localFrames>>

(* closureHandler entry, when GetEnv succeeds or AttachCurrentThread does: *)
(* PushLocalFrame(16) (whose result is not checked), coerce the arguments  *)
(* through the cache and call the closure's bridge invoke method.          *)
HandlerEnter(t) ==
  /\ RunsNative(t)
  /\ trampolines > 0
  /\ Len(stack[t]) < MaxDepth
  /\ attached' = [attached EXCEPT ![t] = TRUE]
  /\ stack' = [stack EXCEPT ![t] = Append(@, HandlerFrame(attached[t]))]
  /\ \/ localFrames' = [localFrames EXCEPT ![t] = Append(@, Len(stack[t]) + 1)]
     \/ /\ PushLocalFrameCanFail
        /\ UNCHANGED localFrames
  /\ UNCHANGED <<cache, pool, trampolines, delivered>>

(* closureHandler when the thread is not attached and AttachCurrentThread  *)
(* fails: it logs and returns without writing the return slot.             *)
HandlerAttachFails(t) ==
  /\ RunsNative(t)
  /\ trampolines > 0
  /\ AttachCanFail
  /\ ~attached[t]
  /\ delivered' = [delivered EXCEPT ![t] = "unwritten"]
  /\ UNCHANGED <<cache, pool, attached, stack, localFrames, trampolines>>

(* Mutant: the handler detaches whether or not it attached the thread.    *)
HandlerReturn_AlwaysDetach(t, closures) ==
  /\ stack[t] # <<>>
  /\ Last(stack[t]).kind = "handler"
  /\ trampolines + closures <= MaxTrampolines
  /\ localFrames' = [localFrames EXCEPT ![t] = IF @ = <<>> THEN @ ELSE Front(@)]
  /\ trampolines' = trampolines + closures
  /\ attached' = [attached EXCEPT ![t] = FALSE]
  /\ stack' = [stack EXCEPT ![t] = Front(@)]
  /\ delivered' = [delivered EXCEPT ![t] = "result"]
  /\ UNCHANGED <<cache, pool>>

(* The closure returns: PopLocalFrame, coerceJVMToNative of the result     *)
(* into the return slot (a returned closure becomes a new trampoline), and *)
(* DetachCurrentThread if the handler attached the thread.                 *)
HandlerReturn(t, closures) ==
  /\ stack[t] # <<>>
  /\ Last(stack[t]).kind = "handler"
  /\ trampolines + closures <= MaxTrampolines
  /\ localFrames' = [localFrames EXCEPT ![t] = IF @ = <<>> THEN @ ELSE Front(@)]
  /\ trampolines' = trampolines + closures
  /\ attached' = [attached EXCEPT ![t] = Last(stack[t]).attachedBefore]
  /\ stack' = [stack EXCEPT ![t] = Front(@)]
  /\ delivered' = [delivered EXCEPT ![t] = "result"]
  /\ UNCHANGED <<cache, pool>>

Init ==
  /\ cache = "none"
  /\ pool = [owner |-> NoThread, state |-> "none"]
  /\ attached = [t \in Threads |-> t \in ManagedThreads]
  /\ stack = [t \in Threads |-> <<>>]
  /\ localFrames = [t \in Threads |-> <<>>]
  /\ trampolines = 0
  /\ delivered = [t \in Threads |-> "none"]

Next ==
  \E t \in Threads :
    \/ JNI_OnLoad(t)
    \/ \E c \in 0..1 : objc_msgSend(t, c)
    \/ MsgSendReturn(t)
    \/ HandlerEnter(t)
    \/ HandlerAttachFails(t)
    \/ \E c \in 0..1 : HandlerReturn(t, c)

Spec == Init /\ [][Next]_vars

-----------------------------------------------------------------------------
(* Invariants *)

TypeOK ==
  /\ cache \in {"none", "live"}
  /\ pool \in [owner : ManagedThreads \cup {NoThread}, state : {"none", "live"}]
  /\ attached \in [Threads -> BOOLEAN]
  /\ \A t \in Threads : stack[t] \in BoundedSeq(Frames, MaxDepth)
  /\ \A t \in Threads : localFrames[t] \in BoundedSeq(1..MaxDepth, MaxDepth)
  /\ trampolines \in 0..MaxTrampolines
  /\ delivered \in [Threads -> {"none", "result", "unwritten"}]

(* Attachment discipline (closureHandler lines 701-722): a thread is       *)
(* attached to the JVM exactly when it is a JVM thread or some closure is  *)
(* running on it.  An inner callback nested under an outer one on a native *)
(* thread must not detach the thread the outer closure still runs on, and  *)
(* the outermost one must not leave the native thread attached.            *)
AttachedIffManagedFrames ==
  \A t \in Threads :
    attached[t] <=> (t \in ManagedThreads \/ HandlerFrames(t) # {})

(* JNI local frames (closureHandler lines 710 and 717): the local frame of *)
(* every running objc_msgSend call, which holds its receiver, selector and *)
(* argument references, is still present; a callback's PopLocalFrame only  *)
(* ever removes the frame its own PushLocalFrame created.                  *)
LocalFramesIntact ==
  \A t \in Threads : \A i \in DOMAIN stack[t] :
    stack[t][i].kind = "msgSend" => i \in Range(localFrames[t])

(* A native caller of a trampoline always gets a written return slot: the  *)
(* coerced result of the closure, or the null placeholder that the         *)
(* design prescribes for a failure (spec section 7).                       *)
ReturnSlotWritten ==
  \A t \in Threads : delivered[t] # "unwritten"

=============================================================================
