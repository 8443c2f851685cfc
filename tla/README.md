# TLA+ models of the Kotlin/JVM ⇄ Objective-C bridge

This directory models `src/objc/runtime.objc/native/KotlinNative.cc`. That file is the JNI library that lets
Kotlin code on the JVM send Objective-C messages and lets Objective-C code call Kotlin closures. The models are
checked with TLC. `spec.md` describes the design. Every definition here is translated from the C++ source. The
map in `PROJECT.json` gives, for each definition, the lines it models.

## 1. Inventory

### Components

| Component | Source | State it keeps | Operations |
|---|---|---|---|
| Runtime Introspection Cache and lifecycle | `JVMDeclarationsCache`, `cache`, `autoReleasePool`, `JNI_OnLoad`, `JNI_OnUnload` (67-240) | a global pointer to the cache of JNI handles; a global autorelease pool | create on load; drain and delete on unload (never reached, see §3) |
| Type Model | `ffiTypeFromEncoding`, `Type`, `typeFromReflectString`, `typeFromJavaClass`, `ffiTypeFromTypeKind` (396-448, 603-637, 679-683, 728-739) | none (pure) | decode an Objective-C type encoding; decode a reflected JVM type name |
| Value Coercion Engine | `coerceJVMToNative`, `coerceArrayOfJVMToNative`, `coerceNativeToJVM`, `coerceArrayOfNativeToJVM`, `createMirrorObjectOfClass`, `isKotlinFunction` (321-394, 531-601, 685-694) | none (but it creates trampolines) | boxed JVM value → native word; native word + Type → JVM value, walking the class chain to a mirror |
| Dynamic Invocation Engine | `Java_jet_objc_Native_objc_1msgSend`, `MsgSendInvocation` (450-529, 639-662) | per call: receiver, selector, argument words, ffi CIF | coerce args, resolve method, choose `objc_msgSend` / `objc_msgSend_fpret`, `ffi_call`, coerce result |
| Callback Trampoline Factory | `ClosureData`, `createNativeClosureForFunction`, `reflectMethodFromKotlinFunction`, `calculateClosureArgumentTypes`, `closureHandler` (668-812) | one `ClosureData` per closure passed to native code, never freed | create a trampoline; on a native call, attach the thread, push a local frame, coerce args, invoke, pop, coerce the result, detach if it attached |
| Thin accessors | `dlopen`, `malloc`, `free`, `getWord`, `setWord`, `objc_getClass` (252-316) | none | `malloc`/`free`/`getWord`/`setWord` modelled in `Invocation`; `dlopen` and `objc_getClass` are not modelled |
| `AutoJString` | 41-61 | none | RAII around `GetStringUTFChars` (not modelled) |
| Indexer test harness | `src/objc/frontend.objc/native/tests/test.cc` | files on disk | golden-file test of the header indexer; outside the bridge (not modelled) |

### How they interact

A JVM thread calls `Native.objc_msgSend`. The call reads the receiver through the cache and coerces every
argument. A Kotlin closure among the arguments becomes a trampoline: an `ffi_closure` whose handler is
`closureHandler`. The call then builds the CIF from the method's own encodings, calls the method, and coerces
the result with the Type decoded from the mirror method's declared return type.

The Objective-C method can call a trampoline synchronously on the same thread. Or it can store the trampoline,
and any native thread can call it later. `closureHandler` attaches that thread to the JVM if it was not
attached. It pushes a JNI local frame and coerces the arguments. Then it calls the closure's bridge `invoke`.
The closure can call `objc_msgSend` again, so calls nest on one thread in any depth. The handler then pops the
frame, coerces the result into the ffi return slot, and detaches only if it attached the thread itself.

The only shared mutable state is the global `cache` (and the pool). `JNI_OnLoad` writes it, and every call and
every trampoline reads it. `JNI_OnUnload` would delete it. But the JVM calls `JNI_OnUnload` only once the
library's class loader is unreachable. The cache's global class references are never deleted (the TODO at line
171), so they keep that loader reachable, and the library is never unloaded once it has loaded.

Each thread has its own JVM attachment and its own stack of JNI local frames.

### What is hard here

- **Nesting and attachment.** Each handler must restore exactly the attachment it found. An inner callback
  must not detach a thread that an outer closure still runs on. The outermost callback must not leave a native
  thread attached.
- **Partial failures inside the handler.** `AttachCurrentThread` failing at 704, and `PushLocalFrame` failing
  unchecked at 710, while the steps after them run anyway or are skipped.
- **Loading.** No lookup of the cache constructor is checked. A missing declaration fails the load only
  because its exception stays pending until the JDK looks for it after `JNI_OnLoad`.
- **Numeric edges of coercion.** A 16-bit `jchar` goes through an 8-bit `char`. Argument slots are
  uninitialised words written only at the box's width. A `float` comes back through the `fpret` path as a
  `double`.
- **Decoders at their edges.** Several qualifiers in an encoding, an encoding made only of qualifiers, names
  outside the documented domain, and a release build where the namespace `assert` is compiled out.
- **Mirror resolution.** The nearest mirrored class on the class chain must be found, not a sibling and not
  an ancestor above it.

### Properties that make each component correct

- Lifecycle: a library that loaded holds no NULL handle. Initialisation resolves every handle or fails
  loudly.
- Trampolines / threads: a thread is attached exactly while it is a JVM thread or a closure runs on it. A
  callback's `PopLocalFrame` never removes another call's frame. A native caller always finds a written return
  slot.
- Type Model: qualifiers never change a decoded type. The reflected-name decoder is total on its documented domain and fatal outside it.
- Coercion: every primitive kind round-trips in both directions. A native object becomes a mirror of the
  nearest mirrored ancestor, and the same pointer goes back.
- Invocation: every argument reaches the method converted to the method's declared type. The method's
  result reaches the JVM caller converted to the declared Kotlin type. A trampoline delivers its arguments
  and result the same way. A receiver that cannot answer the message is a fatal error.
- `Native.malloc`: the jlong Kotlin gets is 0 or the address of a block of at least the requested size.

## 2. Plan

Modules, in the order they were built:

1. **`CallBridge`**: threads, nested calls and callbacks, JVM attachment, JNI local frames, loading, and
   trampolines as a count.
2. **`TypeModel`**: the decoders as operators.
3. **`Coercion`**: both coercions with integer widths, and the class-chain walk.
4. **`Invocation`**: the value path of `Native.objc_msgSend` and of `closureHandler`, byte by
   byte, on x86_64 and on i386. It also covers a receiver without the method.
5. **`Trampoline`**: `createNativeClosureForFunction` with every failure return, the
   reflection of the two `invoke` methods, and native code calling what it was given.
6. **`Library`**: the cache constructor's lookups in order, under a pending exception, and the JDK's check
   after `JNI_OnLoad`.

An abstract thread protocol (`BridgeAbstract`, checked as a refinement) and a liveness property (an attached
native thread is eventually detached) were removed. Both followed from `AttachedIffManagedFrames`, the second
together with the assumption that every frame returns.

Left for later:

- Compose `Trampoline` into `CallBridge`. Then a NULL entry point would reach `HandlerEnter` as a crash, and
  the trampoline count would become the set of `ClosureData`.

## 3. Modules and how they correspond to the code

### `CallBridge` / `MC_CallBridge`

State:
- `cache`: the global pointer, none or live.
- `pool`: `autoReleasePool` and the thread that created it.
- `attached[t]`: JVM attachment of thread `t`.
- `stack[t]`: the bridge frames on `t`. A `msgSend` frame means the native method is running. A `handler`
  frame means a closure is running, and it keeps the handler's local `attached`.
- `localFrames[t]`: the JNI local frames. Each one is tagged with the frame that created it.
- `trampolines`: the number of `ClosureData` created.
- `delivered[t]`: what the last trampoline call left in the return slot.

Actions:
- `JNI_OnLoad`. `JNI_OnUnload` is not an action, because it cannot run while the cache pins the class loader
  (§1).
- `objc_msgSend`: lines 639-656, with the argument coercion that creates trampolines.
- `MsgSendReturn`: lines 656-662. The JVM also drops the method's local frame.
- `HandlerEnter`: lines 696-716, including an unchecked `PushLocalFrame` failure.
- `HandlerAttachFails`: lines 704-707.
- `HandlerReturn`: lines 716-726. A closure result that is itself a closure creates a trampoline.

Environment assumptions, each stated where it is used:
- The JVM calls `JNI_OnLoad` on an attached thread, so its attach branch is not taken.
- Managed code calls `objc_msgSend` only while the library is loaded.

Bounds: `MaxDepth = 4` nested bridge frames per thread, `MaxTrampolines = 2`, two JVM threads and one native
thread. Depth 4 is the smallest depth that has a callback nested under a callback:
native → handler → msgSend → handler. Two JVM threads let one load while the other holds state.
The JVM threads are symmetric, and every `CallBridge` run uses that symmetry.

### `TypeModel` / `MC_TypeModel`

Encodings are sequences of one-character strings. The alphabet is the seven qualifiers, the primitive codes,
and four non-primitive codes (`@ B { ^`). A reflected name is a record of its form (primitive, class,
interface) and its dotted path. `MC_TypeModel` grows one encoding a character at a time, up to three
characters. Three characters is enough for two qualifiers in front of a code. The reflected name is fixed per
behaviour and taken from a set that mixes names inside and outside the documented domain. The probe stops,
so that run does not check deadlock.

### `Coercion` / `MC_Coercion`

A managed value is `[cls, v]`. A native word is `[c, v]`: the C type last stored into it and its value. A
cast read keeps the low bits (`Wrap`). Integer widths are kept where values narrow: `char` is 8 bits, `jchar`
16, `short` 16, `BOOL` and `jboolean` 8. 32- and 64-bit values never narrow on these paths. Float and double
payloads stand for bit patterns that are copied.

Native objects are addresses 1..7, one for each class of a hierarchy. That hierarchy has a mirrored root, a
mirrored leaf under an unmirrored subclass, a two-level unmirrored chain (the grandparent case of spec §8),
and a second unmirrored root. `MC_Coercion` takes each sample across the boundary and back. An object probe
returns the pointer as `ID`, as an `NSString` object, or as a class object (`TYPE_CLASS`).

`ClassObjectOf` is the `TYPE_CLASS` arm (lines 552-562). It looks for the `object$` field of the mirror of
exactly the object's class and does not walk the chain. A class with no mirror leaves `FindClass` NULL, and the
model makes that outcome fatal, as spec §4.3 asks.

### `Invocation` / `MC_Invocation`

A value is a little-endian byte sequence. `Undef` (-1) is a byte nobody wrote: an uninitialised local, the
unused part of a register, or memory past an object. Floating-point bytes are symbolic: `FloatRep(f)` and
`DoubleRep(f)` stand for the IEEE encodings of the same real number. The `Platform` constant fixes the
pointer and `long` width, and where a floating-point result lives (xmm0 on x86_64, the x87 stack on i386).

Operators, each mapped in `PROJECT.json`:

| Operator | What it models |
|---|---|
| `StoreBox` | The store of each arm of `coerceJVMToNative`. |
| `ArgBlock` | `void *arg` and `push_back` in `coerceArrayOfJVMToNative`. The copy keeps only a pointer's width. |
| `CalleeArg` | libffi reading each slot at the size of `ffiTypeFromEncoding` of the method's own encoding. |
| `ResultWord` | The `fpret`/double or `objc_msgSend`/pointer return, stored into `void *result`. |
| `NativeToJvmBytes` | The cast reads of `coerceNativeToJVM` and the varargs of `valueOf` and of the `(J)V` constructors. |
| `HandlerArgWord`, `HandlerResult` | `closureHandler`'s pointer-sized read of each argument, and its result store. |
| `SizeT`, `MallocResults`, `MallocReturn` | `Native.malloc`. The jlong size is converted to `size_t` (WordSize bytes). `malloc` returns NULL or the block, and the function returns the 8 bytes at `&memory`. |
| `FreePointer`, `GetWordPointer`, `SetWordPointer` | The pointer that `free`, `getWord` and `setWord` take from their jlong argument. |

`objc_msgSend` and `closureHandler` are one step each. For a nil receiver, `method_getNumberOfArguments(NULL)`
is 0. So libffi either calls without receiver and selector, or the NULL return encoding crashes
`ffiTypeFromEncoding`; both outcomes are explored.

A `"malloc"` call (`Java_jet_objc_Native_malloc`) is also one step. It covers `Native.malloc` and the pointer
Kotlin then hands to `free`, `getWord` and `setWord`. `malloc` may always fail. It must fail when the size
needs more than `MaxBlockBytes` bytes (2⁴⁰ bytes on x86_64). The block lies at `BlockAddress`, which is above 4 GiB
on x86_64, so a truncated pointer is a different address. TLC integers are 32-bit, so sizes are compared as byte
sequences (`UGeq`). The sample sizes are 8, −1 and 2³²+8. On x86_64 these conversions are identities, so
`MallocDelivered` is checked only on i386 (`malloc_i386`), where they are not.

`MC_Invocation` enumerates every encoding paired with the JVM type a mirror declares for it:
- `c`/`C` ↔ Char or Boolean, `s` ↔ Short, `i`/`l` ↔ Int, `q`/`Q` ↔ Long, `f` ↔ Float, `d` ↔ Double, `^` ↔
  Pointer, `@` ↔ an object.
- Up to two arguments, so that an overlong store into one slot meets its neighbour.
- Sample values that tell bytes apart: −2 (upper bytes 0xFF), 200 (above 127), and 2³² (low word zero).

There are 2,329 calls. The model stops after each call, so its cfgs do not check deadlock.

### `Trampoline`

A closure class is abstracted to its declared methods, in the order `getDeclaredMethods` returns them, and to
whether its types decode. `createNativeClosureForFunction` is one action whose disjuncts follow its steps in
order:
1. `GetJavaVM` fails and the function returns 0.
2. There is no non-bridge `invoke`, and the JNI call on NULL crashes.
3. A type is undecodable, and the process exits.
4. A libffi step fails and the function returns 0.
5. There is no bridge `invoke`, and `FromReflectedMethod(NULL)` crashes.
6. The entry point is returned.

`CallTrampoline` is native code calling what it got. No run checks this module. Each property it supports
would restate one of its guards: the `isBridge` test, so that the declaration order cannot matter, or the
order of the failure returns.

### `Library`

State:
- `absent`: the declarations the class path lacks. It is chosen once, in `Init`, as nothing or one class,
  field or method.
- `cache`, `pool`: the global pointers, none or live.
- `handles[d]`: what the cache holds for declaration `d`, resolved or NULL.
- `pending`: whether an exception is pending on the loading thread.
- `library`: loading, then `JNI_OnLoad` returned, then loaded, failed (`System.loadLibrary` throws), or
  crashed.

`Lookups` is the constructor's 15 classes and 28 members, in the code's order, because the outcome depends
on which one fails first. `JVMDeclarationsCache` folds `Lookup` over them (`FoldLeft`). The HotSpot behaviour
modelled is:
- `findClass` gives NULL for a missing class, or while an exception is pending, and `NewGlobalRef(NULL)`
  keeps it NULL.
- A field or method lookup crashes on a NULL class handle. Otherwise it gives NULL for a missing member, or
  while an exception is pending (`CHECK_NULL`).
- A missing declaration leaves its exception pending. Nothing in the constructor clears it.

`JNI_OnLoad` either crashes while building the cache, or makes the cache and the pool live and returns
`JNI_VERSION_1_6`. `NativeLibraryLoad` is the JDK's `NativeLibrary.load` after that. With an exception
pending, it rethrows the exception and unloads the library without calling `JNI_OnUnload`. Otherwise the
library is loaded. That step is JDK behaviour, not code of this repository, so it has no map entry.

The run `library` uses `Library` directly. There are 44 initial states: nothing missing, or one of the 43
declarations missing.

## 4. Runs

| Run | Expect | Checks | What it shows |
|---|---|---|---|
| `bridge_attach` | pass | `TypeOK`, `AttachedIffManagedFrames` | With attach and push failures enabled, nested callbacks keep the attachment discipline of spec §5: an inner handler never detaches a thread an outer closure still runs on (about 165k states). |
| `bridge_pushfail` | violation | `LocalFramesIntact` | A failed, unchecked `PushLocalFrame` makes `PopLocalFrame` free the caller's frame. |
| `bridge_attachfail` | violation | `ReturnSlotWritten` | A failed attach returns to native code with the return slot unwritten. Spec §7 says it is a null placeholder or an abort. |
| `bridge_frames` | pass | `LocalFramesIntact` | When `PushLocalFrame` succeeds, no callback frees the local frame of a call below it. Depth 4, with attach failures. |
| `types` | pass | `QualifiersIgnored`, `ReflectDecodeTotal` | Spec §8's decoder properties hold over all encodings up to length 3, in a debug build. |
| `coercion` | pass | `NativeRoundTrip`, `NearestMirror` | Native → managed → native round-trips every primitive kind, and mirror resolution picks the nearest mirrored ancestor. |
| `coercion_char` | violation | `ManagedRoundTrip` | Character U+0080 comes back as U+FF80, because `jchar` is squeezed through `char`. |
| `invocation` | pass | `ArgumentsDelivered`, `ResultDelivered`, `ClosureCallDelivered` | On x86_64 every argument and result crosses libffi byte-exactly, in both directions (spec §4.4 and the arity-2 closure test of §8). |
| `invocation_i386` | violation | `ResultDelivered` | On i386 a pointer result reaches the `(J)V` constructor of `Pointer` through varargs as 4 bytes, and the JVM reads 8, so the upper half is undefined (line 564). The trace shows this case only. |
| `malloc_i386` | violation | `MallocDelivered` | On i386 `Native.malloc` returns the 8 bytes at the 4-byte pointer local. A NULL from `malloc` reaches Kotlin with an undefined upper half, so it need not read as 0 (line 276). |
| `library` | pass | `CacheCompleteOrFatal` | Whichever single declaration is missing, loading crashes or `System.loadLibrary` throws. A library that loads has every cache handle resolved (spec §4.1). |

Every property of a passing run has a mutant in `PROJECT.json`. A mutant is a plausible bug in the mapped
definition, and TLC finds the property violated under it. The mutants are:
- a frame tagged off by one;
- a handler that always detaches;
- a missing `PushLocalFrame`;
- `if` in place of `while` when skipping qualifiers;
- the namespace assert dropped;
- the `Character` arm widened;
- the class walk that starts at the superclass;
- a `Long` stored through an `int`;
- `objc_msgSend` without `fpret`;
- handler arguments read as `int`;
- a `findClass` that clears the pending exception, as the mirror walk of `coerceNativeToJVM` does.

## 5. Fairness

No run assumes fairness, and no run checks liveness. The bridge has no scheduler. A frame returns only when
the user code in it finishes, and nothing in this code guarantees that. The one liveness property the code
suggests is that an attached native thread is eventually detached. It follows from `AttachedIffManagedFrames`
together with that assumption, so it adds nothing to it.

## 6. Not modelled, and why

- Strings and `AutoJString`.
- `dlopen` and `objc_getClass`. Each looks up a name (a string handed to the OS or to the Objective-C
  runtime) and returns the handle unchanged. Neither has state or a conversion a property could tell apart.
  The memory accessors are modelled in `Invocation`.
- The number of JNI local references. `isKotlinFunction` leaks 23 references per object argument. Models
  count local frames, not the references in them.
- The indexer test harness.
- Exception propagation from a closure. It is a non-goal of the spec, and it is listed as a hazard.
- `isKotlinFunction`'s loop over `kotlin/Function0..22`, abstracted to "the value is a closure".
- `calculateClosureArgumentTypes`, abstracted to whether a closure's types decode. The decoder itself is
  checked in `TypeModel`.
- The `ffi_prep_cif` failure exit in `MsgSendInvocation`. No encoding the Type Model produces reaches it.
- `JNI_OnUnload` and `drainAutoreleasePool`. They cannot run after a successful load, because the cache's
  global references keep the class loader reachable.
- Properties of `Trampoline` (see §3). Its actions are modelled, but no run checks it.

Modelled but not asserted by any run:
- A message to a nil receiver. `Invocation` explores both the argument-less dispatch and the crash. Spec §4.4
  asks for a diagnostic. Objective-C convention returns 0. No rule is settled to check it against.
- The failure returns of `createNativeClosureForFunction`. `Trampoline` stores a NULL entry point, and
  calling it crashes. Spec §7 allows an abort or a null placeholder
  when a trampoline cannot be allocated, so returning 0 is not a violation.
- A release build of the reflected-name decoder (`AssertsEnabled = FALSE` in `TypeModel`).
- The float and double return dispatch on its own. The `types` run no longer states it: it only restated the
  guard at line 482. `ResultDelivered` covers it through the bytes of the result.

Nothing more of the system can be modelled faithfully beyond what is listed above. What is left is strings
(`AutoJString`, `dlopen`, `objc_getClass`), the JVM's own local-reference table, and exception propagation,
which the spec excludes.
