\* Round trips of every primitive kind from the native side, and mirror
\* resolution of objects of every class of the hierarchy.
CONSTANTS
  NoClass = NoClass
  ObjCClasses <- MC_ObjCClasses
  Superclass <- MC_Superclass
  Mirrored <- MC_Mirrored
  ClassOfObject <- MC_ClassOfObject
  AssertsEnabled = TRUE
  KotlinFunctions = {"Function0", "Function1"}
SPECIFICATION Spec
INVARIANTS NativeRoundTrip NearestMirror
\* A probe stops after its second crossing.
CHECK_DEADLOCK FALSE
