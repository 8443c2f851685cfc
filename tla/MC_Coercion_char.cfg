\* A Character passed to a native char slot and handed back.
CONSTANTS
  NoClass = NoClass
  ObjCClasses <- MC_ObjCClasses
  Superclass <- MC_Superclass
  Mirrored <- MC_Mirrored
  ClassOfObject <- MC_ClassOfObject
  AssertsEnabled = TRUE
  KotlinFunctions = {"Function0", "Function1"}
SPECIFICATION Spec
INVARIANTS ManagedRoundTrip
\* A probe stops after its second crossing.
CHECK_DEADLOCK FALSE
