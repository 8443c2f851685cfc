\* Decoders over every encoding of up to three characters; debug build.
CONSTANTS
  MaxEncLen = 3
  AssertsEnabled = TRUE
  KotlinFunctions = {"Function0", "Function1", "Function2"}
SPECIFICATION Spec
INVARIANTS QualifiersIgnored ReflectDecodeTotal
\* The probe stops once the encoding has MaxEncLen characters.
CHECK_DEADLOCK FALSE
