\* Value paths of Native.objc_msgSend and closureHandler on x86_64.
\* A call is one step; the model stops after it.
CONSTANTS
  Platform = "x86_64"
  FloatValues <- MC_FloatValues
  Calls <- MC_Calls
  BlockAddress <- MC_BlockAddress
  MaxBlockBytes <- MC_MaxBlockBytes
  AssertsEnabled = TRUE
  KotlinFunctions = {}
SPECIFICATION Spec
INVARIANTS ArgumentsDelivered ResultDelivered ClosureCallDelivered
CHECK_DEADLOCK FALSE
