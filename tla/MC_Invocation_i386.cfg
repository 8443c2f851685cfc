\* Return values of Native.objc_msgSend on i386, where a pointer and a long are 4 bytes.
\* A call is one step; the model stops after it.
CONSTANTS
  Platform = "i386"
  FloatValues <- MC_FloatValues
  Calls <- MC_Calls
  BlockAddress <- MC_BlockAddress
  MaxBlockBytes <- MC_MaxBlockBytes
  AssertsEnabled = TRUE
  KotlinFunctions = {}
SPECIFICATION Spec
INVARIANTS ResultDelivered
CHECK_DEADLOCK FALSE
