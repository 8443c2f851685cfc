\* Native.malloc on i386, where a pointer and size_t are 4 bytes and the
\* returned jlong is read from a 4-byte local.  A call is one step.
CONSTANTS
  Platform = "i386"
  FloatValues <- MC_FloatValues
  Calls <- MC_Calls
  BlockAddress <- MC_BlockAddress
  MaxBlockBytes <- MC_MaxBlockBytes
  AssertsEnabled = TRUE
  KotlinFunctions = {}
SPECIFICATION Spec
INVARIANTS MallocDelivered
CHECK_DEADLOCK FALSE
