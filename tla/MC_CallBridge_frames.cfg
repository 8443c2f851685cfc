\* The JNI local frames of nested calls when PushLocalFrame succeeds and
\* AttachCurrentThread may fail.
CONSTANTS
  m1 = m1
  m2 = m2
  n1 = n1
  NoThread = NoThread
  ManagedThreads <- MC_ManagedThreads
  NativeThreads <- MC_NativeThreads
  MaxDepth = 4
  MaxTrampolines = 2
  AttachCanFail = TRUE
  PushLocalFrameCanFail = FALSE
SYMMETRY MC_Symmetry
SPECIFICATION Spec
INVARIANTS LocalFramesIntact
