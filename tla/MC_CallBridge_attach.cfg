\* Attachment discipline through nested callbacks, with every JNI failure
\* the handler meets enabled.
CONSTANTS
  m1 = m1
  m2 = m2
  n1 = n1
  NoThread = NoThread
  ManagedThreads <- MC_ManagedThreads
  NativeThreads <- MC_NativeThreads
  MaxDepth = 4
  MaxTrampolines = 2
  AttachCanFail = TRUE
  PushLocalFrameCanFail = TRUE
SYMMETRY MC_Symmetry
SPECIFICATION Spec
INVARIANTS TypeOK AttachedIffManagedFrames
