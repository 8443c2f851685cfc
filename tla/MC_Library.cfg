\* Loading the library with each declaration of the cache missing in turn,
\* and with none missing.  Loading ends (loaded, failed or crashed), so
\* there is no deadlock check.
SPECIFICATION Spec
INVARIANTS CacheCompleteOrFatal
CHECK_DEADLOCK FALSE
