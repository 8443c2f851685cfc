--------------------------- MODULE MC_CallBridge ---------------------------
(* Instantiates CallBridge for TLC: two JVM threads (one may load the      *)
(* library while the other is idle), one native thread.                    *)
EXTENDS CallBridge, TLC

CONSTANTS m1, m2, n1

MC_ManagedThreads == {m1, m2}
MC_NativeThreads == {n1}

(* Threads of one kind are interchangeable. *)
MC_Symmetry == Permutations(MC_ManagedThreads)
=============================================================================
