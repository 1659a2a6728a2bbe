--------------------------- MODULE MCWorkspaceScan ---------------------------
(* Two files, the second of which refers to the first and to the type file. *)
EXTENDS WorkspaceScan, TLC

CONSTANTS f1, f2

MCDependsOn == [f \in Files |-> IF f = f2 THEN {f1, TypeFile} ELSE {}]

MCIndependent == [f \in Files |-> {}]

ThreadSymmetry == Permutations(Threads)

\* Texts are told apart and never compared otherwise.
ThreadAndTextSymmetry == ThreadSymmetry \union Permutations(Texts)
==============================================================================
