---------------------------- MODULE MCMassRename ----------------------------
(* Instances of MassRename for TLC. *)
EXTENDS MassRename

CONSTANTS a, b, c, A

\* On a folding file system `A` and `a` are one entry; on an exact one they
\* are two names that differ only in case.
CaseKey == [n \in Names |-> IF n = A THEN a ELSE n]

\* A file system on which every name is an entry of its own.
SameKey == [n \in Names |-> n]

\* The names are interchangeable.
FirstIsA == src[1] = a

=============================================================================
