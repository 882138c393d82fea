-------------------------- MODULE MCServiceImages --------------------------
(* ServiceImages with a small gallery and a lowered limit, which two       *)
(* uploads that read the same count can overrun: hence a gallery of three. *)
EXTENDS ServiceImages, TLC

OneOrThree == {{1}, {1, 2, 3}}

Two == {{1, 2}}

Symmetric == Permutations(Calls)

\* Bound: one image may be lost track of, however many faults strike it.
OneImageStruck == Cardinality(leaked \cup doubted) <= 1

=============================================================================
