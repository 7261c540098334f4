----------------------------- MODULE MCVegenere -----------------------------
(* A small instance of Vegenere: two open files, one position past a fresh block. *)
EXTENDS Vegenere, TLC

CONSTANTS f1, f2
MCFiles == {f1, f2}
OpenFiles == Permutations(MCFiles)

(* "b", and "9!" whose second character is no key. *)
MCKeys == {<<98>>, <<57, 33>>}
(* The empty string, "Z" and "9" followed by a NUL. *)
MCTexts == {<< >>, <<90>>, <<57, 0>>}
MCCounts == {1, 2}
MCOffsets == {-1}
============================================================================
