--------------------------- MODULE MCRecordReplay ---------------------------
(* An instance of RecordReplay for model checking. *)
EXTENDS RecordReplay

CONSTANTS u1, u2

\* The two URLs resemble each other.
Alike(u, v) == 1

UrlSymmetry == Permutations(Urls)
=============================================================================
