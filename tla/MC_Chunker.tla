----------------------------- MODULE MC_Chunker -----------------------------
(***************************************************************************)
(* An instance of Chunker for TLC: small settings in the proportions of    *)
(* the defaults (2000, 200, 50), one whose minimum is above the overlap,   *)
(* one without overlap, and one chunk_elements rejects.                    *)
(***************************************************************************)
EXTENDS Chunker

CONSTANTS intro, body

Settings(size, budget, minimum) ==
    [chunk_size |-> size, overlap |-> budget, min_chunk_length |-> minimum]

MCConfigs == {Settings(9, 4, 3), Settings(8, 2, 6), Settings(6, 0, 1),
              Settings(3, 3, 1)}
MCSizes == {1, 2, 7}

=============================================================================
