--------------------------- MODULE MCResumeSession --------------------------
(***************************************************************************)
(* Two combinations of settings: enough for a manifest that matches the    *)
(* command and one that does not.  They are interchangeable.               *)
(***************************************************************************)
EXTENDS ResumeSession, TLC

CONSTANTS fast, careful

MCSettings == {fast, careful}
Interchangeable == Permutations(MCSettings)
BothModes == {"parallel", "single"}
=============================================================================
