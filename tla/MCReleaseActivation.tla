------------------------- MODULE MCReleaseActivation -------------------------
(***************************************************************************)
(* Two versions of the package and three archives, of which one does not   *)
(* answer and one brings the time it was packed; a site that is shipped    *)
(* and one of the operator's own.                                          *)
(***************************************************************************)
EXTENDS ReleaseActivation
=============================================================================
