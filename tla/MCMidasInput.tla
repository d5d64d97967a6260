---------------------------- MODULE MCMidasInput ----------------------------
(***************************************************************************)
(* TLC instance of MidasInput: an empty message and one of two body        *)
(* frames.                                                                 *)
(***************************************************************************)
EXTENDS MidasInput

CONSTANTS m0, m2

MCMsg == {m0, m2}
MCSize == (m0 :> 0) @@ (m2 :> 2)

=============================================================================
