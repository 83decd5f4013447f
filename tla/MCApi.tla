------------------------------- MODULE MCApi -------------------------------
(***************************************************************************)
(* Api with two requests, which may be about the same token.               *)
(***************************************************************************)
EXTENDS ApiProperties

=============================================================================
