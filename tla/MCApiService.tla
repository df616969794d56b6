--------------------------- MODULE MCApiService ---------------------------
(***************************************************************************)
(* An instance of ApiService for TLC.                                      *)
(***************************************************************************)
EXTENDS ApiService

MCRequests == 1..3

===========================================================================
