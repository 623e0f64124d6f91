------------------------------ MODULE Options ------------------------------
(***************************************************************************)
(* What the modules on the clients' side share.                            *)
(***************************************************************************)
CONSTANT None  \* SQL NULL, and an Option that is None
=============================================================================
