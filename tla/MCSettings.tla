----------------------------- MODULE MCSettings -----------------------------
(***************************************************************************)
(* No driver, both drivers and one that does not exist; a kind of client   *)
(* authentication that exists, none, and one that does not exist.          *)
(***************************************************************************)
EXTENDS Settings
=============================================================================
