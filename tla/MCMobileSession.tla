-------------------------- MODULE MCMobileSession --------------------------
(* Small instances of MobileSession for TLC. *)
EXTENDS MobileSession

CONSTANTS u1, h1, h2, c1
============================================================================
