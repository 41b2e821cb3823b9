------------------------- MODULE MCProcessLifecycle -------------------------
(* TLC instance of ProcessLifecycle: both programs, two requests. *)
EXTENDS ProcessLifecycle

CONSTANTS h1, h2
=============================================================================
