------------------------------ MODULE MCRunLoop ------------------------------
(* Constants of the TLC run of RunLoop: an event type and a word.          *)
EXTENDS RunLoop, TLC

CONSTANTS wake, a
=============================================================================
