------------------------ MODULE MCEinsBoottimeSource ------------------------
(* Instances of EinsBoottimeSource for TLC: two sources, intervals shorter    *)
(* and longer than what the machine may be suspended for.                     *)
EXTENDS EinsBoottimeSource
=============================================================================
