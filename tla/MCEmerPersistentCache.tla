------------------------ MODULE MCEmerPersistentCache ------------------------
(* Instances of EmerPersistentCache for TLC.                                  *)
EXTENDS EmerPersistentCache

(* The clock is right, or two units fast.                             *)
MCSkews == {0, 2}
=============================================================================
