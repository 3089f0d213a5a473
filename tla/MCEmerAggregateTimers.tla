------------------------ MODULE MCEmerAggregateTimers ------------------------
(* Instances of EmerAggregateTimers for TLC.                                  *)
EXTENDS EmerAggregateTimers

(* The wall clock is right, or set forward or back by a part of a day.        *)
MCRightClock == {0}
MCSkews      == {-1, 0, 1}
MCSetBack    == {-1, 0}
=============================================================================
