-------------------------- MODULE MCEmerCircularFile --------------------------
(* Instances of EmerCircularFile for TLC: a length of two cells, so that it   *)
(* can wrap, elements of one and two cells, and files in which two or three   *)
(* of them fit but seldom end where the file does.                            *)
EXTENDS EmerCircularFile

=============================================================================
