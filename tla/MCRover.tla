------------------------------- MODULE MCRover -------------------------------
(* Rover for TLC.  Every bound is a constant given in the .cfg files.      *)
EXTENDS Rover
=============================================================================
