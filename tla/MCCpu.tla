--------------------------------- MODULE MCCpu ---------------------------------
(* Small values of the constants of Cpu. *)
EXTENDS Cpu

MCTargets == {0, 3}
MCRegValues == {0, 2}
================================================================================
