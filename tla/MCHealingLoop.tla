---------------------------- MODULE MCHealingLoop ---------------------------
(* Model checking HealingLoop with the defaults of config.py in units of    *)
(* 2.5 s (MCHealingLoop.cfg).                                               *)
EXTENDS HealingLoop
=============================================================================
