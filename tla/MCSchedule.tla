----------------------------- MODULE MCSchedule -----------------------------
(* Days of four ticks.  In one of the zones the clocks change: a night is  *)
(* a tick shorter.                                                         *)
EXTENDS Schedule, TLC

CONSTANTS early, late, even, summer

MCFires == <<early, even>> :> {1, 5} @@ <<late, even>> :> {3}
           @@ <<early, summer>> :> {2, 5} @@ <<late, summer>> :> {4}
=============================================================================
