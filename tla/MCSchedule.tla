----------------------------- MODULE MCSchedule -----------------------------
(* One schedule, two definitions that differ in command and calendar, and  *)
(* one that add refuses.                                                    *)
EXTENDS Schedule

D(c, t, v) == [command |-> c, calendar |-> t, valid |-> v]
MCDefs == {D("deploy", "daily", TRUE), D("check", "hourly", TRUE), D("check", "never", FALSE)}
=============================================================================
