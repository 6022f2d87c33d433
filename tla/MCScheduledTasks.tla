------------------------- MODULE MCScheduledTasks -------------------------
(* Values for the constants of ScheduledTasks: schedules that repeat every *)
(* tick, and schedules whose slots are every second tick.  The commands in *)
(* flight are interchangeable.                                             *)
EXTENDS ScheduledTasks, TLC

MCInterval == [type |-> "interval", period |-> 1]
MCCalendar == [type |-> "calendar", period |-> 2]

MCBothSchedules == {MCInterval, MCCalendar}
MCOnlyCalendar  == {MCCalendar}

CommandSymmetry == Permutations(Commands)

=============================================================================
