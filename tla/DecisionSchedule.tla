-------------------------- MODULE DecisionSchedule --------------------------
(***************************************************************************)
(* Signal and fill sessions of the buy-only simulators.  Sessions are      *)
(* numbered consecutively and a month has MonthLength of them.             *)
(***************************************************************************)
EXTENDS Integers

CONSTANTS MonthLength, \* sessions in a calendar month
          Delay        \* fill_delay_sessions

ASSUME ScheduleAssumption == MonthLength \in Nat \ {0, 1} /\ Delay \in Nat \ {0}

MonthOf(session) == (session - 1) \div MonthLength

\* A month cut off by the range signals on its last (first) session in range.
MonthEndSessions(start, end) == {d \in start .. end : d = end \/ MonthOf(d + 1) # MonthOf(d)}
MonthStartSessions(start, end) == {d \in start .. end : d = start \/ MonthOf(d - 1) # MonthOf(d)}

Fill(session) == session + Delay
=============================================================================
