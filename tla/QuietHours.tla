----------------------------- MODULE QuietHours -----------------------------
(***************************************************************************)
(* quiet-hours.ts: when a user wants silence, and, from                    *)
(* AlertDetectionJob.saveAndDispatchAlert, until when an alert raised then *)
(* is held back.  A time of day is a number below Day, a moment any        *)
(* natural number, and UTC midnights are the multiples of Day.             *)
(***************************************************************************)
EXTENDS Integers

CONSTANT Day   \* 1440 minutes in the code

ASSUME DayAssumption == Day \in Nat /\ Day > 1

\* quietHoursStart and quietHoursEnd in local time, and the user's timezone.
WindowType == [start: 0..Day - 1, end: 0..Day - 1, offset: Int]

ToUTC(time, offset) == (time - offset) % Day

\* 00:00 to 00:00, once converted.
Sentinel(start, end) == start = 0 /\ end = 0

Within(minute, start, end) ==
  \/ Sentinel(start, end)
  \/ start < end /\ start <= minute /\ minute < end
  \/ start > end /\ (start <= minute \/ minute < end)

Quiet(moment, w) ==
  Within(moment % Day, ToUTC(w.start, w.offset), ToUTC(w.end, w.offset))

\* The next moment after this one at which the clock shows this minute.
NextAt(moment, minute) ==
  LET today == moment - (moment % Day) + minute
  IN  IF today <= moment THEN today + Day ELSE today

\* The sentinel "always quiet", which an offset from UTC loses.
AlwaysQuiet(w) == Sentinel(ToUTC(w.start, w.offset), ToUTC(w.end, w.offset))

QuietUntil(moment, w) == NextAt(moment, ToUTC(w.end, w.offset))
=============================================================================
