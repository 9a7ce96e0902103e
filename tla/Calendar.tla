------------------------------- MODULE Calendar -------------------------------
(***************************************************************************)
(* The rules of agentd's budget.rs and of the limits in config.rs, as      *)
(* operators: which minutes of a week the time windows block, when the     *)
(* next one starts, where a day starts.                                    *)
(*                                                                         *)
(* A week has Weeklong days, numbered from 0; a time of day is a number of *)
(* ticks, PerMinute of them in a minute; a window's times, "%H:%M" in the  *)
(* config, are minutes since midnight.  A window of which a time cannot be *)
(* parsed blocks nothing, it is one that is not there.                     *)
(***************************************************************************)
EXTENDS Integers

CONSTANTS
  Weeklong,    \* days in a week, 7
  DayMinutes,  \* minutes in a day, 1440
  PerMinute    \* ticks in a minute

ASSUME CalendarAssumption ==
  /\ Weeklong \in Nat /\ Weeklong > 1
  /\ DayMinutes \in Nat \ {0}
  /\ PerMinute \in Nat \ {0}

DayTicks == DayMinutes * PerMinute
Weekdays == 0..(Weeklong - 1)
Minute   == 0..(DayMinutes - 1)
Window   == [start : Minute, end : Minute]

Pred(day) == IF day = 0 THEN Weeklong - 1 ELSE day - 1

StartOf(w) == w.start * PerMinute
EndOf(w)   == w.end * PerMinute

(* What a window blocks of the day it is keyed to: up to midnight if it    *)
(* wraps.                                                                  *)
CoversFromStart(w, time) ==
  /\ time >= StartOf(w)
  /\ w.start <= w.end => time < EndOf(w)

(* Mutant of CoversUntilEndWrap: every window blocks the next morning.     *)
CoversUntilEnd(w, time) == time < EndOf(w)

(* What it blocks of the day after.                                        *)
CoversUntilEndWrap(w, time) == w.start > w.end /\ time < EndOf(w)

InBlockedWindow(windows, day, time) ==
  \/ \E w \in windows[day] : CoversFromStart(w, time)
  \/ \E w \in windows[Pred(day)] : CoversUntilEndWrap(w, time)

(* minutes_until_next_window_start, of every window that has yet to start  *)
(* today: the least is the code's, none if there is none.                  *)
MinutesUntilWindowStarts(windows, day, time) ==
  {(StartOf(w) - time) \div PerMinute : w \in {v \in windows[day] : StartOf(v) > time}}

-----------------------------------------------------------------------------
(* What the windows mean: each blocks the ticks from its start to its end, *)
(* which lies on the next day if it is not after the start, in a week that *)
(* begins again when it is over.                                           *)
Length(w) == EndOf(w) - StartOf(w) + (IF w.start > w.end THEN DayTicks ELSE 0)

Blocks(day, w, at) ==
  LET from == day * DayTicks + StartOf(w) IN from <= at /\ at < from + Length(w)

BlockedAt(windows, at) ==
  \E day \in Weekdays : \E w \in windows[day] :
    Blocks(day, w, at) \/ Blocks(day, w, at + Weeklong * DayTicks)
=============================================================================
