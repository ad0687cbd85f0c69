------------------------------ MODULE Settings ------------------------------
(***************************************************************************)
(* How the daemon's settings are read, checked and used: Load lays derived *)
(* defaults over the file's values and validates them, the daemon loop     *)
(* takes its waits and its time window from them, downloadAll its workers  *)
(* (internal/config, cmd/daemon_schedule.go).  Pure operators, no state.   *)
(*                                                                         *)
(* A duration is an integer, a tier its rank (0: a value that is none); a  *)
(* clock is the minute it stands for, or Malformed: validateClock admits   *)
(* one spelling of each minute, so equal strings are equal minutes.        *)
(***************************************************************************)
EXTENDS Integers

CONSTANTS
    Day,            \* minutes in a day: 24 * 60
    Minute,         \* clock ticks in a minute
    MinInterval,    \* minInterval, a minute
    MaxConcurrency, \* maxConcurrency, 8
    Malformed       \* a clock that is not HH:MM

ASSUME SettingsAssumption ==
    /\ Day \in Nat \ {0} /\ Minute \in Nat \ {0}
    /\ MinInterval \in Nat \ {0}
    /\ MaxConcurrency \in Nat \ {0}
    /\ Malformed \notin Int

Clocks == 0 .. Day - 1
DurationRange == [min : Int, max : Int]
Unset == [min |-> 0, max |-> 0]
Config ==
    [mode : {"", "polling", "time_window", "other"},
     interval : Int, polling : DurationRange,
     start : Clocks \cup {Malformed}, end : Clocks \cup {Malformed}, delay : DurationRange,
     worker : DurationRange, concurrency : Int, floor : 0 .. 2, request : 0 .. 2]

(***************************************************************************)
(* Load.                                                                   *)
(***************************************************************************)
(* applyDerivedDefaults: the legacy interval fills an unset polling range. *)
AsWritten(c) == c
Derived(c) ==
    [c EXCEPT !.mode = IF @ = "" THEN "polling" ELSE @,
              !.polling = IF @ = Unset THEN [min |-> c.interval, max |-> c.interval] ELSE @]

PollingRange(c) ==
    IF c.polling # Unset THEN c.polling ELSE [min |-> c.interval, max |-> c.interval]

ValidRange(r, floor) == r.min >= 0 /\ r.max >= 0 /\ r.min <= r.max /\ r.min >= floor /\ r.max >= floor

ValidTimeWindow(c) ==
    /\ c.start # Malformed /\ c.end # Malformed
    /\ c.start # c.end
    /\ ValidRange(c.delay, MinInterval)

(* Validate, as far as the scheduled cycle depends on it. *)
Valid(c) ==
    /\ c.mode \in {"polling", "time_window"}
    /\ c.concurrency \in 1 .. MaxConcurrency
    /\ c.mode = "polling" => ValidRange(PollingRange(c), MinInterval)
    /\ c.mode = "time_window" => ValidTimeWindow(c)
    /\ ValidRange(c.worker, 0)
    /\ c.floor \in {1, 2} /\ c.request \in {1, 2}
    /\ c.floor <= c.request

(***************************************************************************)
(* The daemon's use of them.                                               *)
(***************************************************************************)
(* Random: Uint64N draws below max - min + 1. *)
Random(r) == IF r.max <= r.min THEN {r.min} ELSE r.min .. r.max

(* Where runDaemon sends the cycle's waits. *)
Waits(c) == IF c.mode = "polling" THEN Random(c.polling) ELSE Random(c.delay)

(* windowContainsNow, of an instant counted in ticks from some midnight. *)
MinuteOf(now) == (now \div Minute) % Day
WindowContains(now, start, end) ==
    IF start < end THEN MinuteOf(now) >= start /\ MinuteOf(now) < end
                   ELSE MinuteOf(now) >= start \/ MinuteOf(now) < end

(* nextTimeWindowStart, of an instant of the day that began at 0: the window's
   start of today when that is still to come, else a day later. *)
NextStartToday(now, start, end) ==
    IF WindowContains(now, start, end) THEN now ELSE start * Minute
NextStart(now, start, end) ==
    IF WindowContains(now, start, end) THEN now
    ELSE IF start * Minute > now THEN start * Minute ELSE start * Minute + Day * Minute
=============================================================================
