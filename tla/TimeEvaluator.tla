---------------------------- MODULE TimeEvaluator ----------------------------
(***************************************************************************)
(* TimeEvaluator of src/evaluator/time.rs: is the current bloop recorded   *)
(* at the configured hour and minute of a time zone, or within a leeway    *)
(* after it?  The clock counts ticks of UTC; a zone is an offset to UTC    *)
(* that may change once, as it does on the two days of daylight saving     *)
(* time.  Days, hours and minutes are shorter than real ones; nothing in   *)
(* the code depends on how many ticks they have.                           *)
(***************************************************************************)
EXTENDS Clock, Integers, FiniteSetsExt

CONSTANTS
    TicksPerMinute, MinutesPerHour, HoursPerDay,
    MaxLeeway,   \* bound: the longest leeway, in ticks
    Zones,       \* the time zones, each [switch, before, after]: UTC + before
                 \* until the moment switch, UTC + after from then on, in ticks
    Unset          \* an hour or minute that is not configured (Option::None)

Minute == TicksPerMinute
Hour == MinutesPerHour * Minute
Day == HoursPerDay * Hour

ASSUME TimeAssumption ==
    /\ {TicksPerMinute, MinutesPerHour, HoursPerDay} \subseteq Nat \ {0}
    /\ MaxLeeway \in Nat
    /\ Zones \subseteq [switch: Nat, before: 0..Day, after: 0..Day]
    /\ \A z \in Zones : {z.switch % Minute, z.before % Minute, z.after % Minute} = {0}
    /\ Unset \notin Nat

(* What TimeEvaluator::new accepts: an hour of the day, a minute of the    *)
(* hour, a leeway that is zero when none is given.                         *)
TimeConfig ==
    [hour: 0..(HoursPerDay - 1) \cup {Unset},
     minute: 0..(MinutesPerHour - 1) \cup {Unset},
     leeway: 0..MaxLeeway]

(* chrono: with_timezone and the parts of a local time.                    *)
Local(z, t) == t + IF t < z.switch THEN z.before ELSE z.after
HourOf(z, t) == (Local(z, t) % Day) \div Hour
MinuteOf(z, t) == (Local(z, t) % Hour) \div Minute
DayOf(z, t) == Local(z, t) \div Day

(* with_time: the moments at which the zone's clocks show the given time   *)
(* on the day of t.  None in the gap of a switch to summer time, two in    *)
(* the hour that a switch back repeats.                                    *)
WithTime(z, t, h, m) ==
    LET wall == DayOf(z, t) * Day + h * Hour + m * Minute IN
    {u \in {wall - z.before, wall - z.after} : Local(z, u) = wall}

UnwrapOr(option, default) == IF option = Unset THEN default ELSE option

EvaluateTimeLatest(z, cfg) ==
    LET at == WithTime(z, now, UnwrapOr(cfg.hour, HourOf(z, now)),
                               UnwrapOr(cfg.minute, MinuteOf(z, now))) IN
    /\ at # {}
    /\ now >= Max(at)
    /\ now < Max(at) + (IF cfg.minute # Unset THEN Minute ELSE Hour) + cfg.leeway

EvaluateTimeInclusive(z, cfg) ==
    LET at == WithTime(z, now, UnwrapOr(cfg.hour, HourOf(z, now)),
                               UnwrapOr(cfg.minute, MinuteOf(z, now))) IN
    /\ at # {}
    /\ now >= Min(at)
    /\ now <= Max(at) + (IF cfg.minute # Unset THEN Minute ELSE Hour) + cfg.leeway

(* evaluate, for a bloop recorded now: from the earliest such moment to a  *)
(* minute, or an hour when the minute is open, and the leeway past the     *)
(* latest one.                                                             *)
EvaluateTime(z, cfg) ==
    LET at == WithTime(z, now, UnwrapOr(cfg.hour, HourOf(z, now)),
                               UnwrapOr(cfg.minute, MinuteOf(z, now))) IN
    /\ at # {}
    /\ now >= Min(at)
    /\ now < Max(at) + (IF cfg.minute # Unset THEN Minute ELSE Hour) + cfg.leeway

-----------------------------------------------------------------------------
TimeInit == ClockInit
TimeSpec == TimeInit /\ [][Tick]_now

-----------------------------------------------------------------------------
(* The local time of the moment t has the configured hour and minute.      *)
Matches(z, cfg, t) ==
    /\ cfg.hour \in {Unset, HourOf(z, t)}
    /\ cfg.minute \in {Unset, MinuteOf(z, t)}

(* A bloop at the configured hour and minute is always awarded, in both    *)
(* passes of a repeated hour and on both sides of a skipped one: the       *)
(* reconstruction of the target time on the bloop's day never misses it.   *)
MatchingTimeAwarded ==
    \A z \in Zones, cfg \in TimeConfig : Matches(z, cfg, now) => EvaluateTime(z, cfg)

(* Where the clocks are not being switched, an evaluator with a minute     *)
(* awards only bloops at most the leeway after a matching moment, and all  *)
(* those whose matching moment is on the bloop's own day, and in its own   *)
(* hour if the hour is open; one without a minute and without a leeway     *)
(* awards exactly the bloops of its hour.  A leeway that reaches past      *)
(* midnight is left to LeewayExtendsForward.                               *)
LeewayExact ==
    \A z \in {y \in Zones : y.before = y.after}, cfg \in TimeConfig :
        LET within == {t \in (now - cfg.leeway)..now : Matches(z, cfg, t)} IN
        /\ cfg.minute # Unset =>
            /\ EvaluateTime(z, cfg) => within # {}
            /\ (\E t \in within : /\ DayOf(z, t) = DayOf(z, now)
                                  /\ cfg.hour = Unset => HourOf(z, t) = HourOf(z, now)) =>
                EvaluateTime(z, cfg)
        /\ cfg.minute = Unset /\ cfg.leeway = 0 =>
            EvaluateTime(z, cfg) = Matches(z, cfg, now)

(* time.rs:13: a bloop is awarded when it "matches the given hour and/or   *)
(* minute, allowing for an optional leeway duration": an award of an       *)
(* evaluator with an hour is at most the leeway after a moment of that     *)
(* hour.                                                                   *)
HourWithinLeeway ==
    \A z \in Zones, cfg \in TimeConfig :
        cfg.hour # Unset /\ EvaluateTime(z, cfg) =>
            \E t \in (now - cfg.leeway)..now : Matches(z, cfg, t)

(* time.rs:22-24: the window "starts at the exact configured hour/minute"  *)
(* and "extends forward by the `leeway` duration": with an hour and a      *)
(* minute configured, every bloop at most the leeway after a matching      *)
(* moment is awarded.                                                      *)
LeewayExtendsForward ==
    \A z \in {y \in Zones : y.before = y.after}, cfg \in TimeConfig :
        Unset \notin {cfg.hour, cfg.minute}
        /\ (\E t \in (now - cfg.leeway)..now : Matches(z, cfg, t)) => EvaluateTime(z, cfg)
=============================================================================
