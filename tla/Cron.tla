---------------------------------- MODULE Cron ----------------------------------
(***************************************************************************)
(* Cron specs and the search for the next activation                       *)
(* (jobs/internal/cron/parser.go, spec.go, constantdelay.go), over a small *)
(* calendar.  An instant is a number of seconds; the clock of the zone     *)
(* reads it as a civil time, one hour further (a gap) or one hour back (a  *)
(* repeated hour) from an instant on.  time.Date of a civil time that the  *)
(* clock shows twice, or never, is either of the two instants: Go does not *)
(* say which.                                                              *)
(***************************************************************************)
EXTENDS Integers, Sequences, FiniteSets, SequencesExt, FiniteSetsExt

CONSTANTS
  Seconds, Minutes, Hours, Weekdays,   \* in a minute, an hour, a day, a week
  MonthDays,       \* the days of each month
  Specs,           \* the specs to parse
  Starts,          \* the instants to search from
  Zones,           \* [at, shift]: the clock moves by shift hours at an instant
  YearLimit        \* the years a search may take, 5 in the code

ASSUME CronAssumption ==
  /\ {Seconds, Minutes, Hours, Weekdays} \subseteq Nat \ {0} /\ YearLimit \in Nat
  /\ Starts \subseteq Nat /\ \A zone \in Zones : zone.shift \in {-1, 0, 1}

VARIABLES
  spec,        \* the spec
  zone,        \* its time zone
  from,        \* the instant searched from
  looking,          \* the loop the search is in, or its end
  moment,           \* the instant the search is at
  added        \* whether a field was incremented

cronVars == <<spec, zone, from, looking, moment, added>>

-----------------------------------------------------------------------------
(* The parser.  A range is [low, high, step], of -1 where a part is not    *)
(* there, and a low of -2 for a star; a value that is no number is -3.     *)

bounds == [second |-> [min |-> 0, max |-> Seconds - 1], minute |-> [min |-> 0, max |-> Minutes - 1],
           hour |-> [min |-> 0, max |-> Hours - 1], dom |-> [min |-> 1, max |-> Max(ToSet(MonthDays))],
           month |-> [min |-> 1, max |-> Len(MonthDays)], dow |-> [min |-> 0, max |-> Weekdays - 1]]
places == <<"second", "minute", "hour", "dom", "month", "dow">>
defaults(place) == IF place \in {"second", "minute", "hour"} THEN <<[low |-> 0, high |-> -1, step |-> -1]>>
                   ELSE <<[low |-> -2, high |-> -1, step |-> -1]>>

getBits(min, max, step) == {i \in min..max : (i - min) % step = 0}
all(place) == [bits |-> getBits(bounds[place].min, bounds[place].max, 1), star |-> TRUE, ok |-> TRUE]

getRange(range, place) ==
  LET r == bounds[place]
      stars == range.low = -2
      start == IF stars THEN r.min ELSE range.low
      end == CASE stars -> r.max
               [] range.high = -1 -> IF range.step = -1 THEN start ELSE r.max
               [] OTHER -> range.high
      step == IF range.step = -1 THEN 1 ELSE range.step
      ok == start >= r.min /\ end \in r.min..r.max /\ start <= end /\ step > 0
  IN  [ok |-> ok, bits |-> IF ok THEN getBits(start, end, step) ELSE {}, star |-> stars /\ step = 1]
getField(field, place) ==
  LET ranges == {getRange(field[i], place) : i \in 1..Len(field)}
  IN  [ok |-> \A range \in ranges : range.ok, bits |-> UNION {range.bits : range \in ranges},
       star |-> \E range \in ranges : range.star]

(* normalizeFields: five fields, or six where the seconds are optional.    *)
normalizeFields(fields, optional) ==
  CASE Len(fields) = 6 /\ optional -> fields
    [] Len(fields) = 5 -> <<defaults("second")>> \o fields
    [] OTHER -> <<>>

First(place) == [bits |-> {bounds[place].min}, star |-> FALSE, ok |-> TRUE]
parseDescriptor(name) ==
  LET Firsts == CASE name = "@yearly" -> {"second", "minute", "hour", "dom", "month"}
                  [] name = "@monthly" -> {"second", "minute", "hour", "dom"}
                  [] name = "@weekly" -> {"second", "minute", "hour", "dow"}
                  [] name = "@daily" -> {"second", "minute", "hour"}
                  [] OTHER -> {"second", "minute"}
  IN  [place \in DOMAIN bounds |-> IF place \in Firsts THEN First(place) ELSE all(place)]
Every(delay) == Max({delay, 1})

NoSchedule == <<>>
Parse(s) ==
  LET fields == normalizeFields(s.fields, s.optional)
      parsed == [place \in DOMAIN bounds |-> getField(fields[CHOOSE i \in 1..6 : places[i] = place], place)]
  IN  IF s.name \in {"@yearly", "@monthly", "@weekly", "@daily", "@hourly"} THEN parseDescriptor(s.name)
      ELSE IF s.name # "" \/ fields = <<>> THEN NoSchedule
      ELSE IF \E place \in DOMAIN bounds : ~ parsed[place].ok THEN NoSchedule ELSE parsed
schedule == Parse(spec)

-----------------------------------------------------------------------------
(* The calendar, external: civil times and instants.                       *)

HourLong == Seconds * Minutes
DayLong == HourLong * Hours
YearDays == FoldLeft(+, 0, MonthDays)
DaysBefore(m) == FoldLeft(+, 0, SubSeq(MonthDays, 1, m - 1))

Year(c) == (c \div DayLong) \div YearDays
YearDay(c) == (c \div DayLong) % YearDays
Month(c) == CHOOSE m \in 1..Len(MonthDays) : YearDay(c) \in DaysBefore(m)..DaysBefore(m) + MonthDays[m] - 1
Day(c) == YearDay(c) - DaysBefore(Month(c)) + 1
Weekday(c) == (c \div DayLong) % Weekdays
Hour(c) == (c % DayLong) \div HourLong
Minute(c) == (c % HourLong) \div Seconds
Second(c) == c % Seconds

Civil(i) == IF i >= zone.at THEN i + zone.shift * HourLong ELSE i
Date(c) ==
  LET either == {c, c - zone.shift * HourLong}
      shown == {i \in either : Civil(i) = c}
  IN  IF shown = {} THEN either ELSE shown
Midnight(c) == c - (c % DayLong)
FirstOfMonth(c) == Midnight(c) - (Day(c) - 1) * DayLong

-----------------------------------------------------------------------------
(* SpecSchedule.Next, a step of a loop at a time.  After a wrap the search *)
(* begins again with the month.                                            *)

CronInit ==
  /\ spec \in Specs /\ zone \in Zones /\ from \in Starts
  /\ looking = "parse" /\ moment = 0 /\ added = FALSE

Ends(how, instant) == looking' = how /\ moment' = instant /\ UNCHANGED <<spec, zone, from, added>>

(* The start: the upcoming second.  @every needs no search.                *)
Start ==
  /\ looking = "parse"
  /\ IF spec.name = "@every" THEN Ends("found", from + Every(spec.delay))
     ELSE IF schedule = NoSchedule THEN Ends("refused", 0) ELSE Ends("month", from + 1)

Over == Year(Civil(moment)) > Year(Civil(from + 1)) + YearLimit
NotFound == looking = "month" /\ Over /\ Ends("none", 0)

(* A loop whose field matches gives way to the next.                       *)
GoesOn(loop, next) == looking = loop /\ Ends(next, moment)
(* A field that does not is incremented; the first time, from the start of *)
(* the field.                                                              *)
Steps(loop, begins, Add(_), Fix(_), Wraps(_)) ==
  \E start \in IF added THEN {moment} ELSE begins : \E moved \in Add(start) :
    /\ looking = loop /\ added' = TRUE
    /\ moment' = Fix(moved)
    /\ looking' = IF Wraps(Civil(moment')) THEN "month" ELSE loop
    /\ UNCHANGED <<spec, zone, from>>
Same(i) == i
Later(i, seconds) == {i + seconds}

Matches(place, value) == value \in schedule[place].bits
MonthLoop ==
  LET AddMonth(i) == Date(Civil(i) + MonthDays[Month(Civil(i))] * DayLong)
      January(c) == Month(c) = 1
  IN  /\ ~ Over
      /\ IF Matches("month", Month(Civil(moment))) THEN GoesOn("month", "day")
         ELSE Steps("month", Date(FirstOfMonth(Civil(moment))), AddMonth, Same, January)

dayMatches(c) ==
  IF schedule["dom"].star \/ schedule["dow"].star
  THEN Matches("dom", Day(c)) /\ Matches("dow", Weekday(c))
  ELSE Matches("dom", Day(c)) \/ Matches("dow", Weekday(c))
(* The hour is no longer midnight where the clock moved.                   *)
ToMidnight(i) ==
  LET hour == Hour(Civil(i))
  IN  IF hour = 0 THEN i ELSE IF 2 * hour > Hours THEN i + (Hours - hour) * HourLong ELSE i - hour * HourLong
DayLoop ==
  LET AddDay(i) == Date(Civil(i) + DayLong)
      FirstDay(c) == Day(c) = 1
  IN  IF dayMatches(Civil(moment)) THEN GoesOn("day", "hour")
      ELSE Steps("day", Date(Midnight(Civil(moment))), AddDay, ToMidnight, FirstDay)

HourLoop_NoWrap ==
  LET AddHour(i) == Later(i, HourLong)
      Never(c) == FALSE
  IN  IF Matches("hour", Hour(Civil(moment))) THEN GoesOn("hour", "minute")
      ELSE Steps("hour", Date(Civil(moment) - (Civil(moment) % HourLong)), AddHour, Same, Never)
HourLoop ==
  LET AddHour(i) == Later(i, HourLong)
      NewDay(c) == Hour(c) = 0
  IN  IF Matches("hour", Hour(Civil(moment))) THEN GoesOn("hour", "minute")
      ELSE Steps("hour", Date(Civil(moment) - (Civil(moment) % HourLong)), AddHour, Same, NewDay)

MinuteLoop ==
  LET AddMinute(i) == Later(i, Seconds)
      NewHour(c) == Minute(c) = 0
  IN  IF Matches("minute", Minute(Civil(moment))) THEN GoesOn("minute", "second")
      ELSE Steps("minute", {moment - (moment % Seconds)}, AddMinute, Same, NewHour)

SecondLoop ==
  LET AddSecond(i) == Later(i, 1)
      NewMinute(c) == Second(c) = 0
  IN  IF Matches("second", Second(Civil(moment))) THEN GoesOn("second", "found")
      ELSE Steps("second", {moment}, AddSecond, Same, NewMinute)

CronNext ==
  \/ Start \/ NotFound
  \/ looking = "month" /\ MonthLoop
  \/ looking = "day" /\ DayLoop
  \/ looking = "hour" /\ HourLoop
  \/ looking = "minute" /\ MinuteLoop
  \/ looking = "second" /\ SecondLoop

-----------------------------------------------------------------------------
(* What a spec means, without bits and loops: a range holds its low value  *)
(* and every step further up to its high one, and a day matches both day   *)
(* fields, or either when both are restricted.                             *)
Field(place) ==
  LET i == CHOOSE i \in 1..6 : places[i] = place
      short == Len(spec.fields) = 5
  IN  IF short /\ i = 1 THEN defaults(place) ELSE spec.fields[IF short THEN i - 1 ELSE i]
Means(place, value) ==
  \E k \in 1..Len(Field(place)) :
    LET range == Field(place)[k]
        low == IF range.low = -2 THEN bounds[place].min ELSE range.low
        by == IF range.step = -1 THEN 1 ELSE range.step
    IN  /\ value >= low /\ (value - low) % by = 0
        /\ range.high # -1 /\ range.low # -2 => value <= range.high
        /\ range.high = -1 /\ range.step = -1 /\ range.low # -2 => value = low
Unrestricted(place) == \E k \in 1..Len(Field(place)) : Field(place)[k].low = -2 /\ Field(place)[k].step \in {-1, 1}
Activates(i) ==
  LET c == Civil(i)
      dom == Means("dom", Day(c))
      dow == Means("dow", Weekday(c))
  IN  /\ Means("second", Second(c)) /\ Means("minute", Minute(c)) /\ Means("hour", Hour(c)) /\ Means("month", Month(c))
      /\ IF Unrestricted("dom") \/ Unrestricted("dow") THEN dom /\ dow ELSE dom \/ dow

(* The next activation is the next: the search ends at the first instant   *)
(* after the one it began with at which the clock of the zone shows a time *)
(* of the spec, a repeated hour's included, and reports none only when     *)
(* there is none through the last year it may look at.                     *)
Horizon == (Year(Civil(from + 1)) + YearLimit + 1) * YearDays * DayLong
NextIsNext ==
  LET first == {i \in from + 1..Horizon - 1 : Activates(i)}
  IN  spec.name = "" =>
        /\ looking = "found" => moment \in first /\ \A i \in first : moment <= i
        /\ looking = "none" => first = {}
=============================================================================
