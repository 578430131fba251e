------------------------------- MODULE MCCron -------------------------------
(* A small calendar for TLC, and the clock changes of its time zones.      *)
EXTENDS Cron

(* A calendar of two-second minutes, two-minute hours, three-hour days,    *)
(* months of two and three days and two-day weeks, and clocks that stay,   *)
(* go forward and go back, though not over midnight.                       *)
Is(v) == <<[low |-> v, high |-> -1, step |-> -1]>>
Thru(a, b) == <<[low |-> a, high |-> b, step |-> -1]>>
Each(a, n) == <<[low |-> a, high |-> -1, step |-> n]>>
Star == Is(-2)
OfFields(fields) == [name |-> "", fields |-> fields, optional |-> TRUE, delay |-> 0]
NamedSpec(name) == [name |-> name, fields |-> <<>>, optional |-> TRUE, delay |-> 1]
MCSpecs ==
       {OfFields(<<se, mi, ho, d, mo, w>>) :
          se \in {Is(1), Star}, mi \in {Is(0), Is(1)}, ho \in {Is(0), Is(2), Is(0) \o Is(2), Each(1, 1)},
          d \in {Star, Is(3), Each(-2, 2)}, mo \in {Star, Is(2)}, w \in {Star, Is(1)}}
  \cup {OfFields(<<Is(1), ho, d, Star, Star>>) : ho \in {Is(1), Thru(0, 1), <<>>}, d \in {Star, Thru(2, 3), Thru(3, 2), Is(4)}}
  \cup {OfFields(<<Star>>)}
  \cup {NamedSpec(n) : n \in {"@yearly", "@monthly", "@weekly", "@daily", "@hourly", "@every", "@never"}}
MCMonths == <<2, 3>>
MCStarts == {0, 7, 11, 20, 23, 35, 47, 59}
NoShift == [at |-> 0, shift |-> 0]
MCZones == {NoShift, [at |-> 16, shift |-> 1], [at |-> 20, shift |-> -1], [at |-> 28, shift |-> 1]}

(* Clocks go forward at the end of the first day: midnight does not exist. *)
MidnightZones == {[at |-> 24, shift |-> 1]}

CronSpec == CronInit /\ [][CronNext]_cronVars
=============================================================================
