--------------------------- MODULE TimeInterval ---------------------------
(* src/pkg/gds/timeinterval: ranges of days, months and minutes as they are *)
(* unmarshalled from text, and whether an interval built from them contains *)
(* a time.  The text of a range is the sequence of its parts between '~';   *)
(* a part is what memberFromString makes of it, or NoMember.                *)
EXTENDS Integers, Sequences

NoMember == -1000
Rejected == [begin |-> NoMember, end |-> NoMember]

\* A clock part is <<hours, minutes>>; 24:00 is the end of the day.
parseTime(hm) ==
    IF hm \in ((0..23) \X (0..59)) \cup {<<24, 0>>} THEN hm[1] * 60 + hm[2] ELSE NoMember

\* Names of weekdays and months map to numbers, anything else is refused.
nameMember(n, names) == IF n \in names THEN n ELSE NoMember

\* One part is both ends of its range; more than two are refused.
stringableRangeFromString(parts) ==
    IF Len(parts) > 2 \/ \E i \in DOMAIN parts : parts[i] = NoMember THEN Rejected
    ELSE [begin |-> parts[1], end |-> parts[Len(parts)]]

WeekdayUnmarshal(parts) ==
    LET r == stringableRangeFromString([i \in DOMAIN parts |-> nameMember(parts[i], 0..6)])
    IN  IF r = Rejected \/ r.begin > r.end THEN Rejected ELSE r

MonthUnmarshal(parts) ==
    LET r == stringableRangeFromString([i \in DOMAIN parts |-> nameMember(parts[i], 1..12)])
    IN  IF r = Rejected \/ r.begin > r.end THEN Rejected ELSE r

YearUnmarshal(parts) ==
    LET r == stringableRangeFromString(parts)
    IN  IF r = Rejected \/ r.begin > r.end THEN Rejected ELSE r

TimeUnmarshal(parts) ==
    LET r == stringableRangeFromString([i \in DOMAIN parts |-> parseTime(parts[i])])
    IN  IF r = Rejected \/ r.begin >= r.end THEN Rejected ELSE r

\* The shortest month decides whether an end counted backwards lies before
\* the beginning.
AcceptedDays(b, e) ==
    /\ b # 0 /\ b >= -31 /\ b <= 31
    /\ e # 0 /\ e >= -31 /\ e <= 31
    /\ ~(b < 0 /\ e > 0)
    /\ (IF b < 0 THEN 28 + b ELSE b) <= (IF e < 0 THEN 28 + e ELSE e)

DayOfMonthUnmarshal(parts) ==
    LET r == stringableRangeFromString(parts)
    IN  IF r = Rejected THEN Rejected ELSE IF AcceptedDays(r.begin, r.end) THEN r ELSE Rejected

\* The hours between the first of this month and of the next, in whole days.
\* shift is what a change of daylight saving time adds to the month, in hours:
\* a month that it shortens counts a day less than it has.
daysInMonth(days, shift) == (24 * days + shift) \div 24

clamp(n, min, max) == IF n <= min THEN min ELSE IF n >= max THEN max ELSE n

\* Mutant: an end counted backwards starts at the day after the last one.
MutantCoversDay(b, e, day, n) ==
    LET begin == IF b < 0 THEN n + b ELSE b
        end   == IF e < 0 THEN n + e ELSE e
    IN  begin <= n /\ clamp(begin, -n, n) <= day /\ day <= clamp(end, -n, n)

\* Does the range b..e cover this day of a month that counts n days?
CoversDay(b, e, day, n) ==
    LET begin == IF b < 0 THEN n + b + 1 ELSE b
        end   == IF e < 0 THEN n + e + 1 ELSE e
    IN  /\ begin <= n
        /\ clamp(begin, -n, n) <= day
        /\ day <= clamp(end, -n, n)

(* A time, in the interval's location if it has one: minute of the day, day *)
(* of the month, the month's length and shift, month, weekday and year.  A  *)
(* dimension of an interval is nil or a list of ranges, perhaps empty.      *)
Nil == [given |-> FALSE, ranges |-> {}]
Given(ranges) == [given |-> TRUE, ranges |-> ranges]
Within(dim, x) == dim.given => \E r \in dim.ranges : r.begin <= x /\ x <= r.end

ContainsTime(tp, t) ==
    /\ tp.times.given => \E r \in tp.times.ranges : r.begin <= t.minute /\ t.minute < r.end
    /\ tp.days.given  => \E r \in tp.days.ranges :
                            CoversDay(r.begin, r.end, t.day, daysInMonth(t.length, t.shift))
    /\ Within(tp.months, t.month)
    /\ Within(tp.weekdays, t.weekday)
    /\ Within(tp.years, t.year)

---------------------------------------------------------------------------
(* Reference definitions. *)

\* Day d of a month of n days, read from either end: -1 is the last day.
DayInRange(b, e, d, n) ==
    /\ IF b > 0 THEN b <= d ELSE b <= d - n - 1
    /\ IF e > 0 THEN d <= e ELSE d - n - 1 <= e

\* An accepted range covers the days that its two ends delimit, whichever end
\* of the month they are counted from, and covers some day of every month
\* that has a day for its beginning or its end.
DaysAsWritten(b, e, n, shift) ==
    AcceptedDays(b, e) =>
      /\ \A d \in 1..n : CoversDay(b, e, d, daysInMonth(n, shift)) <=> DayInRange(b, e, d, n)
      /\ (b <= n /\ e >= -n) =>
             \E d \in 1..n : CoversDay(b, e, d, daysInMonth(n, shift))

\* In a month that a change of clocks shortens, a range covers the days that
\* it covers in a month with one day less, and never the last day.
DaysAsCounted(b, e, n) ==
    AcceptedDays(b, e) =>
      \A d \in 1..n :
        CoversDay(b, e, d, daysInMonth(n, -1)) <=> d < n /\ DayInRange(b, e, d, n - 1)

\* Two accepted times of day a~b and b~c cover every minute from a to c once.
Anytime == [times |-> Nil, days |-> Nil, months |-> Nil, weekdays |-> Nil, years |-> Nil]
TimesTile(a, b, c) ==
    LET ab == TimeUnmarshal(<<a, b>>)
        bc == TimeUnmarshal(<<b, c>>)
        time(m) == [minute |-> m, day |-> 1, length |-> 30, shift |-> 0, month |-> 1,
                    weekday |-> 0, year |-> 1]
        in(r, m) == ContainsTime([Anytime EXCEPT !.times = Given({r})], time(m))
    IN  ab # Rejected /\ bc # Rejected =>
          \A m \in 0..1439 :
            (in(ab, m) # in(bc, m)) <=> (parseTime(a) <= m /\ m < parseTime(c))

\* A text of names is accepted exactly if it names a member, or two in order;
\* the interval it makes of a dimension then contains the members from one to
\* the other, whatever the other dimensions leave open, and an empty list of
\* any other dimension contains nothing.
NamedRange(parts) ==
    LET w == WeekdayUnmarshal(parts)
        m == MonthUnmarshal(parts)
        at(x) == [minute |-> 0, day |-> 31, length |-> 31, shift |-> 0, month |-> x,
                  weekday |-> x, year |-> x]
        named(S) == /\ Len(parts) \in 1..2 /\ \A i \in DOMAIN parts : parts[i] \in S
                    /\ parts[1] <= parts[Len(parts)]
        both == [Anytime EXCEPT !.weekdays = Given({w}), !.months = Given({m})]
    IN  /\ (w # Rejected) <=> named(0..6)
        /\ (m # Rejected) <=> named(1..12)
        /\ named(1..6) => YearUnmarshal(parts) = m /\ DayOfMonthUnmarshal(parts) = m
        /\ named(1..6) =>
             \A x \in 1..6 :
               /\ ContainsTime(both, at(x)) <=> x \in parts[1]..parts[Len(parts)]
               /\ ~ContainsTime([both EXCEPT !.years = Given({})], at(x))
===========================================================================
