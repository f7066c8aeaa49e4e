----------------------------- MODULE ParseSlot ------------------------------
(***************************************************************************)
(* parseUserSlotReply: the day and the hour read in what a user writes.    *)
(* A text is the sequence of its words; a word is what the regular         *)
(* expressions see in it: its kind and its numbers.  An instant is a       *)
(* number of hours, a day a number of days, since 1970-01-01 UTC; a time   *)
(* zone is its offset in hours.                                            *)
(***************************************************************************)
EXTENDS Integers, Sequences, FiniteSetsExt

CONSTANTS
    Words,          \* bound: the words a user may write
    MaxWords,       \* bound: their number
    Instants, Zones

\* What the theorems assume of the constants.
ConstantsOK ==
    /\ Words \subseteq [kind : STRING, n : Nat, m : Nat, y : Nat, suffix : STRING]
    /\ \A w \in Words : w.kind = "weekday" => w.n \in 0..6
    /\ \A w \in Words : w.kind = "month" => w.n \in 1..12
    /\ MaxWords \in Nat /\ Instants \subseteq Nat /\ Zones \subseteq -12..14

VARIABLES text, now, timezone, parsed

vars == <<text, now, timezone, parsed>>

-----------------------------------------------------------------------------
(* Words.                                                                  *)

Word(kind, n, m, y, suffix) == [kind |-> kind, n |-> n, m |-> m, y |-> y, suffix |-> suffix]

Plain(kind)       == Word(kind, 0, 0, 0, "")    \* "hoy", "manana", "pasado", "de", "other"
WeekdayName(n)    == Word("weekday", n, 0, 0, "")   \* 0 is Sunday
MonthName(n)      == Word("month", n, 0, 0, "")
SuffixWord(s)     == Word("suffix", 0, 0, 0, s)     \* "am", "pm", "hs", apart
Number(n, s)      == Word("number", n, 0, 0, s)     \* one or two digits, with a suffix or none
HourMinute(h, m, s) == Word("hm", h, m, 0, s)       \* 14:30, 14:30hs
Slash(d, m, y)    == Word("slash", d, m, y, "")     \* 15/03, 15/03/2027; y = 0: none
Iso(y, m, d)      == Word("iso", d, m, y, "")       \* 2026-06-15
YearNumber(y)     == Word("year", 0, 0, y, "")      \* four digits

Where(t, kind)  == {i \in DOMAIN t : t[i].kind = kind}
Says(t, kind)   == Where(t, kind) # {}
First(t, kind)  == t[Min(Where(t, kind))]

Alphabetic(w) == w.kind \in {"hoy", "manana", "pasado", "weekday", "month", "suffix", "de", "other"}

\* The number of one or two digits a word ends with, as SPANISH_DATE_RE may begin in it.
EndsInNumber(w) ==
    \/ w.kind \in {"number", "hm"} /\ w.suffix = ""
    \/ w.kind = "slash" /\ w.y < 100
LastNumber(w) ==
    CASE w.kind = "number"              -> w.n
      [] w.kind = "slash" /\ w.y # 0    -> w.y
      [] OTHER                          -> w.m

\* The number of two to four digits a word begins with, as SPANISH_DATE_RE may end in it.
BeginsAsYear(w) ==
    \/ w.kind = "number" /\ w.suffix = "" /\ w.n >= 10
    \/ w.kind \in {"hm", "slash"} /\ w.n >= 10
    \/ w.kind = "year"
FirstNumber(w) == IF w.kind = "year" THEN w.y ELSE w.n

-----------------------------------------------------------------------------
(* Days.                                                                   *)

\* A day counted from today, or one named by its number and month; year 0: the current one.
NoDate      == [of |-> "none",  day |-> 0, month |-> 0, year |-> 0]
Counted(d)  == [of |-> "count", day |-> d, month |-> 0, year |-> 0]
Ymd(y, m, d) == [of |-> "named", day |-> d, month |-> m, year |-> y]

YmdInTimezone(t, tz) == (t + tz) \div 24
Today == YmdInTimezone(now, timezone)
Weekday(d) == (d + 4) % 7

\* shiftDay: noon in UTC of the day wanted, seen from the zone.
ShiftDay(t, offset, tz) ==
    LET utc == 24 * (YmdInTimezone(t, tz) + offset) + 12 IN YmdInTimezone(utc, tz)

DaysUntil(w, today) ==
    LET diff == w - Weekday(today) IN IF diff <= 0 THEN diff + 7 ELSE diff

NextWeekday(t, w, tz) == ShiftDay(t, DaysUntil(w, YmdInTimezone(t, tz)), tz)

ParseYear(y) == IF y = 0 THEN 0 ELSE IF y < 100 THEN 2000 + y ELSE y

\* RELATIVE_DAYS, in reverse: pasado manana, manana, hoy.
DayAfterTomorrow(t) ==
    \E i \in Where(t, "pasado") : i + 1 \in DOMAIN t /\ t[i + 1].kind = "manana"
Relative(t) == Says(t, "hoy") \/ Says(t, "manana")

\* WEEKDAYS lists Sunday last: the first of the list wins, not the first of the text.
Named(t)   == {t[i].n : i \in Where(t, "weekday")}
Listed(S)  == Min({IF w = 0 THEN 7 ELSE w : w \in S}) % 7

\* SPANISH_DATE_RE: the leftmost number followed by a word, "de" or not between.
Spanish(t) == {i \in DOMAIN t : i + 1 \in DOMAIN t /\ EndsInNumber(t[i]) /\ Alphabetic(t[i + 1])}
MonthAt(t, i) ==
    IF t[i + 1].kind = "de" /\ i + 2 \in DOMAIN t /\ Alphabetic(t[i + 2]) THEN i + 2 ELSE i + 1
YearAfter(t, j) ==
    LET k == IF j + 2 \in DOMAIN t /\ t[j + 1].kind = "de" THEN j + 2 ELSE j + 1 IN
    IF k \in DOMAIN t /\ BeginsAsYear(t[k]) THEN FirstNumber(t[k]) ELSE 0

SpanishDate(t) ==
    LET i == Min(Spanish(t))
        j == MonthAt(t, i)
    IN IF t[j].kind = "month" /\ LastNumber(t[i]) \in 1..31
       THEN Ymd(ParseYear(YearAfter(t, j)), t[j].n, LastNumber(t[i]))
       ELSE NoDate

SlashDate(w) ==
    IF w.n \in 1..31 /\ w.m \in 1..12 THEN Ymd(ParseYear(w.y), w.m, w.n) ELSE NoDate

NamedDate(t) ==
    CASE Says(t, "iso") -> LET w == First(t, "iso") IN Ymd(w.y, w.m, w.n)
      [] ~Says(t, "iso") /\ Spanish(t) # {} /\ SpanishDate(t) # NoDate -> SpanishDate(t)
      [] ~Says(t, "iso") /\ (Spanish(t) = {} \/ SpanishDate(t) = NoDate) /\ Says(t, "slash") ->
           SlashDate(First(t, "slash"))
      [] OTHER -> NoDate

ExtractDate(t, instant, tz) ==
    CASE DayAfterTomorrow(t) -> Counted(ShiftDay(instant, 2, tz))
      [] ~DayAfterTomorrow(t) /\ Says(t, "manana") -> Counted(ShiftDay(instant, 1, tz))
      [] ~Says(t, "manana") /\ Says(t, "hoy") -> Counted(ShiftDay(instant, 0, tz))
      [] ~Relative(t) /\ Named(t) # {} -> Counted(NextWeekday(instant, Listed(Named(t)), tz))
      [] OTHER -> NamedDate(t)

-----------------------------------------------------------------------------
(* Hours.                                                                  *)

NoTime   == [h |-> 0 - 1, m |-> 0]
Hm(h, m) == [h |-> h, m |-> m]

PM_HEURISTIC_THRESHOLD == 8

\* TIME_24_RE: no letter may follow the minutes.
Explicit(t) == {i \in Where(t, "hm") : t[i].n \in 0..23 /\ t[i].m \in 0..59 /\ t[i].suffix = ""}

\* TIME_HOUR_ONLY_RE: the leftmost number of one or two digits, whatever it belongs to.
Numbered(t) == {i \in DOMAIN t : t[i].kind \in {"number", "hm", "slash", "iso"}}
HourNumber(w) == IF w.kind = "iso" THEN w.m ELSE w.n
SuffixOf(t, i) ==
    CASE t[i].kind # "number"                       -> ""
      [] t[i].kind = "number" /\ t[i].suffix # ""   -> t[i].suffix
      [] OTHER -> IF i + 1 \in Where(t, "suffix") THEN t[i + 1].suffix ELSE ""

HourOf(h, suffix) ==
    CASE suffix = "am" -> IF h = 12 THEN 0 ELSE h
      [] suffix = "pm" -> IF h = 12 THEN 12 ELSE h + 12
      [] suffix = "hs" -> h
      [] suffix = "" /\ h \in 1..PM_HEURISTIC_THRESHOLD -> h + 12
      [] OTHER -> h

ExtractTime(t) ==
    IF Explicit(t) # {} THEN LET w == t[Min(Explicit(t))] IN Hm(w.n, w.m)
    ELSE IF Numbered(t) # {} /\ HourNumber(t[Min(Numbered(t))]) <= 23
    THEN LET i == Min(Numbered(t)) IN Hm(HourOf(HourNumber(t[i]), SuffixOf(t, i)), 0)
    ELSE NoTime

-----------------------------------------------------------------------------

ParseUserSlotReply(t, tz, instant) == [date |-> ExtractDate(t, instant, tz), time |-> ExtractTime(t)]

Init ==
    /\ text = <<>> /\ now \in Instants /\ timezone \in Zones
    /\ parsed = ParseUserSlotReply(<<>>, timezone, now)

\* The user writes one more word; any text may be sent.
Write ==
    /\ Len(text) < MaxWords
    /\ \E w \in Words : text' = Append(text, w)
    /\ parsed' = ParseUserSlotReply(text', timezone, now)
    /\ UNCHANGED <<now, timezone>>

Next == Write

Spec == Init /\ [][Next]_vars

-----------------------------------------------------------------------------
(* Properties.                                                             *)

\* nextWeekday, shiftDay: a weekday is its next day in the zone of the business, tomorrow at
\* the earliest, whatever the hour in UTC and the zone (up to eleven hours east of it).
WeekdayIsNext ==
    timezone <= 11 /\ ~Relative(text) /\ Named(text) # {} =>
        \E w \in Named(text), d \in Today + 1 .. Today + 7 :
            parsed.date = Counted(d) /\ Weekday(d) = w

\* shiftDay takes noon in UTC for noon in the zone: twelve hours east of UTC, and more, it is
\* already the next day.
Late == IF timezone >= 12 THEN 1 ELSE 0

\* RELATIVE_DAYS: today, tomorrow and the day after it are counted in the zone of the business
\* whatever the hour in UTC, whatever else the text says, the longer expression first; in the
\* zones where noon in UTC is tomorrow they are one day late.
RelativeIsRead ==
    /\ DayAfterTomorrow(text) => parsed.date = Counted(Today + 2 + Late)
    /\ ~DayAfterTomorrow(text) /\ Says(text, "manana") => parsed.date = Counted(Today + 1 + Late)
    /\ ~Says(text, "manana") /\ Says(text, "hoy") => parsed.date = Counted(Today + Late)

\* validHour is asked before am and pm are added: the only hours read that no day has are those
\* of an afternoon counted twice, as in "15pm".
HourIsOfTheDay ==
    \/ parsed.time = NoTime
    \/ parsed.time.h \in 0..23 /\ parsed.time.m \in 0..59
    \/ /\ parsed.time.h \in 25..35 /\ parsed.time.m = 0
       /\ \E i \in Where(text, "number") : SuffixOf(text, i) = "pm" /\ text[i].n = parsed.time.h - 12

\* A day named by its number and month has both in range, whatever numbers stand around it;
\* only an ISO date is taken as it is written.
NamedIsInRange ==
    parsed.date.of = "named" /\ ~Says(text, "iso") =>
        parsed.date.day \in 1..31 /\ parsed.date.month \in 1..12

\* The hour on the clock of twelve hours, counted from midnight.
OnTheClock(n, suffix) == IF suffix = "am" THEN n % 12 ELSE (n % 12) + 12

\* extractTime: an hour of the clock with am or pm, in whatever text, is its hour of the day:
\* twelve is midnight or noon.
ClockIsRead ==
    \A i \in Where(text, "number") :
        /\ Numbered(text) = {i} /\ text[i].n \in 1..12 /\ SuffixOf(text, i) \in {"am", "pm"}
        => parsed.time = Hm(OnTheClock(text[i].n, SuffixOf(text, i)), 0)

\* TIME_24_RE before TIME_HOUR_ONLY_RE: an hour and its minutes, standing on their own, are the
\* hour read, whatever days, numbers and suffixes surround them.
ExplicitIsRead ==
    \A i \in Where(text, "hm") :
        Explicit(text) = {i} => parsed.time = Hm(text[i].n, text[i].m)

\* parseUserSlotReply.test.ts: a text in which no hour is mentioned has no hour.  The code reads
\* one in "15 marzo" (TIME_HOUR_ONLY_RE takes any number of one or two digits).
NoHourUnmentioned ==
    (\A i \in Numbered(text) : text[i].kind \in {"slash", "iso"} \/ i + 1 \in Where(text, "month"))
        => parsed.time = NoTime

=============================================================================
