-------------------------- MODULE ParseSlotProofs ---------------------------
(***************************************************************************)
(* Proofs about ParseSlot: the days counted from today and the hours of    *)
(* the clock are read right in any text, at any instant, in any zone of    *)
(* the range; what is wrongly read is an hour past midnight, and a day     *)
(* counted twelve hours east of UTC or further.                            *)
(***************************************************************************)
EXTENDS ParseSlot, WellFoundedInduction, TLAPS

\* Noon in UTC is the same day up to twelve hours west and eleven east of it, and the next
\* day further east.
LEMMA ShiftDayExact ==
    ASSUME NEW t \in Nat, NEW offset \in Int, NEW tz \in -12..14
    PROVE  /\ YmdInTimezone(t, tz) \in Int
           /\ tz <= 11 => ShiftDay(t, offset, tz) = YmdInTimezone(t, tz) + offset
           /\ tz >= 12 => ShiftDay(t, offset, tz) = YmdInTimezone(t, tz) + offset + 1
<1> DEFINE d == YmdInTimezone(t, tz)
<1>1. d \in Int
  BY DEF YmdInTimezone
<1>2. \A k \in Int, h \in 0..23 : (24 * k + h) \div 24 = k
  OBVIOUS
<1>3. d + offset \in Int
  BY <1>1
<1>4. ShiftDay(t, offset, tz) = (24 * (d + offset) + 12 + tz) \div 24
  BY DEF ShiftDay, YmdInTimezone
<1> HIDE DEF d
<1>5. CASE tz <= 11
  <2>1. 24 * (d + offset) + 12 + tz = 24 * (d + offset) + (12 + tz) /\ 12 + tz \in 0..23
    BY <1>3, <1>5
  <2>2. ShiftDay(t, offset, tz) = d + offset
    BY <1>2, <1>3, <1>4, <2>1
  <2> QED BY <1>1, <1>5, <2>2 DEF d
<1>6. CASE tz >= 12
  <2>1. /\ 24 * (d + offset) + 12 + tz = 24 * (d + offset + 1) + (tz - 12)
        /\ tz - 12 \in 0..23 /\ d + offset + 1 \in Int
    BY <1>3, <1>6
  <2>2. ShiftDay(t, offset, tz) = d + offset + 1
    BY <1>2, <1>4, <2>1
  <2> QED BY <1>1, <1>6, <2>2 DEF d
<1> QED BY <1>5, <1>6

\* From one to seven days lead to the weekday wanted.
LEMMA DaysUntilExact ==
    ASSUME NEW w \in 0..6, NEW today \in Int
    PROVE  DaysUntil(w, today) \in 1..7 /\ Weekday(today + DaysUntil(w, today)) = w
<1> DEFINE v == Weekday(today)
<1>1. v \in 0..6 /\ today + 4 = 7 * ((today + 4) \div 7) + v
  BY DEF Weekday
<1>2. PICK k \in Int : today + 4 = 7 * k + v
  BY <1>1
<1> HIDE DEF v
<1>3. \A j \in Int, x \in 0..6 : (7 * j + x) % 7 = x
  OBVIOUS
<1>4. CASE w - v <= 0
  <2>1. DaysUntil(w, today) = w - v + 7
    BY <1>4 DEF DaysUntil, v
  <2>2. today + (w - v + 7) + 4 = 7 * (k + 1) + w
    BY <1>1, <1>2
  <2>3. (today + (w - v + 7) + 4) % 7 = w
    BY <1>3, <2>2
  <2> QED BY <1>1, <1>4, <2>1, <2>3 DEF Weekday
<1>5. CASE w - v > 0
  <2>1. DaysUntil(w, today) = w - v
    BY <1>1, <1>5 DEF DaysUntil, v
  <2>2. today + (w - v) + 4 = 7 * k + w
    BY <1>1, <1>2
  <2>3. (today + (w - v) + 4) % 7 = w
    BY <1>3, <2>2
  <2> QED BY <1>1, <1>5, <2>1, <2>3 DEF Weekday
<1> QED BY <1>1, <1>4, <1>5

\* A set of natural numbers has a least one.
LEMMA LeastExists ==
    ASSUME NEW S, S \subseteq Nat, S # {}
    PROVE  Min(S) \in S /\ \A y \in S : Min(S) <= y
<1>1. PICK x \in S : \A y \in S : <<y, x>> \notin OpToRel(<, Nat)
  BY NatLessThanWellFounded, WFMin
<1>2. \A y \in S : ~(y < x)
  BY <1>1 DEF OpToRel
<1>3. \A y \in S : x <= y
  BY <1>2
<1> QED BY <1>3 DEF Min

\* The first weekday of the list is one of those named.
LEMMA ListedIsNamed == ASSUME NEW S \in SUBSET (0..6), S # {} PROVE Listed(S) \in S
<1> DEFINE T == {IF w = 0 THEN 7 ELSE w : w \in S}
<1>1. T \subseteq 1..7 /\ T # {}
  <2>1. \A w \in S : (IF w = 0 THEN 7 ELSE w) \in 1..7
    OBVIOUS
  <2>2. PICK w \in S : TRUE
    OBVIOUS
  <2>3. (IF w = 0 THEN 7 ELSE w) \in T
    OBVIOUS
  <2> QED BY <2>1, <2>3
<1>3. Min(T) \in T
  BY <1>1, LeastExists
<1>4. \A x \in T : x % 7 \in S
  <2>1. \A w \in 1..6 : w % 7 = w
    OBVIOUS
  <2>2. 7 % 7 = 0
    OBVIOUS
  <2> QED BY <2>1, <2>2
<1> QED BY <1>3, <1>4 DEF Listed

LEMMA OneIsMin == ASSUME NEW i \in Int PROVE Min({i}) = i
BY DEF Min

-----------------------------------------------------------------------------

\* What was read is what the parser reads in the text.
Read ==
    /\ ConstantsOK
    /\ text \in Seq(Words) /\ now \in Nat /\ timezone \in -12..14
    /\ parsed = ParseUserSlotReply(text, timezone, now)

LEMMA ReadHolds == ConstantsOK /\ Spec => []Read
<1>1. ConstantsOK /\ Init => Read
  <2> SUFFICES ASSUME ConstantsOK, Init PROVE Read
    OBVIOUS
  <2> QED BY DEF Init, Read, ConstantsOK
<1>2. Read /\ [Next]_vars => Read'
  <2> SUFFICES ASSUME Read, [Next]_vars PROVE Read'
    OBVIOUS
  <2>1. CASE UNCHANGED vars
    BY <2>1 DEF vars, Read
  <2>2. CASE Write
    BY <2>2 DEF Write, Read
  <2> QED BY <2>1, <2>2 DEF Next
<1> QED BY <1>1, <1>2, PTL DEF Spec

\* A weekday is its next day in the zone, in any text that names no relative day.
THEOREM WeekdayRead == ConstantsOK /\ Spec => []WeekdayIsNext
<1>1. Read => WeekdayIsNext
  <2> SUFFICES ASSUME Read, timezone <= 11, ~Relative(text), Named(text) # {}
               PROVE  \E w \in Named(text), d \in Today + 1 .. Today + 7 :
                         parsed.date = Counted(d) /\ Weekday(d) = w
    BY DEF WeekdayIsNext
  <2> DEFINE w == Listed(Named(text))
             d == NextWeekday(now, w, timezone)
  <2>1. Named(text) \subseteq 0..6
    BY DEF Read, Named, Where, ConstantsOK
  <2>2. w \in Named(text) /\ w \in 0..6
    BY <2>1, ListedIsNamed
  <2>3. timezone \in -12..11 /\ now \in Nat
    BY DEF Read
  <2>4. ~DayAfterTomorrow(text) /\ ~Says(text, "manana") /\ ~Says(text, "hoy")
    <3>1. ASSUME DayAfterTomorrow(text) PROVE Says(text, "manana")
      BY <3>1 DEF DayAfterTomorrow, Says, Where
    <3> QED BY <3>1 DEF Relative
  <2>5. parsed.date = Counted(d)
    BY <2>4 DEF Read, ParseUserSlotReply, ExtractDate, Relative
  <2> HIDE DEF w
  <2> DEFINE k == DaysUntil(w, Today)
  <2>6. Today \in Int
    BY <2>3 DEF Today, YmdInTimezone
  <2>7. k \in 1..7 /\ Weekday(Today + k) = w
    BY <2>2, <2>6, DaysUntilExact
  <2>8. d = ShiftDay(now, k, timezone)
    BY DEF NextWeekday, Today
  <2> HIDE DEF d, k
  <2>9. d = Today + k
    <3>1. k \in Int
      BY <2>7
    <3>2. ShiftDay(now, k, timezone) = YmdInTimezone(now, timezone) + k
      <4>1. timezone \in -12..14 /\ timezone <= 11
        BY <2>3
      <4> QED BY <2>3, <3>1, <4>1, ShiftDayExact
    <3> QED BY <2>6, <2>8, <3>1, <3>2 DEF Today
  <2>10. d \in Today + 1 .. Today + 7 /\ Weekday(d) = w
    BY <2>6, <2>7, <2>9
  <2> QED BY <2>2, <2>5, <2>10
<1> QED BY <1>1, ReadHolds, PTL

\* An hour of the clock with am or pm is its hour of the day, whatever words surround it.
THEOREM ClockRead == ConstantsOK /\ Spec => []ClockIsRead
<1>1. Read => ClockIsRead
  <2> SUFFICES ASSUME Read, NEW i \in Where(text, "number"), Numbered(text) = {i},
                      text[i].n \in 1..12, SuffixOf(text, i) \in {"am", "pm"}
               PROVE  parsed.time = Hm(OnTheClock(text[i].n, SuffixOf(text, i)), 0)
    BY DEF ClockIsRead
  <2>1. i \in Int /\ text[i].kind = "number"
    BY DEF Read, Where
  <2>2. Explicit(text) = {}
    <3>1. Explicit(text) \subseteq Numbered(text)
      BY DEF Explicit, Numbered, Where
    <3> QED BY <2>1, <3>1 DEF Explicit, Where
  <2>3. Min(Numbered(text)) = i /\ HourNumber(text[i]) = text[i].n
    BY <2>1, OneIsMin DEF HourNumber
  <2>4. parsed.time = Hm(HourOf(text[i].n, SuffixOf(text, i)), 0)
    BY <2>2, <2>3 DEF Read, ParseUserSlotReply, ExtractTime
  <2>5. HourOf(text[i].n, SuffixOf(text, i)) = OnTheClock(text[i].n, SuffixOf(text, i))
    <3>1. \A n \in 1..11 : n % 12 = n
      OBVIOUS
    <3>2. 12 % 12 = 0
      OBVIOUS
    <3>3. CASE SuffixOf(text, i) = "am"
      BY <3>1, <3>2, <3>3 DEF HourOf, OnTheClock
    <3>4. CASE SuffixOf(text, i) = "pm"
      BY <3>1, <3>2, <3>4 DEF HourOf, OnTheClock
    <3> QED BY <3>3, <3>4
  <2> QED BY <2>4, <2>5
<1> QED BY <1>1, ReadHolds, PTL

\* The only hour with minutes that stands on its own is the hour read.
THEOREM ExplicitRead == ConstantsOK /\ Spec => []ExplicitIsRead
<1>1. Read => ExplicitIsRead
  <2> SUFFICES ASSUME Read, NEW i \in Where(text, "hm"), Explicit(text) = {i}
               PROVE  parsed.time = Hm(text[i].n, text[i].m)
    BY DEF ExplicitIsRead
  <2>1. Min(Explicit(text)) = i
    BY OneIsMin DEF Read, Where
  <2> QED BY <2>1 DEF Read, ParseUserSlotReply, ExtractTime
<1> QED BY <1>1, ReadHolds, PTL

\* Where a word stands is a natural number, and the word one of Words.
LEMMA Standing ==
    ASSUME Read, NEW i \in DOMAIN text
    PROVE  /\ i \in Nat /\ text[i] \in Words
           /\ text[i].n \in Nat /\ text[i].m \in Nat /\ text[i].y \in Nat
           /\ text[i].kind = "month" => text[i].n \in 1..12
<1>1. i \in Nat /\ text[i] \in Words
  BY DEF Read
<1>2. \A w \in Words : /\ w \in [kind : STRING, n : Nat, m : Nat, y : Nat, suffix : STRING]
                       /\ w.kind = "month" => w.n \in 1..12
  BY DEF Read, ConstantsOK
<1> QED BY <1>1, <1>2

\* Today, tomorrow and the day after it are counted in the zone of the business, in any text and
\* at any instant, and one day late where noon in UTC is tomorrow.
THEOREM RelativeRead == ConstantsOK /\ Spec => []RelativeIsRead
<1>1. Read => RelativeIsRead
  <2> SUFFICES ASSUME Read PROVE RelativeIsRead
    OBVIOUS
  <2>1. Today \in Int /\ \A k \in Int : ShiftDay(now, k, timezone) = Today + k + Late
    <3>1. now \in Nat /\ timezone \in -12..14
      BY DEF Read
    <3>2. timezone <= 11 \/ timezone >= 12
      BY <3>1
    <3>3. Today \in Int
      BY <3>1 DEF Today, YmdInTimezone
    <3>4. CASE timezone <= 11
      <4>1. Late = 0 /\ \A k \in Int : ShiftDay(now, k, timezone) = Today + k
        <5>1. Late = 0
          BY <3>1, <3>4 DEF Late
        <5>2. ASSUME NEW k \in Int PROVE ShiftDay(now, k, timezone) = Today + k
          BY <3>1, <3>4, ShiftDayExact DEF Today
        <5> QED BY <5>1, <5>2
      <4> QED BY <3>3, <4>1
    <3>5. CASE timezone >= 12
      <4>1. Late = 1 /\ \A k \in Int : ShiftDay(now, k, timezone) = Today + k + 1
        BY <3>1, <3>5, ShiftDayExact DEF Today, Late
      <4> QED BY <3>3, <4>1
    <3> QED BY <3>2, <3>4, <3>5
  <2>2. Late \in Int
    BY DEF Late
  <2>3. parsed.date = ExtractDate(text, now, timezone)
    BY DEF Read, ParseUserSlotReply
  <2>4. /\ DayAfterTomorrow(text) => parsed.date = Counted(ShiftDay(now, 2, timezone))
        /\ ~DayAfterTomorrow(text) /\ Says(text, "manana")
             => parsed.date = Counted(ShiftDay(now, 1, timezone))
        /\ ~Says(text, "manana") /\ Says(text, "hoy")
             => parsed.date = Counted(ShiftDay(now, 0, timezone))
    <3>1. ASSUME DayAfterTomorrow(text) PROVE Says(text, "manana")
      BY <3>1 DEF DayAfterTomorrow, Says, Where
    <3>2. CASE DayAfterTomorrow(text)
      BY <2>3, <3>1, <3>2 DEF ExtractDate, Relative
    <3>3. CASE ~DayAfterTomorrow(text) /\ Says(text, "manana")
      BY <2>3, <3>1, <3>3 DEF ExtractDate, Relative
    <3>4. CASE ~DayAfterTomorrow(text) /\ ~Says(text, "manana") /\ Says(text, "hoy")
      BY <2>3, <3>1, <3>4 DEF ExtractDate, Relative
    <3> QED BY <3>1, <3>2, <3>3, <3>4
  <2>5. ShiftDay(now, 0, timezone) = Today + Late
    BY <2>1, <2>2
  <2> QED BY <2>1, <2>4, <2>5 DEF RelativeIsRead
<1> QED BY <1>1, ReadHolds, PTL

\* The hour read is one of the day, in any text, but for an afternoon counted twice.
THEOREM HourRead == ConstantsOK /\ Spec => []HourIsOfTheDay
<1>1. Read => HourIsOfTheDay
  <2> SUFFICES ASSUME Read PROVE HourIsOfTheDay
    OBVIOUS
  <2>1. parsed.time = ExtractTime(text)
    BY DEF Read, ParseUserSlotReply
  <2>2. Explicit(text) \subseteq Nat /\ Numbered(text) \subseteq Nat
    <3>1. DOMAIN text \subseteq Nat
      BY DEF Read
    <3> QED BY <3>1 DEF Explicit, Numbered, Where
  <2>3. CASE Explicit(text) # {}
    <3> DEFINE i == Min(Explicit(text))
    <3>1. i \in Explicit(text)
      BY <2>2, <2>3, LeastExists
    <3>2. parsed.time = Hm(text[i].n, text[i].m)
      BY <2>1, <2>3 DEF ExtractTime
    <3>3. text[i].n \in 0..23 /\ text[i].m \in 0..59
      BY <3>1 DEF Explicit
    <3> HIDE DEF i
    <3> QED BY <3>2, <3>3 DEF Hm, HourIsOfTheDay
  <2>4. CASE /\ Explicit(text) = {} /\ Numbered(text) # {}
             /\ HourNumber(text[Min(Numbered(text))]) <= 23
    <3> DEFINE i == Min(Numbered(text))
               n == HourNumber(text[i])
               s == SuffixOf(text, i)
    <3>1. i \in Numbered(text)
      BY <2>2, <2>4, LeastExists
    <3>2. n \in 0..23
      <4>1. n \in Nat
        BY <3>1, Standing DEF Numbered, HourNumber
      <4> HIDE DEF n
      <4>2. n <= 23
        BY <2>4 DEF n
      <4> QED BY <4>1, <4>2
    <3>3. parsed.time = Hm(HourOf(n, s), 0)
      BY <2>1, <2>4 DEF ExtractTime
    <3>4. s = "pm" => text[i].kind = "number" /\ n = text[i].n
      BY DEF SuffixOf, HourNumber
    <3>5. i \in Where(text, "number") \/ s # "pm"
      BY <3>1, <3>4 DEF Numbered, Where
    <3> HIDE DEF i, n, s
    <3>6. CASE s # "pm"
      <4>1. HourOf(n, s) \in 0..23
        <5>1. CASE s = "am" \/ s = "hs"
          <6>1. HourOf(n, s) = n \/ HourOf(n, s) = 0
            BY <5>1 DEF HourOf
          <6> QED BY <3>2, <6>1
        <5>2. CASE s = "" /\ n \in 1..8
          <6>1. HourOf(n, s) = n + 12
            BY <5>2 DEF HourOf, PM_HEURISTIC_THRESHOLD
          <6>2. \A k \in 1..8 : k + 12 \in 0..23
            OBVIOUS
          <6> QED BY <5>2, <6>1, <6>2
        <5>3. CASE s \notin {"am", "pm", "hs"} /\ ~(s = "" /\ n \in 1..8)
          BY <3>2, <5>3 DEF HourOf, PM_HEURISTIC_THRESHOLD
        <5> QED BY <3>6, <5>1, <5>2, <5>3
      <4> QED BY <3>3, <4>1 DEF Hm, HourIsOfTheDay
    <3>7. CASE s = "pm" /\ n <= 12
      <4>1. HourOf(n, s) \in 12..23
        BY <3>2, <3>7 DEF HourOf
      <4> QED BY <3>3, <4>1 DEF Hm, HourIsOfTheDay
    <3>8. CASE s = "pm" /\ n > 12
      <4>1. HourOf(n, s) = n + 12
        BY <3>2, <3>8 DEF HourOf
      <4>2. parsed.time.h = n + 12 /\ parsed.time.m = 0
        BY <3>3, <4>1 DEF Hm
      <4>3. SuffixOf(text, i) = "pm" /\ text[i].n = n
        BY <3>4, <3>8 DEF s
      <4>4. parsed.time.h \in 25..35 /\ n = parsed.time.h - 12
        BY <3>2, <3>8, <4>2
      <4> QED BY <3>5, <3>8, <4>2, <4>3, <4>4 DEF HourIsOfTheDay
    <3> QED BY <3>2, <3>6, <3>7, <3>8
  <2>5. CASE /\ Explicit(text) = {}
             /\ ~(Numbered(text) # {} /\ HourNumber(text[Min(Numbered(text))]) <= 23)
    BY <2>1, <2>5 DEF ExtractTime, HourIsOfTheDay
  <2> QED BY <2>3, <2>4, <2>5
<1> QED BY <1>1, ReadHolds, PTL

\* A day named by its number and month has both in range, in any text without an ISO date.
THEOREM NamedRead == ConstantsOK /\ Spec => []NamedIsInRange
<1>1. Read => NamedIsInRange
  <2> SUFFICES ASSUME Read, parsed.date.of = "named", ~Says(text, "iso")
               PROVE  parsed.date.day \in 1..31 /\ parsed.date.month \in 1..12
    BY DEF NamedIsInRange
  <2>1. parsed.date = ExtractDate(text, now, timezone)
    BY DEF Read, ParseUserSlotReply
  <2>2. /\ \A d : Counted(d).of = "count"
        /\ NoDate.of = "none"
        /\ \A y, m, d : Ymd(y, m, d).of = "named" /\ Ymd(y, m, d).day = d /\ Ymd(y, m, d).month = m
    BY DEF Counted, NoDate, Ymd
  <2>3. parsed.date = NamedDate(text)
    BY <2>1, <2>2 DEF ExtractDate
  <2>4. CASE Spanish(text) # {} /\ SpanishDate(text) # NoDate
    <3> DEFINE i == Min(Spanish(text))
               j == MonthAt(text, i)
    <3>1. i \in Spanish(text)
      <4>1. Spanish(text) \subseteq Nat
        BY DEF Spanish, Read
      <4> QED BY <2>4, <4>1, LeastExists
    <3>2. j \in DOMAIN text
      BY <3>1 DEF Spanish, MonthAt
    <3>3. parsed.date = SpanishDate(text)
      BY <2>3, <2>4 DEF NamedDate
    <3>4. /\ text[j].kind = "month" /\ LastNumber(text[i]) \in 1..31
          /\ SpanishDate(text) = Ymd(ParseYear(YearAfter(text, j)), text[j].n, LastNumber(text[i]))
      BY <2>4 DEF SpanishDate
    <3>5. text[j].n \in 1..12
      BY <3>2, <3>4, Standing
    <3> HIDE DEF i, j
    <3> QED BY <2>2, <3>3, <3>4, <3>5
  <2>5. CASE Spanish(text) = {} \/ SpanishDate(text) = NoDate
    <3>1. NamedDate(text) \in {NoDate, SlashDate(First(text, "slash"))}
      BY <2>5 DEF NamedDate
    <3>2. parsed.date = SlashDate(First(text, "slash"))
      BY <2>2, <2>3, <3>1
    <3> DEFINE w == First(text, "slash")
    <3>3. w.n \in 1..31 /\ w.m \in 1..12 /\ parsed.date = Ymd(ParseYear(w.y), w.m, w.n)
      BY <2>2, <3>2 DEF SlashDate
    <3> HIDE DEF w
    <3> QED BY <2>2, <3>3
  <2> QED BY <2>4, <2>5
<1> QED BY <1>1, ReadHolds, PTL

=============================================================================
