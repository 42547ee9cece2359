-------------------------- MODULE ScreenRulesProofs --------------------------
(***************************************************************************)
(* The rules' verdict and its warnings, proved for days, weeks, windows,   *)
(* limits, thresholds and grace times of any length: what a parent set,    *)
(* minute by minute, is what the compiled rules and the walk through them  *)
(* find, and nobody is stopped by it without a word.                       *)
(***************************************************************************)
EXTENDS ScreenRules, WellFoundedInduction, TLAPS

(***************************************************************************)
(* Arithmetic of a clock.                                                  *)
(***************************************************************************)

LEMMA Division ==
  ASSUME NEW n \in Int, NEW k \in Nat \ {0}
  PROVE  /\ n \div k \in Int /\ n % k \in 0..k - 1
         /\ n = k * (n \div k) + (n % k)
<1>1. n \div k \in Int
  OBVIOUS
<1>2. n % k \in 0..k - 1
  OBVIOUS
<1>3. n = k * (n \div k) + (n % k)
  OBVIOUS
<1> QED
  BY <1>1, <1>2, <1>3

LEMMA DivisionUnique ==
  ASSUME NEW n \in Int, NEW k \in Nat \ {0}, NEW q \in Int, NEW r \in 0..k - 1, n = k * q + r
  PROVE  n \div k = q /\ n % k = r
<1>1. n \div k = q
  OBVIOUS
<1>2. n % k = r
  OBVIOUS
<1> QED
  BY <1>1, <1>2

LEMMA NatDivision ==
  ASSUME NEW n \in Nat, NEW k \in Nat \ {0}
  PROVE  n \div k \in Nat
OBVIOUS

LEMMA Times ==
  ASSUME NEW a \in Int, NEW b \in Int, NEW c \in Int
  PROVE  /\ a * b \in Int /\ a * b = b * a
         /\ a * (b + c) = a * b + a * c /\ (a + b) * c = a * c + b * c
<1>1. a * b \in Int
  OBVIOUS
<1>2. a * b = b * a
  OBVIOUS
<1>3. a * (b + c) = a * b + a * c
  OBVIOUS
<1>4. (a + b) * c = a * c + b * c
  OBVIOUS
<1> QED
  BY <1>1, <1>2, <1>3, <1>4

LEMMA DayType == Day \in Nat \ {0} /\ Day = 2 * DayMinutes /\ DayMinutes \in Nat \ {0}
BY RulesAssumption DEF Day, Minute

\* A moment is its date, its minute of the day and its half of the minute.
LEMMA MomentParts ==
  ASSUME NEW t \in Nat
  PROVE  /\ DateOf(t) \in Nat /\ MinuteOf(t) \in 0..DayMinutes - 1 /\ t % 2 \in {0, 1}
         /\ t \div 2 \in Nat /\ t = 2 * (t \div 2) + (t % 2)
         /\ t = Day * DateOf(t) + 2 * MinuteOf(t) + (t % 2)
<1> DEFINE q == t \div 2
           h == t % 2
           c == q \div DayMinutes
           m == q % DayMinutes
<1>1. q \in Nat /\ h \in 0..1 /\ t = 2 * q + h
  <2>1. 2 \in Nat \ {0} /\ t \in Int
    OBVIOUS
  <2>2. t \div 2 \in Nat
    BY <2>1, NatDivision
  <2> QED
    BY <2>1, <2>2, Division
<1>2. c \in Nat /\ m \in 0..DayMinutes - 1 /\ q = DayMinutes * c + m
  <2>1. q \in Int
    BY <1>1
  <2>2. c \in Nat
    BY <1>1, DayType, NatDivision
  <2> QED
    BY <2>1, <2>2, DayType, Division
<1>3. m = MinuteOf(t)
  BY DEF MinuteOf, Minute
<1> HIDE DEF q, h, c, m
<1>4. DayMinutes * c \in Int /\ Day * c = 2 * (DayMinutes * c)
  BY <1>2, DayType
<1>5. t = Day * c + (2 * m + h)
  BY <1>1, <1>2, <1>4, DayType
<1>6. 2 * m + h \in 0..Day - 1
  BY <1>1, <1>2, DayType
<1>7. t \div Day = c
  BY <1>2, <1>5, <1>6, DayType, DivisionUnique
<1>8. DateOf(t) = c
  BY <1>7 DEF DateOf
<1>9. t \div 2 = q /\ t % 2 = h
  BY DEF q, h
<1>10. t = Day * DateOf(t) + 2 * MinuteOf(t) + (t % 2)
  BY <1>1, <1>2, <1>3, <1>4, <1>5, <1>8, <1>9, DayType
<1>11. t % 2 \in {0, 1} /\ t = 2 * (t \div 2) + (t % 2) /\ t \div 2 \in Nat
  BY <1>1, <1>9
<1> QED
  BY <1>2, <1>3, <1>8, <1>10, <1>11

\* Two moments of one minute have one date and one minute of the day.
LEMMA OneMinute ==
  ASSUME NEW t \in Nat, NEW x \in Nat, t \div 2 = x \div 2
  PROVE  DateOf(x) = DateOf(t) /\ MinuteOf(x) = MinuteOf(t)
<1>1. MinuteOf(x) = MinuteOf(t)
  BY DEF MinuteOf, Minute
<1> DEFINE c == DateOf(t)
           m == MinuteOf(t)
           h == x % 2
<1>2. c \in Nat /\ m \in 0..DayMinutes - 1 /\ h \in {0, 1}
  BY MomentParts
<1>3. x = Day * c + 2 * m + h
  <2>1. t = Day * c + 2 * m + (t % 2) /\ t = 2 * (t \div 2) + (t % 2)
    BY MomentParts
  <2>2. x = 2 * (x \div 2) + h
    BY MomentParts
  <2>3. t % 2 \in {0, 1} /\ t \div 2 \in Nat
    BY MomentParts
  <2> HIDE DEF c, m, h
  <2>4. Day * c \in Int
    BY <1>2, DayType
  <2> QED
    BY <2>1, <2>2, <2>3, <2>4, <1>2
<1> HIDE DEF c, m, h
<1>4. 2 * m + h \in 0..Day - 1
  BY <1>2, DayType
<1>5. x = Day * c + (2 * m + h)
  BY <1>2, <1>3, DayType
<1>6. DateOf(x) = c
  BY <1>2, <1>4, <1>5, DayType, DivisionUnique DEF DateOf
<1> QED
  BY <1>1, <1>6 DEF c

LEMMA NextMinuteIs ==
  ASSUME NEW t \in Nat
  PROVE  /\ NextMinute(t) \in Nat /\ NextMinute(t) > t
         /\ NextMinute(t) = t - (t % 2) + 2
         /\ \A x \in t..NextMinute(t) - 1 : x \in Nat /\ x \div 2 = t \div 2
<1> DEFINE q == t \div 2
           h == t % 2
<1>1. q \in Nat /\ h \in {0, 1} /\ t = 2 * q + h
  BY MomentParts
<1>2. NextMinute(t) = 2 * q + 2
  BY <1>1 DEF NextMinute, Minute
<1> HIDE DEF q, h
<1>3. ASSUME NEW x \in t..2 * q + 1 PROVE x \in Nat /\ x \div 2 = q
  <2>1. x \in Nat /\ x = 2 * q + (x - 2 * q) /\ x - 2 * q \in 0..1
    BY <1>1
  <2> QED
    BY <2>1, <1>1, DivisionUnique
<1>4. NextMinute(t) = t - h + 2
  BY <1>1, <1>2
<1>5. \A x \in t..NextMinute(t) - 1 : x \in Nat /\ x \div 2 = q
  BY <1>1, <1>2, <1>3
<1>6. NextMinute(t) \in Nat /\ NextMinute(t) > t
  BY <1>1, <1>2
<1> QED
  BY <1>4, <1>5, <1>6 DEF q, h

\* A later moment has no earlier date; the next date begins at midnight.
LEMMA DateGrows ==
  ASSUME NEW t \in Nat, NEW x \in Nat, t <= x
  PROVE  DateOf(t) <= DateOf(x)
<1> DEFINE c == DateOf(t)
           e == DateOf(x)
           a == 2 * MinuteOf(t) + (t % 2)
           b == 2 * MinuteOf(x) + (x % 2)
<1> DEFINE m == MinuteOf(t)
           h == t % 2
           n == MinuteOf(x)
           i == x % 2
<1>1. /\ c \in Nat /\ m \in 0..DayMinutes - 1 /\ h \in {0, 1} /\ t = Day * c + 2 * m + h
      /\ e \in Nat /\ n \in 0..DayMinutes - 1 /\ i \in {0, 1} /\ x = Day * e + 2 * n + i
  BY MomentParts
<1> HIDE DEF c, e, m, h, n, i
<1>2. /\ a \in 0..Day - 1 /\ b \in 0..Day - 1
      /\ t = Day * c + a /\ x = Day * e + b
  BY <1>1, DayType DEF m, h, n, i
<1> HIDE DEF a, b
<1>3. CASE e < c
  <2>1. Day * e + Day <= Day * c
    <3>1. Day * c = Day * e + Day * (c - e)
      BY <1>1, DayType
    <3>2. Day * (c - e) >= Day
      BY <1>1, <1>3, DayType
    <3>3. Day * e \in Int /\ Day * c \in Int /\ Day * (c - e) \in Int
      BY <1>1, DayType
    <3> QED BY <3>1, <3>2, <3>3, DayType
  <2>2. Day * e \in Int /\ Day * c \in Int
    BY <1>1, DayType
  <2> QED BY <1>1, <1>2, <2>1, <2>2, DayType
<1> QED
  BY <1>1, <1>3 DEF c, e

LEMMA Midnight ==
  ASSUME NEW t \in Nat, DateOf(NextMinute(t)) # DateOf(t)
  PROVE  NextMinute(t) = Day * DateOf(NextMinute(t))
<1> DEFINE c == DateOf(t)
           m == MinuteOf(t)
           n == NextMinute(t)
<1>1. /\ c \in Nat /\ m \in 0..DayMinutes - 1 /\ Day * c \in Int
      /\ n \in Nat /\ n = Day * c + 2 * m + 2
  <2>1. /\ c \in Nat /\ m \in 0..DayMinutes - 1 /\ t % 2 \in {0, 1}
        /\ t = Day * c + 2 * m + (t % 2)
    BY MomentParts
  <2>2. n \in Nat /\ n = t - (t % 2) + 2
    BY NextMinuteIs
  <2>3. Day * c \in Int
    BY <2>1, DayType
  <2> HIDE DEF c, m, n
  <2> QED BY <2>1, <2>2, <2>3
<1>2. n \div Day # c
  BY DEF DateOf
<1> HIDE DEF c, m, n
<1>3. m = DayMinutes - 1
  <2> SUFFICES ASSUME m # DayMinutes - 1 PROVE FALSE
    OBVIOUS
  <2>1. 2 * m + 2 \in 0..Day - 1
    BY <1>1, DayType
  <2>2. n = Day * c + (2 * m + 2)
    BY <1>1
  <2>3. n \div Day = c
    BY <1>1, <2>1, <2>2, DayType, DivisionUnique
  <2> QED BY <1>2, <2>3
<1>4. n = Day * (c + 1)
  <2>1. Day * (c + 1) = Day * c + Day
    BY <1>1, DayType
  <2> QED BY <1>1, <1>3, <2>1, DayType
<1>5. n \div Day = c + 1
  <2>1. n = Day * (c + 1) + 0
    BY <1>1, <1>4
  <2>2. 0 \in 0..Day - 1 /\ c + 1 \in Int /\ n \in Int
    BY <1>1, DayType
  <2> QED BY <2>1, <2>2, DayType, DivisionUnique
<1> QED
  BY <1>4, <1>5 DEF n, DateOf

(***************************************************************************)
(* The compiled rules mean what a parent set.                              *)
(***************************************************************************)

End(w) == IF w.end = 0 THEN DayMinutes ELSE w.end
InSpans(spans, m) == \E s \in spans : s[1] <= m /\ m < s[2]

LEMMA WindowType ==
  ASSUME NEW w \in Window
  PROVE  /\ w.start \in 0..DayMinutes - 1 /\ w.end \in 0..DayMinutes - 1
         /\ End(w) \in 1..DayMinutes /\ w.days \subseteq 0..WeekDays - 1
BY DayType DEF Window, End

LEMMA CoversToday ==
  ASSUME NEW w \in Window, NEW t \in Nat
  PROVE  Covers(w, DateOf(t), t)
            <=> w.start <= MinuteOf(t) /\ (End(w) < w.start \/ MinuteOf(t) < End(w))
<1> DEFINE c == DateOf(t)
           m == MinuteOf(t)
           h == t % 2
           s == w.start
           z == IF w.end = 0 THEN DayMinutes ELSE IF w.end < w.start THEN DayMinutes + w.end ELSE w.end
<1>1. c \in Nat /\ m \in 0..DayMinutes - 1 /\ h \in {0, 1} /\ t = Day * c + 2 * m + h
  BY MomentParts
<1>2. Day * c \in Int /\ c * Day = Day * c
  <2> HIDE DEF c
  <2> QED BY <1>1, DayType
<1>3. s \in 0..DayMinutes - 1 /\ z \in Nat
  BY WindowType, DayType
<1>4. Covers(w, DateOf(t), t) <=> c * Day + s * 2 <= t /\ t < c * Day + z * 2
  BY DEF Covers, Minute
<1>5. m < z <=> End(w) < w.start \/ m < End(w)
  BY <1>1, WindowType, DayType DEF End
<1> HIDE DEF c, m, h, s, z
<1>6. c * Day + s * 2 <= t /\ t < c * Day + z * 2 <=> s <= m /\ m < z
  BY <1>1, <1>2, <1>3, DayType
<1> QED
  BY <1>4, <1>5, <1>6 DEF s, m

LEMMA CoversSinceYesterday ==
  ASSUME NEW w \in Window, NEW t \in Nat
  PROVE  Covers(w, DateOf(t) - 1, t) <=> End(w) < w.start /\ MinuteOf(t) < End(w)
<1> DEFINE c == DateOf(t)
           m == MinuteOf(t)
           h == t % 2
           s == w.start
           z == IF w.end = 0 THEN DayMinutes ELSE IF w.end < w.start THEN DayMinutes + w.end ELSE w.end
<1>1. c \in Nat /\ m \in 0..DayMinutes - 1 /\ h \in {0, 1} /\ t = Day * c + 2 * m + h
  BY MomentParts
<1>2. Day * c \in Int /\ (c - 1) * Day = Day * c - Day
  <2> HIDE DEF c
  <2> QED BY <1>1, DayType
<1>3. s \in 0..DayMinutes - 1 /\ z \in Nat
  BY WindowType, DayType
<1>4. Covers(w, DateOf(t) - 1, t) <=> (c - 1) * Day + s * 2 <= t /\ t < (c - 1) * Day + z * 2
  BY DEF Covers, Minute
<1>5. m + DayMinutes < z <=> End(w) < w.start /\ m < End(w)
  BY <1>1, WindowType, DayType DEF End
<1> HIDE DEF c, m, h, s, z
<1>6. (c - 1) * Day + s * 2 <= t /\ t < (c - 1) * Day + z * 2 <=> m + DayMinutes < z
  BY <1>1, <1>2, <1>3, DayType
<1> QED
  BY <1>4, <1>5, <1>6 DEF m

LEMMA SpanIs ==
  ASSUME NEW w \in Window
  PROVE  /\ Real(w) <=> w.start # End(w)
         /\ Span(w) = IF Real(w) THEN {<<w.start, End(w)>>} ELSE {}
<1>1. Real(w) <=> w.start # End(w)
  BY WindowType, DayType DEF Real, End
<1> QED
  BY <1>1 DEF Span, End

\* Some hours of the night, or the other way round.
LEMMA BedtimeIs ==
  ASSUME NEW p \in Policies, NEW t \in Nat
  PROVE  InSpans(Bedtime(p), MinuteOf(t)) <=> Asleep(p, t)
<1> DEFINE m == MinuteOf(t)
           Cut(s) == IF s = <<0, DayMinutes>> THEN {}
                     ELSE IF s[1] < s[2] THEN {s} ELSE {<<s[1], DayMinutes>>, <<0, s[2]>>}
           Night(b) == Real(b) /\ InSpans(Cut(<<b.start, End(b)>>), m)
<1>1. p.bedtime \subseteq Window /\ m \in 0..DayMinutes - 1 /\ DateOf(t) \in Nat
  BY RulesAssumption, MomentParts
<1>2. InSpans(Bedtime(p), m) <=> \E b \in p.bedtime : Night(b)
  <2>1. ASSUME NEW b \in p.bedtime, Night(b) PROVE InSpans(Bedtime(p), m)
    <3>1. <<b.start, End(b)>> \in Span(b)
      BY <1>1, <2>1, SpanIs
    <3>2. Cut(<<b.start, End(b)>>) \subseteq Bedtime(p)
      BY <3>1 DEF Bedtime
    <3> QED BY <2>1, <3>2 DEF InSpans
  <2>2. ASSUME InSpans(Bedtime(p), m) PROVE \E b \in p.bedtime : Night(b)
    <3>1. PICK x \in Bedtime(p) : x[1] <= m /\ m < x[2]
      BY <2>2 DEF InSpans
    <3>2. PICK b \in p.bedtime : \E s \in Span(b) : x \in Cut(s)
      BY <3>1 DEF Bedtime
    <3>3. Real(b) /\ x \in Cut(<<b.start, End(b)>>)
      BY <1>1, <3>2, SpanIs
    <3>4. InSpans(Cut(<<b.start, End(b)>>), m)
      BY <3>1, <3>3 DEF InSpans
    <3> QED BY <3>3, <3>4
  <2> QED BY <2>1, <2>2
<1>3. ASSUME NEW b \in p.bedtime
      PROVE  Night(b) <=> /\ b.start # b.end
                          /\ Covers(b, DateOf(t), t) \/ Covers(b, DateOf(t) - 1, t)
  <2>1. b \in Window
    BY <1>1
  <2>2. /\ Covers(b, DateOf(t), t) <=> b.start <= m /\ (End(b) < b.start \/ m < End(b))
        /\ Covers(b, DateOf(t) - 1, t) <=> End(b) < b.start /\ m < End(b)
    BY <2>1, CoversToday, CoversSinceYesterday
  <2>3. /\ b.start \in 0..DayMinutes - 1 /\ b.end \in 0..DayMinutes - 1
        /\ End(b) = IF b.end = 0 THEN DayMinutes ELSE b.end
    BY <2>1, WindowType DEF End
  <2>4. Real(b) <=> b.start # End(b)
    BY <2>1, SpanIs
  <2>5. <<b.start, End(b)>> = <<0, DayMinutes>> <=> b.start = 0 /\ End(b) = DayMinutes
    OBVIOUS
  <2>6. InSpans(Cut(<<b.start, End(b)>>), m) <=>
           /\ ~ (b.start = 0 /\ End(b) = DayMinutes)
           /\ IF b.start < End(b) THEN b.start <= m /\ m < End(b)
              ELSE b.start <= m \/ m < End(b)
    <3> DEFINE a == b.start
               e == End(b)
               x == <<a, e>>
    <3>1. x[1] = a /\ x[2] = e /\ <<a, DayMinutes>>[1] = a /\ <<a, DayMinutes>>[2] = DayMinutes
          /\ <<0, e>>[1] = 0 /\ <<0, e>>[2] = e
      OBVIOUS
    <3>2. CASE x = <<0, DayMinutes>>
      BY <2>5, <3>2 DEF InSpans
    <3>3. CASE x # <<0, DayMinutes>> /\ a < e
      <4>1. Cut(x) = {x}
        BY <3>1, <3>3
      <4> QED BY <2>5, <3>1, <3>3, <4>1 DEF InSpans
    <3>4. CASE x # <<0, DayMinutes>> /\ ~ (a < e)
      <4>1. Cut(x) = {<<a, DayMinutes>>, <<0, e>>}
        BY <3>1, <3>4
      <4> HIDE DEF Cut
      <4>2. InSpans(Cut(x), m) <=> (a <= m /\ m < DayMinutes) \/ (0 <= m /\ m < e)
        BY <3>1, <4>1 DEF InSpans
      <4>3. m \in Int /\ 0 <= m /\ m < DayMinutes
        BY <1>1, DayType
      <4> HIDE DEF m
      <4> QED BY <2>5, <3>4, <4>2, <4>3
    <3> QED BY <3>2, <3>3, <3>4
  <2> QED BY <1>1, <2>2, <2>3, <2>4, <2>6, DayType
<1>4. Asleep(p, t) <=> \E b \in p.bedtime : /\ b.start # b.end
                                            /\ Covers(b, DateOf(t), t) \/ Covers(b, DateOf(t) - 1, t)
  <2>1. \A k \in DateOf(t) - 1..DateOf(t) : k = DateOf(t) - 1 \/ k = DateOf(t)
    BY <1>1
  <2>2. DateOf(t) - 1 \in DateOf(t) - 1..DateOf(t) /\ DateOf(t) \in DateOf(t) - 1..DateOf(t)
    BY <1>1
  <2> QED BY <2>1, <2>2 DEF Asleep
<1> QED
  BY <1>2, <1>3, <1>4

\* The weekday before.
LEMMA DayBefore ==
  ASSUME NEW d \in Nat, NEW n \in Nat \ {0}
  PROVE  ((d % n) - 1) % n = (d - 1) % n
<1> DEFINE q == d \div n
           r == d % n
<1>1. q \in Int /\ r \in 0..n - 1 /\ d = n * q + r
  BY Division
<1>2. n * (q - 1) = n * q - n /\ n * 0 = 0 /\ n * (-1) = -n /\ n * q \in Int
  <2> HIDE DEF q
  <2>1. n * (q - 1) = n * q - n
    BY <1>1
  <2>2. n * 0 = 0 /\ n * (-1) = -n /\ n * q \in Int
    BY <1>1
  <2> QED BY <2>1, <2>2
<1> HIDE DEF q, r
<1>3. CASE r = 0
  <2>1. d - 1 = n * (q - 1) + (n - 1) /\ r - 1 = n * (-1) + (n - 1)
    BY <1>1, <1>2, <1>3
  <2>2. n - 1 \in 0..n - 1 /\ q - 1 \in Int /\ -1 \in Int /\ d - 1 \in Int /\ r - 1 \in Int
    BY <1>1
  <2>3. (d - 1) % n = n - 1
    BY <2>1, <2>2, DivisionUnique
  <2>4. (r - 1) % n = n - 1
    BY <2>1, <2>2, DivisionUnique
  <2> QED BY <2>3, <2>4 DEF r
<1>4. CASE r # 0
  <2>1. d - 1 = n * q + (r - 1) /\ r - 1 = n * 0 + (r - 1)
    BY <1>1, <1>2
  <2>2. r - 1 \in 0..n - 1 /\ 0 \in Int /\ d - 1 \in Int /\ r - 1 \in Int
    BY <1>1, <1>4
  <2>3. (d - 1) % n = r - 1
    BY <1>1, <2>1, <2>2, DivisionUnique
  <2>4. (r - 1) % n = r - 1
    BY <2>1, <2>2, DivisionUnique
  <2> QED BY <2>3, <2>4 DEF r
<1> QED
  BY <1>3, <1>4

LEMMA Today ==
  ASSUME NEW t \in Nat, NEW w \in Window
  PROVE  /\ Weekday(t) \in w.days <=> OnDay(w, DateOf(t))
         /\ (Weekday(t) - 1) % WeekDays \in w.days <=> OnDay(w, DateOf(t) - 1)
<1>1. DateOf(t) \in Nat /\ WeekDays \in Nat \ {0}
  BY MomentParts, RulesAssumption
<1>2. (Weekday(t) - 1) % WeekDays = (DateOf(t) - 1) % WeekDays
  BY <1>1, DayBefore DEF Weekday
<1> QED
  BY <1>2 DEF Weekday, OnDay

LEMMA RestrictedIs ==
  ASSUME NEW p \in Policies, NEW t \in Nat
  PROVE  Restricted(p, Weekday(t)) <=> \E w \in p.schedule : Real(w) /\ OnDay(w, DateOf(t))
<1>1. \A w \in p.schedule : w \in Window
  BY RulesAssumption
<1>2. \A w \in p.schedule : Span(w) # {} <=> Real(w)
  BY <1>1, SpanIs
<1> QED
  BY <1>1, <1>2, Today DEF Restricted

\* Window w covers t, opened today or yesterday.
ByDay(w, t) ==
  /\ Real(w)
  /\ \/ OnDay(w, DateOf(t)) /\ w.start <= MinuteOf(t) /\ (End(w) < w.start \/ MinuteOf(t) < End(w))
     \/ OnDay(w, DateOf(t) - 1) /\ End(w) < w.start /\ MinuteOf(t) < End(w)

LEMMA InsideIs ==
  ASSUME NEW ws, ws \subseteq Window, NEW t \in Nat
  PROVE  Inside(ws, t) <=> \E w \in ws : ByDay(w, t)
<1>1. DateOf(t) \in Nat
  BY MomentParts
<1>2. \A k \in DateOf(t) - 1..DateOf(t) : k = DateOf(t) - 1 \/ k = DateOf(t)
  BY <1>1
<1>3. DateOf(t) - 1 \in DateOf(t) - 1..DateOf(t) /\ DateOf(t) \in DateOf(t) - 1..DateOf(t)
  BY <1>1
<1>4. Inside(ws, t) <=> \E w \in ws : /\ Real(w)
                                      /\ \/ OnDay(w, DateOf(t)) /\ Covers(w, DateOf(t), t)
                                         \/ OnDay(w, DateOf(t) - 1) /\ Covers(w, DateOf(t) - 1, t)
  BY <1>2, <1>3 DEF Inside
<1> QED
  BY <1>4, CoversToday, CoversSinceYesterday DEF ByDay

LEMMA AllowedIs ==
  ASSUME NEW p \in Policies, NEW t \in Nat
  PROVE  InSpans(Allowed(p, Weekday(t)), MinuteOf(t)) <=> Inside(p.schedule, t)
<1> DEFINE m == MinuteOf(t)
           d == Weekday(t)
           Open(w) == {<<s[1], IF s[1] < s[2] THEN s[2] ELSE DayMinutes>> :
                         s \in {x \in Span(w) : d \in w.days}}
           Tail(w) == {<<0, s[2]>> : s \in {x \in Span(w) : (d - 1) % WeekDays \in w.days /\ x[2] < x[1]}}
<1>1. p.schedule \subseteq Window /\ m \in 0..DayMinutes - 1 /\ DateOf(t) \in Nat
  BY RulesAssumption, MomentParts
<1>2. \A x : x \in Allowed(p, d) <=> \E w \in p.schedule : x \in Open(w) \/ x \in Tail(w)
  BY DEF Allowed
<1>3. ASSUME NEW w \in p.schedule
      PROVE  (\E x : (x \in Open(w) \/ x \in Tail(w)) /\ x[1] <= m /\ m < x[2]) <=> ByDay(w, t)
  <2> DEFINE a == w.start
             e == End(w)
             o == <<a, IF a < e THEN e ELSE DayMinutes>>
             l == <<0, e>>
  <2>1. w \in Window
    BY <1>1
  <2>2. a \in 0..DayMinutes - 1 /\ e \in 1..DayMinutes
    BY <2>1, WindowType
  <2>3. /\ Real(w) <=> a # e
        /\ Span(w) = IF Real(w) THEN {<<a, e>>} ELSE {}
    BY <2>1, SpanIs
  <2>4. /\ d \in w.days <=> OnDay(w, DateOf(t))
        /\ (d - 1) % WeekDays \in w.days <=> OnDay(w, DateOf(t) - 1)
    BY <2>1, Today
  <2>5. \A x : x \in Open(w) <=> Real(w) /\ OnDay(w, DateOf(t)) /\ x = o
    <3>1. <<a, e>>[1] = a /\ <<a, e>>[2] = e
      OBVIOUS
    <3>2. \A s \in Span(w) : s = <<a, e>>
      BY <2>3
    <3>3. Real(w) => <<a, e>> \in Span(w)
      BY <2>3
    <3> HIDE DEF d
    <3> QED BY <2>3, <2>4, <3>1, <3>2, <3>3
  <2>6. \A x : x \in Tail(w) <=> Real(w) /\ OnDay(w, DateOf(t) - 1) /\ e < a /\ x = l
    <3>1. <<a, e>>[1] = a /\ <<a, e>>[2] = e
      OBVIOUS
    <3>2. \A s \in Span(w) : s = <<a, e>>
      BY <2>3
    <3>3. Real(w) => <<a, e>> \in Span(w)
      BY <2>3
    <3> HIDE DEF d
    <3> QED BY <2>3, <2>4, <3>1, <3>2, <3>3
  <2>7. o[1] = a /\ o[2] = (IF a < e THEN e ELSE DayMinutes) /\ l[1] = 0 /\ l[2] = e
    OBVIOUS
  <2>8. ByDay(w, t) <=> Real(w) /\ (\/ OnDay(w, DateOf(t)) /\ a <= m /\ (e < a \/ m < e)
                                    \/ OnDay(w, DateOf(t) - 1) /\ e < a /\ m < e)
    BY DEF ByDay
  <2>9. m \in Int /\ 0 <= m /\ m < DayMinutes
    BY <1>1, DayType
  <2> HIDE DEF Open, Tail, o, l, a, e, m
  <2>10. Real(w) => (o[1] <= m /\ m < o[2] <=> a <= m /\ (e < a \/ m < e))
    BY <2>2, <2>3, <2>7, <2>9, DayType
  <2>11. l[1] <= m /\ m < l[2] <=> m < e
    BY <2>2, <2>7, <2>9
  <2> QED BY <2>5, <2>6, <2>8, <2>10, <2>11
<1>4. InSpans(Allowed(p, d), m) <=> \E x : x \in Allowed(p, d) /\ x[1] <= m /\ m < x[2]
  BY DEF InSpans
<1> HIDE DEF Open, Tail, d, m
<1>5. InSpans(Allowed(p, d), m) <=> \E w \in p.schedule : ByDay(w, t)
  BY <1>2, <1>3, <1>4
<1> QED
  BY <1>1, <1>5, InsideIs DEF d, m

LEMMA ClockReasonIs ==
  ASSUME NEW p \in Policies, NEW t \in Nat
  PROVE  ClockReason(p, t) = IF ~Barred(p, t) THEN "none"
                             ELSE IF Asleep(p, t) THEN "bedtime" ELSE "outside_hours"
<1>1. ClockReason(p, t) =
        IF ~p.enabled THEN "none"
        ELSE IF InSpans(Bedtime(p), MinuteOf(t)) THEN "bedtime"
        ELSE IF Restricted(p, Weekday(t)) /\ ~InSpans(Allowed(p, Weekday(t)), MinuteOf(t))
        THEN "outside_hours" ELSE "none"
  BY DEF ClockReason, InSpans
<1> QED
  BY <1>1, BedtimeIs, RestrictedIs, AllowedIs DEF Barred, OffHours

\* Focus hours are read like allowed hours.
LEMMA FocusIs ==
  ASSUME NEW w \in Window, NEW t \in Nat
  PROVE  FocusBlocking({w}, t) <=> (Real(w) /\ w.days # {} => Inside({w}, t))
<1> DEFINE m == MinuteOf(t)
           d == Weekday(t)
           spans == UNION {Span(v) : v \in {h \in {w} : h.days # {}}}
           days == UNION {v.days : v \in {w}}
           a == w.start
           e == End(w)
<1>1. FocusBlocking({w}, t) <=>
        \/ spans = {}
        \/ \E s \in spans :
             IF s[1] < s[2] THEN d % WeekDays \in days /\ s[1] <= m /\ m < s[2]
             ELSE \/ d % WeekDays \in days /\ s[1] <= m
                  \/ (d - 1) % WeekDays \in days /\ m < s[2]
  BY DEF FocusBlocking
<1>2. days = w.days
  OBVIOUS
<1>3. Span(w) = IF Real(w) THEN {<<a, e>>} ELSE {}
  BY SpanIs
<1>4. spans = IF Real(w) /\ w.days # {} THEN {<<a, e>>} ELSE {}
  BY <1>3
<1>5. DateOf(t) \in Nat /\ WeekDays \in Nat \ {0} /\ m \in 0..DayMinutes - 1
  BY MomentParts, RulesAssumption
<1>6. d \in 0..WeekDays - 1
  <2>1. DateOf(t) \in Int
    BY <1>5
  <2> QED BY <1>5, <2>1, Division DEF Weekday
<1>7. d % WeekDays = d
  <2>1. d = WeekDays * 0 + d
    <3> HIDE DEF d
    <3> QED BY <1>5, <1>6
  <2> HIDE DEF d
  <2> QED BY <1>5, <1>6, <2>1, DivisionUnique
<1>8. /\ d \in w.days <=> OnDay(w, DateOf(t))
      /\ (d - 1) % WeekDays \in w.days <=> OnDay(w, DateOf(t) - 1)
  BY Today
<1>9. Inside({w}, t) <=> ByDay(w, t)
  BY InsideIs
<1>10. <<a, e>>[1] = a /\ <<a, e>>[2] = e
  OBVIOUS
<1>11. a \in 0..DayMinutes - 1 /\ e \in 1..DayMinutes /\ (Real(w) <=> a # e)
  BY WindowType, SpanIs
<1>12. m \in Int /\ m < DayMinutes /\ 0 <= m
  BY <1>5, DayType
<1>13. ByDay(w, t) <=> Real(w) /\ (\/ OnDay(w, DateOf(t)) /\ a <= m /\ (e < a \/ m < e)
                                   \/ OnDay(w, DateOf(t) - 1) /\ e < a /\ m < e)
  BY DEF ByDay
<1> HIDE DEF m, d, spans, days, a, e
<1>14. CASE ~ (Real(w) /\ w.days # {})
  BY <1>1, <1>4, <1>14
<1>15. CASE Real(w) /\ w.days # {}
  <2>1. spans = {<<a, e>>}
    BY <1>4, <1>15
  <2>2. FocusBlocking({w}, t) <=>
          IF a < e THEN d \in w.days /\ a <= m /\ m < e
          ELSE \/ d \in w.days /\ a <= m
               \/ (d - 1) % WeekDays \in w.days /\ m < e
    BY <1>1, <1>2, <1>7, <1>10, <2>1
  <2>3. FocusBlocking({w}, t) <=>
          IF a < e THEN OnDay(w, DateOf(t)) /\ a <= m /\ m < e
          ELSE \/ OnDay(w, DateOf(t)) /\ a <= m
               \/ OnDay(w, DateOf(t) - 1) /\ m < e
    BY <1>8, <2>2
  <2>4. ByDay(w, t) <=> (\/ OnDay(w, DateOf(t)) /\ a <= m /\ (e < a \/ m < e)
                         \/ OnDay(w, DateOf(t) - 1) /\ e < a /\ m < e)
    BY <1>13, <1>15
  <2>5. FocusBlocking({w}, t) <=> ByDay(w, t)
    BY <1>11, <1>12, <1>15, <2>3, <2>4, DayType
  <2> QED BY <1>9, <1>15, <2>5
<1> QED
  BY <1>14, <1>15

\* A clock's verdict holds for the whole minute.
LEMMA SameMinute ==
  ASSUME NEW p \in Policies, NEW t \in Nat, NEW x \in Nat, t \div 2 = x \div 2
  PROVE  /\ Barred(p, x) <=> Barred(p, t)
         /\ Asleep(p, x) <=> Asleep(p, t)
         /\ DateOf(x) = DateOf(t)
<1>1. DateOf(x) = DateOf(t) /\ MinuteOf(x) = MinuteOf(t)
  BY OneMinute
<1>2. ClockReason(p, x) = ClockReason(p, t)
  BY <1>1 DEF ClockReason, Weekday
<1>3. Barred(p, x) <=> Barred(p, t)
  <2>1. ClockReason(p, t) = "none" <=> ~Barred(p, t)
    BY ClockReasonIs
  <2>2. ClockReason(p, x) = "none" <=> ~Barred(p, x)
    BY ClockReasonIs
  <2> QED BY <1>2, <2>1, <2>2
<1>4. Asleep(p, x) <=> Asleep(p, t)
  BY <1>1, BedtimeIs
<1> QED
  BY <1>1, <1>3, <1>4

(***************************************************************************)
(* The walk.  What it finds from any of its states, said at once: the      *)
(* first moment the rules stop someone who keeps going.                    *)
(***************************************************************************)

Walked(t) == [at : t..t + HorizonTicks, used : Int, budget : Int]

Gone(p, s, x) ==
  /\ Limited(p)
  /\ IF DateOf(x) = DateOf(s.at) THEN s.used + (x - s.at) >= s.budget
     ELSE x - Day * DateOf(x) >= LimitTicks(p)
Stops(p, until, h, s) == {x \in s.at..h : x >= until /\ (Barred(p, x) \/ Gone(p, s, x))}
Why(p, x) == IF ~Barred(p, x) THEN "limit" ELSE IF Asleep(p, x) THEN "bedtime" ELSE "outside_hours"
Answer(p, until, h, s) ==
  IF Stops(p, until, h, s) = {} THEN NoStop
  ELSE StopFor(Why(p, Least(Stops(p, until, h, s))), Least(Stops(p, until, h, s)))

\* One turn of the loop, in the moment and in what comes after it.
Held(until, s) == s.at < until
WhyNow(p, until, s) ==
  IF Held(until, s) THEN "none"
  ELSE IF ClockReason(p, s.at) # "none" THEN ClockReason(p, s.at)
  ELSE IF Limited(p) /\ s.used >= s.budget THEN "limit" ELSE "none"
MinuteEnd(h, s) == Sooner(NextMinute(s.at), h)
TurnEnd(until, h, s) == IF Held(until, s) THEN Sooner(until, MinuteEnd(h, s)) ELSE MinuteEnd(h, s)
Out(s) == s.at + s.budget - s.used
OutFirst(p, until, h, s) == ~Held(until, s) /\ Limited(p) /\ Out(s) < TurnEnd(until, h, s)
Onward(p, until, h, s) ==
  IF DateOf(TurnEnd(until, h, s)) # DateOf(s.at)
  THEN [at |-> TurnEnd(until, h, s), used |-> 0, budget |-> LimitTicks(p)]
  ELSE [s EXCEPT !.at = TurnEnd(until, h, s), !.used = @ + TurnEnd(until, h, s) - s.at]
Turn(g, p, until, h, s) ==
  IF WhyNow(p, until, s) # "none" THEN StopFor(WhyNow(p, until, s), s.at)
  ELSE IF s.at >= h THEN NoStop
  ELSE IF OutFirst(p, until, h, s) THEN StopFor("limit", Out(s))
  ELSE IF DateOf(TurnEnd(until, h, s)) # DateOf(s.at)
  THEN g[[at |-> TurnEnd(until, h, s), used |-> 0, budget |-> LimitTicks(p)]]
  ELSE g[[s EXCEPT !.at = TurnEnd(until, h, s), !.used = @ + TurnEnd(until, h, s) - s.at]]

LEMMA TurnIs ==
  ASSUME NEW g, NEW p, NEW until, NEW h, NEW s
  PROVE  Turn(g, p, until, h, s)
           = IF WhyNow(p, until, s) # "none" THEN StopFor(WhyNow(p, until, s), s.at)
             ELSE IF s.at >= h THEN NoStop
             ELSE IF OutFirst(p, until, h, s) THEN StopFor("limit", Out(s))
             ELSE g[Onward(p, until, h, s)]
BY DEF Turn, Onward

LEMMA LeastIs ==
  ASSUME NEW S, S \subseteq Int, NEW x \in S, \A y \in S : x <= y
  PROVE  Least(S) = x
<1>1. \A y \in S : Least(S) <= y
  BY DEF Least
<1>2. Least(S) \in S
  BY DEF Least
<1>3. Least(S) \in Int /\ x \in Int /\ Least(S) <= x /\ x <= Least(S)
  BY <1>1, <1>2
<1> QED
  BY <1>3

LEMMA HorizonType == HorizonTicks \in Nat \ {0}
BY DayType DEF HorizonTicks

LEMMA WalkedIs ==
  ASSUME NEW t \in Nat, NEW s \in Walked(t)
  PROVE  /\ s.at \in Nat /\ t <= s.at /\ s.at <= t + HorizonTicks
         /\ s.used \in Int /\ s.budget \in Int
BY HorizonType DEF Walked

LEMMA LimitType ==
  ASSUME NEW p \in Policies
  PROVE  LimitTicks(p) \in Nat /\ (Limited(p) => LimitTicks(p) > 0)
BY RulesAssumption DEF LimitTicks, Limited, Minute

LEMMA TurnEndIs ==
  ASSUME NEW p \in Policies, NEW until \in Int, NEW t \in Nat, NEW s \in Walked(t),
         s.at < t + HorizonTicks
  PROVE  /\ TurnEnd(until, t + HorizonTicks, s) \in Nat
         /\ s.at < TurnEnd(until, t + HorizonTicks, s)
         /\ TurnEnd(until, t + HorizonTicks, s) <= t + HorizonTicks
         /\ TurnEnd(until, t + HorizonTicks, s) <= NextMinute(s.at)
         /\ Held(until, s) => TurnEnd(until, t + HorizonTicks, s) <= until
<1>1. s.at \in Nat
  BY WalkedIs
<1>2. NextMinute(s.at) \in Nat /\ s.at < NextMinute(s.at)
  BY <1>1, NextMinuteIs
<1> QED
  BY <1>1, <1>2, HorizonType DEF TurnEnd, MinuteEnd, Sooner, Held

LEMMA OnwardType ==
  ASSUME NEW p \in Policies, NEW until \in Int, NEW t \in Nat, NEW s \in Walked(t),
         s.at < t + HorizonTicks
  PROVE  /\ Onward(p, until, t + HorizonTicks, s) \in Walked(t)
         /\ Onward(p, until, t + HorizonTicks, s).at = TurnEnd(until, t + HorizonTicks, s)
<1> DEFINE n == TurnEnd(until, t + HorizonTicks, s)
<1>1. n \in Nat /\ s.at < n /\ n <= t + HorizonTicks
  BY TurnEndIs
<1>2. n \in t..t + HorizonTicks /\ s.used + n - s.at \in Int
  BY <1>1, WalkedIs, HorizonType
<1> HIDE DEF n
<1>3. [at |-> n, used |-> 0, budget |-> LimitTicks(p)] \in Walked(t)
  BY <1>2, LimitType DEF Walked
<1>4. [s EXCEPT !.at = n, !.used = @ + n - s.at] \in Walked(t)
  BY <1>2 DEF Walked
<1>5. [s EXCEPT !.at = n, !.used = @ + n - s.at].at = n
  BY DEF Walked
<1> QED
  BY <1>3, <1>4, <1>5 DEF Onward, n

\* Nobody is stopped between two turns, unless the budget runs out first.
LEMMA NoneBetween ==
  ASSUME NEW p \in Policies, NEW until \in Int, NEW t \in Nat, NEW s \in Walked(t),
         s.at < t + HorizonTicks, WhyNow(p, until, s) = "none",
         NEW x \in s.at..TurnEnd(until, t + HorizonTicks, s) - 1
  PROVE  /\ x \in Nat /\ DateOf(x) = DateOf(s.at)
         /\ x >= until => ~Held(until, s)
         /\ ~Held(until, s) => ~Barred(p, x) /\ (Gone(p, s, x) <=> Limited(p) /\ Out(s) <= x)
<1> DEFINE n == TurnEnd(until, t + HorizonTicks, s)
<1>1. s.at \in Nat /\ s.used \in Int /\ s.budget \in Int
  BY WalkedIs
<1>2. n \in Nat /\ s.at < n /\ n <= NextMinute(s.at) /\ (Held(until, s) => n <= until)
  BY TurnEndIs
<1>3. x \in s.at..n - 1
  OBVIOUS
<1> HIDE DEF n
<1>4. NextMinute(s.at) \in Nat
  BY <1>1, NextMinuteIs
<1>5. x \in s.at..NextMinute(s.at) - 1
  BY <1>1, <1>2, <1>3, <1>4
<1>6. x \in Nat /\ x \div 2 = s.at \div 2
  BY <1>1, <1>5, NextMinuteIs
<1>7. /\ DateOf(x) = DateOf(s.at)
      /\ Barred(p, x) <=> Barred(p, s.at)
  BY <1>1, <1>6, SameMinute
<1>8. x >= until => ~Held(until, s)
  BY <1>1, <1>2, <1>3
<1>9. ~Held(until, s) => ~Barred(p, s.at)
  BY <1>1, ClockReasonIs DEF WhyNow
<1>10. Gone(p, s, x) <=> Limited(p) /\ Out(s) <= x
  BY <1>1, <1>6, <1>7 DEF Gone, Out
<1> QED
  BY <1>6, <1>7, <1>8, <1>9, <1>10

\* From one turn to the next the budget is the same, or a new day's.
LEMMA GoneOnward ==
  ASSUME NEW p \in Policies, NEW until \in Int, NEW t \in Nat, NEW s \in Walked(t),
         s.at < t + HorizonTicks,
         NEW x \in TurnEnd(until, t + HorizonTicks, s)..t + HorizonTicks
  PROVE  Gone(p, Onward(p, until, t + HorizonTicks, s), x) <=> Gone(p, s, x)
<1> DEFINE n == TurnEnd(until, t + HorizonTicks, s)
           o == Onward(p, until, t + HorizonTicks, s)
<1>1. s.at \in Nat /\ s.used \in Int /\ s.budget \in Int
  BY WalkedIs
<1>2. n \in Nat /\ s.at < n /\ n <= NextMinute(s.at) /\ n <= t + HorizonTicks
  BY TurnEndIs
<1>3. x \in Nat /\ n <= x
  BY <1>2, HorizonType
<1>4. CASE DateOf(n) = DateOf(s.at)
  <2>1. o = [s EXCEPT !.at = n, !.used = @ + n - s.at]
    BY <1>4 DEF Onward
  <2>2. o.at = n /\ o.used = s.used + n - s.at /\ o.budget = s.budget
    BY <2>1 DEF Walked
  <2> HIDE DEF o, n
  <2>3. o.used + (x - o.at) = s.used + (x - s.at)
    BY <1>1, <1>2, <1>3, <2>2
  <2> QED BY <1>4, <2>2, <2>3 DEF Gone, o
<1>5. CASE DateOf(n) # DateOf(s.at)
  <2>1. o = [at |-> n, used |-> 0, budget |-> LimitTicks(p)]
    BY <1>5 DEF Onward
  <2>2. o.at = n /\ o.used = 0 /\ o.budget = LimitTicks(p)
    BY <2>1
  <2> HIDE DEF o, n
  <2>3. n = NextMinute(s.at)
    <3> SUFFICES ASSUME n # NextMinute(s.at) PROVE FALSE
      OBVIOUS
    <3>1. NextMinute(s.at) \in Nat
      BY <1>1, NextMinuteIs
    <3>2. n \in s.at..NextMinute(s.at) - 1
      BY <1>1, <1>2, <3>1
    <3>3. n \div 2 = s.at \div 2
      BY <1>1, <3>2, NextMinuteIs
    <3> QED BY <1>1, <1>2, <1>5, <3>3, OneMinute
  <2>4. n = Day * DateOf(n)
    BY <1>1, <1>5, <2>3, Midnight
  <2>5. DateOf(s.at) <= DateOf(n) /\ DateOf(n) <= DateOf(x)
    BY <1>1, <1>2, <1>3, DateGrows
  <2>6. DateOf(x) # DateOf(s.at)
    <3>1. DateOf(s.at) \in Nat /\ DateOf(n) \in Nat /\ DateOf(x) \in Nat
      BY <1>1, <1>2, <1>3, MomentParts
    <3> QED BY <1>5, <2>5, <3>1
  <2>7. LimitTicks(p) \in Nat
    BY LimitType
  <2>8. Gone(p, s, x) <=> Limited(p) /\ x - Day * DateOf(x) >= LimitTicks(p)
    BY <2>6 DEF Gone
  <2>9. Gone(p, o, x) <=> Limited(p) /\ x - Day * DateOf(x) >= LimitTicks(p)
    <3>1. CASE DateOf(x) = DateOf(n)
      <4>1. Gone(p, o, x) <=> Limited(p) /\ 0 + (x - n) >= LimitTicks(p)
        BY <2>2, <3>1 DEF Gone
      <4>2. x - Day * DateOf(x) = 0 + (x - n)
        BY <1>2, <1>3, <2>4, <3>1
      <4> QED BY <4>1, <4>2
    <3>2. CASE DateOf(x) # DateOf(n)
      BY <2>2, <3>2 DEF Gone
    <3> QED BY <3>1, <3>2
  <2> QED BY <2>8, <2>9 DEF o
<1> QED
  BY <1>4, <1>5

\* One turn of the loop agrees with what is true.
LEMMA OneTurn ==
  ASSUME NEW p \in Policies, NEW until \in Int, NEW t \in Nat, NEW s \in Walked(t)
  PROVE  Answer(p, until, t + HorizonTicks, s)
           = IF WhyNow(p, until, s) # "none" THEN StopFor(WhyNow(p, until, s), s.at)
             ELSE IF s.at >= t + HorizonTicks THEN NoStop
             ELSE IF OutFirst(p, until, t + HorizonTicks, s) THEN StopFor("limit", Out(s))
             ELSE Answer(p, until, t + HorizonTicks, Onward(p, until, t + HorizonTicks, s))
<1> DEFINE h == t + HorizonTicks
           S == Stops(p, until, h, s)
           n == TurnEnd(until, h, s)
           o == Onward(p, until, h, s)
<1>1. s.at \in Nat /\ s.used \in Int /\ s.budget \in Int /\ h \in Nat /\ s.at <= h
  BY WalkedIs, HorizonType
<1>2. S \subseteq Int /\ \A x \in S : s.at <= x /\ x <= h
  BY <1>1 DEF Stops
<1>3. ClockReason(p, s.at) = IF ~Barred(p, s.at) THEN "none" ELSE Why(p, s.at)
  BY <1>1, ClockReasonIs DEF Why
<1>4. Gone(p, s, s.at) <=> Limited(p) /\ s.used >= s.budget
  BY <1>1 DEF Gone
<1>5. Why(p, s.at) # "none"
  BY DEF Why
<1>6. CASE WhyNow(p, until, s) # "none"
  <2>1. ~Held(until, s) /\ (Barred(p, s.at) \/ Gone(p, s, s.at))
    BY <1>3, <1>4, <1>6 DEF WhyNow
  <2>2. s.at \in S
    BY <1>1, <2>1 DEF Stops, Held
  <2>3. Least(S) = s.at
    BY <1>2, <2>2, LeastIs
  <2>4. WhyNow(p, until, s) = Why(p, s.at)
    BY <1>3, <1>4, <1>5, <1>6 DEF WhyNow, Why
  <2> QED BY <1>6, <2>2, <2>3, <2>4 DEF Answer
<1>7. CASE WhyNow(p, until, s) = "none" /\ s.at >= h
  <2>1. ~ (s.at >= until /\ (Barred(p, s.at) \/ Gone(p, s, s.at)))
    BY <1>1, <1>3, <1>4, <1>5, <1>7 DEF WhyNow, Held
  <2>2. S = {}
    <3> SUFFICES ASSUME NEW x \in S PROVE FALSE
      OBVIOUS
    <3>1. x = s.at
      BY <1>1, <1>2, <1>7
    <3> QED BY <2>1, <3>1 DEF Stops
  <2> QED BY <1>7, <2>2 DEF Answer
<1>8. CASE WhyNow(p, until, s) = "none" /\ s.at < h
  <2>1. n \in Nat /\ s.at < n /\ n <= h /\ (Held(until, s) => n <= until)
    BY <1>8, TurnEndIs
  <2>2. ASSUME NEW x \in s.at..n - 1
        PROVE  x \in S <=> ~Held(until, s) /\ Limited(p) /\ Out(s) <= x
    <3>1. x \in Nat /\ x \in s.at..h
      BY <1>1, <2>1
    <3>2. /\ x >= until => ~Held(until, s)
          /\ ~Held(until, s) => ~Barred(p, x) /\ (Gone(p, s, x) <=> Limited(p) /\ Out(s) <= x)
      BY <1>8, NoneBetween
    <3>3. ~Held(until, s) => x >= until
      BY <1>1, <3>1 DEF Held
    <3> QED BY <3>1, <3>2, <3>3 DEF Stops
  <2>3. CASE OutFirst(p, until, h, s)
    <3>1. ~Held(until, s) /\ Limited(p) /\ Out(s) < n
      BY <2>3 DEF OutFirst
    <3>2. s.used < s.budget
      BY <1>1, <1>8, <3>1 DEF WhyNow
    <3>3. Out(s) \in Int /\ s.at < Out(s)
      BY <1>1, <3>2 DEF Out
    <3>4. Out(s) \in s.at..n - 1
      BY <1>1, <2>1, <3>1, <3>3
    <3>5. Out(s) \in S
      BY <2>2, <3>1, <3>3, <3>4
    <3>6. ASSUME NEW x \in S PROVE Out(s) <= x
      <4>1. x \in Int /\ s.at <= x
        BY <1>2
      <4>2. CASE x < n
        BY <1>1, <2>1, <2>2, <4>1, <4>2
      <4>3. CASE x >= n
        BY <2>1, <3>1, <3>3, <4>1, <4>3
      <4> QED BY <2>1, <4>1, <4>2, <4>3
    <3>7. Least(S) = Out(s)
      BY <1>2, <3>5, <3>6, LeastIs
    <3>8. ~Barred(p, Out(s))
      BY <1>8, <3>1, <3>4, NoneBetween
    <3>9. ~ (s.at >= h)
      BY <1>1, <1>8
    <3>10. Why(p, Out(s)) = "limit"
      BY <3>8 DEF Why
    <3>11. Answer(p, until, h, s) = StopFor("limit", Out(s))
      BY <3>5, <3>7, <3>10 DEF Answer
    <3> HIDE DEF h, S, n, o
    <3> QED BY <1>8, <2>3, <3>9, <3>11 DEF h
  <2>4. CASE ~OutFirst(p, until, h, s)
    <3>1. o \in Walked(t) /\ o.at = n
      BY <1>8, OnwardType
    <3>2. ASSUME NEW x \in S PROVE x >= n
      <4>1. x \in Int /\ s.at <= x
        BY <1>2
      <4> SUFFICES ASSUME x < n PROVE FALSE
        BY <2>1, <4>1
      <4>2. x \in s.at..n - 1
        BY <1>1, <2>1, <4>1
      <4>3. ~Held(until, s) /\ Limited(p) /\ Out(s) <= x
        BY <2>2, <4>2
      <4>4. Out(s) < n
        BY <1>1, <2>1, <4>1, <4>3 DEF Out
      <4> QED BY <2>4, <4>3, <4>4 DEF OutFirst
    <3>3. \A x \in n..h : Gone(p, o, x) <=> Gone(p, s, x)
      BY <1>8, GoneOnward
    <3>4. \A x : x \in S <=> x \in n..h /\ x >= until /\ (Barred(p, x) \/ Gone(p, s, x))
      <4>1. ASSUME NEW x \in S PROVE x \in n..h /\ x >= until /\ (Barred(p, x) \/ Gone(p, s, x))
        BY <1>1, <1>2, <2>1, <3>2 DEF Stops
      <4>2. ASSUME NEW x \in n..h PROVE x \in s.at..h
        BY <1>1, <2>1
      <4> QED BY <4>1, <4>2 DEF Stops
    <3>5. Stops(p, until, h, o) = S
      <4>1. Stops(p, until, h, o) = {x \in n..h : x >= until /\ (Barred(p, x) \/ Gone(p, o, x))}
        BY <3>1 DEF Stops
      <4> HIDE DEF h, S, n, o
      <4>2. \A x : x \in Stops(p, until, h, o) <=> x \in S
        BY <3>3, <3>4, <4>1
      <4> QED BY <4>2
    <3>6. ~ (s.at >= h)
      BY <1>1, <1>8
    <3>7. Answer(p, until, h, s) = Answer(p, until, h, o)
      BY <3>5 DEF Answer
    <3> HIDE DEF h, S, n, o
    <3> QED BY <1>8, <2>4, <3>6, <3>7 DEF h, o
  <2> QED BY <2>3, <2>4
<1>9. s.at >= h \/ s.at < h
  BY <1>1
<1> QED
  BY <1>6, <1>7, <1>8, <1>9

FirstTurn(p, t, d) == [at |-> t, used |-> d.used, budget |-> LimitTicks(p) + d.earned]
WalkOf(p, t, until) ==
  CHOOSE g : g = [s \in Walked(t) |-> Turn(g, p, until, t + HorizonTicks, s)]

LEMMA WalkOfRules ==
  ASSUME NEW p, NEW t, NEW d, NEW until
  PROVE  NextStop(p, t, d, until) = WalkOf(p, t, until)[FirstTurn(p, t, d)]
BY DEF NextStop, WalkOf, FirstTurn, Walked, Turn, WhyNow, Held, OutFirst, Out, TurnEnd, MinuteEnd

LEMMA Earliest ==
  ASSUME NEW S, S \subseteq Nat, S # {}
  PROVE  \E n \in S : \A m \in S : n <= m
<1>1. PICK n \in S : \A m \in S : ~ (<<m, n>> \in OpToRel(<, Nat))
  BY NatLessThanWellFounded, WFMin
<1>2. \A m \in S : ~ (m < n)
  BY <1>1 DEF OpToRel
<1> QED
  BY <1>2

\* The walk finds what is true, by what is left of its horizon.
LEMMA WalkIsAnswer ==
  ASSUME NEW p \in Policies, NEW until \in Int, NEW t \in Nat
  PROVE  \A s \in Walked(t) : WalkOf(p, t, until)[s] = Answer(p, until, t + HorizonTicks, s)
<1> DEFINE h == t + HorizonTicks
           f == [s \in Walked(t) |-> Answer(p, until, h, s)]
           W == WalkOf(p, t, until)
<1>1. ASSUME NEW s \in Walked(t) PROVE Turn(f, p, until, h, s) = Answer(p, until, h, s)
  <2>1. s.at < h => Onward(p, until, h, s) \in Walked(t)
    BY OnwardType
  <2>2. ~ (s.at >= h) => s.at < h
    BY WalkedIs, HorizonType
  <2>3. s.at < h => f[Onward(p, until, h, s)] = Answer(p, until, h, Onward(p, until, h, s))
    BY <2>1
  <2>4. Answer(p, until, h, s)
           = IF WhyNow(p, until, s) # "none" THEN StopFor(WhyNow(p, until, s), s.at)
             ELSE IF s.at >= h THEN NoStop
             ELSE IF OutFirst(p, until, h, s) THEN StopFor("limit", Out(s))
             ELSE Answer(p, until, h, Onward(p, until, h, s))
    BY OneTurn
  <2> HIDE DEF f, h
  <2> QED BY <2>2, <2>3, <2>4, TurnIs
<1>2. f = [s \in Walked(t) |-> Turn(f, p, until, h, s)]
  BY <1>1
<1>3. W = [s \in Walked(t) |-> Turn(W, p, until, h, s)]
  <2>1. \E g : g = [s \in Walked(t) |-> Turn(g, p, until, t + HorizonTicks, s)]
    <3> HIDE DEF f
    <3> QED BY <1>2
  <2> QED BY <2>1, Zenon DEF WalkOf
<1> DEFINE Wrong == {s \in Walked(t) : W[s] # Answer(p, until, h, s)}
           Left == {h - s.at : s \in Wrong}
<1>4. Left \subseteq Nat
  BY WalkedIs, HorizonType
<1>5. Wrong = {}
  <2> SUFFICES ASSUME Wrong # {} PROVE FALSE
    OBVIOUS
  <2>1. PICK k \in Left : \A j \in Left : k <= j
    BY <1>4, Earliest
  <2>2. PICK s \in Wrong : k = h - s.at
    BY <2>1
  <2>3. s \in Walked(t) /\ s.at \in Nat /\ h \in Nat
    BY <2>2, WalkedIs, HorizonType
  <2> DEFINE o == Onward(p, until, h, s)
  <2>4. s.at < h => W[o] = Answer(p, until, h, o)
    <3> SUFFICES ASSUME s.at < h, W[o] # Answer(p, until, h, o) PROVE FALSE
      OBVIOUS
    <3>1. o \in Walked(t) /\ o.at = TurnEnd(until, h, s)
      BY <2>3, OnwardType
    <3>2. TurnEnd(until, h, s) \in Nat /\ s.at < TurnEnd(until, h, s)
      BY <2>3, TurnEndIs
    <3> HIDE DEF o, W, h
    <3>3. o \in Wrong
      BY <3>1
    <3>4. k <= h - o.at
      BY <2>1, <3>3
    <3> QED BY <2>2, <2>3, <3>1, <3>2, <3>4
  <2>5. Answer(p, until, h, s)
           = IF WhyNow(p, until, s) # "none" THEN StopFor(WhyNow(p, until, s), s.at)
             ELSE IF s.at >= h THEN NoStop
             ELSE IF OutFirst(p, until, h, s) THEN StopFor("limit", Out(s))
             ELSE Answer(p, until, h, o)
    BY <2>3, OneTurn
  <2>6. ~ (s.at >= h) => s.at < h
    BY <2>3
  <2>7. W[s] = Turn(W, p, until, h, s)
    <3> HIDE DEF W, h
    <3> QED BY <1>3, <2>3
  <2> HIDE DEF W, h, o
  <2>8. W[s] = Answer(p, until, h, s)
    BY <2>4, <2>5, <2>6, <2>7, TurnIs DEF o
  <2> QED BY <2>2, <2>8
<1> QED
  BY <1>5

LEMMA NextStopIs ==
  ASSUME NEW p \in Policies, NEW t \in Nat, NEW until \in Int,
         NEW d, d.used \in Int, d.earned \in Int
  PROVE  NextStop(p, t, d, until) = Answer(p, until, t + HorizonTicks, FirstTurn(p, t, d))
<1>1. t \in t..t + HorizonTicks
  BY HorizonType
<1>2. FirstTurn(p, t, d) \in Walked(t)
  BY <1>1, LimitType DEF FirstTurn, Walked
<1> QED
  BY <1>2, WalkIsAnswer, WalkOfRules

(***************************************************************************)
(* The verdict is true, always.                                            *)
(***************************************************************************)

\* What the variables the rules read hold.
RulesTypes ==
  /\ policy \in Policies
  /\ moment \in Nat
  /\ today.used \in Nat /\ today.earned \in Nat /\ today.snoozes \in Nat
  /\ today = [used |-> today.used, earned |-> today.earned, snoozes |-> today.snoozes]
  /\ override \in Int

LEMMA FirstStopIs ==
  ASSUME RulesTypes
  PROVE  FirstStop = Answer(policy, override, moment + HorizonTicks, FirstTurn(policy, moment, today))
<1> DEFINE h == moment + HorizonTicks
           s == FirstTurn(policy, moment, today)
           at == {t \in Ahead : t >= override /\ (Barred(policy, t) \/ GoneAt(policy, t, 1))}
<1>1. moment \in Nat /\ today.used \in Int /\ today.earned \in Int /\ policy \in Policies
      /\ override \in Int
  BY DEF RulesTypes
<1>2. s.at = moment /\ s.used = today.used /\ s.budget = LimitTicks(policy) + today.earned
  BY DEF FirstTurn
<1>3. LimitTicks(policy) \in Nat
  BY <1>1, LimitType
<1>4. ASSUME NEW t \in Ahead PROVE GoneAt(policy, t, 1) <=> Gone(policy, s, t)
  <2>1. t \in Nat /\ DateOf(t) \in Nat
    <3>1. t \in Nat
      BY <1>1, HorizonType DEF Ahead
    <3> QED BY <3>1, MomentParts
  <2>2. DateOf(t) * Day = Day * DateOf(t) /\ Day * DateOf(t) \in Int
    <3> DEFINE c == DateOf(t)
    <3>1. c \in Nat
      BY <2>1
    <3> HIDE DEF c
    <3>2. c * Day = Day * c /\ Day * c \in Int
      BY <3>1, DayType
    <3> QED BY <3>2 DEF c
  <2> DEFINE x == Day * DateOf(t)
  <2>3. GoneAt(policy, t, 1) <=>
          /\ policy.enabled /\ policy.limit > 0
          /\ IF DateOf(t) = DateOf(moment)
             THEN today.used + 1 * (t - moment) >= LimitTicks(policy) + today.earned
             ELSE 1 * (t - x) >= LimitTicks(policy)
    BY <2>2 DEF GoneAt
  <2>4. Gone(policy, s, t) <=>
          /\ policy.enabled /\ policy.limit > 0
          /\ IF DateOf(t) = DateOf(moment)
             THEN today.used + (t - moment) >= LimitTicks(policy) + today.earned
             ELSE t - x >= LimitTicks(policy)
    BY <1>2 DEF Gone, Limited
  <2>5. x \in Int
    BY <2>2
  <2> HIDE DEF x, s
  <2>6. 1 * (t - x) = t - x /\ 1 * (t - moment) = t - moment
    BY <1>1, <2>1, <2>5
  <2> QED BY <2>3, <2>4, <2>6
<1>5. Ahead = s.at..h
  BY <1>2 DEF Ahead
<1> HIDE DEF s, h
<1>6. at = Stops(policy, override, h, s)
  <2>1. \A t \in Ahead : t \in at <=> t \in Stops(policy, override, h, s)
    BY <1>4, <1>5 DEF Stops
  <2>2. at \subseteq Ahead /\ Stops(policy, override, h, s) \subseteq Ahead
    BY <1>5 DEF Stops
  <2> HIDE DEF at
  <2> QED BY <2>1, <2>2
<1>7. FirstStop = IF at = {} THEN NoStop ELSE StopFor(Why(policy, Least(at)), Least(at))
  BY DEF FirstStop, Why
<1> QED
  BY <1>6, <1>7 DEF Answer, h, s

\* The first whole minute someone stopped could be back is the first moment.
LEMMA ReturnIs ==
  ASSUME RulesTypes, FirstStop.at = moment
  PROVE  ResumeAt(policy, moment, today) = FirstReturn
<1> DEFINE p == policy
           t == moment
           h == t + HorizonTicks
           n == NextMinute(t)
           spent == Limited(p) /\ today.used >= LimitTicks(p) + today.earned
           Back(x) == ~Barred(p, x) /\ (spent => DateOf(x) # DateOf(t))
           open == {m \in n..h : m % 2 = 0 /\ Back(m)}
           at == {x \in Ahead \ {t} : ~Barred(p, x) /\ ~GoneAt(p, x, 0)}
<1>1. /\ p \in Policies /\ t \in Nat /\ today.used \in Nat /\ today.earned \in Nat
      /\ LimitTicks(p) \in Nat /\ (Limited(p) => LimitTicks(p) > 0) /\ h \in Nat
      /\ n \in Nat /\ n > t
  BY LimitType, HorizonType, NextMinuteIs DEF RulesTypes
<1>2. ResumeAt(p, t, today) = IF open = {} THEN Never ELSE Least(open)
  <2>1. \A m \in n..h : m \in Nat
    BY <1>1
  <2>2. \A m \in n..h : ClockReason(p, m) = "none" <=> ~Barred(p, m)
    BY <1>1, <2>1, ClockReasonIs
  <2>3. open = {m \in n..h : /\ m % 2 = 0 /\ ClockReason(p, m) = "none"
                             /\ spent => DateOf(m) # DateOf(t)}
    BY <2>2
  <2> QED BY <2>3 DEF ResumeAt, Minute
<1>3. FirstReturn = IF at = {} THEN Never ELSE Least(at)
  BY DEF FirstReturn
<1>4. ASSUME NEW x \in t..h PROVE GoneAt(p, x, 0) <=> spent /\ DateOf(x) = DateOf(t)
  <2>1. x \in Nat /\ DateOf(x) \in Nat
    <3>1. x \in Nat
      BY <1>1
    <3> QED BY <3>1, MomentParts
  <2>2. DateOf(x) * Day \in Int
    <3> DEFINE c == DateOf(x)
    <3>1. c \in Nat
      BY <2>1
    <3> HIDE DEF c
    <3>2. c * Day \in Int
      BY <3>1, DayType
    <3> QED BY <3>2 DEF c
  <2> DEFINE y == DateOf(x) * Day
  <2>3. GoneAt(p, x, 0) <=>
          /\ Limited(p)
          /\ IF DateOf(x) = DateOf(t) THEN today.used + 0 * (x - t) >= LimitTicks(p) + today.earned
             ELSE 0 * (x - y) >= LimitTicks(p)
    BY DEF GoneAt, Limited
  <2>4. y \in Int
    BY <2>2
  <2> HIDE DEF y, p, t
  <2>5. 0 * (x - t) = 0 /\ 0 * (x - y) = 0
    BY <1>1, <2>1, <2>4
  <2> QED BY <1>1, <2>3, <2>5
<1>5. Barred(p, t) \/ spent
  <2>1. FirstStop.at # Never
    BY <1>1 DEF Never
  <2> DEFINE S == {x \in Ahead : x >= override /\ (Barred(policy, x) \/ GoneAt(policy, x, 1))}
  <2>2. S # {} /\ Least(S) = t
    BY <2>1 DEF FirstStop, NoStop, StopFor
  <2>3. S \subseteq Nat
    BY <1>1, HorizonType DEF Ahead
  <2>4. \E x \in S : \A y \in S : x <= y
    <3> HIDE DEF S
    <3> QED BY <2>2, <2>3, Earliest
  <2>5. t \in S
    <3> HIDE DEF S, t
    <3> QED BY <2>2, <2>4 DEF Least
  <2>6. GoneAt(p, t, 1) => spent
    <3>1. 1 * (t - t) = 0
      BY <1>1
    <3> QED BY <1>1, <3>1 DEF GoneAt, Limited
  <2> QED BY <2>5, <2>6
<1>6. \A x : x \in at <=> x \in t..h /\ x # t /\ Back(x)
  BY <1>4 DEF Ahead
<1>7. ASSUME NEW x \in at PROVE x \in n..h /\ Back(x)
  <2>1. x \in t..h /\ x # t /\ Back(x) /\ x \in Nat
    BY <1>1, <1>6
  <2>2. CASE x < n
    <3>1. x \in t..NextMinute(t) - 1
      BY <1>1, <2>1, <2>2
    <3>2. x \div 2 = t \div 2
      BY <1>1, <3>1, NextMinuteIs
    <3>3. (Barred(p, x) <=> Barred(p, t)) /\ DateOf(x) = DateOf(t)
      BY <1>1, <2>1, <3>2, SameMinute
    <3> QED BY <1>5, <2>1, <3>3
  <2> QED BY <1>1, <2>1, <2>2
<1>8. ASSUME NEW x \in open PROVE x \in at
  BY <1>1, <1>6
<1>9. at \subseteq Nat /\ open \subseteq Nat
  BY <1>1, <1>7
<1>10. ASSUME NEW x \in at, x % 2 # 0 PROVE x - 1 \in at
  <2>1. x \in n..h /\ x \in Nat /\ Back(x)
    BY <1>7, <1>9
  <2>2. x = 2 * (x \div 2) + 1 /\ x \div 2 \in Nat
    BY <1>10, <2>1, MomentParts
  <2>3. n = 2 * (t \div 2) + 2 /\ t \div 2 \in Nat
    <3>1. n = t - (t % 2) + 2 /\ t = 2 * (t \div 2) + (t % 2) /\ t % 2 \in {0, 1} /\ t \div 2 \in Nat
      BY <1>1, NextMinuteIs, MomentParts
    <3> QED BY <1>1, <3>1
  <2>4. x - 1 \in n..h /\ x - 1 \in Nat
    BY <1>1, <2>1, <2>2, <2>3
  <2>5. (x - 1) \div 2 = x \div 2
    <3>1. x - 1 = 2 * (x \div 2) + 0 /\ 0 \in 0..1
      BY <2>1, <2>2
    <3> QED BY <2>2, <2>4, <3>1, DivisionUnique
  <2>6. (Barred(p, x - 1) <=> Barred(p, x)) /\ DateOf(x - 1) = DateOf(x)
    BY <1>1, <2>1, <2>4, <2>5, SameMinute
  <2>7. Back(x - 1)
    BY <2>1, <2>6
  <2> QED BY <1>1, <1>6, <2>4, <2>7
<1> HIDE DEF p, t, h, n, spent, Back
<1>11. CASE at = {}
  BY <1>2, <1>3, <1>8, <1>11 DEF p, t
<1>12. CASE at # {}
  <2> HIDE DEF at
  <2>1. PICK k \in at : \A x \in at : k <= x
    BY <1>9, <1>12, Earliest
  <2>2. k \in Nat
    BY <1>9, <2>1
  <2>3. k % 2 = 0
    <3> SUFFICES ASSUME k % 2 # 0 PROVE FALSE
      OBVIOUS
    <3>1. k <= k - 1
      BY <1>10, <2>1
    <3> QED BY <2>2, <3>1
  <2>4. k \in open
    BY <1>7, <2>1, <2>3
  <2>5. \A x \in open : k <= x
    BY <1>8, <2>1
  <2> HIDE DEF open
  <2>6. at \subseteq Int /\ open \subseteq Int
    BY <1>9
  <2>7. Least(at) = k
    BY <2>1, <2>6, LeastIs
  <2>8. Least(open) = k
    BY <2>4, <2>5, <2>6, LeastIs
  <2> QED BY <1>2, <1>3, <1>12, <2>4, <2>7, <2>8 DEF p, t
<1> QED
  BY <1>11, <1>12

LEMMA VerdictFromTypes ==
  ASSUME RulesTypes
  PROVE  VerdictTrue
<1>1. /\ policy \in Policies /\ moment \in Nat /\ override \in Int
      /\ today.used \in Int /\ today.earned \in Int
  BY DEF RulesTypes
<1>2. NextStop(policy, moment, today, override) = FirstStop
  BY <1>1, NextStopIs, FirstStopIs
<1>3. \A w \in policy.schedule : w \in Window
  BY <1>1, RulesAssumption
<1>4. \A w \in policy.schedule :
         FocusBlocking({w}, moment) <=> (Real(w) /\ w.days # {} => Inside({w}, moment))
  BY <1>1, <1>3, FocusIs
<1>5. FirstStop.at = moment => ResumeAt(policy, moment, today) = FirstReturn
  BY ReturnIs
<1> QED
  BY <1>2, <1>4, <1>5 DEF VerdictTrue

LEMMA RulesTypesInit ==
  ASSUME RulesInit
  PROVE  RulesTypes
BY DEF RulesInit, RulesTypes, Never

LEMMA RulesTypesNext ==
  ASSUME RulesTypes, [RulesNext]_ruleVars
  PROVE  RulesTypes'
<1> USE DEF RulesTypes
<1>1. CASE Pass
  <2>1. PICK u \in BOOLEAN : moment' = moment + 1 /\ today' = Billed(moment + 1, u)
    BY <1>1 DEF Pass
  <2>2. policy' = policy /\ override' = override
    BY <1>1 DEF Pass
  <2> QED BY <2>1, <2>2 DEF Billed
<1>2. CASE GiveTime
  <2>1. PICK n \in Gifts :
          /\ policy' = policy /\ moment' = moment
          /\ today' = [today EXCEPT !.earned = @ + n * Minute]
          /\ override' = LaterEnd(moment + n * Minute)
    BY <1>2 DEF GiveTime, Change
  <2>2. n * Minute \in Nat /\ moment + n * Minute \in Int
    BY RulesAssumption DEF Minute
  <2> QED BY <2>1, <2>2 DEF LaterEnd
<1>3. CASE Snooze
  <2>1. PICK n \in Gifts :
          /\ policy' = policy /\ moment' = moment
          /\ today' = [today EXCEPT !.snoozes = @ + 1]
          /\ override' = LaterEnd(moment + n * Minute)
    BY <1>3 DEF Snooze, Change
  <2>2. moment + n * Minute \in Int
    BY RulesAssumption DEF Minute
  <2> QED BY <2>1, <2>2 DEF LaterEnd
<1>4. CASE PauseAll
  BY <1>4 DEF PauseAll, Change
<1>5. CASE Resume
  BY <1>5 DEF Resume, Change
<1>6. CASE SetRules
  BY <1>6 DEF SetRules, Change
<1>7. CASE UsedElsewhere
  BY <1>7 DEF UsedElsewhere, Change, Minute
<1>8. CASE UNCHANGED ruleVars
  BY <1>8 DEF ruleVars
<1> QED
  BY <1>1, <1>2, <1>3, <1>4, <1>5, <1>6, <1>7, <1>8 DEF RulesNext

\* Whatever the clock, the parents and the person did, evaluate's verdict is
\* the first stop that comes, resume_at's the first moment back, and focus
\* hours are read like allowed hours.
THEOREM VerdictIsTrue == RulesSpec => []VerdictTrue
<1>1. RulesInit => RulesTypes
  BY RulesTypesInit
<1>2. RulesTypes /\ [RulesNext]_ruleVars => RulesTypes'
  BY RulesTypesNext
<1>3. RulesTypes => VerdictTrue
  BY VerdictFromTypes
<1> QED
  BY <1>1, <1>2, <1>3, PTL DEF RulesSpec

(***************************************************************************)
(* Nobody is stopped out of the blue.                                      *)
(***************************************************************************)

\* A tick's findings, in the order it comes to them.
WhyAt(h, t, d) ==
  IF h \/ halted \/ (policy.enabled /\ (policy.bedtime # {} \/ policy.schedule # {}))
  THEN RulesNow(policy, t, d, override) ELSE "none"
PausedBy(t) == pausedAt # Never /\ pausedAt <= t
ToldBy(t) == published # Never /\ t - published <= AnnouncedWithin
LocksOut(h, t, d) == ~halted /\ WhyAt(h, t, d) # "none" /\ ~PausedBy(t) /\ h
Halts(h, t, d) ==
  \/ PausedBy(t) /\ h
  \/ halted /\ WhyAt(h, t, d) # "none"
  \/ LocksOut(h, t, d) /\ (IF deadline = Never THEN ToldBy(t) \/ ~here ELSE deadline <= t)
CountsTo(h, t, d) ==
  IF WhyAt(h, t, d) = "none" \/ (LocksOut(h, t, d) /\ Halts(h, t, d)) THEN Never
  ELSE IF LocksOut(h, t, d) /\ deadline = Never THEN t + Grace ELSE deadline
Upcoming(h, t, d) ==
  IF Halts(h, t, d) THEN NoStop
  ELSE Forecast(t, d, override, pausedAt, CountsTo(h, t, d), WhyAt(h, t, d))
Close(h, t, d) == Upcoming(h, t, d).at # Never /\ Upcoming(h, t, d).at - t <= LastMinute
Quiet(h, u, t, d) == Upcoming(h, t, d).why = "limit" /\ ~u /\ CountsTo(h, t, d) = Never

LEMMA EnforceIs ==
  ASSUME NEW h, NEW u, NEW t, NEW d, Enforce(h, u, t, d)
  PROVE  /\ halted' = Halts(h, t, d) /\ deadline' = CountsTo(h, t, d)
         /\ published' = IF Close(h, t, d) THEN t ELSE published
         /\ sprung' = (sprung /\ ~Close(h, t, d))
         /\ warner' = IF ~h \/ Quiet(h, u, t, d) THEN warner
                      ELSE IF Upcoming(h, t, d) = NoStop THEN Unsaid
                      ELSE ObserveStop(warner, Upcoming(h, t, d), Upcoming(h, t, d).at - t)
BY DEF Enforce, WhyAt, PausedBy, ToldBy, LocksOut, Halts, CountsTo, Upcoming, Close, Quiet

\* The moment `at`, when a stop lands, has had its 1-minute warning.
Said(at) == 1 \in warner.fired /\ ~Elsewhen(warner.at, at)

\* A countdown that runs out is always one that was spoken of.
Counted ==
  here /\ ~halted /\ deadline # Never =>
    /\ deadline > moment
    /\ deadline = moment + 1 => Said(moment + 1)

\* While a stop counts as announced and nothing was changed since, whoever is
\* stopped next by the clock, or by their limit while they use it, was told.
Foretold ==
  here /\ ~halted /\ deadline = Never /\ ~sprung /\ ToldBy(moment) =>
    LET v == NextStop(policy, moment, today, override)
    IN /\ ~PausedBy(moment)
       /\ v.at # moment
       /\ v.at = moment + 1 /\ (active \/ v.why # "limit") => Said(moment + 1)

\* What the tick goes by.
TickTypes ==
  /\ deadline \in Nat \cup {Never} /\ pausedAt \in Nat \cup {Never}
  /\ published \in Nat \cup {Never}
  /\ warner.at \in Int /\ (warner.fired # {} => warner.at # Never)

\* Two stops are elsewhen if they are in two minutes.
LEMMA ElsewhenIs ==
  ASSUME NEW s \in Int, NEW t \in Int
  PROVE  /\ Elsewhen(s, t) <=> Elsewhen(t, s)
         /\ s = t => ~Elsewhen(s, t)
BY DEF Elsewhen, Minute

\* The last moment before a stop always gets its warning.
LEMMA SaysIt ==
  ASSUME NEW w, w.at \in Int, w.fired # {} => w.at # Never,
         NEW stop, stop.at \in Nat
  PROVE  /\ 1 \in ObserveStop(w, stop, 1).fired
         /\ ~Elsewhen(ObserveStop(w, stop, 1).at, stop.at)
<1> DEFINE moved == w.at # Never /\ w.why = stop.why /\ Elsewhen(stop.at, w.at)
           said == IF moved \/ w.why # stop.why THEN {}
                   ELSE {m \in w.fired : 1 <= m * Minute + Minute}
           near == {m \in Thresholds : 1 <= m * Minute}
           due == 1 > 0 /\ near # {} /\ Least(near) \notin said
<1>1. ObserveStop(w, stop, 1) =
        [why |-> stop.why,
         fired |-> IF due THEN said \cup {m \in Thresholds : m >= Least(near)} ELSE said,
         at |-> IF due THEN stop.at ELSE w.at]
  BY DEF ObserveStop
<1>2. near = Thresholds /\ 1 \in Thresholds /\ \A m \in Thresholds : m \in Nat /\ m >= 1
  <2>1. 1 \in Thresholds /\ \A m \in Thresholds : m \in Nat /\ m >= 1
    BY RulesAssumption
  <2>2. \A m \in Thresholds : 1 <= m * Minute
    BY <2>1 DEF Minute
  <2> QED BY <2>1, <2>2
<1>3. Least(near) = 1
  <2>1. \A m \in near : 1 <= m
    BY <1>2
  <2>2. near \subseteq Int /\ 1 \in near
    BY <1>2
  <2> HIDE DEF near
  <2> QED BY <2>1, <2>2, LeastIs
<1>4. CASE 1 \notin said
  <2> HIDE DEF said, near
  <2>1. due
    BY <1>2, <1>3, <1>4
  <2>2. 1 \in {m \in Thresholds : m >= Least(near)}
    BY <1>2, <1>3
  <2> HIDE DEF due
  <2>3. 1 \in ObserveStop(w, stop, 1).fired /\ ObserveStop(w, stop, 1).at = stop.at
    BY <1>1, <2>1, <2>2
  <2> QED BY <2>3, ElsewhenIs
<1>5. CASE 1 \in said
  <2>1. ~moved /\ w.why = stop.why /\ w.fired # {}
    BY <1>5
  <2>2. ~Elsewhen(stop.at, w.at)
    BY <2>1
  <2> HIDE DEF said, near, moved
  <2>3. ~due
    BY <1>3, <1>5
  <2> HIDE DEF due
  <2>4. 1 \in ObserveStop(w, stop, 1).fired /\ ObserveStop(w, stop, 1).at = w.at
    BY <1>1, <1>5, <2>3
  <2> QED BY <2>2, <2>4, ElsewhenIs
<1> QED
  BY <1>4, <1>5

LEMMA WarnerKept ==
  ASSUME NEW w, w.at \in Int, w.fired # {} => w.at # Never,
         NEW stop, stop.at \in Nat, NEW left
  PROVE  /\ ObserveStop(w, stop, left).at \in Int
         /\ ObserveStop(w, stop, left).fired # {} => ObserveStop(w, stop, left).at # Never
<1> DEFINE moved == w.at # Never /\ w.why = stop.why /\ Elsewhen(stop.at, w.at)
           said == IF moved \/ w.why # stop.why THEN {}
                   ELSE {m \in w.fired : left <= m * Minute + Minute}
           near == {m \in Thresholds : left <= m * Minute}
           due == left > 0 /\ near # {} /\ Least(near) \notin said
           later == {m \in Thresholds : m >= Least(near)}
<1>1. ObserveStop(w, stop, left) =
        [why |-> stop.why,
         fired |-> IF due THEN said \cup later ELSE said,
         at |-> IF due THEN stop.at ELSE w.at]
  BY DEF ObserveStop
<1>2. said # {} => w.fired # {}
  OBVIOUS
<1>3. stop.at # Never
  BY DEF Never
<1> HIDE DEF said, due, later
<1>4. CASE due
  BY <1>1, <1>3, <1>4
<1>5. CASE ~due
  BY <1>1, <1>2, <1>5
<1> QED
  BY <1>4, <1>5

\* The stop a walk finds, and what is stopped at its first moment.
LEMMA VerdictParts ==
  ASSUME NEW p \in Policies, NEW t \in Nat, NEW until \in Int,
         NEW d, d.used \in Int, d.earned \in Int
  PROVE  /\ NextStop(p, t, d, until) = NoStop \/ NextStop(p, t, d, until).at \in Nat
         /\ NextStop(p, t, d, until).at \in Nat => t <= NextStop(p, t, d, until).at
         /\ RulesNow(p, t, d, until) # "none" <=> NextStop(p, t, d, until).at = t
         /\ RulesNow(p, t, d, until) # "none"
              => /\ RulesNow(p, t, d, until) = Why(p, t) /\ t >= until
                 /\ \/ Barred(p, t)
                    \/ Limited(p) /\ d.used >= LimitTicks(p) + d.earned
<1> DEFINE s == FirstTurn(p, t, d)
           S == Stops(p, until, t + HorizonTicks, s)
           v == NextStop(p, t, d, until)
<1>1. v = IF S = {} THEN NoStop ELSE StopFor(Why(p, Least(S)), Least(S))
  BY NextStopIs DEF Answer
<1>2. s.at = t /\ s.used = d.used /\ s.budget = LimitTicks(p) + d.earned
  BY DEF FirstTurn
<1>3. S \subseteq Nat /\ \A x \in S : t <= x
  BY <1>2, HorizonType DEF Stops
<1>4. Never \notin Nat /\ NoStop.at = Never /\ NoStop.why = "none"
  BY DEF Never, NoStop
<1>5. ASSUME S # {} PROVE Least(S) \in S
  <2> HIDE DEF S
  <2>1. PICK n \in S : \A m \in S : n <= m
    BY <1>3, <1>5, Earliest
  <2>2. S \subseteq Int
    BY <1>3
  <2> QED BY <2>1, <2>2, LeastIs
<1>6. \A x : StopFor(Why(p, x), x).at = x /\ StopFor(Why(p, x), x).why = Why(p, x)
             /\ Why(p, x) # "none"
  BY DEF StopFor, Why
<1>7. RulesNow(p, t, d, until) = IF v.at = t THEN v.why ELSE "none"
  BY DEF RulesNow
<1>8. t \in S => /\ t >= until
                 /\ Barred(p, t) \/ (Limited(p) /\ d.used >= LimitTicks(p) + d.earned)
  <2>1. d.used + (t - t) = d.used
    OBVIOUS
  <2> QED BY <1>2, <2>1 DEF Stops, Gone
<1> HIDE DEF S, s, v
<1>9. CASE S = {}
  <2>1. v.at = Never
    BY <1>1, <1>4, <1>9
  <2>2. v.at # t /\ v = NoStop /\ v.at \notin Nat
    BY <1>1, <1>4, <1>9, <2>1
  <2> QED BY <1>7, <2>2 DEF v
<1>10. CASE S # {}
  <2>1. v.at = Least(S) /\ v.why = Why(p, Least(S)) /\ v.why # "none" /\ Least(S) \in S
    BY <1>1, <1>5, <1>6, <1>10
  <2>2. v.at \in Nat /\ t <= v.at
    BY <1>3, <2>1
  <2> QED BY <1>7, <1>8, <2>1, <2>2 DEF v
<1> QED
  BY <1>9, <1>10

\* If the first moment is free and the next is not, the walk stops there.
LEMMA StopIsNext ==
  ASSUME NEW p \in Policies, NEW t \in Nat, NEW until \in Int,
         NEW d, d.used \in Int, d.earned \in Int,
         NextStop(p, t, d, until).at # t, t + 1 >= until,
         Barred(p, t + 1) \/ Gone(p, FirstTurn(p, t, d), t + 1)
  PROVE  NextStop(p, t, d, until) = StopFor(Why(p, t + 1), t + 1)
<1> DEFINE s == FirstTurn(p, t, d)
           S == Stops(p, until, t + HorizonTicks, s)
<1>1. NextStop(p, t, d, until) = IF S = {} THEN NoStop ELSE StopFor(Why(p, Least(S)), Least(S))
  BY NextStopIs DEF Answer
<1>2. S \subseteq Nat /\ \A x \in S : t <= x
  BY HorizonType DEF Stops, FirstTurn
<1>3. t + 1 \in S
  BY HorizonType DEF Stops, FirstTurn
<1> HIDE DEF S
<1>7. S \subseteq Int
  BY <1>2
<1>4. t \notin S
  <2> SUFFICES ASSUME t \in S PROVE FALSE
    OBVIOUS
  <2>1. Least(S) = t
    BY <1>2, <1>7, LeastIs
  <2> QED BY <1>1, <2>1 DEF StopFor
<1>5. \A x \in S : t + 1 <= x
  BY <1>2, <1>4
<1>6. Least(S) = t + 1
  BY <1>3, <1>5, <1>7, LeastIs
<1> QED
  BY <1>1, <1>3, <1>6

\* A tick bills the day it rolled into, and never more than the walk reckons.
LEMMA BilledType ==
  ASSUME RulesTypes, NEW t, NEW u \in BOOLEAN
  PROVE  Billed(t, u).used \in Int /\ Billed(t, u).earned \in Int
BY DEF RulesTypes, Billed

LEMMA BilledGone ==
  ASSUME RulesTypes, NEW u \in BOOLEAN, Limited(policy),
         Billed(moment + 1, u).used >= LimitTicks(policy) + Billed(moment + 1, u).earned
  PROVE  Gone(policy, FirstTurn(policy, moment, today), moment + 1)
<1> DEFINE s == FirstTurn(policy, moment, today)
           t == moment + 1
           d == Billed(t, u)
           b == IF u THEN 1 ELSE 0
<1>1. /\ s.at = moment /\ s.used = today.used /\ s.budget = LimitTicks(policy) + today.earned
      /\ moment \in Nat /\ today.used \in Nat /\ today.earned \in Nat /\ policy \in Policies
  BY DEF FirstTurn, RulesTypes
<1>2. b \in 0..1 /\ LimitTicks(policy) \in Nat /\ LimitTicks(policy) >= 2
  BY <1>1, RulesAssumption DEF LimitTicks, Limited, Minute
<1>3. CASE DateOf(t) = DateOf(moment)
  <2>1. d.used = today.used + b /\ d.earned = today.earned
    BY <1>3 DEF Billed
  <2>2. today.used + b >= LimitTicks(policy) + today.earned
    BY <2>1
  <2> HIDE DEF b, s
  <2>3. s.used + (t - s.at) >= s.budget
    BY <1>1, <1>2, <2>2
  <2> QED BY <1>1, <1>3, <2>3 DEF Gone, s
<1>4. CASE DateOf(t) # DateOf(moment)
  <2>1. d.used = 0 + b /\ d.earned = 0
    BY <1>4 DEF Billed
  <2>2. 0 + b >= LimitTicks(policy) + 0
    BY <2>1
  <2> HIDE DEF b
  <2> QED BY <1>2, <2>2
<1> QED
  BY <1>3, <1>4

LEMMA UpcomingType ==
  ASSUME RulesTypes, TickTypes, NEW h \in BOOLEAN, NEW d, d.used \in Int, d.earned \in Int
  PROVE  /\ CountsTo(h, moment + 1, d) \in Nat \cup {Never}
         /\ Upcoming(h, moment + 1, d) = NoStop \/ Upcoming(h, moment + 1, d).at \in Nat
<1> DEFINE t == moment + 1
           c == CountsTo(h, t, d)
           v == NextStop(policy, t, d, override)
<1>1. t \in Nat /\ policy \in Policies /\ override \in Int
  BY DEF RulesTypes
<1>2. c \in Nat \cup {Never}
  BY <1>1, RulesAssumption DEF CountsTo, TickTypes
<1>3. v = NoStop \/ v.at \in Nat
  BY <1>1, VerdictParts
<1>4. pausedAt \in Nat \cup {Never}
  BY DEF TickTypes
<1> HIDE DEF c, v, t
<1>5. Forecast(t, d, override, pausedAt, c, WhyAt(h, t, d)) =
        IF c # Never THEN StopFor(WhyAt(h, t, d), c)
        ELSE IF v.at = t \/ (pausedAt # Never /\ pausedAt <= t) THEN NoStop
        ELSE IF pausedAt # Never /\ (v.at = Never \/ pausedAt < v.at) THEN StopFor("paused", pausedAt)
        ELSE v
  BY DEF Forecast, v
<1>6. \A w, x : StopFor(w, x).at = x
  BY DEF StopFor
<1>7. /\ Forecast(t, d, override, pausedAt, c, WhyAt(h, t, d)) = NoStop
         \/ Forecast(t, d, override, pausedAt, c, WhyAt(h, t, d)).at \in Nat
  BY <1>2, <1>3, <1>4, <1>5, <1>6
<1> QED
  BY <1>2, <1>7 DEF Upcoming, c, t

LEMMA StopWasSaid ==
  ASSUME RulesTypes, TickTypes, Counted, Foretold, Pass,
         here, halted', ~halted, ~sprung, ~PausedBy(moment + 1),
         active \/ RulesNow(policy, moment + 1, today', override) # "limit"
  PROVE  Said(moment + 1)
<1> DEFINE t == moment + 1
<1>1. PICK h, u \in BOOLEAN :
        /\ today' = Billed(t, u)
        /\ Enforce(h, u, t, Billed(t, u))
  BY DEF Pass
<1> DEFINE d == Billed(t, u)
<1>2. Halts(h, t, d)
  BY <1>1, EnforceIs
<1>3. LocksOut(h, t, d) /\ (IF deadline = Never THEN ToldBy(t) ELSE deadline <= t)
  BY <1>2 DEF Halts
<1>4. RulesNow(policy, t, d, override) # "none"
  BY <1>3 DEF LocksOut, WhyAt
<1>5. moment \in Nat /\ t \in Nat /\ policy \in Policies /\ override \in Int
      /\ today.used \in Int /\ today.earned \in Int
  BY DEF RulesTypes
<1>6. CASE deadline # Never
  <2>1. deadline > moment /\ deadline <= t /\ deadline \in Nat
    BY <1>3, <1>6 DEF Counted, TickTypes
  <2>2. deadline = moment + 1
    BY <1>5, <2>1
  <2> QED BY <1>6, <2>2 DEF Counted
<1>7. CASE deadline = Never
  <2> DEFINE v == NextStop(policy, moment, today, override)
  <2>1. ToldBy(moment)
    BY <1>3, <1>5, <1>7 DEF ToldBy, TickTypes, AnnouncedWithin, Minute
  <2>2. v.at # moment /\ (v.at = moment + 1 /\ (active \/ v.why # "limit") => Said(moment + 1))
    BY <1>7, <2>1 DEF Foretold
  <2>3. d.used \in Int /\ d.earned \in Int
    BY BilledType
  <2> HIDE DEF d
  <2>4. /\ RulesNow(policy, t, d, override) = Why(policy, t) /\ t >= override
        /\ Barred(policy, t) \/ (Limited(policy) /\ d.used >= LimitTicks(policy) + d.earned)
    BY <1>4, <1>5, <2>3, VerdictParts
  <2>5. Barred(policy, t) \/ Gone(policy, FirstTurn(policy, moment, today), t)
    BY <2>4, BilledGone DEF d
  <2>6. v = StopFor(Why(policy, t), t)
    BY <1>5, <2>2, <2>4, <2>5, StopIsNext
  <2>7. v.at = t /\ v.why = Why(policy, t)
    BY <2>6 DEF StopFor
  <2>8. active \/ Why(policy, t) # "limit"
    BY <1>1, <2>4 DEF d
  <2> QED BY <2>2, <2>7, <2>8
<1> QED
  BY <1>6, <1>7

LEMMA PassKeeps ==
  ASSUME RulesTypes, TickTypes, Pass
  PROVE  TickTypes' /\ Counted' /\ Foretold'
<1> DEFINE t == moment + 1
<1>1. PICK h, u \in BOOLEAN :
        /\ moment' = t /\ today' = Billed(t, u) /\ here' = h /\ active' = u
        /\ Enforce(h, u, t, Billed(t, u))
  BY DEF Pass
<1>2. policy' = policy /\ override' = override /\ pausedAt' = pausedAt
  BY DEF Pass
<1> DEFINE d == Billed(t, u)
           c == CountsTo(h, t, d)
           v == NextStop(policy, t, d, override)
           n == Upcoming(h, t, d)
           o == ObserveStop(warner, n, n.at - t)
<1>3. /\ halted' = Halts(h, t, d) /\ deadline' = c
      /\ published' = IF Close(h, t, d) THEN t ELSE published
      /\ warner' = IF ~h \/ Quiet(h, u, t, d) THEN warner ELSE IF n = NoStop THEN Unsaid ELSE o
  BY <1>1, EnforceIs
<1>4. moment \in Nat /\ t \in Nat /\ policy \in Policies /\ override \in Int
  BY DEF RulesTypes
<1>5. d.used \in Int /\ d.earned \in Int
  BY BilledType
<1>6. c \in Nat \cup {Never} /\ (n = NoStop \/ n.at \in Nat)
  BY <1>5, UpcomingType
<1>7. warner.at \in Int /\ (warner.fired # {} => warner.at # Never)
  BY DEF TickTypes
<1>8. n.at \in Nat => o.at \in Int /\ (o.fired # {} => o.at # Never)
  BY <1>7, WarnerKept
<1>9. \A w, x : StopFor(w, x).at = x /\ StopFor(w, x).why = w
  BY DEF StopFor
<1>10. Never \notin Nat /\ NoStop.at = Never /\ Never \in Int
  BY DEF Never, NoStop
<1>11. Halts(h, t, d) <=>
         \/ PausedBy(t) /\ h
         \/ halted /\ WhyAt(h, t, d) # "none"
         \/ LocksOut(h, t, d) /\ (IF deadline = Never THEN ToldBy(t) \/ ~here ELSE deadline <= t)
  BY DEF Halts
<1>12. c = IF WhyAt(h, t, d) = "none" \/ (LocksOut(h, t, d) /\ Halts(h, t, d)) THEN Never
           ELSE IF LocksOut(h, t, d) /\ deadline = Never THEN t + Grace ELSE deadline
  BY DEF CountsTo
<1>13. LocksOut(h, t, d) <=> ~halted /\ WhyAt(h, t, d) # "none" /\ ~PausedBy(t) /\ h
  BY DEF LocksOut
<1>14. n = IF Halts(h, t, d) THEN NoStop
           ELSE IF c # Never THEN StopFor(WhyAt(h, t, d), c)
           ELSE IF v.at = t \/ PausedBy(t) THEN NoStop
           ELSE IF pausedAt # Never /\ (v.at = Never \/ pausedAt < v.at) THEN StopFor("paused", pausedAt)
           ELSE v
  BY DEF Upcoming, Forecast, PausedBy
<1>15. Quiet(h, u, t, d) <=> n.why = "limit" /\ ~u /\ c = Never
  BY DEF Quiet
<1>16. Grace \in Nat \ {0} /\ deadline \in Nat \cup {Never} /\ pausedAt \in Nat \cup {Never}
       /\ published \in Nat \cup {Never}
  BY RulesAssumption DEF TickTypes
<1>17. TickTypes'
  <2>1. Unsaid.at \in Int /\ Unsaid.fired = {}
    BY <1>10 DEF Unsaid
  <2> HIDE DEF c, n, o, t
  <2>2. warner'.at \in Int /\ (warner'.fired # {} => warner'.at # Never)
    BY <1>3, <1>6, <1>7, <1>8, <2>1
  <2>3. deadline' \in Nat \cup {Never} /\ pausedAt' \in Nat \cup {Never}
        /\ published' \in Nat \cup {Never}
    BY <1>2, <1>3, <1>4, <1>6, <1>16
  <2> QED BY <2>2, <2>3 DEF TickTypes
<1>18. Said(moment + 1)' <=> 1 \in warner'.fired /\ ~Elsewhen(warner'.at, t + 1)
  BY <1>1 DEF Said
<1>19. Counted'
  <2> SUFFICES ASSUME h, ~Halts(h, t, d), c # Never
               PROVE  c > t /\ (c = t + 1 => 1 \in warner'.fired /\ ~Elsewhen(warner'.at, t + 1))
    <3> HIDE DEF c, t
    <3>1. Counted' <=> (h /\ ~Halts(h, t, d) /\ c # Never =>
                          c > t /\ (c = t + 1 => Said(moment + 1)'))
      BY <1>1, <1>3 DEF Counted
    <3> QED BY <1>18, <3>1
  <2>1. LocksOut(h, t, d)
    BY <1>11, <1>12, <1>13
  <2>2. c > t
    <3> HIDE DEF c, t, d
    <3>1. c = IF deadline = Never THEN t + Grace ELSE deadline
      BY <1>12, <2>1
    <3>2. deadline # Never => ~ (deadline <= t)
      BY <1>11, <2>1
    <3> QED BY <1>4, <1>16, <3>1, <3>2
  <2>3. n = StopFor(WhyAt(h, t, d), c) /\ n # NoStop /\ n.at = c
    <3> HIDE DEF c, n, t, d, v
    <3>1. n = StopFor(WhyAt(h, t, d), c)
      BY <1>14
    <3> QED BY <1>9, <1>10, <3>1
  <2>4. warner' = o
    <3> HIDE DEF c, t, d, n, o
    <3> QED BY <1>3, <1>15, <2>3
  <2>5. ASSUME c = t + 1 PROVE 1 \in o.fired /\ ~Elsewhen(o.at, t + 1)
    <3>1. n.at = t + 1 /\ n.at - t = 1 /\ n.at \in Nat
      <4> HIDE DEF c, n, t
      <4>1. n.at = t + 1
        BY <2>3, <2>5
      <4>2. t + 1 \in Nat /\ (t + 1) - t = 1
        BY <1>4
      <4> QED BY <4>1, <4>2
    <3> HIDE DEF n, t
    <3>2. o = ObserveStop(warner, n, 1)
      BY <3>1
    <3> HIDE DEF o
    <3>3. 1 \in o.fired /\ ~Elsewhen(o.at, n.at)
      BY <1>7, <3>1, <3>2, SaysIt
    <3> QED BY <3>1, <3>3
  <2> QED BY <2>2, <2>4, <2>5
<1>20. Foretold'
  <2> SUFFICES ASSUME h, ~Halts(h, t, d), c = Never
               PROVE  /\ ~PausedBy(t) /\ v.at # t
                      /\ v.at = t + 1 /\ (u \/ v.why # "limit")
                           => 1 \in warner'.fired /\ ~Elsewhen(warner'.at, t + 1)
    <3>1. NextStop(policy, moment, today, override)' = v
      BY <1>1, <1>2
    <3>2. PausedBy(moment)' <=> PausedBy(t)
      BY <1>1, <1>2 DEF PausedBy
    <3> HIDE DEF c, t, v, d
    <3>3. (h /\ ~Halts(h, t, d) /\ c = Never =>
             /\ ~PausedBy(t) /\ v.at # t
             /\ v.at = t + 1 /\ (u \/ v.why # "limit") => Said(moment + 1)')
          => Foretold'
      BY <1>1, <1>3, <3>1, <3>2 DEF Foretold
    <3> QED BY <1>18, <3>3
  <2>1. ~PausedBy(t)
    BY <1>11
  <2>2. WhyAt(h, t, d) = "none"
    <3> SUFFICES ASSUME WhyAt(h, t, d) # "none" PROVE FALSE
      OBVIOUS
    <3>1. LocksOut(h, t, d)
      BY <1>11, <1>13, <2>1
    <3>2. t + Grace # Never
      BY <1>4, <1>10, <1>16
    <3> HIDE DEF c, t, d
    <3> QED BY <1>12, <3>1, <3>2
  <2>3. RulesNow(policy, t, d, override) = "none"
    BY <2>2 DEF WhyAt
  <2>4. v.at # t
    <3> HIDE DEF d, t
    <3> QED BY <1>4, <1>5, <2>3, VerdictParts
  <2>5. ASSUME v.at = t + 1, u \/ v.why # "limit"
        PROVE  1 \in warner'.fired /\ ~Elsewhen(warner'.at, t + 1)
    <3>1. ~ (pausedAt # Never /\ (v.at = Never \/ pausedAt < v.at))
      <4> HIDE DEF t, v
      <4> QED BY <1>4, <1>10, <1>16, <2>1, <2>5 DEF PausedBy
    <3>2. n = v
      <4> HIDE DEF c, v, n, d, t
      <4> QED BY <1>14, <2>1, <2>4, <3>1
    <3>3. n.at = t + 1 /\ n.at - t = 1 /\ n.at \in Nat /\ n # NoStop
      <4> HIDE DEF v, n
      <4> QED BY <1>4, <1>10, <2>5, <3>2
    <3> HIDE DEF n, t, d, v
    <3>4. warner' = o
      <4> HIDE DEF o, c
      <4> QED BY <1>3, <1>15, <2>5, <3>2, <3>3
    <3>5. o = ObserveStop(warner, n, 1)
      BY <3>3
    <3> HIDE DEF o
    <3>6. 1 \in o.fired /\ ~Elsewhen(o.at, n.at)
      BY <1>7, <3>3, <3>5, SaysIt
    <3> QED BY <3>3, <3>4, <3>6
  <2> QED BY <2>1, <2>4, <2>5
<1> QED
  BY <1>17, <1>19, <1>20

\* What others change takes an announcement back, or comes with none.
LEMMA ChangeKeeps ==
  ASSUME TickTypes, Counted, Foretold, Change,
         (deadline' = deadline /\ (halted => halted')) \/ deadline' = Never,
         pausedAt' \in Nat \cup {Never}
  PROVE  TickTypes' /\ Counted' /\ Foretold'
<1>1. /\ moment' = moment /\ here' = here /\ active' = active /\ published' = published
      /\ warner' = warner /\ (~sprung' => ~ToldBy(moment))
  BY DEF Change, ToldBy
<1>2. TickTypes'
  BY <1>1 DEF TickTypes
<1>3. Counted'
  <2> SUFFICES ASSUME deadline' # Never PROVE Counted'
    BY DEF Counted
  <2>1. Said(moment + 1)' <=> Said(moment + 1)
    BY <1>1 DEF Said
  <2>2. deadline' = deadline /\ (halted => halted')
    OBVIOUS
  <2> QED BY <1>1, <2>1, <2>2 DEF Counted
<1>4. Foretold'
  <2>1. ToldBy(moment)' <=> ToldBy(moment)
    BY <1>1 DEF ToldBy
  <2> SUFFICES ASSUME FALSE PROVE Foretold'
    BY <1>1, <2>1 DEF Foretold
  <2> QED OBVIOUS
<1> QED
  BY <1>2, <1>3, <1>4

\* What the ticks and all that comes between them keep true.
Announcing == RulesTypes /\ TickTypes /\ Counted /\ Foretold

LEMMA AnnouncingInit ==
  ASSUME RulesInit
  PROVE  Announcing
<1>1. RulesTypes
  BY RulesTypesInit
<1>2. TickTypes
  BY DEF RulesInit, TickTypes, Never, Unsaid
<1>3. Counted /\ Foretold
  BY DEF RulesInit, Counted, Foretold
<1> QED
  BY <1>1, <1>2, <1>3 DEF Announcing

LEMMA AnnouncingNext ==
  ASSUME Announcing, [RulesNext]_ruleVars
  PROVE  Announcing'
<1>1. RulesTypes /\ TickTypes /\ Counted /\ Foretold
  BY DEF Announcing
<1>2. RulesTypes'
  BY <1>1, RulesTypesNext
<1>3. pausedAt \in Nat \cup {Never} /\ moment \in Nat
  BY <1>1 DEF TickTypes, RulesTypes
<1> SUFFICES TickTypes' /\ Counted' /\ Foretold'
  BY <1>2 DEF Announcing
<1>4. CASE Pass
  BY <1>1, <1>4, PassKeeps
<1>5. CASE GiveTime
  <2>1. /\ Change /\ pausedAt' = pausedAt
        /\ (deadline' = deadline /\ halted' = halted) \/ deadline' = Never
    BY <1>5 DEF GiveTime
  <2> QED BY <1>1, <1>3, <2>1, ChangeKeeps
<1>6. CASE Snooze
  <2>1. Change /\ pausedAt' = pausedAt /\ deadline' = Never
    BY <1>6 DEF Snooze
  <2> QED BY <1>1, <1>3, <2>1, ChangeKeeps
<1>7. CASE PauseAll
  <2>1. PICK g \in {0, Grace} : pausedAt' = moment + g
    BY <1>7 DEF PauseAll
  <2>2. Change /\ deadline' = deadline /\ (halted => halted')
    BY <1>7 DEF PauseAll
  <2>3. pausedAt' \in Nat \cup {Never}
    BY <1>3, <2>1, RulesAssumption
  <2> QED BY <1>1, <2>2, <2>3, ChangeKeeps
<1>8. CASE Resume
  <2>1. Change /\ pausedAt' = Never /\ deadline' = Never
    BY <1>8 DEF Resume
  <2> QED BY <1>1, <2>1, ChangeKeeps
<1>9. CASE SetRules
  <2>1. Change /\ pausedAt' = pausedAt /\ deadline' = deadline /\ halted' = halted
    BY <1>9 DEF SetRules
  <2> QED BY <1>1, <1>3, <2>1, ChangeKeeps
<1>10. CASE UsedElsewhere
  <2>1. Change /\ pausedAt' = pausedAt /\ deadline' = deadline /\ halted' = halted
    BY <1>10 DEF UsedElsewhere
  <2> QED BY <1>1, <1>3, <2>1, ChangeKeeps
<1>11. CASE UNCHANGED ruleVars
  BY <1>1, <1>11 DEF ruleVars, TickTypes, Counted, Foretold, ToldBy, PausedBy, Said
<1> QED
  BY <1>4, <1>5, <1>6, <1>7, <1>8, <1>9, <1>10, <1>11 DEF RulesNext

\* Nobody who sits there is stopped by the rules without the last minute, or
\* a countdown, having been said with the minute the stop lands in, unless
\* something else was announced and then changed.
THEOREM StopsAreSaid == RulesSpec => StopsAreAnnounced
<1>1. Announcing /\ [RulesNext]_ruleVars => [AnyStopWasSaid]_ruleVars
  <2> SUFFICES ASSUME Announcing, RulesNext, moment' # moment, here, halted', ~halted, ~sprung,
                      ~(pausedAt # Never /\ pausedAt <= moment'),
                      active \/ RulesNow(policy, moment', today', override') # "limit"
               PROVE  1 \in warner.fired /\ ~Elsewhen(warner.at, moment')
    BY DEF AnyStopWasSaid, ruleVars
  <2>1. Pass
    BY DEF RulesNext, GiveTime, Snooze, PauseAll, Resume, SetRules, UsedElsewhere, Change
  <2>2. moment' = moment + 1 /\ override' = override
    BY <2>1 DEF Pass
  <2>3. ~PausedBy(moment + 1)
    BY <2>2 DEF PausedBy
  <2>4. Said(moment + 1)
    BY <2>1, <2>2, <2>3, StopWasSaid DEF Announcing
  <2> QED BY <2>2, <2>4 DEF Said
<1>2. RulesInit => Announcing
  BY AnnouncingInit
<1>3. Announcing /\ [RulesNext]_ruleVars => Announcing'
  BY AnnouncingNext
<1> QED
  BY <1>1, <1>2, <1>3, PTL DEF RulesSpec, StopsAreAnnounced

=============================================================================
