--------------------------- MODULE BrokerClockProofs ---------------------------
(***************************************************************************)
(* What holds of the broker clock for any half hour, tolerance, range of   *)
(* offsets, zones, skews, symbols and readers.                             *)
(***************************************************************************)
EXTENDS BrokerClock, TLAPS

\* What the clock does to a reading: it keeps how far every tick's raw stamp is
\* from its true time.
TicksAreInAZone ==
    \A s \in Symbols : ticks[s] # None => \E z \in Offsets : ticks[s].raw = ticks[s].stamp + z

ReadsAreInAZone ==
    \A r \in Readers : reads[r] # None => \E z \in Offsets : reads[r].raw = reads[r].stamp + z

\* The inductive invariant.
ClockInv ==
    /\ TypeOK
    /\ TicksAreInAZone
    /\ ReadsAreInAZone
    /\ CorrectedByHalfHours
    /\ UsedIsFreshUpToHalfHours

-----------------------------------------------------------------------------
\* Integer division is the quotient that leaves a small remainder.
LEMMA Quotient ==
    ASSUME NEW a \in Int, NEW b \in Int, b > 0
    PROVE  /\ a \div b \in Int
           /\ \A q \in Int : q * b <= a /\ a < q * b + b => a \div b = q
<1>1. a \div b \in Int
  OBVIOUS
<1>2. b * (a \div b) <= a /\ a < b * (a \div b) + b
  OBVIOUS
<1>3. ASSUME NEW q \in Int, NEW d \in Int, q * b <= a, a < q * b + b,
             b * d <= a, a < b * d + b
      PROVE  d = q
  BY <1>3
<1> QED BY <1>1, <1>2, <1>3

\* A multiple of a half hour within the plausible range is an offset.
LEMMA MultipleIsOffset ==
    ASSUME NEW k \in Int, -MaxOffset <= k * HalfHour, k * HalfHour <= MaxOffset
    PROVE  k * HalfHour \in Offsets
<1>1. HalfHour \in Int /\ HalfHour >= 1 /\ MaxOffset \in Int /\ MaxOffset >= 0
  BY BrokerClockAssumption
<1>2. k <= MaxOffset
  <2>1. CASE k <= 0
    BY <2>1, <1>1
  <2>2. CASE k > 0
    <3>1. k * HalfHour >= k
      BY <2>2, <1>1
    <3> QED BY <3>1, <1>1
  <2> QED BY <2>1, <2>2
<1>3. -MaxOffset <= k
  <2>1. CASE k >= 0
    BY <2>1, <1>1
  <2>2. CASE k < 0
    <3>1. k * HalfHour <= k
      BY <2>2, <1>1
    <3> QED BY <3>1, <1>1
  <2> QED BY <2>1, <2>2
<1>4. k \in -MaxOffset..MaxOffset
  BY <1>1, <1>2, <1>3
<1>5. k * HalfHour \in HalfHours
  BY <1>4 DEF HalfHours
<1> QED BY <1>5 DEF Offsets

\* The nearest half hour is a multiple of a half hour.
LEMMA NearestIsMultiple ==
    ASSUME NEW x \in Int
    PROVE  \E k \in Int : NearestHalfHour(x) = k * HalfHour
<1>1. HalfHour \in Int /\ HalfHour >= 1
  BY BrokerClockAssumption
<1> DEFINE units(y) == (2 * y + HalfHour) \div (2 * HalfHour)
           k == IF x >= 0 THEN units(x) ELSE -units(-x)
<1>2. ASSUME NEW y \in Int
      PROVE  units(y) \in Int
  <2>1. 2 * y + HalfHour \in Int /\ 2 * HalfHour \in Int /\ 2 * HalfHour > 0
    BY <1>1
  <2> QED BY <2>1, Quotient
<1>3. k \in Int
  <2>1. units(x) \in Int /\ -x \in Int
    BY <1>2
  <2>2. units(-x) \in Int
    BY <1>2, <2>1
  <2> HIDE DEF units
  <2> QED BY <2>1, <2>2
<1>4. NearestHalfHour(x) = HalfHour * k
  BY DEF NearestHalfHour
<1>5. HalfHour * k = k * HalfHour
  <2> HIDE DEF k
  <2> QED BY <1>1, <1>3
<1> QED BY <1>3, <1>4, <1>5

LEMMA OffsetIsMultiple ==
    ASSUME NEW o \in Offsets
    PROVE  o \in Int /\ -MaxOffset <= o /\ o <= MaxOffset /\ \E k \in Int : o = k * HalfHour
<1>1. HalfHour \in Int /\ MaxOffset \in Int
  BY BrokerClockAssumption
<1>2. PICK k \in -MaxOffset..MaxOffset : o = k * HalfHour
  BY DEF Offsets, HalfHours
<1>3. k \in Int /\ o \in Int
  BY <1>1, <1>2
<1> QED BY <1>2, <1>3 DEF Offsets

\* A calibration that does not fail is an offset.
LEMMA CalibrationIsOffset ==
    ASSUME NEW raw \in Int, NEW at \in Int, offset \in Offsets \cup {None}, Calibration(raw, at) # None
    PROVE  Calibration(raw, at) \in Offsets
<1>1. HalfHour \in Int /\ MaxOffset \in Int
  BY BrokerClockAssumption
<1>2. CASE offset = None
  <2>1. PICK k \in Int : NearestHalfHour(raw - at) = k * HalfHour
    BY NearestIsMultiple
  <2>2. Calibration(raw, at) = InitialCalibration(raw, at)
    BY <1>2 DEF Calibration
  <2>3. Calibration(raw, at) = k * HalfHour /\ ~ (Abs(k * HalfHour) > MaxOffset)
    BY <2>1, <2>2 DEF InitialCalibration
  <2>4. k * HalfHour \in Int
    BY <1>1
  <2>5. -MaxOffset <= k * HalfHour /\ k * HalfHour <= MaxOffset
    BY <2>3, <2>4, <1>1 DEF Abs
  <2> QED BY <2>3, <2>5, MultipleIsOffset
<1>3. CASE offset # None
  <2>1. offset \in Offsets
    BY <1>3
  <2>2. offset \in Int
    BY <2>1, OffsetIsMultiple
  <2>3. PICK k \in Int : offset = k * HalfHour
    BY <2>1, OffsetIsMultiple
  <2>4. PICK c \in Int : NearestHalfHour(raw - offset - at) = c * HalfHour
    BY <2>2, NearestIsMultiple
  <2>5. Calibration(raw, at) = Recalibration(raw, at)
    BY <1>3 DEF Calibration
  <2>6. CASE Calibration(raw, at) = offset
    BY <2>1, <2>6
  <2>7. CASE Calibration(raw, at) # offset
    <3>1. /\ Calibration(raw, at) = offset + c * HalfHour
          /\ ~ (Abs(offset + c * HalfHour) > MaxOffset)
      BY <2>4, <2>5, <2>7 DEF Recalibration
    <3>2. k + c \in Int /\ offset + c * HalfHour = (k + c) * HalfHour
      BY <2>3, <1>1
    <3>3. (k + c) * HalfHour \in Int
      BY <3>2, <1>1
    <3>4. -MaxOffset <= (k + c) * HalfHour /\ (k + c) * HalfHour <= MaxOffset
      BY <3>1, <3>2, <3>3, <1>1 DEF Abs
    <3> QED BY <3>1, <3>2, <3>4, MultipleIsOffset
  <2> QED BY <2>6, <2>7
<1> QED BY <1>2, <1>3

\* A difference close to a multiple of a half hour is nearest to that one.
LEMMA NearestOfClose ==
    ASSUME NEW k \in Int, NEW x \in Int,
           -Tolerance <= x - k * HalfHour, x - k * HalfHour <= Tolerance
    PROVE  NearestHalfHour(x) = k * HalfHour
<1>1. HalfHour \in Int /\ HalfHour >= 1 /\ Tolerance \in Int /\ 2 * Tolerance < HalfHour
  BY BrokerClockAssumption
<1> DEFINE units(y) == (2 * y + HalfHour) \div (2 * HalfHour)
           b == 2 * HalfHour
<1>2. b \in Int /\ b > 0
  BY <1>1
<1>3. ASSUME NEW y \in Int, NEW q \in Int,
             -Tolerance <= y - q * HalfHour, y - q * HalfHour <= Tolerance
      PROVE  units(y) = q
  <2>1. 2 * y + HalfHour \in Int
    BY <1>1
  <2>2. q * HalfHour \in Int /\ q * b = 2 * (q * HalfHour)
    BY <1>1
  <2>3. q * b <= 2 * y + HalfHour /\ 2 * y + HalfHour < q * b + b
    BY <1>1, <1>3, <2>2
  <2> HIDE DEF b
  <2>4. (2 * y + HalfHour) \div b = q
    BY <1>2, <2>1, <2>3, Quotient
  <2> QED BY <2>4 DEF b
<1>4. CASE x >= 0
  <2>1. units(x) = k
    BY <1>3
  <2>2. NearestHalfHour(x) = HalfHour * units(x)
    BY <1>4 DEF NearestHalfHour
  <2> HIDE DEF units
  <2> QED BY <1>1, <2>1, <2>2
<1>5. CASE ~ (x >= 0)
  <2>1. -x \in Int /\ -k \in Int /\ k * HalfHour \in Int /\ (-k) * HalfHour = -(k * HalfHour)
    BY <1>1
  <2>2. -Tolerance <= -x - (-k) * HalfHour /\ -x - (-k) * HalfHour <= Tolerance
    BY <1>1, <2>1
  <2>3. units(-x) = -k
    BY <1>3, <2>1, <2>2
  <2>4. NearestHalfHour(x) = HalfHour * (-units(-x))
    BY <1>5 DEF NearestHalfHour
  <2> HIDE DEF units
  <2> QED BY <1>1, <2>3, <2>4
<1> QED BY <1>4, <1>5

\* A calibration from a new tick is the zone the tick was stamped in.
LEMMA CalibrationFromNewTick ==
    ASSUME NEW stamp \in Int, NEW z \in Offsets, NEW at \in Int, offset \in Offsets \cup {None},
           -Tolerance <= stamp - at, stamp - at <= Tolerance
    PROVE  Calibration(stamp + z, at) = z
<1>1. HalfHour \in Int /\ MaxOffset \in Int /\ Tolerance \in Int
  BY BrokerClockAssumption
<1>2. PICK k \in Int : z = k * HalfHour
  BY OffsetIsMultiple
<1>3. z \in Int /\ -MaxOffset <= z /\ z <= MaxOffset
  BY OffsetIsMultiple
<1>4. z # None
  BY <1>3, BrokerClockAssumption
<1>5. CASE offset = None
  <2> DEFINE x == stamp + z - at
  <2>1. x \in Int /\ -Tolerance <= x - k * HalfHour /\ x - k * HalfHour <= Tolerance
    BY <1>2, <1>3
  <2>2. NearestHalfHour(x) = z
    <3> HIDE DEF x
    <3> QED BY <2>1, <1>2, NearestOfClose
  <2>3. ~ (Abs(z) > MaxOffset) /\ ~ (Abs(x - z) > Tolerance)
    BY <1>1, <1>3 DEF Abs
  <2>4. InitialCalibration(stamp + z, at) = z
    BY <1>1, <1>3, <2>1, <2>2, <2>3 DEF InitialCalibration, Abs
  <2> QED BY <1>5, <2>4 DEF Calibration
<1>6. CASE offset # None
  <2> DEFINE x == stamp + z - offset - at
  <2>1. offset \in Offsets
    BY <1>6
  <2>2. offset \in Int
    BY <2>1, OffsetIsMultiple
  <2>3. PICK o \in Int : offset = o * HalfHour
    BY <2>1, OffsetIsMultiple
  <2>4. k - o \in Int /\ z - offset = (k - o) * HalfHour
    BY <1>1, <1>2, <2>3
  <2>5. x \in Int /\ -Tolerance <= x - (z - offset) /\ x - (z - offset) <= Tolerance
    BY <1>3, <2>2
  <2>6. NearestHalfHour(x) = z - offset
    <3> HIDE DEF x
    <3> QED BY <2>4, <2>5, NearestOfClose
  <2>7. ~ (Abs(x - (z - offset)) > Tolerance) /\ offset + (z - offset) = z
    BY <1>1, <1>3, <2>2 DEF Abs
  <2>8. ~ (Abs(z) > MaxOffset)
    BY <1>1, <1>3 DEF Abs
  <2>9. Recalibration(stamp + z, at) = z
    <3>1. CASE z - offset = 0
      BY <3>1, <2>6, <2>2, <1>3 DEF Recalibration
    <3>2. CASE z - offset # 0
      BY <1>1, <1>3, <2>2, <2>5, <3>2, <2>6, <2>7, <2>8 DEF Recalibration, Abs
    <3> QED BY <3>1, <3>2
  <2> QED BY <1>6, <2>9 DEF Calibration
<1> QED BY <1>5, <1>6

-----------------------------------------------------------------------------
LEMMA ClockInitInv == Init => ClockInv
  BY DEF Init, ClockInv, TypeOK, TicksAreInAZone, ReadsAreInAZone, CorrectedByHalfHours, UsedIsFreshUpToHalfHours

\* Fetching a tick keeps the invariant: its stamp is in a zone.
LEMMA ReadTickInv ==
    ASSUME ClockInv, NEW r \in Readers, NEW s \in Symbols, ReadTick(r, s)
    PROVE  ClockInv'
<1>1. /\ ticks[s] \in [stamp: Int, raw: Int]
      /\ reads \in [Readers -> [stamp: Int, raw: Int, at: Int \cup {None}] \cup {None}]
  BY DEF ClockInv, TypeOK, ReadTick
<1>2. PICK z \in Offsets : ticks[s].raw = ticks[s].stamp + z
  BY DEF ClockInv, TicksAreInAZone, ReadTick
<1>3. PICK read : read = [stamp |-> ticks[s].stamp, raw |-> ticks[s].raw, at |-> None]
  OBVIOUS
<1>4. /\ read \in [stamp: Int, raw: Int, at: Int \cup {None}]
      /\ read.raw = read.stamp + z
  BY <1>1, <1>2, <1>3
<1>5. reads' = [reads EXCEPT ![r] = read] /\ UNCHANGED <<now, zone, ticks, offset, readers, used>>
  BY <1>3 DEF ReadTick
<1>6. TypeOK'
  <2>1. reads' \in [Readers -> [stamp: Int, raw: Int, at: Int \cup {None}] \cup {None}]
    BY <1>1, <1>4, <1>5
  <2> QED BY <1>5, <2>1 DEF ClockInv, TypeOK
<1>7. ReadsAreInAZone'
  BY <1>1, <1>4, <1>5 DEF ClockInv, ReadsAreInAZone
<1>8. TicksAreInAZone' /\ CorrectedByHalfHours' /\ UsedIsFreshUpToHalfHours'
  BY <1>5 DEF ClockInv, TicksAreInAZone, CorrectedByHalfHours, UsedIsFreshUpToHalfHours
<1> QED BY <1>6, <1>7, <1>8 DEF ClockInv

\* So does looking at the clock.
LEMMA ReadClockInv ==
    ASSUME ClockInv, NEW r \in Readers, ReadClock(r)
    PROVE  ClockInv'
<1>1. /\ reads[r] \in [stamp: Int, raw: Int, at: Int \cup {None}] /\ now \in Int
      /\ reads \in [Readers -> [stamp: Int, raw: Int, at: Int \cup {None}] \cup {None}]
  BY DEF ClockInv, TypeOK, ReadClock
<1>2. PICK read : read = [reads[r] EXCEPT !.at = now]  OBVIOUS
<1>3. /\ read \in [stamp: Int, raw: Int, at: Int \cup {None}]
      /\ read.raw = reads[r].raw /\ read.stamp = reads[r].stamp
  BY <1>1, <1>2
<1>4. reads' = [reads EXCEPT ![r] = read] /\ UNCHANGED <<now, zone, ticks, offset, readers, used>>
  BY <1>2 DEF ReadClock
<1>5. TypeOK'
  <2>1. reads' \in [Readers -> [stamp: Int, raw: Int, at: Int \cup {None}] \cup {None}]
    BY <1>1, <1>3, <1>4
  <2> QED BY <1>4, <2>1 DEF ClockInv, TypeOK
<1>6. ReadsAreInAZone'
  <2>1. PICK z \in Offsets : reads[r].raw = reads[r].stamp + z
    BY DEF ClockInv, ReadsAreInAZone, ReadClock
  <2> QED BY <1>1, <1>3, <1>4, <2>1 DEF ClockInv, ReadsAreInAZone
<1>7. TicksAreInAZone' /\ CorrectedByHalfHours' /\ UsedIsFreshUpToHalfHours'
  BY <1>4 DEF ClockInv, TicksAreInAZone, CorrectedByHalfHours, UsedIsFreshUpToHalfHours
<1> QED BY <1>5, <1>6, <1>7 DEF ClockInv

\* And correcting it under the lock, whatever the calibration has become.
LEMMA CorrectTickInv ==
    ASSUME ClockInv, NEW r \in Readers, CorrectTick(r)
    PROVE  ClockInv'
<1> DEFINE raw == reads[r].raw
           stamp == reads[r].stamp
           at == reads[r].at
           new == Calibration(raw, at)
           utc == IF new = None THEN None ELSE raw - new
<1>1. /\ offset \in Offsets \cup {None}
      /\ reads[r] \in [stamp: Int, raw: Int, at: Int \cup {None}] /\ reads[r].at # None
      /\ reads \in [Readers -> [stamp: Int, raw: Int, at: Int \cup {None}] \cup {None}]
      /\ readers \in [Readers -> [stamp: Int, utc: Int \cup {None}] \cup {None}]
  BY DEF ClockInv, TypeOK, CorrectTick
<1>2. raw \in Int /\ stamp \in Int /\ at \in Int
  BY <1>1
<1>3. new # None => new \in Offsets
  <2> HIDE DEF raw, at
  <2> QED BY <1>1, <1>2, CalibrationIsOffset
<1>4. PICK z \in Offsets : raw = stamp + z
  BY DEF ClockInv, ReadsAreInAZone, CorrectTick
<1>5. new # None => utc \in Int /\ utc = stamp + z - new
  <2>1. z \in Int /\ (new # None => new \in Int)
    BY <1>3, OffsetIsMultiple
  <2> HIDE DEF new, raw, stamp
  <2> QED BY <1>2, <1>4, <2>1
<1>6. /\ offset' = IF new = None THEN offset ELSE new
      /\ readers' = [readers EXCEPT ![r] = [stamp |-> stamp, utc |-> utc]]
      /\ reads' = [reads EXCEPT ![r] = None]
      /\ UNCHANGED <<now, zone, ticks, used>>
  BY DEF CorrectTick
<1> HIDE DEF utc, new, at, stamp, raw
<1>7. utc \in Int \cup {None} /\ (utc # None => new # None)
  BY <1>5 DEF utc
<1>8. TypeOK'
  <2>1. offset' \in Offsets \cup {None}
    BY <1>1, <1>3, <1>6
  <2>2. [stamp |-> stamp, utc |-> utc] \in [stamp: Int, utc: Int \cup {None}]
    BY <1>2, <1>7
  <2>3. readers' \in [Readers -> [stamp: Int, utc: Int \cup {None}] \cup {None}]
    BY <1>1, <1>6, <2>2
  <2>4. reads' \in [Readers -> [stamp: Int, raw: Int, at: Int \cup {None}] \cup {None}]
    BY <1>1, <1>6
  <2> QED BY <1>6, <2>1, <2>3, <2>4 DEF ClockInv, TypeOK
<1>9. CorrectedByHalfHours'
  <2> SUFFICES ASSUME NEW q \in Readers, readers'[q] # None, readers'[q].utc # None
               PROVE  \E y, o \in Offsets : readers'[q].utc = readers'[q].stamp + y - o
    BY DEF CorrectedByHalfHours
  <2>1. CASE q = r
    <3>1. readers'[q] = [stamp |-> stamp, utc |-> utc]
      BY <2>1, <1>1, <1>6
    <3>2. readers'[q].utc = utc /\ readers'[q].stamp = stamp
      BY <3>1
    <3>3. new \in Offsets /\ utc = stamp + z - new
      BY <3>2, <1>3, <1>5, <1>7
    <3> QED BY <3>2, <3>3
  <2>2. CASE q # r
    <3>1. readers'[q] = readers[q]
      BY <2>2, <1>1, <1>6
    <3> QED BY <3>1 DEF ClockInv, CorrectedByHalfHours
  <2> QED BY <2>1, <2>2
<1>10. TicksAreInAZone' /\ UsedIsFreshUpToHalfHours'
  BY <1>6 DEF ClockInv, TicksAreInAZone, UsedIsFreshUpToHalfHours
<1>11. ReadsAreInAZone'
  BY <1>1, <1>6 DEF ClockInv, ReadsAreInAZone
<1> QED BY <1>8, <1>9, <1>10, <1>11 DEF ClockInv

\* So does validating it.
LEMMA ValidateQuoteInv ==
    ASSUME ClockInv, NEW r \in Readers, ValidateQuote(r)
    PROVE  ClockInv'
<1>1. /\ now \in Nat /\ readers[r] \in [stamp: Int, utc: Int \cup {None}]
      /\ readers \in [Readers -> [stamp: Int, utc: Int \cup {None}] \cup {None}]
  BY DEF ClockInv, TypeOK, ValidateQuote
<1>2. /\ used' = IF Fresh(readers[r].utc) THEN [stamp |-> readers[r].stamp, when |-> now] ELSE used
      /\ readers' = [readers EXCEPT ![r] = None]
      /\ UNCHANGED <<now, zone, ticks, offset, reads>>
  BY DEF ValidateQuote
<1>3. readers[r].stamp \in Int /\ readers[r].utc \in Int \cup {None}
  BY <1>1
<1>4. TypeOK'
  <2>1. [stamp |-> readers[r].stamp, when |-> now] \in [stamp: Int, when: Int]
    BY <1>1, <1>3
  <2>2. used' \in [stamp: Int, when: Int] \cup {None}
    BY <1>2, <2>1 DEF ClockInv, TypeOK
  <2>3. readers' \in [Readers -> [stamp: Int, utc: Int \cup {None}] \cup {None}]
    BY <1>1, <1>2
  <2> QED BY <1>2, <2>2, <2>3 DEF ClockInv, TypeOK
<1>5. CorrectedByHalfHours'
  <2> SUFFICES ASSUME NEW q \in Readers, readers'[q] # None, readers'[q].utc # None
               PROVE  \E y, o \in Offsets : readers'[q].utc = readers'[q].stamp + y - o
    BY DEF CorrectedByHalfHours
  <2>1. readers'[q] = readers[q]
    BY <1>1, <1>2
  <2> QED BY <2>1 DEF ClockInv, CorrectedByHalfHours
<1>6. UsedIsFreshUpToHalfHours'
  <2>1. CASE Fresh(readers[r].utc)
    <3>1. readers[r] # None /\ readers[r].utc # None
      BY <2>1 DEF Fresh, ValidateQuote
    <3>2. PICK z \in Offsets, o \in Offsets : readers[r].utc = readers[r].stamp + z - o
      BY <3>1 DEF ClockInv, CorrectedByHalfHours
    <3>3. used'.stamp = readers[r].stamp /\ used'.when = now
      BY <2>1, <1>2
    <3>4. -MaxFutureSkew <= now - readers[r].utc /\ now - readers[r].utc <= MaxAge
      BY <2>1 DEF Fresh
    <3>5. /\ -MaxFutureSkew <= used'.when - (used'.stamp + z - o)
          /\ used'.when - (used'.stamp + z - o) <= MaxAge
      BY <3>2, <3>3, <3>4
    <3> QED BY <3>5 DEF UsedIsFreshUpToHalfHours
  <2>2. CASE ~ Fresh(readers[r].utc)
    BY <2>2, <1>2 DEF ClockInv, UsedIsFreshUpToHalfHours
  <2> QED BY <2>1, <2>2
<1>7. TicksAreInAZone' /\ ReadsAreInAZone'
  BY <1>2 DEF ClockInv, TicksAreInAZone, ReadsAreInAZone
<1> QED BY <1>4, <1>5, <1>6, <1>7 DEF ClockInv

\* And the broker's part.
LEMMA QuoteInv ==
    ASSUME ClockInv, NEW s \in Symbols, Quote(s)
    PROVE  ClockInv'
<1>1. PICK skew \in Skews :
        ticks' = [ticks EXCEPT ![s] = [stamp |-> now + skew, raw |-> now + skew + zone]]
  BY DEF Quote
<1>2. UNCHANGED <<now, zone, offset, reads, readers, used>>
  BY DEF Quote
<1>3. zone \in Offsets /\ zone \in Int /\ now + skew \in Int /\ now + skew + zone \in Int
  <2>1. zone \in Offsets /\ skew \in Int /\ now \in Int
    BY BrokerClockAssumption DEF ClockInv, TypeOK
  <2> QED BY <2>1, OffsetIsMultiple
<1>4. ticks \in [Symbols -> [stamp: Int, raw: Int] \cup {None}]
  BY DEF ClockInv, TypeOK
<1>5. [stamp |-> now + skew, raw |-> now + skew + zone] \in [stamp: Int, raw: Int]
  BY <1>3
<1>6. ticks' \in [Symbols -> [stamp: Int, raw: Int] \cup {None}]
  BY <1>1, <1>4, <1>5
<1>7. TypeOK'
  BY <1>2, <1>6 DEF ClockInv, TypeOK
<1>8. TicksAreInAZone'
  <2> SUFFICES ASSUME NEW q \in Symbols, ticks'[q] # None
               PROVE  \E z \in Offsets : ticks'[q].raw = ticks'[q].stamp + z
    BY DEF TicksAreInAZone
  <2>1. CASE q = s
    <3>1. ticks'[q].raw = now + skew + zone /\ ticks'[q].stamp = now + skew
      BY <2>1, <1>1, <1>4
    <3> QED BY <3>1, <1>3
  <2>2. CASE q # s
    <3>1. ticks'[q] = ticks[q]
      BY <2>2, <1>1, <1>4
    <3> QED BY <3>1 DEF ClockInv, TicksAreInAZone
  <2> QED BY <2>1, <2>2
<1>9. ReadsAreInAZone' /\ CorrectedByHalfHours' /\ UsedIsFreshUpToHalfHours'
  BY <1>2 DEF ClockInv, ReadsAreInAZone, CorrectedByHalfHours, UsedIsFreshUpToHalfHours
<1> QED BY <1>7, <1>8, <1>9 DEF ClockInv

LEMMA ClockInvStep == ClockInv /\ [Next]_vars => ClockInv'
<1> SUFFICES ASSUME ClockInv, [Next]_vars PROVE ClockInv'
  OBVIOUS
<1>1. ASSUME NEW r \in Readers, NEW s \in Symbols, ReadTick(r, s) PROVE ClockInv'
  BY <1>1, ReadTickInv
<1>2. ASSUME NEW r \in Readers, ReadClock(r) PROVE ClockInv'
  BY <1>2, ReadClockInv
<1>3. ASSUME NEW r \in Readers, CorrectTick(r) PROVE ClockInv'
  BY <1>3, CorrectTickInv
<1>4. ASSUME NEW r \in Readers, ValidateQuote(r) PROVE ClockInv'
  BY <1>4, ValidateQuoteInv
<1>5. CASE Restart
  <2>1. /\ reads' = [r \in Readers |-> None] /\ readers' = [r \in Readers |-> None]
        /\ offset' = None /\ UNCHANGED <<now, zone, ticks, used>>
    BY <1>5 DEF Restart
  <2> QED BY <2>1 DEF ClockInv, TypeOK, TicksAreInAZone, ReadsAreInAZone,
            CorrectedByHalfHours, UsedIsFreshUpToHalfHours
<1>6. ASSUME NEW s \in Symbols, Quote(s) PROVE ClockInv'
  BY <1>6, QuoteInv
<1>7. CASE ChangeZone
  BY <1>7 DEF ChangeZone, ClockInv, TypeOK, TicksAreInAZone, ReadsAreInAZone,
            CorrectedByHalfHours, UsedIsFreshUpToHalfHours
<1>8. CASE Pass
  BY <1>8 DEF Pass, ClockInv, TypeOK, TicksAreInAZone, ReadsAreInAZone,
            CorrectedByHalfHours, UsedIsFreshUpToHalfHours
<1>9. CASE UNCHANGED vars
  BY <1>9 DEF vars, ClockInv, TypeOK, TicksAreInAZone, ReadsAreInAZone,
            CorrectedByHalfHours, UsedIsFreshUpToHalfHours
<1> QED BY <1>1, <1>2, <1>3, <1>4, <1>5, <1>6, <1>7, <1>8, <1>9 DEF Next

\* The clock, the ticks and the readers have their types; the calibration is
\* always a whole number of half hours within the plausible range.
THEOREM ClockTypes == Spec => []TypeOK
<1>1. ClockInv => TypeOK
  BY DEF ClockInv
<1> QED BY ClockInitInv, ClockInvStep, <1>1, PTL DEF Spec

\* Every correction is wrong by whole half hours only, however stale the ticks
\* the calibration was made from and whichever threads made it.
THEOREM CorrectionsAreHalfHours == Spec => []CorrectedByHalfHours
<1>1. ClockInv => CorrectedByHalfHours
  BY DEF ClockInv
<1> QED BY ClockInitInv, ClockInvStep, <1>1, PTL DEF Spec

\* A quote found fresh is fresh by its true time up to whole half hours.
THEOREM UsedQuotesAreFresh == Spec => []UsedIsFreshUpToHalfHours
<1>1. ClockInv => UsedIsFreshUpToHalfHours
  BY DEF ClockInv
<1> QED BY ClockInitInv, ClockInvStep, <1>1, PTL DEF Spec

\* One step of the theorem below.
LEMMA NewTickStep ==
    ASSUME ClockInv, [Next]_vars, NEW r \in Readers, readers[r] = None, readers'[r] # None,
           Abs(reads[r].stamp - reads[r].at) <= Tolerance
    PROVE  readers'[r].utc = readers'[r].stamp
<1>1. readers \in [Readers -> [stamp: Int, utc: Int \cup {None}] \cup {None}]
  BY DEF ClockInv, TypeOK
<1>2. CorrectTick(r)
  <2>1. ASSUME NEW q \in Readers, CorrectTick(q) PROVE q = r
    BY <2>1, <1>1 DEF CorrectTick
  <2>2. ASSUME NEW q \in Readers, ValidateQuote(q) PROVE FALSE
    BY <2>2, <1>1 DEF ValidateQuote
  <2>3. ~ Restart /\ ~ ChangeZone /\ ~ Pass /\ ~ UNCHANGED vars
    BY DEF Restart, ChangeZone, Pass, vars
  <2>4. /\ \A s \in Symbols : ~ Quote(s)
        /\ \A q \in Readers : ~ ReadClock(q) /\ \A s \in Symbols : ~ ReadTick(q, s)
    BY DEF Quote, ReadTick, ReadClock
  <2> QED BY <2>1, <2>2, <2>3, <2>4 DEF Next
<1> DEFINE raw == reads[r].raw
           stamp == reads[r].stamp
           at == reads[r].at
           new == Calibration(raw, at)
<1>3. readers' = [readers EXCEPT ![r] = [stamp |-> stamp, utc |-> IF new = None THEN None ELSE raw - new]]
  BY <1>2 DEF CorrectTick
<1>4. readers'[r] = [stamp |-> stamp, utc |-> IF new = None THEN None ELSE raw - new]
  BY <1>1, <1>3
<1>5. /\ offset \in Offsets \cup {None} /\ reads[r].at # None
      /\ reads[r] \in [stamp: Int, raw: Int, at: Int \cup {None}]
  BY <1>2 DEF ClockInv, TypeOK, CorrectTick
<1>6. raw \in Int /\ stamp \in Int /\ at \in Int
  BY <1>5
<1>7. PICK z \in Offsets : raw = stamp + z
  BY <1>2 DEF ClockInv, ReadsAreInAZone, CorrectTick
<1>8. Abs(stamp - at) <= Tolerance
  OBVIOUS
<1> HIDE DEF raw, stamp, at
<1>9. readers'[r].stamp = stamp /\ readers'[r].utc = IF new = None THEN None ELSE raw - new
  BY <1>4
<1>10. -Tolerance <= stamp - at /\ stamp - at <= Tolerance
  BY <1>6, <1>8, BrokerClockAssumption DEF Abs
<1>11. new = z
  BY <1>5, <1>6, <1>7, <1>10, CalibrationFromNewTick
<1>12. z \in Int /\ z # None
  BY OffsetIsMultiple, BrokerClockAssumption
<1> HIDE DEF new
<1> QED BY <1>6, <1>7, <1>9, <1>11, <1>12

\* A tick that is new when its reader looks at the clock is corrected exactly,
\* whatever other threads have made of the calibration before the lock is free:
\* one live quote repairs a clock change and any damage of stale ticks.
THEOREM NewTicksAreExact == Spec => NewTickIsExact
<1>1. ClockInv /\ [Next]_vars =>
        [\A r \in Readers :
            readers[r] = None /\ readers'[r] # None /\ Abs(reads[r].stamp - reads[r].at) <= Tolerance
              => readers'[r].utc = readers'[r].stamp]_readers
  BY NewTickStep
<1> QED BY ClockInitInv, ClockInvStep, <1>1, PTL DEF Spec, NewTickIsExact
=============================================================================
