------------------------------ MODULE BrokerClock ------------------------------
(***************************************************************************)
(* The bridge's correction of live tick timestamps and the freshness check *)
(* of the quotes it trades on: mt5_bridge/server_clock.py, the tick read   *)
(* of mt5_bridge/backend.py and mt5_bridge/quote_freshness.py.             *)
(*                                                                         *)
(* MetaTrader5 stamps a tick with the trade server's own clock, some whole *)
(* number of half hours from UTC that changes with daylight saving.  The   *)
(* bridge guesses the offset from the ticks themselves, which may be old,  *)
(* under one lock, for all symbols and all request threads.                *)
(*                                                                         *)
(* Times are integers in a unit of the model's choice; the code compares   *)
(* the same differences as floating-point seconds.  Timezone-naive         *)
(* timestamps, which the backend never makes, are left out.                *)
(***************************************************************************)
EXTENDS Integers

CONSTANTS
    Symbols,
    Readers,        \* request threads that read a quote
    HalfHour,       \* HALF_HOUR_SECONDS
    Tolerance,      \* CALIBRATION_RESIDUAL_TOLERANCE_SECONDS
    MaxOffset,      \* MAX_BROKER_OFFSET_SECONDS
    MaxAge,         \* max_quote_age_seconds
    MaxFutureSkew,  \* max_quote_future_skew_seconds
    Zones,          \* offsets the trade server's clock may have
    Skews,          \* how far a new tick's stamp may be from the bridge's clock
    MaxNow,         \* bound on time, for model checking
    None            \* no tick, no calibration, no timestamp

\* The offsets a calibration accepts.
HalfHours == {k * HalfHour : k \in -MaxOffset..MaxOffset}
Offsets == {o \in HalfHours : -MaxOffset <= o /\ o <= MaxOffset}

ASSUME BrokerClockAssumption ==
    /\ HalfHour \in Nat \ {0}
    /\ Tolerance \in Nat
    /\ 2 * Tolerance < HalfHour
    /\ MaxOffset \in Nat
    /\ MaxAge \in Nat
    /\ MaxFutureSkew \in Nat
    /\ Zones \subseteq Offsets
    /\ Skews \subseteq Int
    /\ None \notin Int
    /\ None \notin [stamp: Int, raw: Int]
    /\ None \notin [stamp: Int, raw: Int, at: Int \cup {None}]
    /\ None \notin [stamp: Int, utc: Int \cup {None}]
    /\ None \notin [stamp: Int, when: Int]

VARIABLES
    now,      \* the bridge's clock
    zone,     \* the trade server's present offset from UTC
    ticks,    \* the last tick of each symbol: its true time and its raw stamp
    offset,   \* the calibration
    reads,    \* the tick each reader has fetched, and when it looked at the clock
    readers,  \* the quote each reader holds, with its corrected timestamp
    used      \* history: the last quote found fresh, and when

vars == <<now, zone, ticks, offset, reads, readers, used>>

TypeOK ==
    /\ now \in Nat
    /\ zone \in Zones
    /\ ticks \in [Symbols -> [stamp: Int, raw: Int] \cup {None}]
    /\ offset \in Offsets \cup {None}
    /\ reads \in [Readers -> [stamp: Int, raw: Int, at: Int \cup {None}] \cup {None}]
    /\ readers \in [Readers -> [stamp: Int, utc: Int \cup {None}] \cup {None}]
    /\ used \in [stamp: Int, when: Int] \cup {None}

Init ==
    /\ now = 0
    /\ zone \in Zones
    /\ ticks = [s \in Symbols |-> None]
    /\ offset = None
    /\ reads = [r \in Readers |-> None]
    /\ readers = [r \in Readers |-> None]
    /\ used = None

-----------------------------------------------------------------------------
Abs(x) == IF x < 0 THEN -x ELSE x

\* _nearest_half_hour: ties away from zero.
NearestHalfHour(x) ==
    LET units(y) == (2 * y + HalfHour) \div (2 * HalfHour)
    IN  HalfHour * (IF x >= 0 THEN units(x) ELSE -units(-x))

\* The measured offset kept unrounded.
InitialCalibrationUnrounded(raw, at) ==
    IF Abs(NearestHalfHour(raw - at)) > MaxOffset
         \/ Abs(raw - at - NearestHalfHour(raw - at)) > Tolerance
    THEN None ELSE raw - at

\* _calibrate_initial: the offset, or None for a ServerClockCalibrationError.
InitialCalibration(raw, at) ==
    LET rounded == NearestHalfHour(raw - at)
    IN  IF Abs(rounded) > MaxOffset \/ Abs(raw - at - rounded) > Tolerance
        THEN None ELSE rounded

\* A clock change never followed.
RecalibrationNever(raw, at) == offset

\* The plausible range forgotten when a change is followed.
RecalibrationUnbounded(raw, at) ==
    LET residual == raw - offset - at
        change   == NearestHalfHour(residual)
    IN  IF change = 0 \/ Abs(residual - change) > Tolerance THEN offset ELSE offset + change

\* The calibrated branch of to_utc: only a residual close to a whole number
\* of half hours, and not to none, changes the offset.
Recalibration(raw, at) ==
    LET residual == raw - offset - at
        change   == NearestHalfHour(residual)
    IN  IF change = 0 \/ Abs(residual - change) > Tolerance THEN offset
        ELSE IF Abs(offset + change) > MaxOffset THEN None
        ELSE offset + change

Calibration(raw, at) ==
    IF offset = None THEN InitialCalibration(raw, at) ELSE Recalibration(raw, at)

\* Timestamps ahead of the bridge's clock let through.
FreshOrFuture(utc) == utc # None /\ now - utc <= MaxAge

\* validate_quote_freshness.
Fresh(utc) ==
    /\ utc # None
    /\ -MaxFutureSkew <= now - utc
    /\ now - utc <= MaxAge

-----------------------------------------------------------------------------
(* RealMT5Backend.symbol_info_tick, in three steps: it fetches the tick,    *)
(* to_utc looks at the bridge's clock, and then, as soon as the lock is     *)
(* free, corrects the raw stamp.  Other threads may run in between.         *)

ReadTick(r, s) ==
    /\ reads[r] = None
    /\ readers[r] = None
    /\ ticks[s] # None
    /\ reads' = [reads EXCEPT ![r] =
                   [stamp |-> ticks[s].stamp, raw |-> ticks[s].raw, at |-> None]]
    /\ UNCHANGED <<now, zone, ticks, offset, readers, used>>

ReadClock(r) ==
    /\ reads[r] # None
    /\ reads[r].at = None
    /\ reads' = [reads EXCEPT ![r].at = now]
    /\ UNCHANGED <<now, zone, ticks, offset, readers, used>>

\* Under the lock, with the time read before it.  A failed calibration leaves
\* the offset as it was and raises MT5BackendError.
CorrectTick(r) ==
    /\ reads[r] # None
    /\ reads[r].at # None
    /\ LET new == Calibration(reads[r].raw, reads[r].at)
       IN  /\ offset' = IF new = None THEN offset ELSE new
           /\ readers' = [readers EXCEPT ![r] =
                            [stamp |-> reads[r].stamp,
                             utc   |-> IF new = None THEN None ELSE reads[r].raw - new]]
    /\ reads' = [reads EXCEPT ![r] = None]
    /\ UNCHANGED <<now, zone, ticks, used>>

\* _require_fresh_quote: some time after the read, by the clock of then.
ValidateQuote(r) ==
    /\ readers[r] # None
    /\ used' = IF Fresh(readers[r].utc) THEN [stamp |-> readers[r].stamp, when |-> now] ELSE used
    /\ readers' = [readers EXCEPT ![r] = None]
    /\ UNCHANGED <<now, zone, ticks, offset, reads>>

\* The bridge process starts again: the calibration lives in memory only.
Restart ==
    /\ offset' = None
    /\ reads' = [r \in Readers |-> None]
    /\ readers' = [r \in Readers |-> None]
    /\ UNCHANGED <<now, zone, ticks, used>>

\* The broker quotes a symbol.
Quote(s) ==
    /\ \E skew \in Skews :
          ticks' = [ticks EXCEPT ![s] = [stamp |-> now + skew, raw |-> now + skew + zone]]
    /\ UNCHANGED <<now, zone, offset, reads, readers, used>>

\* The trade server changes its clock.
ChangeZone ==
    /\ zone' \in Zones
    /\ UNCHANGED <<now, ticks, offset, reads, readers, used>>

Pass ==
    /\ now < MaxNow
    /\ now' = now + 1
    /\ UNCHANGED <<zone, ticks, offset, reads, readers, used>>

Next ==
    \/ \E r \in Readers, s \in Symbols : ReadTick(r, s)
    \/ \E r \in Readers : ReadClock(r) \/ CorrectTick(r) \/ ValidateQuote(r)
    \/ Restart
    \/ \E s \in Symbols : Quote(s)
    \/ ChangeZone
    \/ Pass

Spec == Init /\ [][Next]_vars

-----------------------------------------------------------------------------
\* Every correction is wrong by whole half hours only, whatever stale ticks
\* the calibration was made from, whichever thread made it, and however long
\* this one waited at the lock with the time it had read (server_clock.py:
\* arbitrary drift is never absorbed into the offset).
CorrectedByHalfHours ==
    \A r \in Readers :
        readers[r] # None /\ readers[r].utc # None =>
            \E z, o \in Offsets : readers[r].utc = readers[r].stamp + z - o

\* A quote the bridge trades on is fresh by its true time, up to whole half
\* hours: no staleness in between, and no tick from the future, gets through.
UsedIsFreshUpToHalfHours ==
    used # None =>
        \E z, o \in Offsets :
            LET age == used.when - (used.stamp + z - o)
            IN  -MaxFutureSkew <= age /\ age <= MaxAge

\* A tick that is new when its reader looks at the clock is corrected exactly,
\* whatever other threads have made of the calibration meanwhile: one live quote
\* repairs a daylight-saving change and any damage stale ticks have done.
NewTickIsExact ==
    [][\A r \in Readers :
          readers[r] = None /\ readers'[r] # None
            /\ Abs(reads[r].stamp - reads[r].at) <= Tolerance
          => readers'[r].utc = readers'[r].stamp]_readers

\* server_clock.py:18: "after calibration, ordinary stale ticks retain their
\* corrected timestamp"; a right calibration survives a stale tick.
StaleTickKeepsItsTime ==
    [][\A r \in Readers :
          /\ offset # None /\ CorrectTick(r)
          /\ reads[r].raw - offset = reads[r].stamp
          /\ reads[r].at - reads[r].stamp > MaxAge
          => offset' = offset]_vars
=============================================================================
