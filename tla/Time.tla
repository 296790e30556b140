-------------------------------- MODULE Time ---------------------------------
(***************************************************************************)
(* base::Time and base::TimeDelta (src/base/time.cc), their conversions    *)
(* from and to what the system has, and the times of a file that go        *)
(* through them (src/base/file.cc: Info::FromStat, SetTimes).  The units   *)
(* are constants; C++ divides towards zero.  The fields of an Exploded are *)
(* the wall clock reading they stand for, in seconds, whether they are the *)
(* canonical way to write it, and the millisecond.                         *)
(***************************************************************************)
EXTENDS Integers, TLC

CONSTANTS MsPerS, UsPerMs, NsPerUs,  \* units
          Int64Max, Int32Max,        \* numeric_limits
          EpochDelta,                \* kWindowsEpochDeltaSeconds
          YearLength,                \* of the wall clock, in seconds
          Offset, DstStart, DstEnd,  \* the local time zone: one hour ahead between the two
          Hour,
          DayUs, HourUs, MinuteUs,   \* kMicrosecondsPerDay, Hour and Minute
          Seconds, StampSeconds,     \* inputs
          Walls

ASSUME UnitsAssumption == {MsPerS, UsPerMs, NsPerUs, YearLength, Hour} \subseteq Nat \ {0}

VARIABLES us,     \* us_ of a Time
          source, \* what it was made from
          sink,   \* what it was converted to last
          stamp   \* a time of a file, as the system has it

vars == <<us, source, sink, stamp>>

UsPerS == MsPerS * UsPerMs
NsPerS == UsPerS * NsPerUs

Abs(n) == IF n < 0 THEN -n ELSE n
Quot(n, d) == IF n < 0 THEN -((-n) \div d) ELSE n \div d  \* n / d
Rem(n, d) == n - Quot(n, d) * d                            \* n % d

Int64 == -Int64Max - 1..Int64Max

\* A time_t, timeval or timespec: sub counts the parts of a second.
Sys(kind, sec, sub) == [kind |-> kind, sec |-> sec, sub |-> sub]
Nothing == Sys("none", 0, 0)

IsNull(t) == t = 0
IsMax(t) == t = Int64Max

-----------------------------------------------------------------------------
(* time_t, timeval, timespec.                                              *)

kTimeTToMicrosecondsOffset == EpochDelta * UsPerS

FromTimeT(tt) == IF tt \in {0, Int64Max} THEN tt ELSE kTimeTToMicrosecondsOffset + tt * UsPerS

ToTimeTWhole(t) == IF IsNull(t) \/ IsMax(t) THEN t
                   ELSE Quot(t - kTimeTToMicrosecondsOffset, UsPerS) + 1

ToTimeT(t) == IF IsNull(t) THEN 0
              ELSE IF IsMax(t) \/ Int64Max - kTimeTToMicrosecondsOffset <= t THEN Int64Max
              ELSE Quot(t - kTimeTToMicrosecondsOffset, UsPerS)

\* FromTimeval and FromTimespec differ in the number of parts in a microsecond.
FromParts(sec, sub, parts) ==
    IF sec = Int64Max /\ sub = UsPerS * parts - 1 THEN Int64Max
    ELSE sec * UsPerS + Quot(sub, parts)

ToParts(t, parts) ==
    IF IsMax(t) THEN [sec |-> Int64Max, sub |-> UsPerS * parts - 1]
    ELSE [sec |-> Quot(t, UsPerS), sub |-> Rem(t, UsPerS) * parts]

ToTimeval(t) == LET p == ToParts(t, 1) IN Sys("timeval", p.sec, p.sub)
ToTimespec(t) == LET p == ToParts(t, NsPerUs) IN Sys("timespec", p.sec, p.sub)

-----------------------------------------------------------------------------
(* localtime_r(3) and mktime(3) in a zone with daylight saving time.       *)

Local(t) == t + Offset + (IF t \in DstStart..DstEnd - 1 THEN Hour ELSE 0)
Year(wall) == 1970 + wall \div YearLength
Known(wall) == Abs(wall) < Int64Max  \* to the C library

\* What mktime may return: -1 for a failure.  A reading that does not exist is moved by
\* an hour, one that exists twice is either.
Mktime(wall, isdst) ==
    LET standard == wall - Offset
        summer == wall - Offset - Hour
        exact == {t \in {standard, summer} : Local(t) = wall}
    IN  IF ~Known(wall) THEN {-1}
        ELSE IF isdst = 0 THEN {standard} ELSE IF isdst = 1 THEN {summer}
        ELSE IF exact # {} THEN exact ELSE {standard, summer}

Exploded(wall, canonical, ms) == [wall |-> wall, canonical |-> canonical, ms |-> ms]

-----------------------------------------------------------------------------
(* Explode and FromExploded, for local time: the only ones there are.      *)

\* The two branches of Explode, for times after and before the epoch.
SplitAfter(m) == LET ms == Quot(m, UsPerMs)
                 IN  [seconds |-> Quot(ms, MsPerS), ms |-> Rem(ms, MsPerS)]
SplitBeforeTruncated(m) == LET s == SplitAfter(m)
                           IN  [s EXCEPT !.ms = IF @ < 0 THEN @ + MsPerS ELSE @]
SplitBefore(m) ==
    LET ms == Quot(m - UsPerMs + 1, UsPerMs)
        rem == Rem(ms, MsPerS)
    IN  [seconds |-> Quot(ms - MsPerS + 1, MsPerS),
         ms |-> IF rem < 0 THEN rem + MsPerS ELSE rem]

Split(t) == LET m == t - kTimeTToMicrosecondsOffset
            IN  IF m >= 0 THEN SplitAfter(m) ELSE SplitBefore(m)

LocalExplode(t) == LET s == Split(t) IN Exploded(Local(s.seconds), TRUE, s.ms)

Smaller(a, b) == IF a < b THEN a ELSE b

\* The second and third try of mktime, when it returned -1.
Retried(e) ==
    {IF s0 < 0 THEN s1 ELSE IF s1 < 0 THEN s0 ELSE Smaller(s0, s1) :
       s0 \in Mktime(e.wall, 0), s1 \in Mktime(e.wall, 1)}

SecondsOf(e) == UNION {IF s = -1 THEN Retried(e) ELSE {s} : s \in Mktime(e.wall, -1)}

\* Without the millisecond.
MillisecondsWhole(e, seconds) == seconds * MsPerS

\* Out of the range of the C library the result is the limit of 32 bits.
Milliseconds(e, seconds) ==
    IF seconds = -1 /\ Year(e.wall) \notin 1969..1970
    THEN IF Year(e.wall) < 1969 THEN (-Int32Max - 1) * MsPerS
                                ELSE Int32Max * MsPerS + MsPerS - 1
    ELSE seconds * MsPerS + e.ms

\* What is converted back is compared with what came in.
FromExplodedUnchecked(e) ==
    {[ok |-> TRUE, us |-> Milliseconds(e, s) * UsPerMs + kTimeTToMicrosecondsOffset] :
       s \in SecondsOf(e)}

FromExploded(e) ==
    {LET t == Milliseconds(e, s) * UsPerMs + kTimeTToMicrosecondsOffset
         ok == LocalExplode(t) = e
     IN  [ok |-> ok, us |-> IF ok THEN t ELSE 0] : s \in SecondsOf(e)}

-----------------------------------------------------------------------------
(* TimeDelta: us is its delta_ when the source is one.                     *)

Microseconds == [days |-> DayUs, hours |-> HourUs, minutes |-> MinuteUs, seconds |-> UsPerS,
                 milliseconds |-> UsPerMs]

FromUnit(n, unit) == IF unit = "nanoseconds" THEN Quot(n, NsPerUs) ELSE n * Microseconds[unit]

\* static_cast<int>
AsInt(n) == ((n + Int32Max + 1) % (2 * (Int32Max + 1))) - Int32Max - 1

InUnitFloor(d, unit) == IF unit = "nanoseconds" THEN d * NsPerUs ELSE d \div Microseconds[unit]

InUnit(d, unit) ==
    IF unit = "nanoseconds" THEN d * NsPerUs
    ELSE LET n == Quot(d, Microseconds[unit])
         IN  IF unit \in {"days", "hours", "minutes"} THEN AsInt(n) ELSE n

DeltaFromTimespec(sec, sub) == sec * UsPerS + Quot(sub, NsPerUs)
DeltaToTimespec(d) == Sys("timespec", Quot(d, UsPerS), Rem(d, UsPerS) * NsPerUs)

-----------------------------------------------------------------------------
Init == us = 0 /\ source = Nothing /\ sink = Nothing
        /\ stamp \in {Sys("timespec", s, n) : s \in StampSeconds, n \in {0, NsPerS - 1}}

\* Signed overflow is undefined: times are made of values that fit.
Make(from, t) == /\ t \in Int64
                 /\ source' = from /\ us' = t /\ UNCHANGED <<sink, stamp>>

MakeFromTimeT == \E s \in Seconds : Make(Sys("time_t", s, 0), FromTimeT(s))
MakeFromTimeval ==
    \E s \in Seconds, u \in 0..UsPerS - 1 : Make(Sys("timeval", s, u), FromParts(s, u, 1))
MakeFromTimespec ==
    \E s \in Seconds, n \in 0..NsPerS - 1 : Make(Sys("timespec", s, n), FromParts(s, n, NsPerUs))
MakeFromLocalExploded ==
    \E w \in Walls, ms \in 0..MsPerS, c \in BOOLEAN :
      \E r \in FromExploded(Exploded(w, c, ms)) :
        Make([kind |-> "exploded", wall |-> w, canonical |-> c, ms |-> ms, ok |-> r.ok], r.us)

MakeDelta == \E n \in Seconds, unit \in DOMAIN Microseconds \cup {"nanoseconds"} :
               Make([kind |-> "delta", unit |-> unit, count |-> n], FromUnit(n, unit))
MakeDeltaFromTimespec ==
    \E s \in Seconds, n \in 0..NsPerS - 1 :
      Make([kind |-> "delta", sub |-> n, unit |-> "timespec", count |-> s], DeltaFromTimespec(s, n))

Convert(to) == /\ source.kind \notin {"none", "delta"}
               /\ sink' = to /\ UNCHANGED <<us, source, stamp>>
Count(to) == source.kind = "delta" /\ sink' = to /\ UNCHANGED <<us, source, stamp>>

CountDelta == \E unit \in DOMAIN Microseconds \cup {"nanoseconds"} :
                Count([kind |-> "count", unit |-> unit, count |-> InUnit(us, unit)])
DeltaConvertToTimespec == Count(DeltaToTimespec(us))

ConvertToTimeT == Convert(Sys("time_t", ToTimeT(us), 0))
ConvertToTimeval == Convert(ToTimeval(us))
ConvertToTimespec == Convert(ToTimespec(us))
ConvertToExploded == Convert([kind |-> "exploded"] @@ LocalExplode(us))

\* File::GetInfo and GetFileInfo.
FromStat == LET t == FromTimeT(stamp.sec) + Quot(stamp.sub, NsPerUs)
            IN  Make([stamp EXCEPT !.kind = "stat"], t)

\* With nanoseconds where futimes takes microseconds.
SetTimesNanos == LET ts == ToTimespec(us)
                 IN  /\ source.kind \notin {"none", "delta", "touched"}
                     /\ stamp' = IF ts.sub >= 0 THEN Sys("timespec", ts.sec, ts.sub * NsPerUs) ELSE stamp
                     /\ source' = [source EXCEPT !.kind = "touched"]
                     /\ UNCHANGED <<us, sink>>

\* File::SetTimes and TouchFile: futimes(2) refuses parts that are not those of a second.
SetTimes == LET tv == ToTimeval(us)
            IN  /\ source.kind \notin {"none", "delta", "touched"}
                /\ stamp' = IF tv.sub \in 0..UsPerS - 1
                            THEN Sys("timespec", tv.sec, tv.sub * NsPerUs) ELSE stamp
                /\ source' = [source EXCEPT !.kind = "touched"]
                /\ UNCHANGED <<us, sink>>

Next == \/ /\ source.kind = "none"
           /\ \/ MakeFromTimeT \/ MakeFromTimeval \/ MakeFromTimespec \/ MakeFromLocalExploded
              \/ FromStat \/ MakeDelta \/ MakeDeltaFromTimespec
        \/ ConvertToTimeT \/ ConvertToTimeval \/ ConvertToTimespec \/ ConvertToExploded
        \/ SetTimes \/ CountDelta \/ DeltaConvertToTimespec

Spec == Init /\ [][Next]_vars

-----------------------------------------------------------------------------
TypeOK == us \in Int64 /\ stamp.sub \in 0..NsPerS - 1

Micros(s) == s.sec * UsPerS + (IF s.kind = "timeval" THEN s.sub ELSE Quot(s.sub, NsPerUs))

\* A time that came as a time_t, timeval or timespec goes out as the same instant, to the
\* microsecond.  Of the time_t there are two exceptions: the one that is the null Time, and
\* those so late that ToTimeT takes them for the end of time (time.cc:390).  The timeval and
\* timespec of a time from the epoch on are proper ones (before it the parts are negative).
RoundTrips ==
 /\ us >= 0 => /\ sink.kind = "timeval" => sink.sub \in 0..UsPerS - 1
               /\ sink.kind = "timespec" => sink.sub \in 0..NsPerS - 1
 /\ source.kind = sink.kind /\ sink.kind \in {"time_t", "timeval", "timespec"} =>
      CASE sink.kind # "time_t" -> Micros(sink) = Micros(source)
        [] us = 0 -> sink.sec = 0
        [] us >= Int64Max - kTimeTToMicrosecondsOffset -> sink.sec = Int64Max
        [] OTHER -> sink.sec = source.sec

\* Explode rounds down, to the millisecond and to the second, before the epoch as after it.
ExplodesDown ==
    LET m == us - kTimeTToMicrosecondsOffset
        e == IF sink.kind = "exploded" THEN sink ELSE LocalExplode(us)
    IN  source.kind # "delta" => /\ e.wall = Local(m \div UsPerS)
                                 /\ e.ms = (m \div UsPerMs) % MsPerS

\* The reading of the second before the epoch: what mktime gives for it is also what it
\* gives for a failure (time.cc:293), and with daylight saving time in force then, the
\* second and third try find another hour.
LostReading(wall) == wall = Local(-1)

\* A reading of the clock is only turned into a time if there is such a reading: with the
\* fields as a clock shows them, and at a time the zone does not skip.
ReadingsAreChecked ==
    source.kind = "exploded" /\ ~LostReading(source.wall) =>
      LET exists == \E t \in -Int64Max..Int64Max : Local(t) = source.wall
      IN  /\ source.ok <=> source.canonical /\ source.ms < MsPerS /\ exists /\ Known(source.wall)
          /\ ~source.ok => us = 0

\* Exploding and back only loses the part of the millisecond, or takes the other of the two
\* hours when the clocks are set back.
ExplodesAndBack ==
    source.kind \in {"time_t", "timeval"} /\ Known(LocalExplode(us).wall)
      /\ ~LostReading(LocalExplode(us).wall) =>
      \A r \in FromExploded(LocalExplode(us)) :
        /\ r.ok
        /\ Abs((r.us \div UsPerMs) - (us \div UsPerMs)) \in {0, Hour * MsPerS}
        /\ LocalExplode(r.us) = LocalExplode(us)

\* An interval is counted in whole units towards zero, exactly in the unit it was made in,
\* and its timespec is the interval, as long as the count fits the int it is returned in.
CountsTruncate ==
    source.kind = "delta" =>
      /\ sink.kind = "count" /\ sink.unit # "nanoseconds" /\ Abs(us) < Int32Max * UsPerMs =>
           LET rest == us - sink.count * Microseconds[sink.unit]
           IN  /\ Abs(rest) < Microseconds[sink.unit] /\ rest * us >= 0
               /\ sink.unit = source.unit => sink.count = source.count
      /\ sink.kind = "timespec" => DeltaFromTimespec(sink.sec, sink.sub) = us

\* "internally represented as microseconds (s/1,000,000) since 00:00:00: UTC, Janunary 1,
\* 1970" (time.h:126-127): whatever a Time is made from.
SinceUnixEpoch ==
    source.kind \in {"time_t", "timeval", "timespec", "stat"} => us = Micros(source)
=============================================================================
