------------------------------- MODULE NtpTime -------------------------------
(***************************************************************************)
(* helpers.go: NTP time stamps, and the round-trip time a reception report *)
(* tells.  A clock counts nanoseconds since the NTP epoch, a stamp         *)
(* fractions of a second, of which it holds one era's: it starts over when *)
(* an era ends, as 64 bits do in 2036.  RTCP carries the middle of a       *)
(* stamp: units, of which a word holds only a part of an era.              *)
(***************************************************************************)
EXTENDS Integers

CONSTANTS
  Nanos,     \* nanoseconds in a second (10^9)
  Fractions, \* fractions of a stamp in a second (2^32)
  Seconds,   \* seconds in an era, all that a stamp holds (2^32)
  Units,     \* units of the middle of a stamp in a second (2^16)
  Millis,    \* milliseconds in a second (10^3)
  Words      \* the values of the middle of a stamp (2^32)

ASSUME NtpAssumption ==
  /\ {Nanos, Fractions, Seconds, Units, Millis, Words} \subseteq Nat \ {0}
  /\ Fractions % Units = 0 /\ Nanos % Millis = 0
  /\ (Seconds * Units) % Words = 0 /\ Nanos + 2 < Fractions

\* a / b, and one more if the remainder is half of b.
Rounded(a, b) == (a \div b) + IF a % b >= b \div 2 THEN 1 ELSE 0

\* The seconds of earlier eras are shifted out of the stamp.
ToNtpTime(nsec) ==
  ((nsec \div Nanos) % Seconds) * Fractions + Rounded((nsec % Nanos) * Fractions, Nanos)

\* Since the start of the era, whichever it is.
Duration(t) == (t \div Fractions) * Nanos + Rounded((t % Fractions) * Nanos, Fractions)

\* uint32(t >> 16).
Middle(t) == (t \div (Fractions \div Units)) % Words

\* The difference is a word, whatever came first.
ntpDiff(nowNTP32, last, delay) == (nowNTP32 - last - delay) % Words

\* The next millisecond.
Ms(diff) == (diff * Millis + Units - 1) \div Units

\* Mutant: the time of the report is taken from the wall clock.
MutNowAt(lastSRNTP, sinceLastSR, wall, ignoreLast) == wall

\* Where the clock that stamped the sender report is, by the time that has passed.
NowAt(lastSRNTP, sinceLastSR, wall, ignoreLast) ==
  IF ignoreLast THEN wall ELSE Duration(lastSRNTP) + sinceLastSR

NoRtt(reason) == [ms |-> 0, err |-> reason]

\* report is [last, delay]; sent tells if there is a time the sender report was sent at,
\* sinceLastSR how long ago that is.
getRttMs(report, lastSRNTP, sent, sinceLastSR, wall, ignoreLast) ==
  LET nowNTP32 == Middle(ToNtpTime(NowAt(lastSRNTP, sinceLastSR, wall, ignoreLast)))
      diff == ntpDiff(nowNTP32, report.last, report.delay)
  IN IF report.last = 0 THEN NoRtt("no last sender report")
     ELSE IF ~ignoreLast /\ report.last # Middle(lastSRNTP) THEN NoRtt("not last sender report")
     ELSE IF ~ignoreLast /\ ~sent THEN NoRtt("no last sent time")
     ELSE IF diff > Words \div 2 THEN NoRtt("anachronous sender report")
     ELSE [ms |-> Ms(diff), err |-> "none"]

GetRttMs(report, lastSRNTP, sent, sinceLastSR, wall) ==
  getRttMs(report, lastSRNTP, sent, sinceLastSR, wall, FALSE)
GetRttMsFromReceiverReportOnly(report, wall) == getRttMs(report, 0, FALSE, 0, wall, TRUE)
=============================================================================
