---------------------------- MODULE ReportTimes ----------------------------
(***************************************************************************)
(* The times of RTCP reports: SetTimestamp and GetTimestamp of a sender    *)
(* report, a wall clock in NTP's seconds and fractions.                    *)
(*                                                                         *)
(* SecUs, FracValues, NtpValues and EpochOffset are 10^6, 2^32, 2^32 and   *)
(* 2208988800 in the code.  Its doubles are taken as exact numbers, which  *)
(* a conversion to an integer cuts, but for the exception said below; it   *)
(* is why the times have a lower end.                                      *)
(***************************************************************************)
EXTENDS Integers

CONSTANTS
  SecUs,        \* microseconds of a second
  FracValues,   \* values of ntpFrac
  NtpValues,    \* values of ntpSec
  EpochOffset,  \* seconds from 1900 to 1970
  EarliestTime  \* of a report: 2^50 microseconds after 1970, in 2005

ASSUME ScaleAssumption ==
  /\ {SecUs, FracValues, NtpValues, EpochOffset} \subseteq Nat \ {0}
  /\ FracValues > 8 * SecUs       \* a fraction is finer than an eighth microsecond
  /\ EpochOffset < NtpValues
  /\ EarliestTime \in Nat

Seconds(t) == t \div SecUs

NtpSeconds(t) == (Seconds(t) + EpochOffset) % NtpValues

Fraction(t) == ((t - Seconds(t) * SecUs) * FracValues) \div SecUs

(* The fields of the report. *)
SetTimestamp(t) == [ntpSec |-> NtpSeconds(t), ntpFrac |-> Fraction(t)]

(* The sum of seconds and fraction is a double.  From EarliestTime until ntpSec
   wraps it lies between 2^50 and 2^51, where the last bit of a double is a
   quarter of a microsecond: it is rounded to that, and then cut.  Smaller
   doubles are finer; below some 2^41 the sum is not rounded up any more. *)
RoundToQuarterCut(frac) == (frac * SecUs) \div FracValues
RoundToQuarter(frac) == ((8 * frac * SecUs + FracValues) \div (2 * FracValues)) \div 4

(* After the wrap the difference of the seconds is a 64-bit number beyond the
   range of its conversions, and undefined. *)
GetTimestamp(ntp) == (ntp.ntpSec - EpochOffset) * SecUs + RoundToQuarter(ntp.ntpFrac)

=============================================================================
