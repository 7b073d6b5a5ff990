------------------------------ MODULE Durations ------------------------------
(***************************************************************************)
(* The configured durations (booking-timeouts.util.ts), in seconds.  A     *)
(* setting is a number, Unset, or Text that is no number (the empty string *)
(* is the number 0).                                                       *)
(***************************************************************************)
EXTENDS Integers

CONSTANTS Unset, Text

Longest == 60 * 60
Default == 2 * 60

\* Mutant of Clamped: the longest value is not enforced.
ClampedBelowOnly(setting, fallback) ==
  IF setting = Text \/ setting = Unset THEN fallback
  ELSE IF setting <= 0 THEN fallback ELSE setting

\* clampPositiveMinutes.
Clamped(setting, fallback) ==
  LET n == IF setting = Unset THEN fallback ELSE setting
  IN IF n = Text THEN fallback
     ELSE IF n <= 0 THEN fallback
     ELSE IF n < Longest THEN n ELSE Longest

\* seatLockMs, paymentWindowMs.
SeatLockOf(setting) == Clamped(setting, Default)
PaymentWindowOf(setting) == Clamped(setting, Default)

\* dashboardSeatLockMs: the seat lock unless its own setting is there.
DashboardLockOf(dashboard, seat) ==
  IF dashboard = Unset THEN SeatLockOf(seat) ELSE Clamped(dashboard, Default)
=============================================================================
