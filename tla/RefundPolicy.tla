---------------------------- MODULE RefundPolicy ----------------------------
(***************************************************************************)
(* The cancellation policy, of the server and of the page that announces   *)
(* it.  Times are minutes before departure; amounts are percentages of     *)
(* what the booking cost.                                                  *)
(***************************************************************************)
EXTENDS Integers

Hours(n) == n * 60

Fare == 100

CanCancel(left) == left >= Hours(2)

\* Mutant of RefundPercentage: the boundaries on the wrong side.
RefundPercentageAfter(left) ==
  CASE left > Hours(24) -> 90
    [] left > Hours(6) /\ left <= Hours(24) -> 50
    [] left > Hours(2) /\ left <= Hours(6) -> 25
    [] OTHER -> 0

RefundPercentage(left) ==
  CASE left >= Hours(24) -> 90
    [] left >= Hours(6) /\ left < Hours(24) -> 50
    [] left >= Hours(2) /\ left < Hours(6) -> 25
    [] OTHER -> 0

\* cancelBooking refuses, or asks for this to be returned.
RefundFor(left) == IF CanCancel(left) THEN RefundPercentage(left) ELSE 0

\* getRefundPreview, shown before the customer confirms.
Preview(left) == IF left >= Hours(24) THEN 90
                 ELSE IF left >= Hours(6) THEN 50
                 ELSE IF left >= Hours(2) THEN 25 ELSE 0
=============================================================================
