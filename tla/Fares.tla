-------------------------------- MODULE Fares --------------------------------
(***************************************************************************)
(* What a ticket costs: on the page that offers it, in the booking, on the *)
(* papers a passenger gets, and in the statistics.  The fees are written   *)
(* down in six places; the bus and the price are read again by each of     *)
(* them, and both may have changed since the sale.                         *)
(*                                                                         *)
(* Whole taka; discounts are whole too.  A trip is its price and the type  *)
(* of its bus, d a discount, n a number of seats.                          *)
(***************************************************************************)
EXTENDS Integers

Trip(type, price) == [type |-> type, price |-> price]
Discount(kind, value) == [kind |-> kind, value |-> value]

Insurance == 10

\* Mutant of PlatformFee: the rule of the web ticket and of the statistics.
PlatformFeeOfAc(type) == IF type = "AC" THEN 70 ELSE 40

\* confirmBooking.
PlatformFee(type) == IF type = "NON_AC" THEN 40 ELSE 70

\* BookingPage, PaymentSuccess and the ticket that is mailed.
ShownFee(type) == IF type = "NON_AC" THEN 40 ELSE 70

\* The ticket on the web, and the statistics of the platform.
CountedFee(type) == IF type = "AC" THEN 70 ELSE 40

-----------------------------------------------------------------------------
(* Online                                                                  *)

\* total, and the lines it is the sum of, in the pages and in the mail.
Quote(trip, n) == n * trip.price + n * ShownFee(trip.type) + n * Insurance

\* totalAmount; a payment is created over it.
Charge(trip, n) == n * trip.price + n * PlatformFee(trip.type) + n * Insurance

\* A booking, and what each seat cost when it was locked for it.
OnlineBooking(trip, n, locked) ==
  [source |-> "USER_BOOKING", n |-> n, total |-> Charge(trip, n), discount |-> 0,
   final |-> Charge(trip, n), seat |-> locked.price]

-----------------------------------------------------------------------------
(* At the desk                                                             *)

Applies(d) == d.kind # "none" /\ d.value > 0

DiscountOf(total, d) == IF d.kind = "PERCENTAGE" THEN (total * d.value) \div 100 ELSE d.value

TooMuch(total, d) == \/ d.kind = "PERCENTAGE" /\ d.value > 100
                     \/ DiscountOf(total, d) > total

\* discountError, finalAmount: what the summary shows, and whether it stays closed.
Summary(trip, n, d) ==
  LET total == n * trip.price
  IN [open |-> ~(Applies(d) /\ TooMuch(total, d)),
      final |-> IF Applies(d) /\ ~TooMuch(total, d) THEN total - DiscountOf(total, d) ELSE total]

\* createManualBooking.
DeskRefuses(trip, n, d) == Applies(d) /\ TooMuch(n * trip.price, d)

\* Sold by somebody with this role.
DeskBooking(trip, n, d, role) ==
  LET total == n * trip.price
      discount == IF Applies(d) THEN DiscountOf(total, d) ELSE 0
  IN [source |-> IF role = "ADMIN" THEN "ADMIN_BOOKING" ELSE "STAFF_BOOKING",
      n |-> n, total |-> total, discount |-> discount,
      final |-> total - discount, seat |-> trip.price]

-----------------------------------------------------------------------------
(* Papers, of a booking b of a trip as it is now                           *)

\* isManual.  Only what is sold online has a payment.
Desk(b) == b.source # "USER_BOOKING"

\* The total of the mailed ticket.
MailedTotal(b) == IF Desk(b) THEN b.final ELSE b.total

\* displayTotal of the ticket on the web, also printed at the desk.
TicketTotal(b) == IF Desk(b) /\ b.final > 0 THEN b.final ELSE b.total

\* seatTotal and the lines under it.
TicketLines(b, trip) ==
  (IF trip.price > 0 THEN b.n * trip.price ELSE b.total)
    + (IF Desk(b) THEN 0 ELSE b.n * CountedFee(trip.type) + b.n * Insurance)
    - b.discount

-----------------------------------------------------------------------------
(* Statistics                                                              *)

\* getOperatorStats.
CompanyRevenue(b) == IF Desk(b) THEN b.final ELSE b.n * b.seat

\* getDashboardStats: the fee of what was paid online, and all of what an ADMIN sold.
PlatformRevenue(b, trip) == (IF Desk(b) THEN 0 ELSE b.n * CountedFee(trip.type))
                              + (IF b.source = "ADMIN_BOOKING" THEN b.final ELSE 0)
=============================================================================
