------------------------------- MODULE Refunds -------------------------------
(***************************************************************************)
(* The refunds of one paid booking, with the gateway that moves the money. *)
(*                                                                         *)
(* A refund row is filed by requestRefund or by the passenger's cancel,    *)
(* and decided by administrators: approve, reject, and the sync of the     *)
(* gateway's status.  approve and sync read their rows, wait for the       *)
(* gateway, and then write in a transaction of their own; cancel runs at   *)
(* READ COMMITTED.  Each of these has a handler in tx between its read and *)
(* its write, so any two of them overlap freely.  The Serializable         *)
(* transactions are single actions, taken when they commit.                *)
(*                                                                         *)
(* The gateway is external.  It records the refunds it accepts, with the   *)
(* amounts, and may settle or cancel a recorded refund later.  Its answer  *)
(* may get lost, come back in a form the code cannot read, or be one that  *)
(* the code takes for success while the refund is still being processed.   *)
(***************************************************************************)
EXTENDS RefundPolicy, FiniteSets

CONSTANTS
  Requests,       \* refund ids that may be created (bounds the model)
  Refs,           \* the gateway's refund_ref_ids (bounds the model)
  Handlers,       \* handlers that may wait for an answer at the same time
  Lefts,          \* instants: minutes before departure
  SslChoices,     \* whether an approval can call the gateway
  LateFailures,   \* whether a failure callback may follow a success callback
  None            \* the SQL null

ASSUME RefundsAssumption == /\ None \notin Requests
                            /\ None \notin Refs
                            /\ None \notin Int
                            /\ None \notin {"SUCCESS", "PROCESSING", "FAILED"}
                            /\ Lefts \subseteq Int
                            /\ SslChoices \subseteq BOOLEAN
                            /\ LateFailures \in BOOLEAN

VARIABLES
  left,           \* minutes before departure
  booking,        \* the booking, with whether its seat rows are kept
  payment,        \* its payment
  refund,         \* refund[r]: the refunds row r
  gateway,        \* gateway[g]: what the gateway recorded under g
  tx              \* tx[h]: what handler h has read

vars == <<left, booking, payment, refund, gateway, tx>>

-----------------------------------------------------------------------------
Amounts == 0 .. Fare

BookingType == [status : {"CONFIRMED", "CANCELLED"}, seated : BOOLEAN,
                refundAmount : Amounts \cup {None}]

\* refundStatus is free text in the schema; these are the texts the code writes.
PaymentType == [status : {"SUCCESS", "FAILED", "REFUNDED"},
                refundStatus : {None, "SSL_PROCESSING", "SSL_REFUND_CANCELLED",
                                "SUCCESS", "PROCESSED"},
                refundAmount : Amounts \cup {None}]

\* ref is sslRefundRefId.
Refund(status, amount, ref) == [status |-> status, amount |-> amount, ref |-> ref]
NoRefund == Refund("NONE", 0, None)
RefundType == [status : {"NONE", "PENDING", "APPROVED", "REJECTED", "FAILED"},
               amount : Amounts, ref : Refs \cup {None}]

Recorded(status, r, amount) == [status |-> status, refund |-> r, amount |-> amount]
Unrecorded == Recorded("NONE", None, 0)

\* PROMISED: in process, after an answer the code takes for success; WITHDRAWN:
\* cancelled after such an answer.
GatewayType == [status : {"NONE", "PROCESSING", "PROMISED", "REFUNDED",
                          "CANCELLED", "WITHDRAWN"},
                refund : Requests \cup {None}, amount : Amounts]

Idle == [kind |-> "idle"]

\* cancel: the amount it computed.
Cancelling == [kind : {"cancel"}, amount : Amounts]

\* approve: the gateway's answer, as the code understands it, and its reference.
Approving == [kind : {"approve"}, refund : Requests, ref : Refs \cup {None},
              answer : {None, "SUCCESS", "PROCESSING", "FAILED"}]

\* sync: the reference asked for, and what the row read before allows.
Syncing == [kind : {"sync"}, refund : Requests, ref : Refs,
            answer : {None, "SUCCESS", "FAILED"},
            settles : BOOLEAN, fails : BOOLEAN]

TxType == {Idle} \cup Cancelling \cup Approving \cup Syncing

TypeOK == /\ left \in Int
          /\ booking \in BookingType
          /\ payment \in PaymentType
          /\ refund \in [Requests -> RefundType]
          /\ gateway \in [Refs -> GatewayType]
          /\ tx \in [Handlers -> TxType]

\* A booking that is confirmed and paid.
Init == /\ left \in Lefts
        /\ booking = [status |-> "CONFIRMED", seated |-> TRUE, refundAmount |-> None]
        /\ payment = [status |-> "SUCCESS", refundStatus |-> None,
                      refundAmount |-> None]
        /\ refund = [r \in Requests |-> NoRefund]
        /\ gateway = [g \in Refs |-> Unrecorded]
        /\ tx = [h \in Handlers |-> Idle]

-----------------------------------------------------------------------------
Pending(r) == refund[r].status = "PENDING"

Begin(h, t) == tx[h] = Idle /\ tx' = [tx EXCEPT ![h] = t]
End(h) == tx' = [tx EXCEPT ![h] = Idle]

Is(h, kind) == tx[h].kind = kind
Heard(h, answer) == tx[h].answer = answer

-----------------------------------------------------------------------------
(* Filing a refund                                                         *)

\* What requestRefund and cancel check.
MayFile == /\ booking.status = "CONFIRMED"
           /\ \A r \in Requests : refund[r].status \notin {"PENDING", "APPROVED"}
           /\ CanCancel(left)
           /\ payment.status = "SUCCESS"

File(r, amount) == /\ refund[r].status = "NONE"
                   /\ refund' = [refund EXCEPT ![r] = Refund("PENDING", amount, None)]

\* RefundsService.requestRefund.
RequestRefund(r) == /\ MayFile
                    /\ File(r, RefundPercentage(left))
                    /\ UNCHANGED <<left, booking, payment, gateway, tx>>

\* BookingsService.cancel: the insert does not wait for what it has not seen.
CancelRead(h) ==
  /\ MayFile
  /\ Begin(h, [kind |-> "cancel", amount |-> RefundPercentage(left)])
  /\ UNCHANGED <<left, booking, payment, refund, gateway>>

CancelWrite(h, r) == /\ Is(h, "cancel")
                     /\ File(r, tx[h].amount)
                     /\ End(h)
                     /\ UNCHANGED <<left, booking, payment, gateway>>

-----------------------------------------------------------------------------
(* Approval                                                                *)

Returned == payment.status = "REFUNDED"

\* Mutant of Settle: the seat rows stay.
SettleKeepsSeats(r, mark, ref) ==
  /\ payment' = [status |-> "REFUNDED", refundStatus |-> mark,
                 refundAmount |-> refund[r].amount]
  /\ booking' = [booking EXCEPT !.status = "CANCELLED",
                                !.refundAmount = refund[r].amount]
  /\ refund' = [refund EXCEPT ![r].status = "APPROVED", ![r].ref = ref]

\* What approve and sync write when the money is back.
Settle(r, mark, ref) ==
  /\ payment' = [status |-> "REFUNDED", refundStatus |-> mark,
                 refundAmount |-> refund[r].amount]
  /\ booking' = [status |-> "CANCELLED", seated |-> FALSE,
                 refundAmount |-> refund[r].amount]
  /\ refund' = [refund EXCEPT ![r].status = "APPROVED", ![r].ref = ref]

\* Mutant of Approvable: the payment is not looked at again.
ApprovableIfPending(r) == Pending(r)

\* What approve checks, before the gateway call and in its transaction.
Approvable(r) == Pending(r) /\ ~Returned

\* RefundsService.approve when the gateway cannot be called.
ApproveLocally(r) == /\ FALSE \in SslChoices
                     /\ Approvable(r)
                     /\ Settle(r, "PROCESSED", refund[r].ref)
                     /\ UNCHANGED <<left, gateway, tx>>

\* RefundsService.approve up to the gateway call.
ApproveRead(h, r) ==
  /\ TRUE \in SslChoices
  /\ Approvable(r)
  /\ refund[r].amount <= Fare
  /\ Begin(h, [kind |-> "approve", refund |-> r, ref |-> None, answer |-> None])
  /\ UNCHANGED <<left, booking, payment, refund, gateway>>

\* What the code may understand of the answer to an accepted refund, with or
\* without the reference.  It takes a DONE answer with a reference for success
\* unless a status or an approval says otherwise, so also when the refund is
\* still in process.
Understood(status, g) ==
  CASE status = "REFUNDED"   -> {<<"SUCCESS", g>>, <<"FAILED", g>>, <<"FAILED", None>>}
    [] status = "PROMISED"   -> {<<"SUCCESS", g>>}
    [] status = "PROCESSING" -> {<<"PROCESSING", g>>, <<"PROCESSING", None>>,
                                 <<"FAILED", g>>, <<"FAILED", None>>}

\* The gateway takes the refund (each call has a new refund_trans_id) and answers.
GatewayAccepts(h, g) ==
  /\ Is(h, "approve") /\ Heard(h, None)
  /\ gateway[g] = Unrecorded
  /\ \E status \in {"PROCESSING", "PROMISED", "REFUNDED"} :
       /\ gateway' = [gateway EXCEPT
            ![g] = Recorded(status, tx[h].refund, refund[tx[h].refund].amount)]
       /\ \E a \in Understood(status, g) :
            tx' = [tx EXCEPT ![h].answer = a[1], ![h].ref = a[2]]
  /\ UNCHANGED <<left, booking, payment, refund>>

GatewayRefuses(h) == /\ Is(h, "approve") /\ Heard(h, None)
                     /\ tx' = [tx EXCEPT ![h].answer = "FAILED"]
                     /\ UNCHANGED <<left, booking, payment, refund, gateway>>

\* approve after FAILED or UNKNOWN: one update, nothing is looked at again.
ApproveFailed(h) ==
  /\ Is(h, "approve") /\ Heard(h, "FAILED")
  /\ refund' = [refund EXCEPT ![tx[h].refund].status = "FAILED",
                              ![tx[h].refund].ref = tx[h].ref]
  /\ End(h)
  /\ UNCHANGED <<left, booking, payment, gateway>>

\* Mutant of ApproveProcessing: a returned payment is written as well.
ApproveProcessingAnyway(h) ==
  LET r == tx[h].refund
  IN /\ Is(h, "approve") /\ Heard(h, "PROCESSING")
     /\ Pending(r)
     /\ payment' = [payment EXCEPT !.refundStatus = "SSL_PROCESSING",
                                   !.refundAmount = refund[r].amount]
     /\ refund' = [refund EXCEPT ![r].ref = tx[h].ref]
     /\ End(h)
     /\ UNCHANGED <<left, booking, gateway>>

\* approve after PROCESSING: the refund stays pending.
ApproveProcessing(h) ==
  LET r == tx[h].refund
  IN /\ Is(h, "approve") /\ Heard(h, "PROCESSING")
     /\ Approvable(r)
     /\ payment' = [payment EXCEPT !.refundStatus = "SSL_PROCESSING",
                                   !.refundAmount = refund[r].amount]
     /\ refund' = [refund EXCEPT ![r].ref = tx[h].ref]
     /\ End(h)
     /\ UNCHANGED <<left, booking, gateway>>

\* Mutants of ApproveSettled: nothing is looked at again; a refund the gateway
\* is still processing is settled too.
ApproveSettledAnyway(h) == /\ Is(h, "approve") /\ Heard(h, "SUCCESS")
                           /\ ~Returned
                           /\ Settle(tx[h].refund, "SUCCESS", tx[h].ref)
                           /\ End(h)
                           /\ UNCHANGED <<left, gateway>>

ApproveSettledEarly(h) == /\ Is(h, "approve")
                          /\ tx[h].answer \in {"SUCCESS", "PROCESSING"}
                          /\ Approvable(tx[h].refund)
                          /\ Settle(tx[h].refund, "SUCCESS", tx[h].ref)
                          /\ End(h)
                          /\ UNCHANGED <<left, gateway>>

\* approve after SUCCESS.
ApproveSettled(h) == /\ Is(h, "approve") /\ Heard(h, "SUCCESS")
                     /\ Approvable(tx[h].refund)
                     /\ Settle(tx[h].refund, "SUCCESS", tx[h].ref)
                     /\ End(h)
                     /\ UNCHANGED <<left, gateway>>

-----------------------------------------------------------------------------
(* Sync with the gateway                                                   *)

\* RefundsService.adminSyncSslRefundStatus up to the gateway call.  Of a refund
\* that is not pending it only stores the answer.
SyncRead(h, r) ==
  /\ refund[r].ref # None
  /\ Pending(r)
  /\ Begin(h, [kind |-> "sync", refund |-> r, ref |-> refund[r].ref, answer |-> None,
               settles |-> /\ booking.status = "CONFIRMED"
                           /\ payment.status = "SUCCESS",
               fails |-> payment.refundStatus = "SSL_PROCESSING"])
  /\ UNCHANGED <<left, booking, payment, refund, gateway>>

\* Asked about g the gateway may say that the money is back: it is, or the refund
\* is in process and the answer a promise ("success" is read like "refunded").
SaysReturned(g) ==
  \/ gateway[g].status \in {"REFUNDED", "PROMISED"} /\ UNCHANGED gateway
  \/ /\ gateway[g].status = "PROCESSING"
     /\ gateway' = [gateway EXCEPT ![g].status = "PROMISED"]

\* A query that is not answered with APIConnect DONE counts as FAILED, whatever
\* the gateway has recorded.  The other answers change nothing (Abort).
GatewayReports(h) ==
  /\ Is(h, "sync") /\ Heard(h, None)
  /\ \/ SaysReturned(tx[h].ref) /\ tx' = [tx EXCEPT ![h].answer = "SUCCESS"]
     \/ UNCHANGED gateway /\ tx' = [tx EXCEPT ![h].answer = "FAILED"]
  /\ UNCHANGED <<left, booking, payment, refund>>

SyncSettled(h) == /\ Is(h, "sync") /\ Heard(h, "SUCCESS") /\ tx[h].settles
                  /\ Pending(tx[h].refund)
                  /\ payment.status = "SUCCESS" /\ booking.status = "CONFIRMED"
                  /\ Settle(tx[h].refund, "SUCCESS", refund[tx[h].refund].ref)
                  /\ End(h)
                  /\ UNCHANGED <<left, gateway>>

SyncFailed(h) ==
  /\ Is(h, "sync") /\ Heard(h, "FAILED") /\ tx[h].fails
  /\ payment' = [payment EXCEPT !.refundStatus = "SSL_REFUND_CANCELLED"]
  /\ refund' = [refund EXCEPT ![tx[h].refund].status = "FAILED"]
  /\ End(h)
  /\ UNCHANGED <<left, booking, gateway>>

-----------------------------------------------------------------------------
\* RefundsService.reject.
Reject(r) == /\ Pending(r)
             /\ refund' = [refund EXCEPT ![r].status = "REJECTED"]
             /\ UNCHANGED <<left, booking, payment, gateway, tx>>

\* BookingsService.cancelByAdmin: it does not look at payment or refunds.
AdminCancel == /\ booking.status = "CONFIRMED"
               /\ booking' = [booking EXCEPT !.status = "CANCELLED", !.seated = FALSE]
               /\ UNCHANGED <<left, payment, refund, gateway, tx>>

\* PaymentsService.handlePaymentFailure on a payment that had succeeded.
PaymentFailure == /\ LateFailures
                  /\ payment.status # "FAILED"
                  /\ payment' = [payment EXCEPT !.status = "FAILED"]
                  /\ booking' = [booking EXCEPT !.status = "CANCELLED",
                                                !.seated = FALSE]
                  /\ UNCHANGED <<left, refund, gateway, tx>>

\* The gateway decides about a refund it was processing.
GatewayDecides(g) ==
  /\ gateway[g].status \in {"PROCESSING", "PROMISED"}
  /\ \E status \in {"REFUNDED", IF gateway[g].status = "PROMISED"
                                 THEN "WITHDRAWN" ELSE "CANCELLED"} :
       gateway' = [gateway EXCEPT ![g].status = status]
  /\ UNCHANGED <<left, booking, payment, refund, tx>>

\* A handler ends without effect: a refused transaction, an answer that changes
\* nothing, a gateway that could not be reached, a crash of the server.
Abort(h) == /\ tx[h] # Idle
            /\ End(h)
            /\ UNCHANGED <<left, booking, payment, refund, gateway>>

Tick == /\ \E n \in Lefts : n < left /\ left' = n
        /\ UNCHANGED <<booking, payment, refund, gateway, tx>>

-----------------------------------------------------------------------------
OfRequest(r) == RequestRefund(r) \/ ApproveLocally(r) \/ Reject(r)

OfHandler(h) == \/ CancelRead(h)
                \/ \E r \in Requests : \/ CancelWrite(h, r)
                                       \/ ApproveRead(h, r) \/ SyncRead(h, r)
                \/ ApproveFailed(h) \/ ApproveProcessing(h) \/ ApproveSettled(h)
                \/ SyncSettled(h) \/ SyncFailed(h)
                \/ Abort(h)

OfGateway == \/ \E h \in Handlers : \/ GatewayRefuses(h) \/ GatewayReports(h)
                                    \/ \E g \in Refs : GatewayAccepts(h, g)
             \/ \E g \in Refs : GatewayDecides(g)

Next == \/ \E r \in Requests : OfRequest(r)
        \/ \E h \in Handlers : OfHandler(h)
        \/ OfGateway
        \/ AdminCancel \/ PaymentFailure
        \/ Tick

Spec == Init /\ [][Next]_vars

-----------------------------------------------------------------------------
(* What holds                                                              *)

\* Money given back means the ticket is gone: once a refund is approved or the
\* payment is marked REFUNDED, the booking is cancelled and its seats are free.
RefundedBookingClosed ==
  (Returned \/ \E r \in Requests : refund[r].status = "APPROVED")
    => booking.status = "CANCELLED" /\ ~booking.seated

\* The two places that record the sum given back agree, also when a second
\* refund of the same payment is under way with another amount.
AmountsAgree == Returned => payment.refundAmount = booking.refundAmount

\* The gateway has said that the money is back, rightly or not.
Acknowledged == {"REFUNDED", "PROMISED", "WITHDRAWN"}

\* When the books say that the gateway has given money back, it has said so of a
\* refund of this very sum.  Answers are not mixed up between refunds, and one
\* that refuses, cannot be read or says "processing" is never booked as money
\* returned.  What the gateway says need not be true yet: the books may run ahead
\* of a refund that it withdraws later.
BackedByGateway ==
  payment.refundStatus = "SUCCESS"
    => \E g \in Refs : /\ gateway[g].status \in Acknowledged
                       /\ gateway[g].amount = payment.refundAmount

\* Only one refund of a payment is ever approved.
AtMostOneApproved ==
  \A r, q \in Requests :
    refund[r].status = "APPROVED" /\ refund[q].status = "APPROVED" => r = q

\* A refund that was rejected or has failed is not reopened or approved by an
\* approval or a sync that was already under way.
DecisionsStand ==
  [][\A r \in Requests : refund[r].status \in {"REJECTED", "FAILED"}
                           => refund'[r].status \in {"REJECTED", "FAILED"}]_vars

\* The promise of MoneyBack, with the ticket read from the booking and the sum
\* from the payment.
Promise == INSTANCE MoneyBack WITH
             Sums <- Amounts, Nothing <- None,
             ticket <- IF booking.status = "CONFIRMED" THEN "VALID" ELSE "VOID",
             returned <- IF Returned THEN payment.refundAmount ELSE None

GivesBackOnce == Promise!Spec

=============================================================================
