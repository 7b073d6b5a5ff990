---------------------------- MODULE RefundsProofs ----------------------------
(***************************************************************************)
(* Theorems about Refunds, for any sets of refund ids, references,         *)
(* handlers and instants.                                                  *)
(***************************************************************************)
EXTENDS Refunds, TLAPS

\* Gateway reference g was handed out for refund r, for the amount of r.
HandedOut(g, r) == /\ gateway[g].status # "NONE"
                   /\ gateway[g].refund = r
                   /\ gateway[g].amount = refund[r].amount

Filed(r) == refund[r].status # "NONE"

\* A stored reference belongs to its refund.
RefsKnown == \A r \in Requests :
               refund[r].ref # None => Filed(r) /\ HandedOut(refund[r].ref, r)

\* A handler works on a refund that was filed, with a reference of this refund,
\* and has heard SUCCESS only of a refund that the gateway called returned.
ApprovalsKnown ==
  \A h \in Handlers : Is(h, "approve") =>
    /\ Filed(tx[h].refund)
    /\ tx[h].ref # None => HandedOut(tx[h].ref, tx[h].refund)
    /\ Heard(h, "SUCCESS") => /\ tx[h].ref # None
                              /\ gateway[tx[h].ref].status \in Acknowledged

SyncsKnown ==
  \A h \in Handlers : Is(h, "sync") =>
    /\ Filed(tx[h].refund)
    /\ HandedOut(tx[h].ref, tx[h].refund)
    /\ Heard(h, "SUCCESS") => gateway[tx[h].ref].status \in Acknowledged

\* The books alone are not inductive: BackedByGateway needs to know where the
\* answers and references come from.
IInv == /\ TypeOK
        /\ RefundedBookingClosed
        /\ AmountsAgree
        /\ BackedByGateway
        /\ RefsKnown
        /\ ApprovalsKnown
        /\ SyncsKnown

-----------------------------------------------------------------------------
LEMMA PercentageIsAmount ==
  ASSUME NEW n \in Int
  PROVE  RefundPercentage(n) \in Amounts
<1>1. CASE n >= 1440
  BY <1>1 DEF RefundPercentage, Hours, Amounts, Fare
<1>2. CASE n >= 360 /\ n < 1440
  BY <1>2 DEF RefundPercentage, Hours, Amounts, Fare
<1>3. CASE n >= 120 /\ n < 360
  BY <1>3 DEF RefundPercentage, Hours, Amounts, Fare
<1>4. CASE n < 120
  BY <1>4 DEF RefundPercentage, Hours, Amounts, Fare
<1> QED
  BY <1>1, <1>2, <1>3, <1>4

LEMMA FiledAmount ==
  ASSUME TypeOK, MayFile
  PROVE  RefundPercentage(left) \in Amounts
BY PercentageIsAmount DEF TypeOK

LEMMA InitIInv == Init => IInv
<1> SUFFICES ASSUME Init PROVE IInv
  OBVIOUS
<1>1. /\ left \in Int /\ booking \in BookingType /\ payment \in PaymentType
  BY RefundsAssumption DEF Init, BookingType, PaymentType
<1>2. /\ refund \in [Requests -> RefundType] /\ gateway \in [Refs -> GatewayType]
  BY DEF Init, RefundType, GatewayType, NoRefund, Refund, Unrecorded, Recorded,
         Amounts, Fare
<1>3. tx \in [Handlers -> TxType]
  BY DEF Init, TxType
<1>4. RefundedBookingClosed /\ AmountsAgree /\ BackedByGateway
  BY RefundsAssumption
     DEF Init, RefundedBookingClosed, Returned, AmountsAgree, BackedByGateway,
         NoRefund, Refund
<1>5. RefsKnown /\ ApprovalsKnown /\ SyncsKnown
  BY DEF Init, RefsKnown, ApprovalsKnown, SyncsKnown, Is, Idle, NoRefund, Refund
<1> QED
  BY <1>1, <1>2, <1>3, <1>4, <1>5 DEF IInv, TypeOK

-----------------------------------------------------------------------------
\* What every step respects: filed refunds keep their amounts, what the gateway
\* has recorded stays recorded, and what it has called returned stays called so.
RefundsGrow == \A r \in Requests :
                 Filed(r) => /\ refund'[r].status # "NONE"
                             /\ refund'[r].amount = refund[r].amount

GatewayGrows == \A g \in Refs :
                  gateway[g].status # "NONE" =>
                    /\ gateway'[g].status # "NONE"
                    /\ gateway'[g].refund = gateway[g].refund
                    /\ gateway'[g].amount = gateway[g].amount
                    /\ gateway[g].status \in Acknowledged => gateway'[g].status \in Acknowledged

\* Handlers stay where they are or end.
TxShrinks == \A h \in Handlers : tx'[h] = tx[h] \/ tx'[h] = Idle

LEMMA StaysHandedOut ==
  ASSUME RefundsGrow, GatewayGrows,
         NEW r \in Requests, NEW g \in Refs, Filed(r), HandedOut(g, r)
  PROVE  Filed(r)' /\ HandedOut(g, r)'
BY DEF RefundsGrow, GatewayGrows, Filed, HandedOut

\* What the fields of a handler's record range over.
LEMMA HandlerFields ==
  ASSUME TypeOK, NEW h \in Handlers
  PROVE  /\ Is(h, "cancel") => tx[h].amount \in Amounts
         /\ Is(h, "approve") => /\ tx[h] \in Approving
                                /\ tx[h].refund \in Requests
                                /\ tx[h].ref \in Refs \cup {None}
         /\ Is(h, "sync") => /\ tx[h] \in Syncing
                             /\ tx[h].refund \in Requests
                             /\ tx[h].ref \in Refs
BY DEF TypeOK, TxType, Cancelling, Approving, Syncing, Idle, Is

\* A handler's record stays true in any step that leaves the record alone.
LEMMA HandlerStaysKnown ==
  ASSUME IInv, RefundsGrow, GatewayGrows, NEW h \in Handlers, tx'[h] = tx[h]
  PROVE  /\ Is(h, "approve")' =>
              /\ Filed(tx[h].refund)'
              /\ tx'[h].ref # None => HandedOut(tx[h].ref, tx[h].refund)'
              /\ Heard(h, "SUCCESS")' => /\ tx'[h].ref # None
                                         /\ gateway'[tx'[h].ref].status \in Acknowledged
         /\ Is(h, "sync")' =>
              /\ Filed(tx[h].refund)'
              /\ HandedOut(tx[h].ref, tx[h].refund)'
              /\ Heard(h, "SUCCESS")' => gateway'[tx'[h].ref].status \in Acknowledged
<1>1. ASSUME Is(h, "approve")
      PROVE  /\ Filed(tx[h].refund)'
             /\ tx'[h].ref # None => HandedOut(tx[h].ref, tx[h].refund)'
             /\ Heard(h, "SUCCESS")' => /\ tx'[h].ref # None
                                        /\ gateway'[tx'[h].ref].status \in Acknowledged
  <2>1. tx[h].refund \in Requests /\ tx[h].ref \in Refs \cup {None}
    BY <1>1, HandlerFields DEF IInv
  <2>2. /\ Filed(tx[h].refund)
        /\ tx[h].ref # None => HandedOut(tx[h].ref, tx[h].refund)
        /\ Heard(h, "SUCCESS") => /\ tx[h].ref # None
                                  /\ gateway[tx[h].ref].status \in Acknowledged
    BY <1>1 DEF IInv, ApprovalsKnown
  <2>3. refund'[tx[h].refund].status # "NONE"
    BY <2>1, <2>2 DEF RefundsGrow, Filed
  <2>4. tx[h].ref # None => HandedOut(tx[h].ref, tx[h].refund)'
    BY <2>1, <2>2 DEF RefundsGrow, GatewayGrows, Filed, HandedOut
  <2>5. Heard(h, "SUCCESS") => /\ tx[h].ref # None
                               /\ gateway'[tx[h].ref].status \in Acknowledged
    BY <2>1, <2>2 DEF GatewayGrows, HandedOut
  <2> QED
    BY <2>3, <2>4, <2>5 DEF Filed, HandedOut, Heard
<1>2. ASSUME Is(h, "sync")
      PROVE  /\ Filed(tx[h].refund)'
             /\ HandedOut(tx[h].ref, tx[h].refund)'
             /\ Heard(h, "SUCCESS")' => gateway'[tx'[h].ref].status \in Acknowledged
  <2>1. tx[h].refund \in Requests /\ tx[h].ref \in Refs
    BY <1>2, HandlerFields DEF IInv
  <2>2. /\ Filed(tx[h].refund)
        /\ HandedOut(tx[h].ref, tx[h].refund)
        /\ Heard(h, "SUCCESS") => gateway[tx[h].ref].status \in Acknowledged
    BY <1>2 DEF IInv, SyncsKnown
  <2>3. Filed(tx[h].refund)' /\ HandedOut(tx[h].ref, tx[h].refund)'
    BY <2>1, <2>2 DEF RefundsGrow, GatewayGrows, Filed, HandedOut
  <2>4. Heard(h, "SUCCESS") => gateway'[tx[h].ref].status \in Acknowledged
    BY <2>1, <2>2 DEF GatewayGrows, HandedOut
  <2> QED
    BY <2>3, <2>4 DEF Heard
<1> QED
  BY <1>1, <1>2 DEF Is

LEMMA HandlersStayKnown ==
  ASSUME IInv, RefundsGrow, GatewayGrows, TxShrinks
  PROVE  ApprovalsKnown' /\ SyncsKnown'
<1>1. ASSUME NEW h \in Handlers, Is(h, "approve")' \/ Is(h, "sync")'
      PROVE  tx'[h] = tx[h]
  BY <1>1 DEF TxShrinks, Is, Idle
<1>2. ApprovalsKnown'
  BY <1>1, HandlerStaysKnown DEF ApprovalsKnown, Heard, HandedOut, Filed
<1>3. SyncsKnown'
  BY <1>1, HandlerStaysKnown DEF SyncsKnown, Heard, HandedOut, Filed
<1> QED
  BY <1>2, <1>3

LEMMA EndShrinks ==
  ASSUME TypeOK, NEW h, End(h)
  PROVE  tx' \in [Handlers -> TxType] /\ TxShrinks
BY DEF TypeOK, End, TxShrinks, TxType

LEMMA SameTxShrinks ==
  ASSUME TypeOK, UNCHANGED tx
  PROVE  tx' \in [Handlers -> TxType] /\ TxShrinks
BY DEF TypeOK, TxShrinks

\* The references stay known when no refund gets a new one.
LEMMA RefsStayKnown ==
  ASSUME IInv, RefundsGrow, GatewayGrows,
         \A r \in Requests : refund'[r].ref \in {refund[r].ref, None}
  PROVE  RefsKnown'
<1> SUFFICES ASSUME NEW r \in Requests, refund'[r].ref # None
             PROVE  Filed(r)' /\ HandedOut(refund[r].ref, r)'
  BY DEF RefsKnown, Filed, HandedOut
<1>1. refund'[r].ref = refund[r].ref
  OBVIOUS
<1>2. Filed(r) /\ HandedOut(refund[r].ref, r) /\ refund[r].ref \in Refs
  BY <1>1 DEF IInv, RefsKnown, TypeOK, RefundType
<1>3. HandedOut(refund[r].ref, r)' /\ Filed(r)'
  BY <1>1, <1>2 DEF RefundsGrow, GatewayGrows, Filed, HandedOut
<1> QED
  BY <1>1, <1>3

-----------------------------------------------------------------------------
(* Steps that leave the books alone                                        *)

\* A handler begins or hears an answer, a handler ends, time passes.
LEMMA BooksUntouched ==
  ASSUME IInv, UNCHANGED <<booking, payment, refund>>, GatewayGrows,
         gateway' \in [Refs -> GatewayType], left' \in Int,
         tx' \in [Handlers -> TxType], ApprovalsKnown', SyncsKnown'
  PROVE  IInv'
<1>1. RefundsGrow
  BY DEF RefundsGrow, Filed
<1>2. TypeOK' /\ RefundedBookingClosed' /\ AmountsAgree'
  BY DEF IInv, TypeOK, RefundedBookingClosed, AmountsAgree, Returned
<1>3. BackedByGateway'
  BY DEF IInv, BackedByGateway, GatewayGrows, Acknowledged
<1>4. RefsKnown'
  BY <1>1, RefsStayKnown
<1> QED
  BY <1>2, <1>3, <1>4 DEF IInv

LEMMA SameGatewayGrows ==
  ASSUME UNCHANGED gateway
  PROVE  GatewayGrows
BY DEF GatewayGrows

\* One handler gets the record t, of which the next state knows what it must.
LEMMA HandlerChanges ==
  ASSUME IInv, RefundsGrow, GatewayGrows, NEW k \in Handlers, NEW t \in TxType,
         tx' = [tx EXCEPT ![k] = t],
         t.kind = "approve" =>
           /\ Filed(t.refund)'
           /\ t.ref # None => HandedOut(t.ref, t.refund)'
           /\ t.answer = "SUCCESS" => /\ t.ref # None
                                      /\ gateway'[t.ref].status \in Acknowledged,
         t.kind = "sync" =>
           /\ Filed(t.refund)'
           /\ HandedOut(t.ref, t.refund)'
           /\ t.answer = "SUCCESS" => gateway'[t.ref].status \in Acknowledged
  PROVE  tx' \in [Handlers -> TxType] /\ ApprovalsKnown' /\ SyncsKnown'
<1>1. tx' \in [Handlers -> TxType] /\ tx'[k] = t
  BY DEF IInv, TypeOK
<1>2. ASSUME NEW h \in Handlers, h # k
      PROVE  tx'[h] = tx[h]
  BY <1>2 DEF IInv, TypeOK
<1>3. ApprovalsKnown'
  <2> SUFFICES ASSUME NEW h \in Handlers, Is(h, "approve")'
               PROVE  /\ Filed(tx[h].refund)'
                      /\ tx'[h].ref # None => HandedOut(tx[h].ref, tx[h].refund)'
                      /\ Heard(h, "SUCCESS")' =>
                           /\ tx'[h].ref # None
                           /\ gateway'[tx'[h].ref].status \in Acknowledged
    BY DEF ApprovalsKnown, Heard, HandedOut, Filed
  <2>1. CASE h = k
    BY <2>1, <1>1 DEF Is, Heard, HandedOut, Filed
  <2>2. CASE h # k
    BY <2>2, <1>2, HandlerStaysKnown DEF Heard, HandedOut, Filed
  <2> QED
    BY <2>1, <2>2
<1>4. SyncsKnown'
  <2> SUFFICES ASSUME NEW h \in Handlers, Is(h, "sync")'
               PROVE  /\ Filed(tx[h].refund)'
                      /\ HandedOut(tx[h].ref, tx[h].refund)'
                      /\ Heard(h, "SUCCESS")' =>
                           gateway'[tx'[h].ref].status \in Acknowledged
    BY DEF SyncsKnown, Heard, HandedOut, Filed
  <2>1. CASE h = k
    BY <2>1, <1>1 DEF Is, Heard, HandedOut, Filed
  <2>2. CASE h # k
    BY <2>2, <1>2, HandlerStaysKnown DEF Heard, HandedOut, Filed
  <2> QED
    BY <2>1, <2>2
<1> QED
  BY <1>1, <1>3, <1>4

\* The same for a handler that begins or hears something while no row changes
\* and the gateway records at most something new.
LEMMA HandlerStep ==
  ASSUME IInv, UNCHANGED <<left, booking, payment, refund>>, GatewayGrows,
         gateway' \in [Refs -> GatewayType], NEW k \in Handlers, NEW t \in TxType,
         tx' = [tx EXCEPT ![k] = t],
         t.kind = "approve" =>
           /\ Filed(t.refund)
           /\ t.ref # None => HandedOut(t.ref, t.refund)'
           /\ t.answer = "SUCCESS" => /\ t.ref # None
                                      /\ gateway'[t.ref].status \in Acknowledged,
         t.kind = "sync" =>
           /\ Filed(t.refund)
           /\ HandedOut(t.ref, t.refund)'
           /\ t.answer = "SUCCESS" => gateway'[t.ref].status \in Acknowledged
  PROVE  IInv'
<1>1. RefundsGrow
  BY DEF RefundsGrow, Filed
<1>2. \A r : Filed(r) => Filed(r)'
  BY DEF Filed
<1>3. tx' \in [Handlers -> TxType] /\ ApprovalsKnown' /\ SyncsKnown'
  BY <1>1, <1>2, HandlerChanges
<1>4. left' \in Int
  BY DEF IInv, TypeOK
<1> QED
  BY <1>3, <1>4, BooksUntouched

LEMMA CancelReadIInv ==
  ASSUME IInv, NEW h \in Handlers, CancelRead(h)
  PROVE  IInv'
<1>1. [kind |-> "cancel", amount |-> RefundPercentage(left)] \in TxType
  BY FiledAmount DEF CancelRead, IInv, TxType, Cancelling
<1>2. PICK t \in TxType : t = [kind |-> "cancel", amount |-> RefundPercentage(left)]
  BY <1>1
<1>3. tx' = [tx EXCEPT ![h] = t] /\ UNCHANGED <<left, booking, payment, refund, gateway>>
  BY <1>2 DEF CancelRead, Begin
<1>4. t.kind = "cancel"
  BY <1>2
<1> QED
  BY <1>3, <1>4, SameGatewayGrows, HandlerStep DEF IInv, TypeOK

LEMMA ApproveReadIInv ==
  ASSUME IInv, NEW h \in Handlers, NEW r \in Requests, ApproveRead(h, r)
  PROVE  IInv'
<1>1. [kind |-> "approve", refund |-> r, ref |-> None, answer |-> None] \in TxType
  BY DEF TxType, Approving
<1>2. PICK t \in TxType :
        t = [kind |-> "approve", refund |-> r, ref |-> None, answer |-> None]
  BY <1>1
<1>3. tx' = [tx EXCEPT ![h] = t] /\ UNCHANGED <<left, booking, payment, refund, gateway>>
  BY <1>2 DEF ApproveRead, Begin
<1>4. t.kind = "approve" /\ t.refund = r /\ t.ref = None /\ t.answer # "SUCCESS"
  BY <1>2, RefundsAssumption
<1>5. Filed(r)
  BY DEF ApproveRead, Approvable, Pending, Filed
<1> QED
  BY <1>3, <1>4, <1>5, SameGatewayGrows, HandlerStep DEF IInv, TypeOK

LEMMA SyncReadIInv ==
  ASSUME IInv, NEW h \in Handlers, NEW r \in Requests, SyncRead(h, r)
  PROVE  IInv'
<1>1. PICK g : g = refund[r].ref
  OBVIOUS
<1>2. g \in Refs
  BY <1>1 DEF SyncRead, IInv, TypeOK, RefundType
<1>3. PICK a \in BOOLEAN, c \in BOOLEAN :
        /\ a = (booking.status = "CONFIRMED" /\ payment.status = "SUCCESS")
        /\ c = (payment.refundStatus = "SSL_PROCESSING")
  OBVIOUS
<1>4. PICK t \in TxType :
        t = [kind |-> "sync", refund |-> r, ref |-> g, answer |-> None,
             settles |-> a, fails |-> c]
  BY <1>2 DEF TxType, Syncing
<1>5. tx' = [tx EXCEPT ![h] = t] /\ UNCHANGED <<left, booking, payment, refund, gateway>>
  BY <1>1, <1>3, <1>4 DEF SyncRead, Begin
<1>6. t.kind = "sync" /\ t.refund = r /\ t.ref = g /\ t.answer # "SUCCESS"
  BY <1>4, RefundsAssumption
<1>7. Filed(r) /\ HandedOut(g, r)
  BY <1>1 DEF SyncRead, IInv, RefsKnown
<1>8. HandedOut(t.ref, t.refund)'
  BY <1>5, <1>6, <1>7 DEF HandedOut
<1> QED
  BY <1>5, <1>6, <1>7, <1>8, SameGatewayGrows, HandlerStep DEF IInv, TypeOK

LEMMA GatewayAcceptsIInv ==
  ASSUME IInv, NEW h \in Handlers, NEW g \in Refs, GatewayAccepts(h, g)
  PROVE  IInv'
<1>1. PICK r \in Requests : r = tx[h].refund
  BY HandlerFields DEF GatewayAccepts, IInv
<1>2. Filed(r) /\ tx[h].kind = "approve" /\ tx[h] \in Approving
  BY <1>1, HandlerFields DEF GatewayAccepts, IInv, ApprovalsKnown, Is
<1> PICK status \in {"PROCESSING", "PROMISED", "REFUNDED"} :
       /\ gateway' = [gateway EXCEPT ![g] = Recorded(status, r, refund[r].amount)]
       /\ \E a \in Understood(status, g) :
            tx' = [tx EXCEPT ![h].answer = a[1], ![h].ref = a[2]]
  BY <1>1 DEF GatewayAccepts
<1>3. PICK a \in Understood(status, g) :
        tx' = [tx EXCEPT ![h].answer = a[1], ![h].ref = a[2]]
  OBVIOUS
<1>4. /\ a[1] \in {"SUCCESS", "PROCESSING", "FAILED"} /\ a[2] \in {g, None}
      /\ a[1] = "SUCCESS" => status \in Acknowledged /\ a[2] = g
  BY DEF Understood, Acknowledged
<1>5. PICK u \in Approving : u = tx[h]
  BY <1>2
<1>6. PICK t \in TxType : t = [u EXCEPT !.answer = a[1], !.ref = a[2]]
  BY <1>4 DEF TxType, Approving
<1>7. tx' = [tx EXCEPT ![h] = t]
  BY <1>3, <1>5, <1>6 DEF IInv, TypeOK
<1>8. /\ gateway' \in [Refs -> GatewayType] /\ GatewayGrows
      /\ gateway'[g] = Recorded(status, r, refund[r].amount)
  BY DEF GatewayAccepts, GatewayGrows, IInv, TypeOK, GatewayType, RefundType,
              Recorded, Unrecorded
<1>9. UNCHANGED <<left, booking, payment, refund>>
  BY DEF GatewayAccepts
<1>10. HandedOut(g, r)'
  BY <1>8, <1>9 DEF HandedOut, Recorded
<1>11. /\ t.kind = "approve" /\ t.refund = r /\ t.ref \in {g, None}
       /\ t.answer = "SUCCESS" => status \in Acknowledged /\ t.ref = g
  BY <1>1, <1>2, <1>4, <1>5, <1>6 DEF Approving
<1>12. t.ref # None => HandedOut(t.ref, t.refund)'
  BY <1>10, <1>11 DEF HandedOut
<1>13. t.answer = "SUCCESS" => t.ref # None /\ gateway'[t.ref].status \in Acknowledged
  BY <1>8, <1>11, RefundsAssumption DEF Recorded
<1> QED
  BY <1>2, <1>7, <1>8, <1>9, <1>11, <1>12, <1>13, HandlerStep

LEMMA GatewayRefusesIInv ==
  ASSUME IInv, NEW h \in Handlers, GatewayRefuses(h)
  PROVE  IInv'
<1>1. PICK u : u = tx[h]
  OBVIOUS
<1>2. /\ u \in Approving /\ u.kind = "approve" /\ u.refund \in Requests
      /\ u.ref \in Refs \cup {None}
      /\ Filed(u.refund) /\ (u.ref # None => HandedOut(u.ref, u.refund))
  BY <1>1, HandlerFields DEF GatewayRefuses, IInv, ApprovalsKnown, Is
<1>3. PICK t \in TxType : t = [u EXCEPT !.answer = "FAILED"]
  BY <1>2 DEF TxType, Approving
<1>4. tx' = [tx EXCEPT ![h] = t] /\ UNCHANGED <<left, booking, payment, refund, gateway>>
  BY <1>1, <1>3 DEF GatewayRefuses, IInv, TypeOK
<1>5. t.kind = "approve" /\ t.refund = u.refund /\ t.ref = u.ref /\ t.answer = "FAILED"
  BY <1>2, <1>3 DEF Approving
<1>6. t.ref # None => HandedOut(t.ref, t.refund)'
  BY <1>2, <1>4, <1>5 DEF HandedOut
<1> QED
  BY <1>2, <1>4, <1>5, <1>6, SameGatewayGrows, HandlerStep DEF IInv, TypeOK

LEMMA GatewayReportsIInv ==
  ASSUME IInv, NEW h \in Handlers, GatewayReports(h)
  PROVE  IInv'
<1>1. PICK u : u = tx[h]
  OBVIOUS
<1>2. /\ u \in Syncing /\ u.kind = "sync" /\ u.refund \in Requests /\ u.ref \in Refs
      /\ Filed(u.refund) /\ HandedOut(u.ref, u.refund)
  BY <1>1, HandlerFields DEF GatewayReports, IInv, SyncsKnown, Is
<1>3. PICK a \in {"SUCCESS", "FAILED"} :
        /\ tx' = [tx EXCEPT ![h].answer = a]
        /\ IF a = "SUCCESS" THEN SaysReturned(u.ref) ELSE UNCHANGED gateway
  BY <1>1 DEF GatewayReports
<1>4. PICK t \in TxType : t = [u EXCEPT !.answer = a]
  BY <1>2 DEF TxType, Syncing
<1>5. tx' = [tx EXCEPT ![h] = t] /\ UNCHANGED <<left, booking, payment, refund>>
  BY <1>1, <1>3, <1>4 DEF GatewayReports, IInv, TypeOK
<1>6. t.kind = "sync" /\ t.refund = u.refund /\ t.ref = u.ref /\ t.answer = a
  BY <1>2, <1>4 DEF Syncing
<1>7. /\ gateway' \in [Refs -> GatewayType] /\ GatewayGrows
      /\ a = "SUCCESS" => gateway'[u.ref].status \in Acknowledged
  BY <1>2, <1>3
     DEF SaysReturned, Acknowledged, GatewayGrows, IInv, TypeOK, GatewayType
<1>8. HandedOut(t.ref, t.refund)'
  BY <1>2, <1>5, <1>6, <1>7 DEF HandedOut, GatewayGrows
<1>9. t.answer = "SUCCESS" => gateway'[t.ref].status \in Acknowledged
  BY <1>6, <1>7
<1> QED
  BY <1>2, <1>5, <1>6, <1>7, <1>8, <1>9, HandlerStep DEF IInv

\* No handler learns anything.
LEMMA QuietIInv ==
  ASSUME IInv, UNCHANGED <<booking, payment, refund>>, GatewayGrows,
         gateway' \in [Refs -> GatewayType], left' \in Int,
         tx' \in [Handlers -> TxType], TxShrinks
  PROVE  IInv'
<1>1. RefundsGrow
  BY DEF RefundsGrow, Filed
<1> QED
  BY <1>1, HandlersStayKnown, BooksUntouched

LEMMA GatewayDecidesIInv ==
  ASSUME IInv, NEW g \in Refs, GatewayDecides(g)
  PROVE  IInv'
<1>1. GatewayGrows /\ gateway' \in [Refs -> GatewayType]
  BY DEF GatewayDecides, Acknowledged, GatewayGrows, IInv, TypeOK, GatewayType
<1> QED
  BY <1>1, SameTxShrinks, QuietIInv DEF GatewayDecides, IInv, TypeOK

LEMMA AbortIInv ==
  ASSUME IInv, NEW h \in Handlers, Abort(h)
  PROVE  IInv'
BY EndShrinks, SameGatewayGrows, QuietIInv DEF Abort, IInv, TypeOK

LEMMA TickIInv ==
  ASSUME IInv, Tick
  PROVE  IInv'
BY RefundsAssumption, SameTxShrinks, SameGatewayGrows, QuietIInv DEF Tick, IInv, TypeOK

-----------------------------------------------------------------------------
(* Steps that write the books                                              *)

\* What all of them leave: the gateway's records, and handlers that at most end.
\* Per step it remains to show the types, the three facts about the books, and
\* that every reference a refund gets was handed out for it.
LEMMA BooksWritten ==
  ASSUME IInv, UNCHANGED <<left, gateway>>, TxShrinks, tx' \in [Handlers -> TxType],
         RefundsGrow,
         booking' \in BookingType, payment' \in PaymentType,
         refund' \in [Requests -> RefundType],
         RefundedBookingClosed', AmountsAgree', BackedByGateway',
         \A r \in Requests : \/ refund'[r].ref \in {refund[r].ref, None}
                             \/ Filed(r) /\ HandedOut(refund'[r].ref, r)
  PROVE  IInv'
<1>1. GatewayGrows
  BY SameGatewayGrows
<1>2. RefsKnown'
  <2> SUFFICES ASSUME NEW r \in Requests, refund'[r].ref # None
               PROVE  Filed(r)' /\ HandedOut(refund[r].ref, r)'
    BY DEF RefsKnown, Filed, HandedOut
  <2>1. Filed(r) /\ HandedOut(refund'[r].ref, r)
    BY DEF IInv, RefsKnown
  <2> QED
    BY <2>1 DEF RefundsGrow, Filed, HandedOut
<1>3. ApprovalsKnown' /\ SyncsKnown'
  BY <1>1, HandlersStayKnown
<1>4. TypeOK'
  BY DEF TypeOK, IInv
<1> QED
  BY <1>2, <1>3, <1>4 DEF IInv

\* A new refund is filed.
LEMMA FileIInv ==
  ASSUME IInv, NEW r \in Requests, NEW amount \in Amounts, File(r, amount),
         UNCHANGED <<left, booking, payment, gateway>>,
         TxShrinks, tx' \in [Handlers -> TxType]
  PROVE  IInv'
<1>1. RefundsGrow
  BY DEF RefundsGrow, Filed, File, IInv, TypeOK
<1>2. refund' \in [Requests -> RefundType]
  BY DEF File, Refund, IInv, TypeOK, RefundType
<1>3. RefundedBookingClosed' /\ AmountsAgree' /\ BackedByGateway'
  BY DEF IInv, TypeOK, RefundedBookingClosed, AmountsAgree, BackedByGateway, Returned,
         File, Refund
<1>4. \A q \in Requests : refund'[q].ref \in {refund[q].ref, None}
  BY DEF File, Refund, IInv, TypeOK
<1> QED
  BY <1>1, <1>2, <1>3, <1>4, BooksWritten DEF IInv, TypeOK

LEMMA RequestRefundIInv ==
  ASSUME IInv, NEW r \in Requests, RequestRefund(r)
  PROVE  IInv'
<1>1. PICK amount \in Amounts : amount = RefundPercentage(left)
  BY FiledAmount DEF RequestRefund, IInv
<1> QED
  BY <1>1, FileIInv, SameTxShrinks DEF RequestRefund, IInv

LEMMA CancelWriteIInv ==
  ASSUME IInv, NEW h \in Handlers, NEW r \in Requests, CancelWrite(h, r)
  PROVE  IInv'
<1>1. PICK amount \in Amounts : amount = tx[h].amount
  BY HandlerFields DEF CancelWrite, IInv
<1> QED
  BY <1>1, FileIInv, EndShrinks DEF CancelWrite, IInv

\* A refund is settled, by the books alone or because the gateway has called a
\* reference handed out for it returned.
LEMMA SettleIInv ==
  ASSUME IInv, NEW r \in Requests, NEW mark \in {"SUCCESS", "PROCESSED"},
         NEW ref \in Refs \cup {None},
         Pending(r), Settle(r, mark, ref),
         ref = refund[r].ref \/ HandedOut(ref, r),
         mark = "SUCCESS" =>
           \E g \in Refs : HandedOut(g, r) /\ gateway[g].status \in Acknowledged,
         UNCHANGED <<left, gateway>>, TxShrinks, tx' \in [Handlers -> TxType]
  PROVE  IInv'
<1>1. refund[r].amount \in Amounts
  BY DEF IInv, TypeOK, RefundType
<1>2. booking' \in BookingType
  BY <1>1 DEF Settle, BookingType
<1>3. payment' \in PaymentType
  BY <1>1 DEF Settle, PaymentType
<1>4. refund' = [refund EXCEPT ![r].status = "APPROVED", ![r].ref = ref]
  BY DEF Settle
<1>5. refund' \in [Requests -> RefundType] /\ RefundsGrow
  BY <1>4 DEF RefundsGrow, Filed, IInv, TypeOK, RefundType
<1>6. RefundedBookingClosed' /\ AmountsAgree'
  BY DEF Settle, RefundedBookingClosed, AmountsAgree
<1>7. BackedByGateway'
  BY DEF Settle, BackedByGateway, HandedOut
<1>8. \A q \in Requests : \/ refund'[q].ref \in {refund[q].ref, None}
                          \/ Filed(q) /\ HandedOut(refund'[q].ref, q)
  BY <1>4 DEF Pending, Filed, IInv, TypeOK, RefundType
<1> QED
  BY <1>2, <1>3, <1>5, <1>6, <1>7, <1>8, BooksWritten

LEMMA ApproveLocallyIInv ==
  ASSUME IInv, NEW r \in Requests, ApproveLocally(r)
  PROVE  IInv'
<1>1. PICK ref \in Refs \cup {None} : ref = refund[r].ref
  BY DEF IInv, TypeOK, RefundType
<1>2. Settle(r, "PROCESSED", ref) /\ Pending(r)
  BY <1>1 DEF ApproveLocally, Approvable
<1> QED
  BY <1>1, <1>2, SettleIInv, SameTxShrinks DEF ApproveLocally, IInv

LEMMA ApproveSettledIInv ==
  ASSUME IInv, NEW h \in Handlers, ApproveSettled(h)
  PROVE  IInv'
<1>1. PICK r \in Requests, ref \in Refs \cup {None} : r = tx[h].refund /\ ref = tx[h].ref
  BY HandlerFields DEF ApproveSettled, IInv
<1>2. /\ ref \in Refs /\ Filed(r) /\ HandedOut(ref, r)
      /\ gateway[ref].status \in Acknowledged
  BY <1>1 DEF ApproveSettled, IInv, ApprovalsKnown
<1>3. Settle(r, "SUCCESS", ref) /\ Pending(r)
  BY <1>1 DEF ApproveSettled, Approvable
<1> QED
  BY <1>2, <1>3, SettleIInv, EndShrinks DEF ApproveSettled, IInv

\* The reference stored for a pending refund may have been replaced while the
\* sync waited, so what the gateway said is found under the handler's reference.
LEMMA SyncSettledIInv ==
  ASSUME IInv, NEW h \in Handlers, SyncSettled(h)
  PROVE  IInv'
<1>1. PICK r \in Requests, g \in Refs : r = tx[h].refund /\ g = tx[h].ref
  BY HandlerFields DEF SyncSettled, IInv
<1>2. Filed(r) /\ HandedOut(g, r) /\ gateway[g].status \in Acknowledged
  BY <1>1 DEF SyncSettled, IInv, SyncsKnown
<1>3. PICK ref \in Refs \cup {None} : ref = refund[r].ref
  BY DEF IInv, TypeOK, RefundType
<1>4. Settle(r, "SUCCESS", ref) /\ Pending(r) /\ UNCHANGED <<left, gateway>>
  BY <1>1, <1>3 DEF SyncSettled
<1> QED
  BY <1>2, <1>3, <1>4, SettleIInv, EndShrinks DEF SyncSettled, IInv

LEMMA ApproveFailedIInv ==
  ASSUME IInv, NEW h \in Handlers, ApproveFailed(h)
  PROVE  IInv'
<1>1. PICK r \in Requests, ref \in Refs \cup {None} : r = tx[h].refund /\ ref = tx[h].ref
  BY HandlerFields DEF ApproveFailed, IInv
<1>2. Filed(r) /\ (ref # None => HandedOut(ref, r))
  BY <1>1 DEF ApproveFailed, IInv, ApprovalsKnown
<1>3. /\ refund' = [refund EXCEPT ![r].status = "FAILED", ![r].ref = ref]
      /\ UNCHANGED <<left, booking, payment, gateway>>
  BY <1>1 DEF ApproveFailed
<1>4. TxShrinks /\ tx' \in [Handlers -> TxType]
  BY EndShrinks DEF ApproveFailed, IInv
<1>5. refund' \in [Requests -> RefundType] /\ RefundsGrow
  BY <1>3 DEF RefundsGrow, Filed, IInv, TypeOK, RefundType
<1>6. RefundedBookingClosed' /\ AmountsAgree' /\ BackedByGateway'
  BY <1>3 DEF IInv, TypeOK, RefundType, RefundedBookingClosed, AmountsAgree, BackedByGateway,
              Returned
<1>7. \A q \in Requests : \/ refund'[q].ref \in {refund[q].ref, None}
                          \/ Filed(q) /\ HandedOut(refund'[q].ref, q)
  BY <1>2, <1>3 DEF IInv, TypeOK, RefundType
<1> QED
  BY <1>3, <1>4, <1>5, <1>6, <1>7, BooksWritten DEF IInv, TypeOK

LEMMA ApproveProcessingIInv ==
  ASSUME IInv, NEW h \in Handlers, ApproveProcessing(h)
  PROVE  IInv'
<1>1. PICK r \in Requests, ref \in Refs \cup {None} : r = tx[h].refund /\ ref = tx[h].ref
  BY HandlerFields DEF ApproveProcessing, IInv
<1>2. Filed(r) /\ (ref # None => HandedOut(ref, r))
  BY <1>1 DEF ApproveProcessing, IInv, ApprovalsKnown
<1>3. /\ refund' = [refund EXCEPT ![r].ref = ref]
      /\ payment' = [payment EXCEPT !.refundStatus = "SSL_PROCESSING",
                                    !.refundAmount = refund[r].amount]
      /\ ~Returned
      /\ UNCHANGED <<left, booking, gateway>>
  BY <1>1 DEF ApproveProcessing, Approvable
<1>4. TxShrinks /\ tx' \in [Handlers -> TxType]
  BY EndShrinks DEF ApproveProcessing, IInv
<1>5. refund' \in [Requests -> RefundType] /\ RefundsGrow
  BY <1>3 DEF RefundsGrow, Filed, IInv, TypeOK, RefundType
<1>6. payment' \in PaymentType /\ ~Returned'
  BY <1>3 DEF IInv, TypeOK, RefundType, PaymentType, Returned
<1>7. payment'.refundStatus = "SSL_PROCESSING"
  BY <1>3 DEF IInv, TypeOK, PaymentType
<1>8. RefundedBookingClosed' /\ AmountsAgree' /\ BackedByGateway'
  BY <1>3, <1>6, <1>7
     DEF IInv, TypeOK, RefundType, RefundedBookingClosed, AmountsAgree, BackedByGateway
<1>9. \A q \in Requests : \/ refund'[q].ref \in {refund[q].ref, None}
                          \/ Filed(q) /\ HandedOut(refund'[q].ref, q)
  BY <1>2, <1>3 DEF IInv, TypeOK, RefundType
<1> QED
  BY <1>3, <1>4, <1>5, <1>6, <1>8, <1>9, BooksWritten DEF IInv, TypeOK

LEMMA SyncFailedIInv ==
  ASSUME IInv, NEW h \in Handlers, SyncFailed(h)
  PROVE  IInv'
<1>1. PICK r \in Requests : r = tx[h].refund
  BY HandlerFields DEF SyncFailed, IInv
<1>2. /\ refund' = [refund EXCEPT ![r].status = "FAILED"]
      /\ payment' = [payment EXCEPT !.refundStatus = "SSL_REFUND_CANCELLED"]
      /\ UNCHANGED <<left, booking, gateway>>
  BY <1>1 DEF SyncFailed
<1>3. TxShrinks /\ tx' \in [Handlers -> TxType]
  BY EndShrinks DEF SyncFailed, IInv
<1>4. refund' \in [Requests -> RefundType] /\ RefundsGrow
  BY <1>2 DEF RefundsGrow, Filed, IInv, TypeOK, RefundType
<1>5. /\ payment' \in PaymentType /\ payment'.status = payment.status
      /\ payment'.refundAmount = payment.refundAmount
      /\ payment'.refundStatus = "SSL_REFUND_CANCELLED"
  BY <1>2 DEF IInv, TypeOK, PaymentType
<1>6. RefundedBookingClosed' /\ AmountsAgree' /\ BackedByGateway'
  BY <1>2, <1>5
     DEF IInv, TypeOK, RefundType, RefundedBookingClosed, AmountsAgree, BackedByGateway,
         Returned
<1>7. \A q \in Requests : refund'[q].ref \in {refund[q].ref, None}
  BY <1>2 DEF IInv, TypeOK, RefundType
<1> QED
  BY <1>2, <1>3, <1>4, <1>5, <1>6, <1>7, BooksWritten DEF IInv, TypeOK

LEMMA RejectIInv ==
  ASSUME IInv, NEW r \in Requests, Reject(r)
  PROVE  IInv'
<1>1. refund' \in [Requests -> RefundType] /\ RefundsGrow
  BY DEF Reject, RefundsGrow, Filed, IInv, TypeOK, RefundType
<1>2. RefundedBookingClosed' /\ AmountsAgree' /\ BackedByGateway'
  BY DEF Reject, IInv, TypeOK, RefundType, RefundedBookingClosed, AmountsAgree,
         BackedByGateway, Returned
<1>3. \A q \in Requests : refund'[q].ref \in {refund[q].ref, None}
  BY DEF Reject, IInv, TypeOK, RefundType
<1> QED
  BY <1>1, <1>2, <1>3, SameTxShrinks, BooksWritten DEF Reject, IInv, TypeOK

\* The booking closes and the payment keeps its refund columns.
LEMMA BookingClosesIInv ==
  ASSUME IInv, UNCHANGED <<left, refund, gateway, tx>>,
         booking' = [booking EXCEPT !.status = "CANCELLED", !.seated = FALSE],
         payment' = payment \/ payment' = [payment EXCEPT !.status = "FAILED"]
  PROVE  IInv'
<1>1. RefundsGrow
  BY DEF RefundsGrow, Filed
<1>2. /\ booking' \in BookingType /\ payment' \in PaymentType
      /\ booking'.status = "CANCELLED" /\ ~booking'.seated
      /\ booking'.refundAmount = booking.refundAmount
      /\ payment'.refundAmount = payment.refundAmount
      /\ payment'.refundStatus = payment.refundStatus
      /\ Returned' => Returned
  BY DEF IInv, TypeOK, BookingType, PaymentType, Returned
<1>3. RefundedBookingClosed' /\ AmountsAgree' /\ BackedByGateway'
  BY <1>2 DEF IInv, RefundedBookingClosed, AmountsAgree, BackedByGateway
<1> QED
  BY <1>1, <1>2, <1>3, SameTxShrinks, BooksWritten DEF IInv, TypeOK

-----------------------------------------------------------------------------
LEMMA StepIInv ==
  ASSUME IInv, [Next]_vars
  PROVE  IInv'
<1>1. CASE UNCHANGED vars
  <2>1. UNCHANGED <<left, booking, payment, refund, gateway, tx>>
    BY <1>1 DEF vars
  <2> QED
    BY <2>1, SameTxShrinks, SameGatewayGrows, QuietIInv DEF IInv, TypeOK
<1>2. ASSUME NEW r \in Requests, OfRequest(r)
      PROVE  IInv'
  BY <1>2, RequestRefundIInv, ApproveLocallyIInv, RejectIInv DEF OfRequest
<1>3. ASSUME NEW h \in Handlers, OfHandler(h)
      PROVE  IInv'
  BY <1>3, CancelReadIInv, CancelWriteIInv, ApproveReadIInv, SyncReadIInv,
     ApproveFailedIInv, ApproveProcessingIInv, ApproveSettledIInv, SyncSettledIInv,
     SyncFailedIInv, AbortIInv DEF OfHandler
<1>4. CASE OfGateway
  BY <1>4, GatewayRefusesIInv, GatewayReportsIInv, GatewayAcceptsIInv, GatewayDecidesIInv
     DEF OfGateway
<1>5. CASE AdminCancel
  BY <1>5, BookingClosesIInv DEF AdminCancel
<1>6. CASE PaymentFailure
  BY <1>6, BookingClosesIInv DEF PaymentFailure
<1>7. CASE Tick
  BY <1>7, TickIInv
<1> QED
  BY <1>1, <1>2, <1>3, <1>4, <1>5, <1>6, <1>7 DEF Next

\* Types are kept by every behaviour, for any constants; with what makes the
\* types and the books inductive.
THEOREM Invariance == Spec => []IInv
BY InitIInv, StepIInv, PTL DEF Spec

\* The state of Refunds always has its types.
THEOREM RefundsTypeCorrect == Spec => []TypeOK
<1>1. IInv => TypeOK
  BY DEF IInv
<1> QED
  BY <1>1, Invariance, PTL

\* Approved or paid back, the booking is closed and its seats are free
\* (approve and adminSyncSslRefundStatus close it in the transaction that settles).
THEOREM RefundClosesBooking == Spec => []RefundedBookingClosed
<1>1. IInv => RefundedBookingClosed
  BY DEF IInv
<1> QED
  BY <1>1, Invariance, PTL

\* Booking and payment record the same sum, also with a second refund under way.
THEOREM BooksAgree == Spec => []AmountsAgree
<1>1. IInv => AmountsAgree
  BY DEF IInv
<1> QED
  BY <1>1, Invariance, PTL

\* A payment is marked as refunded by the gateway only with the sum of a refund the
\* gateway has accepted and called returned, whatever the order of the answers.
THEOREM GatewayBacksBooks == Spec => []BackedByGateway
<1>1. IInv => BackedByGateway
  BY DEF IInv
<1> QED
  BY <1>1, Invariance, PTL

-----------------------------------------------------------------------------
(* One approval, decisions, and the promise                                *)

\* A step settles a refund that is approvable at this moment ...
Settles == \E r \in Requests, mark \in {"SUCCESS", "PROCESSED"}, ref \in Refs \cup {None} :
             Approvable(r) /\ Settle(r, mark, ref)

\* ... or approves nothing, reopens nothing, and keeps what was given back.
SettlesNothing ==
  /\ \A r \in Requests :
       /\ refund'[r].status = "APPROVED" => refund[r].status = "APPROVED"
       /\ refund[r].status \in {"REJECTED", "FAILED"}
            => refund'[r].status \in {"REJECTED", "FAILED"}
  /\ booking'.status \in {booking.status, "CANCELLED"}
  /\ payment'.status = payment.status
  /\ Returned => payment'.refundAmount = payment.refundAmount

LEMMA StepKinds ==
  ASSUME IInv, [Next]_vars
  PROVE  Settles \/ SettlesNothing \/ PaymentFailure
<1> USE DEF SettlesNothing
<1>1. ASSUME UNCHANGED <<booking, payment, refund>>
      PROVE  SettlesNothing
  BY <1>1
<1>2. ASSUME NEW r \in Requests, NEW amount, File(r, amount), UNCHANGED <<booking, payment>>
      PROVE  SettlesNothing
  BY <1>2 DEF File, Refund, IInv, TypeOK
<1>3. ASSUME NEW r \in Requests, OfRequest(r)
      PROVE  Settles \/ SettlesNothing
  <2>1. CASE RequestRefund(r)
    BY <2>1, <1>2 DEF RequestRefund
  <2>2. CASE ApproveLocally(r)
    BY <2>2 DEF ApproveLocally, Settles, IInv, TypeOK, RefundType
  <2>3. CASE Reject(r)
    BY <2>3 DEF Reject, Pending, IInv, TypeOK, RefundType
  <2> QED
    BY <1>3, <2>1, <2>2, <2>3 DEF OfRequest
<1>4. ASSUME NEW h \in Handlers, OfHandler(h)
      PROVE  Settles \/ SettlesNothing
  <2>1. CASE CancelRead(h) \/ Abort(h)
             \/ \E r \in Requests : ApproveRead(h, r) \/ SyncRead(h, r)
    BY <2>1, <1>1 DEF CancelRead, Abort, ApproveRead, SyncRead
  <2>2. ASSUME NEW r \in Requests, CancelWrite(h, r)
        PROVE  SettlesNothing
    BY <2>2, <1>2 DEF CancelWrite
  <2>3. CASE ApproveFailed(h)
    <3>1. PICK r \in Requests : r = tx[h].refund
      BY <2>3, HandlerFields DEF ApproveFailed, IInv
    <3>2. PICK ref : refund' = [refund EXCEPT ![r].status = "FAILED", ![r].ref = ref]
      BY <2>3, <3>1 DEF ApproveFailed
    <3> QED
      BY <2>3, <3>2 DEF ApproveFailed, IInv, TypeOK, RefundType
  <2>4. CASE ApproveProcessing(h)
    <3>1. PICK r \in Requests : r = tx[h].refund
      BY <2>4, HandlerFields DEF ApproveProcessing, IInv
    <3>2. PICK ref : refund' = [refund EXCEPT ![r].ref = ref]
      BY <2>4, <3>1 DEF ApproveProcessing
    <3> QED
      BY <2>4, <3>2
         DEF ApproveProcessing, Approvable, IInv, TypeOK, RefundType, PaymentType
  <2>5. CASE ApproveSettled(h)
    BY <2>5, HandlerFields DEF ApproveSettled, Settles, IInv
  <2>6. CASE SyncSettled(h)
    <3>1. tx[h].refund \in Requests /\ refund[tx[h].refund].ref \in Refs \cup {None}
      BY <2>6, HandlerFields DEF SyncSettled, IInv, TypeOK, RefundType
    <3> QED
      BY <2>6, <3>1 DEF SyncSettled, Settles, Approvable, Returned
  <2>7. CASE SyncFailed(h)
    <3>1. PICK r \in Requests : r = tx[h].refund
      BY <2>7, HandlerFields DEF SyncFailed, IInv
    <3> QED
      BY <2>7, <3>1 DEF SyncFailed, IInv, TypeOK, RefundType, PaymentType
  <2> QED
    BY <1>4, <2>1, <2>2, <2>3, <2>4, <2>5, <2>6, <2>7 DEF OfHandler
<1>5. CASE OfGateway
  BY <1>5, <1>1 DEF OfGateway, GatewayRefuses, GatewayReports, GatewayAccepts, GatewayDecides
<1>6. CASE AdminCancel
  BY <1>6 DEF AdminCancel, IInv, TypeOK, BookingType
<1>7. CASE Tick \/ UNCHANGED vars
  BY <1>7, <1>1 DEF Tick, vars
<1> QED
  BY <1>3, <1>4, <1>5, <1>6, <1>7 DEF Next

\* An approved refund means that the payment is marked REFUNDED: approve and sync
\* only settle while it is not.
ApprovedIsReturned ==
  \A r \in Requests : refund[r].status = "APPROVED" => Returned

\* At most one refund is approved, if the gateway sends no failure callback for
\* a payment it has reported successful.
THEOREM OneApproval == ~LateFailures => (Spec => []AtMostOneApproved)
<1> SUFFICES ASSUME ~LateFailures
             PROVE  Spec => []AtMostOneApproved
  OBVIOUS
<1>1. Init => ApprovedIsReturned /\ AtMostOneApproved
  BY DEF Init, ApprovedIsReturned, AtMostOneApproved, NoRefund, Refund
<1>2. ASSUME IInv, ApprovedIsReturned, AtMostOneApproved, [Next]_vars
      PROVE  (ApprovedIsReturned /\ AtMostOneApproved)'
  <2>1. CASE Settles
    <3>1. PICK r \in Requests, mark \in {"SUCCESS", "PROCESSED"}, ref \in Refs \cup {None} :
            Approvable(r) /\ Settle(r, mark, ref)
      BY <2>1 DEF Settles
    <3>2. Returned'
      BY <3>1 DEF Settle, Returned
    <3>3. \A q \in Requests : refund[q].status # "APPROVED"
      BY <1>2, <3>1 DEF Approvable, ApprovedIsReturned
    <3>4. \A q \in Requests : refund'[q].status = "APPROVED" => q = r
      BY <1>2, <3>1, <3>3 DEF Settle, IInv, TypeOK
    <3> QED
      BY <3>2, <3>4 DEF ApprovedIsReturned, AtMostOneApproved
  <2>2. CASE SettlesNothing
    BY <1>2, <2>2 DEF SettlesNothing, ApprovedIsReturned, AtMostOneApproved, Returned
  <2> QED
    BY <1>2, <2>1, <2>2, StepKinds DEF PaymentFailure
<1> QED
  BY <1>1, <1>2, Invariance, PTL DEF Spec

\* Rejected and failed refunds are never approved or reopened, by approvals or
\* syncs that were already waiting for the gateway either.
THEOREM RefusalsStand == Spec => DecisionsStand
<1>1. ASSUME IInv, [Next]_vars
      PROVE  \A r \in Requests : refund[r].status \in {"REJECTED", "FAILED"}
                                   => refund'[r].status \in {"REJECTED", "FAILED"}
  <2>1. CASE Settles
    BY <1>1, <2>1 DEF Settles, Settle, Approvable, Pending, IInv, TypeOK
  <2>2. CASE SettlesNothing
    BY <2>2 DEF SettlesNothing
  <2>3. CASE PaymentFailure
    BY <2>3 DEF PaymentFailure
  <2> QED
    BY <1>1, <2>1, <2>2, <2>3, StepKinds
<1> QED
  BY <1>1, Invariance, PTL DEF Spec, DecisionsStand

\* Refunds keep the promise of MoneyBack: money goes back once, in the step that
\* voids the ticket, if there is no late failure callback.
THEOREM RefundsGiveBackOnce == ~LateFailures => (Spec => GivesBackOnce)
<1> SUFFICES ASSUME ~LateFailures
             PROVE  Spec => GivesBackOnce
  OBVIOUS
<1> USE DEF Promise!Init, Promise!Next, Promise!Void, Promise!GiveBack
<1>1. Init => Promise!Init
  BY DEF Init, Returned
<1>2. ASSUME IInv, [Next]_vars
      PROVE  [Promise!Next]_(Promise!vars)
  <2>1. CASE Settles
    <3>1. PICK r \in Requests, mark \in {"SUCCESS", "PROCESSED"}, ref \in Refs \cup {None} :
            Approvable(r) /\ Settle(r, mark, ref)
      BY <2>1 DEF Settles
    <3>2. PICK sum \in Amounts : sum = refund[r].amount
      BY <1>2 DEF IInv, TypeOK, RefundType
    <3>3. /\ ~Returned /\ Returned'
          /\ payment'.refundAmount = sum /\ booking'.status = "CANCELLED"
      BY <3>1, <3>2 DEF Approvable, Settle, Returned
    <3>4. Promise!GiveBack(sum)
      BY <3>3
    <3> QED
      BY <3>4
  <2>2. CASE SettlesNothing
    <3>1. UNCHANGED (IF Returned THEN payment.refundAmount ELSE None)
      BY <2>2 DEF SettlesNothing, Returned
    <3>2. CASE booking'.status = booking.status
      BY <3>1, <3>2 DEF Promise!vars
    <3>3. CASE booking'.status = "CANCELLED"
      BY <3>1, <3>3
    <3> QED
      BY <2>2, <3>2, <3>3 DEF SettlesNothing
  <2> QED
    BY <1>2, <2>1, <2>2, StepKinds DEF PaymentFailure
<1> QED
  BY <1>1, <1>2, Invariance, PTL DEF Spec, GivesBackOnce, Promise!Spec
=============================================================================
