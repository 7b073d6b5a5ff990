----------------------------- MODULE SslAnswers -----------------------------
(***************************************************************************)
(* How SslCommerzRefundService reads the gateway's JSON.  An answer is     *)
(* reduced to what the two readers look at:                                *)
(*   connect   APIConnect: missing, DONE, or anything else                 *)
(*   approval  the field named approval status: missing, fine, declined    *)
(*   nested    some other field below an approval key says declined        *)
(*   status    status, in any case                                         *)
(*   request   request_status, which only the initiate reader knows        *)
(*   ref       refund_ref_id is there                                      *)
(* A missing text is "".  The code walks four levels below the top, each   *)
(* like the first; one of them is modelled.                                *)
(***************************************************************************)


Positive == {"success", "refunded"}
Negative == {"failed", "fail", "cancelled", "canceled", "cancel"}
Waiting  == {"processing", "pending"}
Tokens   == Positive \cup Negative \cup Waiting \cup {"other"}

Answers == [connect : {"", "DONE", "other"}, approval : {"", "fine", "declined"},
            nested : BOOLEAN, status : Tokens \cup {""},
            request : {"", "success", "failed", "other"}, ref : BOOLEAN]

\* normalizeGatewayStatus.
Normalized(token) == CASE token \in Positive -> "SUCCESS"
                       [] token \in Negative -> "FAILED"
                       [] token \in Waiting  -> "PROCESSING"
                       [] OTHER              -> "UNKNOWN"

\* detectDeclinedApprovalInResponse.
DeclinedSomewhere(a) == a.approval = "declined" \/ a.nested

\* The status the initiate reader picks: the first that is there.
InitiateStatus(a) == IF a.status # "" THEN a.status ELSE a.request

\* Mutant of Initiate: success does not need a reference.
InitiateNoRef(a) ==
  IF a.connect # "DONE" \/ DeclinedSomewhere(a) THEN "FAILED"
  ELSE Normalized(InitiateStatus(a))

\* interpretInitiateRefundResponse.
Initiate(a) ==
  LET s == InitiateStatus(a)
      trusted == a.connect = "DONE" /\ ~DeclinedSomewhere(a)
  IN CASE ~trusted                -> "FAILED"
       [] trusted /\ s = ""       -> IF a.ref THEN "SUCCESS" ELSE "UNKNOWN"
       [] trusted /\ s \in Positive -> IF a.ref THEN "SUCCESS" ELSE "UNKNOWN"
       [] OTHER                   -> Normalized(s)

\* interpretRefundQueryResponse: what its own list does not name is normalized.
Query(a) ==
  LET trusted == a.connect = "DONE" /\ ~DeclinedSomewhere(a)
  IN CASE ~trusted -> "FAILED"
       [] trusted /\ a.status = "refunded" -> "SUCCESS"
       [] trusted /\ a.status = "processing" -> "PROCESSING"
       [] trusted /\ a.status \in {"cancelled", "canceled", "failed", "cancel"} -> "FAILED"
       [] OTHER -> Normalized(a.status)

-----------------------------------------------------------------------------
\* Money counts as returned at initiation only if the gateway gave a reference to
\* ask about later, and nothing in its answer, at the top or one level below, declines.
InitiateIsStrict(a) ==
  Initiate(a) = "SUCCESS" =>
    /\ a.ref /\ a.connect = "DONE" /\ a.approval # "declined" /\ ~a.nested
    /\ a.status \notin Negative \cup Waiting

\* The two readers, written separately, agree on every answer that has a status
\* and a reference.
ReadersAgree(a) == a.status # "" /\ a.ref => Initiate(a) = Query(a)
=============================================================================
