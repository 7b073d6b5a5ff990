------------------------------ MODULE MoneyBack ------------------------------
(***************************************************************************)
(* What refunds promise about one paid ticket: the money is given back at  *)
(* most once, in the same step the ticket becomes void, and a void ticket  *)
(* stays void.  A ticket may also become void with the money kept.         *)
(***************************************************************************)
CONSTANTS Sums,      \* what may be given back
          Nothing

VARIABLES ticket,    \* "VALID" or "VOID"
          returned   \* the sum given back, Nothing before

vars == <<ticket, returned>>

Init == ticket = "VALID" /\ returned = Nothing

Void == ticket' = "VOID" /\ UNCHANGED returned

GiveBack(sum) == /\ returned = Nothing
                 /\ ticket' = "VOID"
                 /\ returned' = sum

Next == Void \/ \E sum \in Sums : GiveBack(sum)

Spec == Init /\ [][Next]_vars
=============================================================================
