------------------------------ MODULE SeatSale ------------------------------
(***************************************************************************)
(* What the reservation part of the backend promises about selling seats,  *)
(* with no locks, clocks, payments or transactions: a booking opens, sells *)
(* seats that nobody owns, and closes once and for all; a sold seat stays  *)
(* with its booking until that booking closes, and closing gives back all  *)
(* of the booking's seats in the same step.                                *)
(***************************************************************************)
CONSTANTS Seats, Bookings, Nobody

VARIABLES
  owner,    \* owner[s]: the booking seat s is sold to, or Nobody
  stage     \* stage[b]: where booking b is in its life

vars == <<owner, stage>>

TypeOK == /\ owner \in [Seats -> Bookings \cup {Nobody}]
          /\ stage \in [Bookings -> {"new", "open", "sold", "closed"}]

Init == /\ owner = [s \in Seats |-> Nobody]
        /\ stage = [b \in Bookings |-> "new"]

\* A booking is made and waits for its payment; it owns no seat yet.
Open(b) == /\ stage[b] = "new"
           /\ stage' = [stage EXCEPT ![b] = "open"]
           /\ UNCHANGED owner

\* A booking gets its seats: an open one that was paid, or one made at the
\* counter.  No seat of S belongs to anybody.
Sell(b, S) ==
  /\ stage[b] \in {"new", "open"}
  /\ \A s \in S : owner[s] = Nobody
  /\ stage' = [stage EXCEPT ![b] = "sold"]
  /\ owner' = [s \in Seats |-> IF s \in S THEN b ELSE owner[s]]

\* Bookings B are cancelled or expire, and lose all their seats.
Close(B) ==
  /\ \A b \in B : stage[b] # "new"
  /\ stage' = [b \in Bookings |-> IF b \in B THEN "closed" ELSE stage[b]]
  /\ owner' = [s \in Seats |-> IF owner[s] \in B THEN Nobody ELSE owner[s]]

Next == \/ \E b \in Bookings : Open(b)
        \/ \E b \in Bookings, S \in SUBSET Seats : Sell(b, S)
        \/ \E B \in SUBSET Bookings : Close(B)

Spec == Init /\ [][Next]_vars
=============================================================================
