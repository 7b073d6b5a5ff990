------------------------------ MODULE MCRefunds ------------------------------
(* Small instances of Refunds for TLC. *)
EXTENDS Refunds, TLC

\* More than a day ahead and six hours ahead: two different sums.
MCTwoSums == {Hours(25), Hours(6)}

\* Refund ids, references and handlers are only compared for equality.
Symmetry == Permutations(Requests) \cup Permutations(Refs)
              \cup Permutations(Handlers)
=============================================================================
