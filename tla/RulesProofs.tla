----------------------------- MODULE RulesProofs -----------------------------
(***************************************************************************)
(* The pure rules for all inputs: any instant before departure, any        *)
(* setting, any coach, any price, number of seats and discount, and        *)
(* whatever is typed into a form.                                          *)
(***************************************************************************)
EXTENDS Rules, FiniteSetTheorems, TLAPS

-----------------------------------------------------------------------------
(* Inputs that are only chosen, never changed by the code.                 *)

Chosen == /\ left \in Minutes
          /\ lock \in Settings /\ window \in Settings /\ hold \in Settings
          /\ answer \in Answers
          /\ coach \in [class : Classes, sleeper : BOOLEAN, capacity : Nat \ {0},
                        columns : 0 .. 10]
          /\ visit \in Visits

LEMMA ChosenHolds == Spec => []Chosen
  <1>1. Init => Chosen
    <2>1. AnAnswer \in Answers
      BY DEF AnAnswer, Answers, Tokens, Positive, Negative, Waiting
    <2>2. ACoach \in [class : Classes, sleeper : BOOLEAN, capacity : Nat \ {0},
                      columns : 0 .. 10]
      BY DEF ACoach, Coach, Classes
    <2>3. AVisit \in Visits
      BY DEF AVisit, Visits, At, Places, Roles, PlatformPages
    <2> QED
      BY <2>1, <2>2, <2>3 DEF Init, Chosen
  <1>2. Chosen /\ [Next]_vars => Chosen'
    <2> SUFFICES ASSUME Chosen, [Next]_vars PROVE Chosen'
      OBVIOUS
    <2> USE DEF Chosen
    <2>1. CASE Wait
      BY <2>1 DEF Wait
    <2>2. CASE Receive
      BY <2>2 DEF Receive, Parked, Plain
    <2>3. CASE Outfit
      BY <2>3, RulesAssumption DEF Outfit, Parked, Plain
    <2>4. CASE Visit
      BY <2>4 DEF Visit, Parked, Plain, Visits
    <2>5. CASE Seed \/ OpenForm
      BY <2>5 DEF Seed, OpenForm, Parked, Plain, Rest
    <2>6. CASE OpenDrawer \/ EditDrawer \/ SaveDrawer
      BY <2>6 DEF OpenDrawer, EditDrawer, SaveDrawer, Plain
    <2>7. CASE Choose \/ Reprice \/ LockSeats \/ Buy
      BY <2>7 DEF Choose, Reprice, LockSeats, Buy, Others, Parked, Plain
    <2>8. CASE FillIn
      BY <2>8 DEF FillIn, Rest
    <2>9. CASE UNCHANGED vars
      BY <2>9 DEF vars
    <2> QED
      BY <2>1, <2>2, <2>3, <2>4, <2>5, <2>6, <2>7, <2>8, <2>9 DEF Next
  <1> QED
    BY <1>1, <1>2, PTL DEF Spec

-----------------------------------------------------------------------------
(* Refund policy and durations.                                            *)

\* The server and the page compute the same share at every instant.
LEMMA PoliciesAgree ==
  ASSUME NEW n \in Int
  PROVE  /\ RefundFor(n) = Preview(n)
         /\ CanCancel(n) <=> Preview(n) > 0
  BY DEF RefundFor, RefundPercentage, Preview, CanCancel, Hours

LEMMA PoliciesFall ==
  ASSUME NEW n \in Int, NEW m \in Int, m <= n
  PROVE  RefundFor(m) <= Preview(n)
  BY DEF RefundFor, RefundPercentage, Preview, CanCancel, Hours

\* The preview is what cancelBooking returns at that moment and not less than it
\* returns later, at any instants (getRefundPreview, cancelBooking).
THEOREM PreviewsAreKept == Spec => PreviewsHold
  <1>1. Chosen /\ [Next]_vars =>
          [/\ RefundFor(left) = Preview(left)
           /\ CanCancel(left) <=> Preview(left) > 0
           /\ RefundFor(left') <= Preview(left)]_vars
    <2> SUFFICES ASSUME Chosen, [Next]_vars
                 PROVE  /\ RefundFor(left) = Preview(left)
                        /\ CanCancel(left) <=> Preview(left) > 0
                        /\ RefundFor(left') <= Preview(left)
      OBVIOUS
    <2>1. left \in Int /\ \A n \in Minutes : n \in Int
      BY RulesAssumption DEF Chosen
    <2>2. left' = left \/ (left' \in Minutes /\ left' <= left)
      <3>1. CASE Wait
        BY <2>1, <3>1 DEF Wait
      <3>2. CASE Receive \/ Outfit \/ Visit \/ Seed
        BY <3>2 DEF Receive, Outfit, Visit, Seed, Parked, Plain
      <3>3. CASE OpenDrawer \/ EditDrawer \/ SaveDrawer
        BY <3>3 DEF OpenDrawer, EditDrawer, SaveDrawer, Plain
      <3>4. CASE Choose \/ Reprice \/ LockSeats \/ Buy
        BY <3>4 DEF Choose, Reprice, LockSeats, Buy, Others
      <3>5. CASE OpenForm \/ FillIn
        BY <3>5 DEF OpenForm, FillIn, Rest
      <3>6. CASE UNCHANGED vars
        BY <3>6 DEF vars
      <3> QED
        BY <3>1, <3>2, <3>3, <3>4, <3>5, <3>6 DEF Next
    <2>3. left' \in Int /\ left' <= left
      BY <2>1, <2>2
    <2> QED
      BY <2>1, <2>3, PoliciesAgree, PoliciesFall
  <1> QED
    BY <1>1, ChosenHolds, PTL DEF Spec, PreviewsHold

\* A setting is a number, no number, or not there; what is made of it is a number of
\* seconds between one and an hour.
LEMMA ClampedFits ==
  ASSUME NEW setting \in Settings, NEW fallback \in 1 .. Longest
  PROVE  Clamped(setting, fallback) \in 1 .. Longest
  <1>1. setting \in Int \cup {Unset, Text}
    BY RulesAssumption
  <1> QED
    BY <1>1, RulesAssumption DEF Clamped, Longest

\* Whatever the environment says, locks, holds and payment windows last between a
\* second and an hour (booking-timeouts.util.ts).
THEOREM DurationsAlwaysFit == Spec => []DurationsFit
  <1>1. Chosen => DurationsFit
    <2> SUFFICES ASSUME Chosen PROVE DurationsFit
      OBVIOUS
    <2>1. Default \in 1 .. Longest
      BY DEF Default, Longest
    <2>2. \A s \in Settings : Clamped(s, Default) \in 1 .. Longest
      BY <2>1, ClampedFits
    <2> QED
      BY <2>2 DEF Chosen, DurationsFit, SeatLockOf, PaymentWindowOf, DashboardLockOf
  <1> QED
    BY <1>1, ChosenHolds, PTL

-----------------------------------------------------------------------------
(* Readers of the gateway's answers.                                       *)

\* Money counts as returned only on an answer with a reference that neither declines nor
\* says "processing", and both readers understand an answer with status and reference
\* alike, for every answer there may be
\* (interpretInitiateRefundResponse, interpretRefundQueryResponse).
THEOREM AnswersAreAlwaysReadAlike == Spec => []AnswersAreReadAlike
  <1>1. ASSUME NEW a \in Answers PROVE InitiateIsStrict(a)
    BY DEF Answers, InitiateIsStrict, Initiate, InitiateStatus, DeclinedSomewhere,
           Normalized, Tokens, Positive, Negative, Waiting
  <1>2. ASSUME NEW a \in Answers PROVE ReadersAgree(a)
    BY DEF Answers, ReadersAgree, Initiate, Query, InitiateStatus, DeclinedSomewhere,
           Normalized, Tokens, Positive, Negative, Waiting
  <1>3. Chosen => AnswersAreReadAlike
    BY <1>1, <1>2 DEF Chosen, AnswersAreReadAlike
  <1> QED
    BY <1>3, ChosenHolds, PTL

-----------------------------------------------------------------------------
(* Counting.                                                               *)

\* A set whose elements are numbered from 0 to n - 1 has n of them.
LEMMA Numbered ==
  ASSUME NEW n \in Nat, NEW S, NEW f \in [0 .. n - 1 -> S],
         \A i, j \in 0 .. n - 1 : f[i] = f[j] => i = j,
         \A x \in S : \E i \in 0 .. n - 1 : f[i] = x
  PROVE  IsFiniteSet(S) /\ Cardinality(S) = n
  <1>1. f \in Bijection(0 .. n - 1, S)
    BY DEF Bijection, Injection, Surjection, IsInjective
  <1>2. ExistsBijection(0 .. n - 1, S)
    BY <1>1 DEF ExistsBijection
  <1>3. IsFiniteSet(0 .. n - 1) /\ Cardinality(0 .. n - 1) = n
    BY FS_Interval
  <1> QED
    BY <1>2, <1>3, FS_Bijection

\* Different elements that are told apart by f are as many as what f says of them.
LEMMA ToldApart ==
  ASSUME NEW S, IsFiniteSet(S), NEW T, NEW f \in [S -> T],
         \A x, y \in S : f[x] = f[y] => x = y,
         \A t \in T : \E x \in S : f[x] = t
  PROVE  Cardinality(T) = Cardinality(S)
  <1>1. f \in Bijection(S, T)
    BY DEF Bijection, Injection, Surjection, IsInjective
  <1> QED
    BY <1>1, FS_Bijection DEF ExistsBijection

-----------------------------------------------------------------------------
(* The seats of a bus.                                                     *)

\* A seat of an economy or business bus, by its place.
SeatAt(row, column) == Seat(row, column, PassengerLabel(row, column))

\* The i-th seat of a bus with rows of c.
EconomyRow(i, c) == (i \div c) + 1
EconomyColumn(i, c) == (i % c) + 1

\* Rows and columns count.
LEMMA Division ==
  ASSUME NEW c \in 1 .. 10, NEW i \in Nat
  PROVE  /\ EconomyRow(i, c) \in Nat \ {0} /\ EconomyColumn(i, c) \in 1 .. c
         /\ i = c * (EconomyRow(i, c) - 1) + EconomyColumn(i, c) - 1
  <1>1. i \div c \in Int /\ i % c \in 0 .. c - 1 /\ i = (c * (i \div c)) + (i % c)
    OBVIOUS
  <1>2. i \div c >= 0
    BY <1>1
  <1> QED
    BY <1>1, <1>2 DEF EconomyRow, EconomyColumn

LEMMA EconomyNumbered ==
  ASSUME NEW n \in Nat, NEW c \in 1 .. 10
  PROVE  IsFiniteSet(EconomySeats(n, c)) /\ Cardinality(EconomySeats(n, c)) = n
  <1> DEFINE f == [i \in 0 .. n - 1 |-> SeatAt(EconomyRow(i, c), EconomyColumn(i, c))]
  <1>1. EconomySeats(n, c)
          = {SeatAt(EconomyRow(i, c), EconomyColumn(i, c)) : i \in 0 .. n - 1}
    BY DEF EconomySeats, SeatAt, EconomyRow, EconomyColumn
  <1>2. f \in [0 .. n - 1 -> EconomySeats(n, c)]
    BY <1>1
  <1>3. ASSUME NEW i \in 0 .. n - 1, NEW j \in 0 .. n - 1, f[i] = f[j]
        PROVE  i = j
    <2>1. /\ EconomyRow(i, c) = EconomyRow(j, c)
          /\ EconomyColumn(i, c) = EconomyColumn(j, c)
      BY <1>3 DEF SeatAt, Seat
    <2>2. i \in Nat /\ j \in Nat
      OBVIOUS
    <2> QED
      BY <2>1, <2>2, Division
  <1>4. \A s \in EconomySeats(n, c) : \E i \in 0 .. n - 1 : f[i] = s
    BY <1>1
  <1> QED
    BY <1>2, <1>3, <1>4, Numbered

\* The i-th seat of a business bus: eight rows of three and one of four.
BusinessRow(i) == IF i < 24 THEN (i \div 3) + 1 ELSE 9
BusinessColumn(i) == IF i < 24 THEN (i % 3) + 1 ELSE i - 23

LEMMA BusinessPlaces ==
  ASSUME NEW i \in 0 .. 27
  PROVE  /\ BusinessRow(i) \in 1 .. 9 /\ BusinessColumn(i) \in 1 .. 4
         /\ i = 3 * (BusinessRow(i) - 1) + BusinessColumn(i) - 1
         /\ BusinessRow(i) < 9 => BusinessColumn(i) \in 1 .. 3
  BY DEF BusinessRow, BusinessColumn

LEMMA BusinessSeatsAre ==
  BusinessSeats = {SeatAt(BusinessRow(i), BusinessColumn(i)) : i \in 0 .. 27}
  <1>1. ASSUME NEW r \in Int, NEW k \in Int,
               \/ r \in 1 .. 8 /\ k \in 1 .. 3
               \/ r = 9 /\ k \in 1 .. 4
        PROVE  \E i \in 0 .. 27 : r = BusinessRow(i) /\ k = BusinessColumn(i)
    <2>1. 3 * (r - 1) + k - 1 \in 0 .. 27
      BY <1>1
    <2>2. /\ r = BusinessRow(3 * (r - 1) + k - 1)
          /\ k = BusinessColumn(3 * (r - 1) + k - 1)
      BY <1>1 DEF BusinessRow, BusinessColumn
    <2> QED
      BY <2>1, <2>2
  <1>2. ASSUME NEW p \in ((1 .. 8) \X (1 .. 3)) \cup ({9} \X (1 .. 4))
        PROVE  \E i \in 0 .. 27 : p[1] = BusinessRow(i) /\ p[2] = BusinessColumn(i)
    BY <1>1
  <1>3. ASSUME NEW i \in 0 .. 27
        PROVE  \E p \in ((1 .. 8) \X (1 .. 3)) \cup ({9} \X (1 .. 4)) :
                 p[1] = BusinessRow(i) /\ p[2] = BusinessColumn(i)
    <2>1. <<BusinessRow(i), BusinessColumn(i)>>
            \in ((1 .. 8) \X (1 .. 3)) \cup ({9} \X (1 .. 4))
      BY BusinessPlaces
    <2> QED
      BY <2>1
  <1> QED
    BY <1>2, <1>3 DEF BusinessSeats, SeatAt

LEMMA BusinessNumbered == IsFiniteSet(BusinessSeats) /\ Cardinality(BusinessSeats) = 28
  <1> DEFINE f == [i \in 0 .. 28 - 1 |-> SeatAt(BusinessRow(i), BusinessColumn(i))]
  <1>1. f \in [0 .. 28 - 1 -> BusinessSeats]
    BY BusinessSeatsAre
  <1>2. ASSUME NEW i \in 0 .. 28 - 1, NEW j \in 0 .. 28 - 1, f[i] = f[j]
        PROVE  i = j
    <2>1. BusinessRow(i) = BusinessRow(j) /\ BusinessColumn(i) = BusinessColumn(j)
      BY <1>2 DEF SeatAt, Seat
    <2> QED
      BY <2>1, BusinessPlaces
  <1>3. \A s \in BusinessSeats : \E i \in 0 .. 28 - 1 : f[i] = s
    BY BusinessSeatsAre
  <1>4. 28 \in Nat
    OBVIOUS
  <1> HIDE DEF f
  <1> QED
    BY <1>1, <1>2, <1>3, <1>4, Numbered, ZenonT(60)

\* The i-th place of a sleeper; the upper deck is numbered first.
DeckOf(i) == IF i < 18 THEN U ELSE L
BerthRow(i) == IF i < 18 THEN (i \div 3) + 1 ELSE ((i - 18) \div 3) + 1
BerthColumn(i) == IF i < 18 THEN (i % 3) + 1 ELSE ((i - 18) % 3) + 1
Berth(i) ==
  IF i < 18 THEN Seat(BerthRow(i), BerthColumn(i), SleeperLabel(U, BerthRow(i), BerthColumn(i)))
  ELSE Seat(DeckRows + BerthRow(i), DeckColumns + BerthColumn(i),
            SleeperLabel(L, BerthRow(i), BerthColumn(i)))

LEMMA BerthPlaces ==
  ASSUME NEW i \in 0 .. 35
  PROVE  /\ BerthRow(i) \in 1 .. 6 /\ BerthColumn(i) \in 1 .. 3
         /\ i = 3 * (BerthRow(i) - 1) + BerthColumn(i) - 1 + (IF i < 18 THEN 0 ELSE 18)
  BY DEF BerthRow, BerthColumn

LEMMA SleeperSeatsAre == SleeperSeats = {Berth(i) : i \in 0 .. 35}
  <1> DEFINE Upper(i) == Seat((i \div 3) + 1, (i % 3) + 1,
                              SleeperLabel(U, (i \div 3) + 1, (i % 3) + 1))
             Lower(i) == Seat(DeckRows + ((i \div 3) + 1), DeckColumns + ((i % 3) + 1),
                              SleeperLabel(L, (i \div 3) + 1, (i % 3) + 1))
  <1>1. SleeperSeats = {Upper(i) : i \in 0 .. 17} \cup {Lower(i) : i \in 0 .. 17}
    BY DEF SleeperSeats, DeckColumns
  <1>2. ASSUME NEW i \in 0 .. 17
        PROVE  Upper(i) = Berth(i) /\ Lower(i) = Berth(i + 18)
    <2>1. i < 18 /\ ~(i + 18 < 18) /\ (i + 18) - 18 = i
      OBVIOUS
    <2> QED
      BY <2>1 DEF Berth, BerthRow, BerthColumn
  <1>3. \A i \in 0 .. 35 : i \in 0 .. 17 \/ \E j \in 0 .. 17 : i = j + 18
    <2>1. \A i \in 0 .. 35 : i \in 0 .. 17 \/ (i - 18 \in 0 .. 17 /\ i = (i - 18) + 18)
      OBVIOUS
    <2> QED
      BY <2>1
  <1>4. \A i \in 0 .. 17 : i \in 0 .. 35 /\ i + 18 \in 0 .. 35
    OBVIOUS
  <1> HIDE DEF Upper, Lower
  <1> QED
    BY <1>1, <1>2, <1>3, <1>4

LEMMA SleeperNumbered == IsFiniteSet(SleeperSeats) /\ Cardinality(SleeperSeats) = 36
  <1> DEFINE f == [i \in 0 .. 36 - 1 |-> Berth(i)]
  <1>1. f \in [0 .. 36 - 1 -> SleeperSeats]
    BY SleeperSeatsAre
  <1>2. ASSUME NEW i \in 0 .. 36 - 1, NEW j \in 0 .. 36 - 1, f[i] = f[j]
        PROVE  i = j
    <2>1. Berth(i).row = Berth(j).row /\ Berth(i).column = Berth(j).column
      BY <1>2
    <2>2. /\ BerthRow(i) + (IF i < 18 THEN 0 ELSE 6) = BerthRow(j) + (IF j < 18 THEN 0 ELSE 6)
          /\ BerthColumn(i) + (IF i < 18 THEN 0 ELSE 3)
               = BerthColumn(j) + (IF j < 18 THEN 0 ELSE 3)
      BY <2>1, BerthPlaces DEF Berth, Seat, DeckRows, DeckColumns
    <2> QED
      BY <2>2, BerthPlaces
  <1>3. \A s \in SleeperSeats : \E i \in 0 .. 36 - 1 : f[i] = s
    BY SleeperSeatsAre
  <1>4. 36 \in Nat
    OBVIOUS
  <1> HIDE DEF f
  <1> QED
    BY <1>1, <1>2, <1>3, <1>4, Numbered, ZenonT(60)

-----------------------------------------------------------------------------
(* A bus under edits.                                                      *)

Described == [type : Types, class : Classes, capacity : Nat]

\* What the code keeps of a bus: its seats were made for its class and its capacity,
\* and a capacity that type and class ask for.
BusKept(b) ==
  /\ b \in [kind : Described, seats : Described]
  /\ b.seats.class = b.kind.class /\ b.seats.capacity = b.kind.capacity
  /\ b.kind.class = "BUSINESS" =>
       \/ b.kind.capacity = 28
       \/ b.kind.capacity = 36 /\ b.kind.type = "SLEEPER" /\ b.seats.type = "SLEEPER"
  /\ b.kind.class = "ECONOMY" /\ "SLEEPER" \in {b.kind.type, b.seats.type} =>
       b.kind.capacity = 36

EditsInv == BusKept(bus) /\ drawer \in [new : BOOLEAN, form : Described]

LEMMA AdjustedType ==
  ASSUME NEW form \in Described
  PROVE  /\ Adjusted(form) \in Described
         /\ Adjusted(form).type = form.type /\ Adjusted(form).class = form.class
         /\ form.type = "SLEEPER" => Adjusted(form).capacity = 36
  BY DEF Adjusted, Described

\* What is stored of a form.
LEMMA StoredPayload ==
  ASSUME NEW form \in Described
  PROVE  /\ Stored(Payload(form)) \in Described
         /\ Stored(Payload(form)).type = form.type
         /\ Stored(Payload(form)).class = form.class
         /\ form.class = "BUSINESS" => Stored(Payload(form)).capacity = 28
         /\ form.class = "ECONOMY" /\ form.type = "SLEEPER" =>
              Stored(Payload(form)).capacity = 36
  <1> DEFINE payload == Payload(form)
  <1>1. /\ payload \in Described
        /\ payload.type = form.type /\ payload.class = form.class
        /\ form.type = "SLEEPER" => payload.capacity = 36
    BY AdjustedType DEF Payload
  <1> HIDE DEF payload
  <1>2. /\ Stored(payload) \in Described /\ Stored(payload).type = payload.type
        /\ Stored(payload).class = payload.class
        /\ payload.class = "BUSINESS" => Stored(payload).capacity = 28
        /\ payload.class # "BUSINESS" => Stored(payload) = payload
    BY <1>1 DEF Stored, Described
  <1> QED
    BY <1>1, <1>2 DEF payload

LEMMA SavedIsKept ==
  ASSUME NEW form \in Described, NEW b, BusKept(b)
  PROVE  BusKept(Created(Payload(form))) /\ BusKept(Updated(b, Payload(form)))
  <1> DEFINE kind == Stored(Payload(form))
  <1>1. /\ kind \in Described
        /\ kind.class = "BUSINESS" => kind.capacity = 28
        /\ kind.class = "ECONOMY" /\ kind.type = "SLEEPER" => kind.capacity = 36
    BY StoredPayload
  <1> HIDE DEF kind
  <1>2. BusKept(Outfitted(kind))
    BY <1>1 DEF BusKept, Outfitted
  <1>3. kind.class = b.kind.class /\ kind.capacity = b.kind.capacity =>
          BusKept([b EXCEPT !.kind = kind])
    BY <1>1 DEF BusKept
  <1> QED
    BY <1>2, <1>3 DEF Created, Updated, kind

LEMMA EditsInvHolds == Spec => []EditsInv
  <1>1. Init => EditsInv
    BY DEF Init, EditsInv, BusKept, ABus, Closed, DefaultForm, Outfitted, Kind, Described,
           Types, Classes
  <1>2. EditsInv /\ [Next]_vars => EditsInv'
    <2> SUFFICES ASSUME EditsInv, [Next]_vars PROVE EditsInv'
      OBVIOUS
    <2> USE DEF EditsInv
    <2>1. CASE Seed
      <3>1. \A kind \in SeededBuses \cup FallbackBuses : BusKept(Outfitted(kind))
        BY DEF SeededBuses, FallbackBuses, BusKept, Outfitted, Kind, Described, Types,
               Classes
      <3>2. BusKept(bus') /\ UNCHANGED drawer
        BY <2>1, <3>1 DEF Seed
      <3> QED
        BY <3>2 DEF BusKept
    <2>2. CASE OpenDrawer
      <3>1. UNCHANGED bus /\ drawer' = [new |-> FALSE, form |-> bus.kind]
        BY <2>2 DEF OpenDrawer
      <3> QED
        BY <3>1 DEF BusKept
    <2>3. CASE EditDrawer
      <3>1. ASSUME NEW form \in Changes(drawer.form, Typed)
            PROVE  form \in Described
        <4>1. drawer.form \in Described
          OBVIOUS
        <4>2. CASE \E type \in Types : form = Adjusted([drawer.form EXCEPT !.type = type])
          <5>1. \A type \in Types : [drawer.form EXCEPT !.type = type] \in Described
            BY <4>1 DEF Described
          <5> QED
            BY <4>2, <5>1, AdjustedType
        <4>3. CASE \E class \in Classes : form = Adjusted([drawer.form EXCEPT !.class = class])
          <5>1. \A class \in Classes : [drawer.form EXCEPT !.class = class] \in Described
            BY <4>1 DEF Described
          <5> QED
            BY <4>3, <5>1, AdjustedType
        <4>4. CASE \E n \in Typed : form = [drawer.form EXCEPT !.capacity = n]
          BY <4>1, <4>4, RulesAssumption DEF Described
        <4> QED
          BY <3>1, <4>2, <4>3, <4>4 DEF Changes
      <3>2. UNCHANGED bus
            /\ \E form \in Described : drawer' = [drawer EXCEPT !.form = form]
        BY <2>3, <3>1 DEF EditDrawer
      <3> QED
        BY <3>2 DEF BusKept
    <2>4. CASE SaveDrawer
      <3>1. BusKept(bus')
        BY <2>4, SavedIsKept DEF SaveDrawer
      <3>2. drawer' \in [new : BOOLEAN, form : Described]
        BY <2>4 DEF SaveDrawer, Closed, DefaultForm, Kind, Described, Types, Classes
      <3> QED
        BY <3>1, <3>2 DEF BusKept
    <2>5. CASE UNCHANGED editing
      BY <2>5 DEF editing, BusKept
    <2>6. CASE Choose \/ Reprice \/ LockSeats \/ Buy
      BY <2>5, <2>6 DEF Choose, Reprice, LockSeats, Buy, Others
    <2>7. CASE Wait \/ Receive \/ Outfit \/ Visit
      BY <2>5, <2>7 DEF Wait, Receive, Outfit, Visit
    <2>8. CASE OpenForm \/ FillIn
      BY <2>5, <2>8 DEF OpenForm, FillIn, Rest
    <2>9. CASE UNCHANGED vars
      BY <2>5, <2>9 DEF vars, editing
    <2> QED
      BY <2>1, <2>2, <2>3, <2>4, <2>6, <2>7, <2>8, <2>9 DEF Next
  <1> QED
    BY <1>1, <1>2, PTL DEF Spec

\* The seats a description asks for, counted.
LEMMA SeatsForCounted ==
  ASSUME NEW kind \in Described
  PROVE  /\ kind.type = "SLEEPER" => SeatsFor(kind) = SleeperSeats
         /\ kind.type # "SLEEPER" /\ kind.class = "BUSINESS" => SeatsFor(kind) = BusinessSeats
         /\ kind.type # "SLEEPER" /\ kind.class = "ECONOMY" =>
              SeatsFor(kind) = EconomySeats(kind.capacity, 4)
  <1>1. ASSUME NEW b \in BOOLEAN,
               NEW c, c = Coach(kind.class, b, kind.capacity, 0)
        PROVE  Generated(c) = IF b THEN SleeperSeats
                              ELSE IF kind.class = "BUSINESS" THEN BusinessSeats
                              ELSE EconomySeats(kind.capacity,
                                                IF kind.class = "BUSINESS" THEN 3 ELSE 4)
    <2>1. c.sleeper = b /\ c.class = kind.class /\ c.capacity = kind.capacity /\ c.columns = 0
      BY <1>1, Zenon DEF Coach
    <2> QED
      BY <2>1 DEF Generated, ColumnsPerRow
  <1> DEFINE sleeper == kind.type = "SLEEPER"
  <1>2. sleeper \in BOOLEAN
    OBVIOUS
  <1>3. SeatsFor(kind) = Generated(Coach(kind.class, sleeper, kind.capacity, 0))
    BY DEF SeatsFor, CoachOf
  <1> HIDE DEF sleeper
  <1>4. SeatsFor(kind) = IF sleeper THEN SleeperSeats
                         ELSE IF kind.class = "BUSINESS" THEN BusinessSeats
                         ELSE EconomySeats(kind.capacity,
                                           IF kind.class = "BUSINESS" THEN 3 ELSE 4)
    BY <1>1, <1>2, <1>3, Zenon
  <1> QED
    BY <1>4 DEF sleeper

\* Whatever is edited, and whatever capacity is typed, a bus has the seats its capacity
\* and kind say (BusesService.update, SeatsService.createForBus).
THEOREM SeatsAlwaysFollowEdits == Spec => []SeatsFollowEdits
  <1>1. EditsInv => SeatsFollowEdits
    <2> SUFFICES ASSUME EditsInv PROVE SeatsFollowEdits
      OBVIOUS
    <2>1. /\ bus.kind \in Described /\ bus.seats \in Described
          /\ bus.seats.class = bus.kind.class /\ bus.seats.capacity = bus.kind.capacity
          /\ bus.kind.capacity \in Nat
          /\ bus.kind.class \in {"BUSINESS", "ECONOMY"}
          /\ bus.kind.class = "BUSINESS" /\ bus.seats.type # "SLEEPER" =>
               bus.kind.capacity = 28
          /\ bus.kind.class = "ECONOMY" /\ bus.seats.type = "SLEEPER" =>
               bus.kind.capacity = 36
      BY DEF EditsInv, BusKept, Described, Classes
    <2>2. \/ Cardinality(SeatsFor(bus.seats)) = bus.kind.capacity
          \/ bus.kind.class = "BUSINESS" /\ bus.seats.type = "SLEEPER"
      <3>1. Cardinality(EconomySeats(bus.kind.capacity, 4)) = bus.kind.capacity
        BY <2>1, EconomyNumbered
      <3> QED
        BY <2>1, <3>1, SeatsForCounted, SleeperNumbered, BusinessNumbered
    <2>3. (bus.seats.type = "SLEEPER") = (bus.kind.type = "SLEEPER") =>
            SeatsFor(bus.seats) = SeatsFor(bus.kind)
      BY <2>1, SeatsForCounted
    <2> QED
      BY <2>2, <2>3 DEF SeatsFollowEdits
  <1> QED
    BY <1>1, EditsInvHolds, PTL

-----------------------------------------------------------------------------
(* The timetable.                                                          *)

\* When a bus leaves.
LEMMA DeparturesAre ==
  ASSUME NEW kind \in Described
  PROVE  Departures(kind) = CASE kind.type = "NON_AC" -> {7, 19}
                              [] kind.type = "SLEEPER" -> {23}
                              [] kind.type = "AC" /\ kind.class = "ECONOMY" -> {10}
                              [] kind.type = "AC" /\ kind.class = "BUSINESS" -> {15}
  <1>1. \A h : h \in Departures(kind) <=>
                 \/ h \in {7, 19} /\ kind.type = "NON_AC"
                 \/ h = 10 /\ kind.type = "AC" /\ kind.class = "ECONOMY"
                 \/ h = 15 /\ kind.type = "AC" /\ kind.class = "BUSINESS"
                 \/ h = 23 /\ kind.type = "SLEEPER"
    <2>1. kind.class \in Classes
      BY DEF Described
    <2>2. \A h : h \in Departures(kind) <=>
                   \E s \in Slots : /\ kind.type \in s.types /\ kind.class \in s.classes
                                    /\ h = s.hour
      BY DEF Departures
    <2> QED
      BY <2>1, <2>2 DEF Slots, Classes
  <1>2. /\ kind.type \in {"AC", "NON_AC", "SLEEPER"}
        /\ kind.class \in {"BUSINESS", "ECONOMY"}
    BY DEF Described, Types, Classes
  <1>3. CASE kind.type = "NON_AC"
    <2>1. \A h : h \in Departures(kind) <=> h \in {7, 19}
      BY <1>1, <1>3
    <2> QED
      BY <2>1, <1>3
  <1>4. CASE kind.type = "SLEEPER"
    <2>1. \A h : h \in Departures(kind) <=> h \in {23}
      BY <1>1, <1>4
    <2> QED
      BY <2>1, <1>4
  <1>5. CASE kind.type = "AC" /\ kind.class = "ECONOMY"
    <2>1. \A h : h \in Departures(kind) <=> h \in {10}
      BY <1>1, <1>5
    <2> QED
      BY <2>1, <1>5
  <1>6. CASE kind.type = "AC" /\ kind.class = "BUSINESS"
    <2>1. \A h : h \in Departures(kind) <=> h \in {15}
      BY <1>1, <1>6
    <2> QED
      BY <2>1, <1>6
  <1> QED
    BY <1>2, <1>3, <1>4, <1>5, <1>6

LEMMA RoutesAreSupported ==
  ASSUME NEW route \in SeededRoutes \cup FallbackRoutes
  PROVE  SupportedRoute(route) /\ SupportedRoute(<<route[2], route[1]>>)
  <1>1. CASE \E city \in Cities : route = <<"Dhaka", city>>
    BY <1>1 DEF SupportedRoute
  <1>2. CASE \E city \in Cities : route = <<city, "Dhaka">>
    BY <1>2 DEF SupportedRoute
  <1>3. "Gaibandha" \in Cities
    BY DEF Cities
  <1> QED
    BY <1>1, <1>2, <1>3 DEF SeededRoutes, FallbackRoutes

\* Whatever a bus has become, it leaves every day, is back before it leaves again, and
\* costs what others of its hour cost (createTripsForDate, getTicketPrice).
THEOREM TimetableAlwaysRuns == Spec => []TimetableRuns
  <1>1. EditsInv => TimetableRuns
    <2> SUFFICES ASSUME EditsInv PROVE TimetableRuns
      OBVIOUS
    <2>1. bus.kind \in Described
      BY DEF EditsInv, BusKept
    <2>2. \A kind \in [type : Types, class : Classes, capacity : {bus.kind.capacity}] :
            kind \in Described
      BY <2>1 DEF Described
    <2>3. bus.kind.type \in {"AC", "NON_AC", "SLEEPER"}
          /\ bus.kind.class \in {"BUSINESS", "ECONOMY"}
      BY <2>1 DEF Described, Types, Classes
    <2>4. /\ Departures(bus.kind) # {}
          /\ \A h, g \in Departures(bus.kind) :
               h < g => h + TripHours <= g /\ g + TripHours <= h + 24
      BY <2>1, <2>3, DeparturesAre DEF TripHours
    <2>5. ASSUME NEW kind \in [type : Types, class : Classes,
                               capacity : {bus.kind.capacity}],
                 Departures(kind) \cap Departures(bus.kind) # {}
          PROVE  Price(kind) = Price(bus.kind)
      <3>1. kind.type \in {"AC", "NON_AC", "SLEEPER"}
            /\ kind.class \in {"BUSINESS", "ECONOMY"}
        BY DEF Types, Classes
      <3>2. kind \in Described
        BY <2>2
      <3>3. \/ kind.type # "AC" /\ bus.kind.type = kind.type
            \/ kind.type = "AC" /\ bus.kind.type = "AC" /\ bus.kind.class = kind.class
        BY <2>1, <2>3, <2>5, <3>1, <3>2, DeparturesAre
      <3> QED
        BY <2>3, <3>1, <3>3 DEF Price
    <2> QED
      BY <2>4, <2>5, RoutesAreSupported DEF TimetableRuns
  <1> QED
    BY <1>1, EditsInvHolds, PTL

-----------------------------------------------------------------------------
(* A sale.                                                                 *)

SaleFields == {"step", "seller", "n", "d", "seen", "now"}

\* A sale with the fields of its step: what was chosen, and, once sold, the booking
\* that was made of it, which the desk had neither been warned of nor refused.
SaleInv ==
  \/ sale.step = "none"
  \/ /\ sale.seller \in Sellers /\ sale.n \in Counts /\ sale.d \in Discounts
     /\ sale.seen \in TripsNow /\ sale.now \in TripsNow
     /\ \/ sale.step = "chosen" /\ DOMAIN sale = SaleFields
        \/ /\ sale.step = "locked" /\ ~AtDesk
           /\ DOMAIN sale = SaleFields \cup {"locked"}
           /\ sale.locked \in TripsNow
        \/ /\ sale.step = "sold" /\ sale.at \in TripsNow
           /\ DOMAIN sale \subseteq SaleFields \cup {"locked", "at", "booking"}
           /\ {"at", "booking"} \cup SaleFields \subseteq DOMAIN sale
           /\ AtDesk =>
                /\ sale.booking = DeskBooking(sale.at, sale.n, sale.d, sale.seller)
                /\ Summary(sale.seen, sale.n, sale.d).open
                /\ ~DeskRefuses(sale.at, sale.n, sale.d)
           /\ ~AtDesk =>
                /\ "locked" \in DOMAIN sale /\ sale.locked \in TripsNow
                /\ sale.booking = OnlineBooking(sale.at, sale.n, sale.locked)

LEMMA SaleInvHolds == Spec => []SaleInv
  <1> USE DEF AtDesk
  <1>1. Init => SaleInv
    BY DEF Init, NoSale, SaleInv
  <1>2. SaleInv /\ [Next]_vars => SaleInv'
    <2> SUFFICES ASSUME SaleInv, [Next]_vars PROVE SaleInv'
      OBVIOUS
    <2>1. CASE Choose
      <3>1. PICK trip \in TripsNow, n \in Counts, d \in Discounts, seller \in Sellers :
              sale' = [step |-> "chosen", seller |-> seller, n |-> n, d |-> d,
                       seen |-> trip, now |-> trip]
        BY <2>1 DEF Choose
      <3>2. DOMAIN sale' = SaleFields
        BY <3>1 DEF SaleFields
      <3> QED
        BY <3>1, <3>2 DEF SaleInv
    <2>2. CASE Reprice
      <3>1. PICK trip \in TripsNow : sale' = [sale EXCEPT !.now = trip]
        BY <2>2 DEF Reprice
      <3>2. CASE sale.step = "none"
        BY <3>1, <3>2 DEF SaleInv
      <3>3. CASE sale.step # "none"
        <4>1. SaleFields \subseteq DOMAIN sale
          BY <3>3 DEF SaleInv
        <4>2. /\ DOMAIN sale' = DOMAIN sale /\ sale'.now \in TripsNow
              /\ sale'.step = sale.step /\ sale'.seller = sale.seller /\ sale'.n = sale.n
              /\ sale'.d = sale.d /\ sale'.seen = sale.seen
          BY <3>1, <4>1 DEF SaleFields
        <4>3. /\ "locked" \in DOMAIN sale => sale'.locked = sale.locked
              /\ {"at", "booking"} \subseteq DOMAIN sale =>
                   sale'.at = sale.at /\ sale'.booking = sale.booking
          BY <3>1
        <4>4. CASE sale.step = "chosen"
          BY <4>2, <4>4 DEF SaleInv
        <4>5. CASE sale.step = "locked"
          BY <4>2, <4>3, <4>5 DEF SaleInv
        <4>6. CASE sale.step = "sold"
          BY <4>2, <4>3, <4>6 DEF SaleInv
        <4> QED
          BY <3>3, <4>4, <4>5, <4>6 DEF SaleInv
      <3> QED
        BY <3>2, <3>3
    <2>3. CASE LockSeats
      <3>1. /\ sale.step = "chosen" /\ ~AtDesk
            /\ sale' = [sale EXCEPT !.step = "locked"] ++ [locked |-> sale.now]
        BY <2>3 DEF LockSeats
      <3>2. DOMAIN sale = SaleFields
        BY <3>1 DEF SaleInv
      <3>3. /\ DOMAIN sale' = SaleFields \cup {"locked"} /\ sale'.step = "locked"
            /\ sale'.seller = sale.seller /\ sale'.n = sale.n /\ sale'.d = sale.d
            /\ sale'.seen = sale.seen /\ sale'.now = sale.now /\ sale'.locked = sale.now
        BY <3>1, <3>2 DEF SaleFields, ++
      <3> QED
        BY <3>1, <3>3 DEF SaleInv
    <2>4. CASE Buy
      <3> DEFINE booking == IF AtDesk THEN DeskBooking(sale.now, sale.n, sale.d, sale.seller)
                            ELSE OnlineBooking(sale.now, sale.n, sale.locked)
                 more == [at |-> sale.now, booking |-> booking]
      <3>1. /\ sale' = [sale EXCEPT !.step = "sold"] ++ more
            /\ \/ sale.step = "locked"
               \/ /\ sale.step = "chosen" /\ AtDesk
                  /\ Summary(sale.seen, sale.n, sale.d).open
                  /\ ~DeskRefuses(sale.now, sale.n, sale.d)
        BY <2>4 DEF Buy
      <3>2. /\ DOMAIN sale \subseteq SaleFields \cup {"locked"}
            /\ SaleFields \subseteq DOMAIN sale
            /\ sale.step = "locked" => ~AtDesk /\ "locked" \in DOMAIN sale
        BY <3>1 DEF SaleInv
      <3>3. DOMAIN more = {"at", "booking"} /\ more.at = sale.now /\ more.booking = booking
        OBVIOUS
      <3>4. "step" \in DOMAIN sale /\ "at" \notin DOMAIN sale /\ "booking" \notin DOMAIN sale
        BY <3>2 DEF SaleFields
      <3> HIDE DEF more, booking
      <3>5. /\ DOMAIN sale' = DOMAIN sale \cup {"at", "booking"} /\ sale'.step = "sold"
            /\ \A f \in DOMAIN sale \ {"step"} : sale'[f] = sale[f]
            /\ sale'.at = sale.now /\ sale'.booking = booking
        <4>1. /\ DOMAIN sale' = DOMAIN sale \cup DOMAIN more /\ sale'.step = "sold"
              /\ \A f \in DOMAIN sale \ {"step"} : sale'[f] = sale[f]
              /\ \A f \in DOMAIN more \ DOMAIN sale : sale'[f] = more[f]
          BY <3>1, <3>4 DEF ++
        <4> QED
          BY <3>3, <3>4, <4>1
      <3>6. /\ sale'.seller = sale.seller /\ sale'.n = sale.n /\ sale'.d = sale.d
            /\ sale'.seen = sale.seen /\ sale'.now = sale.now
            /\ sale.step = "locked" => sale'.locked = sale.locked
        BY <3>2, <3>5 DEF SaleFields
      <3>7. /\ sale.seller \in Sellers /\ sale.n \in Counts /\ sale.d \in Discounts
            /\ sale.seen \in TripsNow /\ sale.now \in TripsNow
            /\ sale.step = "locked" => sale.locked \in TripsNow
        BY <3>1 DEF SaleInv
      <3>8. /\ AtDesk => booking = DeskBooking(sale.now, sale.n, sale.d, sale.seller)
            /\ ~AtDesk => booking = OnlineBooking(sale.now, sale.n, sale.locked)
        BY DEF booking
      <3>9. /\ AtDesk' =>
                 /\ sale'.booking = DeskBooking(sale'.at, sale'.n, sale'.d, sale'.seller)
                 /\ Summary(sale'.seen, sale'.n, sale'.d).open
                 /\ ~DeskRefuses(sale'.at, sale'.n, sale'.d)
            /\ ~AtDesk' =>
                 /\ "locked" \in DOMAIN sale' /\ sale'.locked \in TripsNow
                 /\ sale'.booking = OnlineBooking(sale'.at, sale'.n, sale'.locked)
        BY <3>1, <3>2, <3>5, <3>6, <3>7, <3>8
      <3>10. /\ DOMAIN sale' \subseteq SaleFields \cup {"locked", "at", "booking"}
             /\ {"at", "booking"} \cup SaleFields \subseteq DOMAIN sale'
             /\ sale'.at \in TripsNow
        BY <3>2, <3>5, <3>7
      <3>11. /\ sale'.seller \in Sellers /\ sale'.n \in Counts /\ sale'.d \in Discounts
             /\ sale'.seen \in TripsNow /\ sale'.now \in TripsNow
        BY <3>6, <3>7
      <3> QED
        BY <3>5, <3>9, <3>10, <3>11, Zenon DEF SaleInv
    <2>5. CASE UNCHANGED sale
      BY <2>5 DEF SaleInv
    <2>6. CASE Wait \/ Receive \/ Outfit \/ Visit
      BY <2>5, <2>6 DEF Wait, Receive, Outfit, Visit
    <2>7. CASE Seed \/ OpenDrawer \/ EditDrawer \/ SaveDrawer
      BY <2>5, <2>7 DEF Seed, OpenDrawer, EditDrawer, SaveDrawer
    <2>8. CASE OpenForm \/ FillIn
      BY <2>5, <2>8 DEF OpenForm, FillIn, Rest
    <2>9. CASE UNCHANGED vars
      BY <2>5, <2>9 DEF vars
    <2> QED
      BY <2>1, <2>2, <2>3, <2>4, <2>6, <2>7, <2>8, <2>9 DEF Next
  <1> QED
    BY <1>1, <1>2, PTL DEF Spec

\* What is asked for seats is what is charged for them, of one trip.
LEMMA AskedIsCharged ==
  ASSUME NEW trip \in TripsNow, NEW n \in Counts
  PROVE  Quote(trip, n) = Charge(trip, n)
  BY DEF Quote, Charge, ShownFee, PlatformFee

\* Nothing is negative.
LEMMA SumOfSeats ==
  ASSUME NEW trip \in TripsNow, NEW n \in Counts
  PROVE  n \in Nat \ {0} /\ trip.price \in Nat /\ trip.type \in Types /\ n * trip.price \in Nat
  <1>1. n \in Nat \ {0} /\ trip.price \in Nat /\ trip.type \in Types
    BY RulesAssumption DEF TripsNow, Trip
  <1> QED
    BY <1>1

\* A booking at the desk, as long as the discount is not refused.
LEMMA DeskPapers ==
  ASSUME NEW trip \in TripsNow, NEW n \in Counts, NEW d \in Discounts, NEW role,
         ~DeskRefuses(trip, n, d)
  PROVE  LET b == DeskBooking(trip, n, d, role)
         IN /\ Desk(b) /\ b.n = n
            /\ b.final = Summary(trip, n, d).final /\ b.final \in Nat
            /\ TicketTotal(b) = b.final \/ b.final = 0
            /\ trip.price > 0 => TicketLines(b, trip) = b.final
            /\ CompanyRevenue(b) = b.final
            /\ \A t : PlatformRevenue(b, t) = IF role = "ADMIN" THEN b.final ELSE 0
  <1> DEFINE total == n * trip.price
  <1>1. total \in Nat
    BY SumOfSeats
  <1>2. d.kind \in {"none", "PERCENTAGE", "FIXED"} /\ d.value \in Nat
    BY RulesAssumption
  <1>3. ~Applies(d) \/ ~TooMuch(total, d)
    BY DEF DeskRefuses
  <1> HIDE DEF total
  <1>4. Applies(d) => DiscountOf(total, d) \in Nat /\ DiscountOf(total, d) <= total
    <2>1. total * d.value \in Nat
      BY <1>1, <1>2
    <2>2. (total * d.value) \div 100 \in Nat
      BY <2>1
    <2>3. DiscountOf(total, d) \in Nat
      BY <1>2, <2>2 DEF DiscountOf
    <2> QED
      BY <1>1, <1>3, <2>3 DEF TooMuch
  <1> DEFINE discount == IF Applies(d) THEN DiscountOf(total, d) ELSE 0
             source == IF role = "ADMIN" THEN "ADMIN_BOOKING" ELSE "STAFF_BOOKING"
             b == [source |-> source, n |-> n, total |-> total, discount |-> discount,
                   final |-> total - discount, seat |-> trip.price]
  <1>5. DeskBooking(trip, n, d, role) = b
    BY DEF DeskBooking, total
  <1>6. /\ b.source = source /\ b.n = n /\ b.total = total /\ b.discount = discount
        /\ b.final = total - discount
    OBVIOUS
  <1>7. Summary(trip, n, d).final = total - discount
    BY <1>1, <1>3 DEF Summary, total
  <1>8. discount \in Nat /\ discount <= total
    BY <1>1, <1>4
  <1>9. source # "USER_BOOKING" /\ (source = "ADMIN_BOOKING" <=> role = "ADMIN")
    OBVIOUS
  <1> HIDE DEF b, discount, source
  <1>10. Desk(b) /\ CompanyRevenue(b) = b.final
    BY <1>6, <1>9 DEF Desk, CompanyRevenue
  <1>11. b.final \in Nat /\ (TicketTotal(b) = b.final \/ b.final = 0)
    BY <1>1, <1>6, <1>8, <1>10 DEF TicketTotal
  <1>12. trip.price > 0 => TicketLines(b, trip) = b.final
    BY <1>1, <1>6, <1>8, <1>10 DEF TicketLines, total
  <1>13. \A t : PlatformRevenue(b, t) = IF role = "ADMIN" THEN b.final ELSE 0
    BY <1>6, <1>9, <1>10, <1>11 DEF PlatformRevenue
  <1> QED
    BY <1>5, <1>6, <1>7, <1>10, <1>11, <1>12, <1>13

\* A booking on the web.
LEMMA OnlinePapers ==
  ASSUME NEW trip \in TripsNow, NEW n \in Counts, NEW locked \in TripsNow
  PROVE  LET b == OnlineBooking(trip, n, locked)
         IN /\ ~Desk(b) /\ b.n = n
            /\ b.total = Charge(trip, n) /\ b.total > 0
            /\ MailedTotal(b) = b.total /\ TicketTotal(b) = b.total
            /\ trip.price > 0 /\ trip.type # "SLEEPER" => TicketLines(b, trip) = b.total
            /\ locked.price = trip.price /\ trip.type # "SLEEPER" =>
                 CompanyRevenue(b) + PlatformRevenue(b, trip) + b.n * Insurance = b.total
  <1> DEFINE b == OnlineBooking(trip, n, locked)
  <1>1. /\ b.source = "USER_BOOKING" /\ b.n = n /\ b.total = Charge(trip, n) /\ b.discount = 0
        /\ b.seat = locked.price
    BY DEF OnlineBooking
  <1> HIDE DEF b
  <1>2. /\ n \in Nat \ {0} /\ trip.price \in Nat /\ trip.type \in Types
        /\ n * trip.price \in Nat /\ n * locked.price \in Nat
    BY SumOfSeats
  <1>3. Charge(trip, n) > 0 /\ Charge(trip, n) \in Nat
    BY <1>2 DEF Charge, PlatformFee, Insurance
  <1>4. trip.type # "SLEEPER" => CountedFee(trip.type) = PlatformFee(trip.type)
    BY <1>2 DEF CountedFee, PlatformFee, Types
  <1>5. trip.price > 0 /\ trip.type # "SLEEPER" => TicketLines(b, trip) = Charge(trip, n)
    BY <1>1, <1>2, <1>4 DEF TicketLines, Desk, Charge, PlatformFee, Insurance
  <1>6. locked.price = trip.price /\ trip.type # "SLEEPER" =>
          CompanyRevenue(b) + PlatformRevenue(b, trip) + b.n * Insurance = Charge(trip, n)
    BY <1>1, <1>2, <1>4
       DEF CompanyRevenue, PlatformRevenue, Desk, Charge, PlatformFee, Insurance
  <1> QED
    BY <1>1, <1>3, <1>5, <1>6 DEF MailedTotal, TicketTotal, Desk, b

\* Whatever the price, the number of seats and the discount, and whatever becomes of
\* the trip, a passenger is charged what the page said, and the papers say it.  What
\* was paid online is divided without remainder, at the desk it is the company's whole
\* and, sold by an ADMIN, also the platform's; with the exceptions QuotesAreCharged names
\* (confirmBooking, createManualBooking, BookingPage, Ticket, getDashboardStats).
THEOREM QuotesAreAlwaysCharged == Spec => []QuotesAreCharged
  <1>1. SaleInv => QuotesAreCharged
    <2> SUFFICES ASSUME SaleInv PROVE QuotesAreCharged
      OBVIOUS
    <2>1. sale.step = "chosen" =>
            /\ sale.seller \in Sellers /\ sale.n \in Counts /\ sale.d \in Discounts
            /\ sale.seen \in TripsNow /\ sale.now \in TripsNow
      BY DEF SaleInv
    <2>2. (sale.step = "chosen" /\ AtDesk /\ sale.seen = sale.now) =>
            (Summary(sale.seen, sale.n, sale.d).open <=> ~DeskRefuses(sale.now, sale.n, sale.d))
      BY DEF Summary, DeskRefuses
    <2>3. ASSUME sale.step = "sold"
          PROVE  LET b == sale.booking
                     paid == IF Desk(b) THEN b.final ELSE b.total
                     asked == IF Desk(b) THEN Summary(sale.seen, b.n, sale.d).final
                              ELSE Quote(sale.seen, b.n)
                     same == sale.now = sale.at
                 IN /\ sale.seen = sale.at => asked = paid
                    /\ MailedTotal(b) = paid
                    /\ TicketTotal(b) = paid \/ (Desk(b) /\ paid = 0)
                    /\ (same /\ ~Desk(b)) => Quote(sale.now, b.n) = paid
                    /\ (same /\ paid > 0 /\ sale.at.price > 0
                          /\ (Desk(b) \/ sale.at.type # "SLEEPER")) =>
                         TicketLines(b, sale.now) = paid
                    /\ (same /\ ~Desk(b) /\ sale.locked.price = sale.at.price
                          /\ sale.at.type # "SLEEPER") =>
                         CompanyRevenue(b) + PlatformRevenue(b, sale.now) + b.n * Insurance
                           = paid
                    /\ Desk(b) => /\ CompanyRevenue(b) = paid
                                  /\ PlatformRevenue(b, sale.now)
                                       = IF sale.seller = "ADMIN" THEN paid ELSE 0
      <3> DEFINE b == sale.booking
      <3>1. /\ sale.seller \in Sellers /\ sale.n \in Counts /\ sale.d \in Discounts
            /\ sale.seen \in TripsNow /\ sale.now \in TripsNow /\ sale.at \in TripsNow
            /\ AtDesk => b = DeskBooking(sale.at, sale.n, sale.d, sale.seller)
                            /\ ~DeskRefuses(sale.at, sale.n, sale.d)
            /\ ~AtDesk => sale.locked \in TripsNow
                             /\ b = OnlineBooking(sale.at, sale.n, sale.locked)
        BY <2>3 DEF SaleInv
      <3>2. CASE AtDesk
        <4>1. /\ Desk(b) /\ b.n = sale.n
              /\ b.final = Summary(sale.at, sale.n, sale.d).final /\ b.final \in Nat
              /\ TicketTotal(b) = b.final \/ b.final = 0
              /\ sale.at.price > 0 => TicketLines(b, sale.at) = b.final
              /\ CompanyRevenue(b) = b.final
              /\ PlatformRevenue(b, sale.now) = IF sale.seller = "ADMIN" THEN b.final ELSE 0
          BY <3>1, <3>2, DeskPapers
        <4> HIDE DEF b
        <4>2. MailedTotal(b) = b.final
          BY <4>1 DEF MailedTotal
        <4> QED
          BY <4>1, <4>2 DEF b
      <3>3. CASE ~AtDesk
        <4>0. sale.locked \in TripsNow /\ b = OnlineBooking(sale.at, sale.n, sale.locked)
          BY <3>1, <3>3
        <4> HIDE DEF b
        <4>1. /\ ~Desk(b) /\ b.n = sale.n
              /\ b.total = Charge(sale.at, sale.n) /\ b.total > 0
              /\ MailedTotal(b) = b.total /\ TicketTotal(b) = b.total
              /\ sale.at.price > 0 /\ sale.at.type # "SLEEPER" =>
                   TicketLines(b, sale.at) = b.total
              /\ sale.locked.price = sale.at.price /\ sale.at.type # "SLEEPER" =>
                   CompanyRevenue(b) + PlatformRevenue(b, sale.at) + b.n * Insurance = b.total
          BY <4>0, <3>1, OnlinePapers
        <4>2. Quote(sale.at, sale.n) = Charge(sale.at, sale.n)
          BY <3>1, AskedIsCharged
        <4> QED
          BY <4>1, <4>2, Zenon DEF b
      <3> QED
        BY <3>1, <3>2, <3>3
    <2> HIDE DEF SaleInv
    <2> QED
      BY <2>2, <2>3 DEF QuotesAreCharged
  <1> QED
    BY <1>1, SaleInvHolds, PTL

-----------------------------------------------------------------------------
(* The pages of the dashboard.                                             *)

Callers == [role : Roles, operatorId : Operators \cup {NoOperator}]

LEMMA AtParts ==
  ASSUME NEW tab, NEW company
  PROVE  At(tab, company).page = tab /\ At(tab, company).company = company
  BY DEF At

\* A place is a page of a company, or a page without one.
LEMMA PlacesAre ==
  ASSUME NEW at \in Places
  PROVE  /\ at = At(at.page, at.company)
         /\ \/ at.company \in Operators /\ at.page \in HubPages
            \/ /\ at.company = NoOperator
               /\ at.page \in {"home", "index", "dashboard", "users", "operators"}
                              \cup (HubPages \ {"overview"})
  BY DEF Places, At, PlatformPages

LEMMA HubPagesAre ==
  /\ \A tab \in {"home", "index", "dashboard", "users", "operators"} : tab \notin HubPages
  /\ {"overview", "booking", "search", "seats", "summary", "confirm"} \subseteq HubPages
  BY DEF HubPages

\* Where a page rests: it leads nowhere else.
Rests(caller, at, last) == Redirect(caller, at, last) = at

Welcome(caller, at, last) == LET end == Settled(caller, at, last)
                             IN Redirect(caller, end, last) = end /\ Opens(caller, end)

LEMMA Arrives ==
  ASSUME NEW caller, NEW at, NEW last, NEW end,
         at = end \/ Redirect(caller, at, last) = end,
         Rests(caller, end, last), Opens(caller, end)
  PROVE  Welcome(caller, at, last)
  BY DEF Welcome, Rests, Settled

\* Whoever has no part in the dashboard is sent home.
LEMMA GuestsGoHome ==
  ASSUME NEW caller \in Callers, caller.role = "USER", NEW last,
         NEW at, at.page # "home" \/ at = At("home", NoOperator)
  PROVE  Welcome(caller, at, last)
  <1>1. Redirect(caller, at, last) = At("home", NoOperator)
    BY DEF Redirect
  <1>2. Rests(caller, At("home", NoOperator), last)
    BY AtParts DEF Rests, Redirect
  <1>3. Opens(caller, At("home", NoOperator))
    BY AtParts, HubPagesAre DEF Opens, Can, Gate
  <1> QED
    BY <1>1, <1>2, <1>3, Arrives

\* The ADMIN rests on the pages of the platform, and on those of every company but the
\* first page of a booking.
LEMMA AdminRests ==
  ASSUME NEW caller \in Callers, caller.role = "ADMIN", NEW last
  PROVE  /\ \A tab \in {"dashboard", "users", "operators"} :
              Rests(caller, At(tab, NoOperator), last)
         /\ \A tab \in HubPages \ {"booking"}, o \in Operators :
              Rests(caller, At(tab, o), last)
         /\ Redirect(caller, At("index", NoOperator), last) = Landing(caller, last)
         /\ \A tab \in HubPages :
              Redirect(caller, At(tab, NoOperator), last) = At("operators", NoOperator)
  BY AtParts, HubPagesAre, OperatorsAssumption
     DEF Rests, Redirect, IsHub, IsPlatformAdmin, FlatRedirect

\* Who works for a company rests on its pages.
LEMMA StaffRests ==
  ASSUME NEW caller \in Callers, caller.role \in {"OPERATOR", "STAFF"},
         caller.operatorId \in Operators, NEW last
  PROVE  /\ \A tab \in HubPages \ {"booking"} :
              Rests(caller, At(tab, caller.operatorId), last)
         /\ Redirect(caller, At("booking", caller.operatorId), last)
              = At("search", caller.operatorId)
         /\ \A tab \in {"index", "dashboard", "operators"} :
              Redirect(caller, At(tab, NoOperator), last) = OwnCompany(caller)
         /\ \A tab \in HubPages, o \in Operators \ {caller.operatorId} :
              Redirect(caller, At(tab, o), last) = OwnCompany(caller)
         /\ \A tab \in HubPages :
              Redirect(caller, At(tab, NoOperator), last) = At(tab, caller.operatorId)
  BY AtParts, HubPagesAre, OperatorsAssumption
     DEF Rests, Redirect, IsHub, IsPlatformAdmin, FlatRedirect, Landing

\* Whose company is gone rests on the statistics, and on a company's page all the same.
LEMMA StrayRests ==
  ASSUME NEW caller \in Callers, caller.role \in {"OPERATOR", "STAFF"},
         caller.operatorId \notin Operators, NEW last
  PROVE  /\ Rests(caller, At("dashboard", NoOperator), last)
         /\ \A tab \in HubPages \ {"booking"}, o \in Operators :
              Rests(caller, At(tab, o), last)
         /\ \A o \in Operators :
              Redirect(caller, At("booking", o), last) = At("search", o)
         /\ \A tab \in {"index", "operators"} \cup HubPages :
              Redirect(caller, At(tab, NoOperator), last) = At("dashboard", NoOperator)
  BY AtParts, HubPagesAre, OperatorsAssumption
     DEF Rests, Redirect, IsHub, IsPlatformAdmin, FlatRedirect, Landing

\* Which pages open.
LEMMA OpenToAdmin ==
  ASSUME NEW caller \in Callers, caller.role = "ADMIN", NEW company
  PROVE  /\ \A tab \in {"dashboard", "users", "operators"}
                        \cup (HubPages \ {"search", "seats", "summary", "confirm"}) :
              Opens(caller, At(tab, company))
         /\ \A tab \in {"search", "seats", "summary", "confirm"} :
              ~Opens(caller, At(tab, company))
  <1>1. \A tab : Opens(caller, At(tab, company)) <=> Can(caller, Gate(tab))
    BY AtParts DEF Opens
  <1>2. ASSUME NEW tab \in {"dashboard", "users", "operators"}
                             \cup (HubPages \ {"search", "seats", "summary", "confirm"})
        PROVE  Can(caller, Gate(tab))
    BY DEF Can, Gate, RolePermissions, PlatformAdminPermissions, HubPages
  <1>3. ASSUME NEW tab \in {"search", "seats", "summary", "confirm"}
        PROVE  ~Can(caller, Gate(tab))
    BY DEF Can, Gate, RolePermissions, PlatformAdminPermissions
  <1> QED
    BY <1>1, <1>2, <1>3

LEMMA OpenToStaff ==
  ASSUME NEW caller \in Callers, caller.role \in {"OPERATOR", "STAFF"}, NEW company
  PROVE  \A tab \in {"index", "dashboard", "overview", "booking", "search", "seats",
                     "summary", "confirm"} :
           Opens(caller, At(tab, company))
  BY AtParts DEF Opens, Can, Gate, RolePermissions, HubPages

\* A tab is shown to those its page opens for, the first page of a booking to those who
\* may book.
LEMMA TabsOpen ==
  ASSUME NEW caller \in Callers, caller.role \in {"OPERATOR", "STAFF"}, NEW company,
         NEW tab \in HubTabs, Can(caller, tab.permissions)
  PROVE  tab.page \in HubPages /\ Opens(caller, At(tab.page, company))
  <1>1. tab.page \in HubPages \ {"overview", "booking"} => Gate(tab.page) = tab.permissions
    BY SMTT(30) DEF HubTabs, Gate, HubPages
  <1>2. tab.page \in HubPages
    BY DEF HubTabs, HubPages
  <1> QED
    BY <1>1, <1>2, AtParts, OpenToStaff DEF Opens

\* Where everybody may stay.
LEMMA SettledThere ==
  ASSUME NEW caller, NEW at, NEW last, NEW end,
         Redirect(caller, at, last) = end, Rests(caller, end, last)
  PROVE  Settled(caller, at, last) = end
  BY DEF Settled, Rests

LEMMA AdminStays ==
  ASSUME NEW caller \in Callers, caller.role = "ADMIN",
         NEW last \in Operators \cup {NoOperator},
         NEW at \in Places, Settled(caller, at, last) = at
  PROVE  \/ at.company = NoOperator /\ at.page \in {"home", "dashboard", "users", "operators"}
         \/ at.company \in Operators /\ at.page \in HubPages \ {"booking"}
  <1>1. ASSUME at.company \in Operators, at.page = "booking"
        PROVE  FALSE
    <2>1. Redirect(caller, at, last) = At("search", at.company)
      BY <1>1, HubPagesAre DEF Redirect, IsHub, IsPlatformAdmin
    <2>2. Settled(caller, at, last) = At("search", at.company)
      BY <1>1, <2>1, SettledThere, AdminRests, HubPagesAre
    <2> QED
      BY <1>1, <2>2, AtParts
  <1>2. ASSUME at.company = NoOperator, at.page \in HubPages
        PROVE  FALSE
    <2>1. Settled(caller, at, last) = At("operators", NoOperator)
      BY <1>2, PlacesAre, SettledThere, AdminRests
    <2> QED
      BY <1>2, <2>1, AtParts, HubPagesAre
  <1>3. ASSUME at.company = NoOperator, at.page = "index"
        PROVE  FALSE
    <2>1. Landing(caller, last) \in {At("overview", last), At("operators", NoOperator)}
          /\ Rests(caller, Landing(caller, last), last)
      BY AdminRests, HubPagesAre DEF Landing, IsPlatformAdmin
    <2>2. Settled(caller, at, last) = Landing(caller, last)
      BY <1>3, <2>1, PlacesAre, SettledThere, AdminRests
    <2> QED
      BY <1>3, <2>1, <2>2, AtParts
  <1> QED
    BY <1>1, <1>2, <1>3, PlacesAre

LEMMA StaffStays ==
  ASSUME NEW caller \in Callers, caller.role \in {"OPERATOR", "STAFF"},
         caller.operatorId \in Operators,
         NEW last, NEW at \in Places, Settled(caller, at, last) = at
  PROVE  \/ at.company = NoOperator /\ at.page \in {"home", "users"}
         \/ at.company = caller.operatorId /\ at.page \in HubPages \ {"booking"}
  <1>1. OwnCompany(caller) = At("overview", caller.operatorId)
        /\ Rests(caller, OwnCompany(caller), last)
    BY StaffRests, HubPagesAre DEF OwnCompany
  <1>2. ASSUME Redirect(caller, at, last) = OwnCompany(caller)
        PROVE  at.page = "overview" /\ at.company = caller.operatorId
    <2>1. at = OwnCompany(caller)
      BY <1>1, <1>2, SettledThere
    <2> QED
      BY <1>1, <2>1, AtParts
  <1>3. ASSUME at.company = NoOperator, at.page \in HubPages
        PROVE  FALSE
    <2>1. Redirect(caller, at, last) = At(at.page, caller.operatorId)
      BY <1>3, PlacesAre, StaffRests
    <2>2. at.page = "booking" =>
            Redirect(caller, At("booking", caller.operatorId), last)
              = At("search", caller.operatorId)
      BY StaffRests
    <2>3. Settled(caller, at, last) \in {At(at.page, caller.operatorId),
                                        At("search", caller.operatorId)}
      <3>1. CASE at.page # "booking"
        BY <1>3, <2>1, <3>1, StaffRests, SettledThere
      <3>2. CASE at.page = "booking"
        BY <2>1, <2>2, <3>2, StaffRests, HubPagesAre DEF Settled, Rests
      <3> QED
        BY <3>1, <3>2
    <2> QED
      BY <1>3, <2>3, AtParts, OperatorsAssumption
  <1>4. ASSUME at.company = caller.operatorId, at.page = "booking"
        PROVE  FALSE
    <2>1. Settled(caller, at, last) = At("search", caller.operatorId)
      BY <1>4, PlacesAre, StaffRests, SettledThere, HubPagesAre
    <2> QED
      BY <1>4, <2>1, AtParts
  <1>5. CASE at.company = NoOperator
    <2>1. at.page \in {"index", "dashboard", "operators"} =>
            Redirect(caller, at, last) = OwnCompany(caller)
      BY <1>5, PlacesAre, StaffRests
    <2> QED
      BY <1>2, <1>3, <1>5, <2>1, PlacesAre, OperatorsAssumption
  <1>6. CASE at.company \in Operators
    <2>1. at.page \in HubPages
      BY <1>6, PlacesAre, OperatorsAssumption
    <2>2. at.company # caller.operatorId => Redirect(caller, at, last) = OwnCompany(caller)
      BY <1>6, <2>1, PlacesAre, StaffRests
    <2> QED
      BY <1>2, <1>4, <2>1, <2>2
  <1> QED
    BY <1>5, <1>6, PlacesAre

LEMMA StrayStays ==
  ASSUME NEW caller \in Callers, caller.role \in {"OPERATOR", "STAFF"},
         caller.operatorId \notin Operators,
         NEW last, NEW at \in Places, Settled(caller, at, last) = at
  PROVE  \/ at.company = NoOperator /\ at.page \in {"home", "users", "dashboard"}
         \/ at.company \in Operators /\ at.page \in HubPages \ {"booking"}
  <1>1. ASSUME at.company \in Operators, at.page = "booking"
        PROVE  FALSE
    <2>1. Settled(caller, at, last) = At("search", at.company)
      BY <1>1, PlacesAre, StrayRests, SettledThere, HubPagesAre
    <2> QED
      BY <1>1, <2>1, AtParts
  <1>2. ASSUME at.company = NoOperator, at.page \in {"index", "operators"} \cup HubPages
        PROVE  FALSE
    <2>1. Settled(caller, at, last) = At("dashboard", NoOperator)
      <3>1. at = At(at.page, NoOperator)
        BY <1>2, PlacesAre
      <3>2. Redirect(caller, at, last) = At("dashboard", NoOperator)
            /\ Rests(caller, At("dashboard", NoOperator), last)
        BY <1>2, <3>1, StrayRests, ZenonT(60)
      <3> QED
        BY <3>2, SettledThere
    <2>2. at.page = "dashboard"
      BY <2>1, AtParts
    <2> QED
      BY <1>2, <2>2, HubPagesAre
  <1> QED
    BY <1>1, <1>2, PlacesAre

\* Every link of a page that opens and stays.
LEMMA AdminLinks ==
  ASSUME NEW caller \in Callers, caller.role = "ADMIN",
         NEW last \in Operators \cup {NoOperator},
         NEW at \in Places, Settled(caller, at, last) = at, Opens(caller, at),
         NEW to \in Links(caller, at)
  PROVE  Welcome(caller, to, last)
  <1>1. \A tab \in {"dashboard", "users", "operators"} :
          Welcome(caller, At(tab, NoOperator), last)
    BY AdminRests, OpenToAdmin, Arrives
  <1>2. ASSUME NEW tab \in HubPages \ {"booking"}, NEW o \in Operators,
               Opens(caller, At(tab, o))
        PROVE  Welcome(caller, At(tab, o), last)
    BY <1>2, AdminRests, Arrives
  <1>3. \A tab \in HubPages : Welcome(caller, At(tab, NoOperator), last)
    BY AdminRests, OpenToAdmin, Arrives
  <1>4. at = At(at.page, at.company)
    BY PlacesAre
  <1>5. \A tab \in {"search", "seats", "summary", "confirm"} : at.page # tab
    BY <1>4, OpenToAdmin
  <1>6. CASE to \in Menu(caller)
    BY <1>1, <1>6 DEF Menu, PlatformMenu, IsPlatformAdmin
  <1>7. CASE to \in Buttons(caller, at)
    <2>1. \/ \E tab \in {"bus", "trip", "booking", "refund"} : to = At(tab, NoOperator)
          \/ \E o \in Operators : to = At("overview", o)
      BY <1>5, <1>7 DEF Buttons
    <2>2. {"bus", "trip", "booking", "refund", "overview"}
            \subseteq HubPages \ {"search", "seats", "summary", "confirm"}
      BY DEF HubPages
    <2> QED
      BY <1>2, <1>3, <2>1, <2>2, OpenToAdmin
  <1>8. CASE to \in Switch(caller, at)
    <2>1. CASE to = At("operators", NoOperator)
      BY <1>1, <2>1
    <2>2. CASE \E o \in Operators : to = At(at.page, o)
      <3>1. at.page \in HubPages \ {"booking"}
        BY <1>8, AdminStays, OperatorsAssumption DEF Switch, IsHub
      <3> QED
        BY <1>2, <1>5, <2>2, <3>1, OpenToAdmin
    <2> QED
      BY <1>8, <2>1, <2>2 DEF Switch
  <1> QED
    BY <1>6, <1>7, <1>8 DEF Links

LEMMA BookingSteps ==
  ASSUME NEW caller \in Callers, caller.role \in {"OPERATOR", "STAFF"}, NEW last,
         NEW o \in Operators, caller.operatorId \in Operators => o = caller.operatorId,
         NEW tab \in {"overview", "booking", "search", "seats", "summary", "confirm"}
  PROVE  Welcome(caller, At(tab, o), last)
  <1>1. CASE tab # "booking"
    <2>1. Rests(caller, At(tab, o), last)
      BY <1>1, StaffRests, StrayRests, HubPagesAre
    <2> QED
      BY <2>1, OpenToStaff, Arrives
  <1>2. CASE tab = "booking"
    <2>1. Redirect(caller, At("booking", o), last) = At("search", o)
          /\ Rests(caller, At("search", o), last)
      BY StaffRests, StrayRests, HubPagesAre
    <2> QED
      BY <1>2, <2>1, OpenToStaff, Arrives
  <1> QED
    BY <1>1, <1>2

LEMMA StaffLinks ==
  ASSUME NEW caller \in Callers, caller.role \in {"OPERATOR", "STAFF"},
         NEW last, NEW at \in Places, Settled(caller, at, last) = at, Opens(caller, at),
         NEW to \in Links(caller, at)
  PROVE  Welcome(caller, to, last)
  <1>1. CASE to \in Menu(caller)
    <2>1. CASE caller.operatorId \in Operators
      <3>1. PICK tab \in HubTabs : Can(caller, tab.permissions)
                                  /\ to = At(tab.page, caller.operatorId)
        BY <1>1, <2>1 DEF Menu, IsPlatformAdmin
      <3>2. tab.page \in HubPages /\ Opens(caller, At(tab.page, caller.operatorId))
        BY <3>1, TabsOpen
      <3>3. CASE tab.page = "booking"
        BY <2>1, <3>1, <3>3, BookingSteps
      <3>4. CASE tab.page # "booking"
        BY <2>1, <3>1, <3>2, <3>4, StaffRests, Arrives
      <3> QED
        BY <3>3, <3>4
    <2>2. CASE caller.operatorId \notin Operators
      <3>1. to = At("dashboard", NoOperator)
        BY <1>1, <2>2 DEF Menu, IsPlatformAdmin
      <3> QED
        BY <2>2, <3>1, StrayRests, OpenToStaff, Arrives
    <2> QED
      BY <2>1, <2>2
  <1>2. CASE to \in Buttons(caller, at)
    <2>1. \/ at.page = "operators"
          \/ at.page \in {"search", "seats", "summary", "confirm"}
             /\ \E tab \in {"booking", "seats", "summary", "confirm"} :
                  to = At(tab, at.company)
      BY <1>2 DEF Buttons, IsPlatformAdmin
    <2>2. at.page # "operators"
      BY StaffStays, StrayStays, HubPagesAre
    <2>3. /\ at.company \in Operators
          /\ caller.operatorId \in Operators => at.company = caller.operatorId
      BY <2>1, <2>2, StaffStays, StrayStays
    <2> QED
      BY <2>1, <2>2, <2>3, BookingSteps
  <1>3. to \notin Switch(caller, at)
    BY DEF Switch, IsPlatformAdmin
  <1> QED
    BY <1>1, <1>2, <1>3 DEF Links

\* Whoever follows a link, a menu or a redirect of the dashboard ends where a gate opens,
\* with any number of companies (DashboardRoutes, Sidebar, OperatorHub).
THEOREM LinksAlwaysOpen == Spec => []LinksOpen
  <1>1. ASSUME Chosen PROVE LinksOpen
    <2> DEFINE caller == visit.caller
               at == visit.at
               last == visit.last
    <2>1. caller \in Callers /\ at \in Places /\ last \in Operators \cup {NoOperator}
      BY <1>1 DEF Chosen, Visits, Callers
    <2>2. caller.role \in Roles /\ caller.operatorId \in Operators \cup {NoOperator}
      BY <2>1 DEF Callers
    <2> HIDE DEF caller, at, last
    <2>3. CASE caller.role = "USER"
      <3>1. ASSUME NEW to, to.page # "home" \/ to = At("home", NoOperator)
            PROVE  Welcome(caller, to, last)
        BY <2>1, <2>3, <3>1, GuestsGoHome
      <3>2. Welcome(caller, AfterLogin(caller), last)
        BY <2>3, <3>1 DEF AfterLogin
      <3>3. Landing(caller, last).page # "home"
        BY <2>3, AtParts DEF Landing, OwnCompany, IsPlatformAdmin
      <3>4. ASSUME NEW to \in Links(caller, at)
            PROVE  to.page # "home"
        <4>1. \A tab \in HubTabs : tab.page # "home"
          BY DEF HubTabs
        <4>2. to \in Menu(caller) => to.page # "home"
          BY <2>3, <4>1, AtParts DEF Menu, IsPlatformAdmin
        <4>3. to \in Buttons(caller, at) => to.page # "home"
          BY <2>3, AtParts DEF Buttons, IsPlatformAdmin
        <4> QED
          BY <2>3, <4>2, <4>3 DEF Links, Switch, IsPlatformAdmin
      <3> QED
        BY <3>1, <3>2, <3>3, <3>4
           DEF LinksOpen, Welcome, caller, at, last
    <2>4. CASE caller.role = "ADMIN"
      <3>1. Landing(caller, last) \in {At("overview", o) : o \in Operators}
                                      \cup {At("operators", NoOperator)}
        BY <2>1, <2>4 DEF Landing, IsPlatformAdmin
      <3>2. Rests(caller, Landing(caller, last), last)
            /\ Opens(caller, Landing(caller, last))
        BY <2>1, <2>4, <3>1, AdminRests, OpenToAdmin, HubPagesAre
      <3>3. AfterLogin(caller) = At("index", NoOperator)
            /\ Redirect(caller, At("index", NoOperator), last) = Landing(caller, last)
        BY <2>1, <2>4, AdminRests DEF AfterLogin
      <3>4. Welcome(caller, Landing(caller, last), last)
            /\ Welcome(caller, AfterLogin(caller), last)
        BY <3>2, <3>3, Arrives
      <3>5. Settled(caller, at, last) = at /\ Opens(caller, at) =>
              \A to \in Links(caller, at) : Welcome(caller, to, last)
        BY <2>1, <2>4, AdminLinks
      <3> QED
        BY <3>4, <3>5 DEF LinksOpen, Welcome, caller, at, last
    <2>5. CASE caller.role \in {"OPERATOR", "STAFF"}
      <3>1. /\ AfterLogin(caller) = Landing(caller, last)
            /\ Landing(caller, last) = IF caller.operatorId \in Operators
                                         THEN At("overview", caller.operatorId)
                                         ELSE At("dashboard", NoOperator)
        BY <2>5 DEF AfterLogin, Landing, IsPlatformAdmin, OwnCompany
      <3>2. Rests(caller, Landing(caller, last), last)
            /\ Opens(caller, Landing(caller, last))
        BY <2>1, <2>5, <3>1, StaffRests, StrayRests, OpenToStaff, HubPagesAre
      <3>3. Welcome(caller, Landing(caller, last), last)
            /\ Welcome(caller, AfterLogin(caller), last)
        BY <3>1, <3>2, Arrives
      <3>4. Settled(caller, at, last) = at /\ Opens(caller, at) =>
              \A to \in Links(caller, at) : Welcome(caller, to, last)
        BY <2>1, <2>5, StaffLinks
      <3> QED
        BY <3>3, <3>4 DEF LinksOpen, Welcome, caller, at, last
    <2> QED
      BY <2>2, <2>3, <2>4, <2>5 DEF Roles
  <1> QED
    BY <1>1, ChosenHolds, PTL

-----------------------------------------------------------------------------
(* What the pages ask of the server.                                       *)

LEMMA EndpointParts ==
  ASSUME NEW name, NEW needs, NEW scope
  PROVE  /\ Asked(name, needs, scope).name = name /\ Asked(name, needs, scope).needs = needs
         /\ Asked(name, needs, scope).scope = scope /\ Asked(name, needs, scope).asks
         /\ Asked(name, needs, scope).roles = Roles
         /\ Fixed(name, needs, scope).name = name /\ Fixed(name, needs, scope).needs = needs
         /\ Fixed(name, needs, scope).scope = scope /\ ~Fixed(name, needs, scope).asks
         /\ Fixed(name, needs, scope).roles = Roles
  BY DEF Asked, Fixed, Endpoint

\* Whom a company's rows are shown to: everybody who works for it, and the ADMIN where
\* no company has to be named or the page names one.
LEMMA CompaniesOfStaff ==
  ASSUME NEW caller \in Callers, caller.role \in {"OPERATOR", "STAFF"},
         caller.operatorId \in Operators,
         NEW scope \in {"any", "own", "profile", "list", "required", "create", "resource"},
         NEW asked \in {NoOperator, caller.operatorId}
  PROVE  Companies(scope, caller, asked, caller.operatorId) # {}
  BY OperatorsAssumption DEF Companies, EffectiveOperatorId, HasOperatorContext,
     IsPlatformAdmin, OwnsResource

LEMMA CompaniesOfAdmin ==
  ASSUME NEW caller \in Callers, caller.role = "ADMIN", NEW owner, NEW asked
  PROVE  /\ \A scope \in {"any", "own"} : Companies(scope, caller, asked, owner) # {}
         /\ asked \in Operators \cup {NoOperator} => Companies("list", caller, asked, owner) # {}
         /\ asked \in Operators => Companies("required", caller, asked, owner) # {}
         /\ Companies("resource", caller, asked, owner) # {}
  BY RulesAssumption DEF Companies, EffectiveOperatorId, IsPlatformAdmin, OwnsResource

Scopes == {"any", "own", "profile", "list", "required", "create", "resource"}

LEMMA StaffAreServed ==
  ASSUME NEW caller \in Callers, caller.role \in {"OPERATOR", "STAFF"},
         caller.operatorId \in Operators, NEW at, at.company = caller.operatorId,
         NEW e \in DashboardEndpoints, e.roles = Roles, e.scope \in Scopes,
         e.needs \cap RolePermissions(caller.role) # {}
  PROVE  Served(caller, at, e.name)
  <1>1. Admits(e, caller.role)
    BY DEF Admits, Callers
  <1>2. Companies(e.scope, caller, IF e.asks THEN at.company ELSE NoOperator, at.company) # {}
    BY CompaniesOfStaff DEF Scopes
  <1> QED
    BY <1>1, <1>2 DEF Served, Endpoints

LEMMA AdminIsServed ==
  ASSUME NEW caller \in Callers, caller.role = "ADMIN",
         NEW at, at.company \in Operators \cup {NoOperator},
         NEW e \in DashboardEndpoints, e.roles = Roles,
         \/ e.scope \in {"any", "own"}
         \/ at.company \in Operators /\ e.scope \in {"list", "resource"}
         \/ at.company \in Operators /\ e.scope = "required" /\ e.asks,
         e.needs \cap PlatformAdminPermissions # {}
  PROVE  Served(caller, at, e.name)
  <1>1. Admits(e, caller.role)
    BY DEF Admits, Callers, RolePermissions
  <1>2. Companies(e.scope, caller, IF e.asks THEN at.company ELSE NoOperator, at.company) # {}
    BY CompaniesOfAdmin
  <1> QED
    BY <1>1, <1>2 DEF Served, Endpoints

\* What every account of a company may ask for on its pages.
DeskRequests == {"getDashboardStats", "getProfile", "getBookings", "cancelBooking",
                 "getBookingRoutes", "searchTripsForBooking", "getRoutePoints",
                 "createManualBooking"}

\* What its OPERATOR may ask for besides.
OfficeRequests ==
  {"getBuses", "createBus", "updateBus", "deleteBus",
   "createBoardingPoint", "updateBoardingPoint", "deleteBoardingPoint",
   "createDroppingPoint", "updateDroppingPoint", "deleteDroppingPoint",
   "getRoutes", "createRoute", "updateRoute", "deleteRoute",
   "getTrips", "createTrip", "updateTrip", "cancelTrip",
   "getStaff", "createStaff", "updateStaff", "deleteStaff",
   "getPayments", "getRefunds", "approveRefund", "rejectRefund", "syncSslRefund"}

\* The endpoints behind them.
EndpointsFor(names, permissions) ==
  \A name \in names : \E e \in DashboardEndpoints :
    /\ e.name = name /\ e.roles = Roles /\ e.scope \in Scopes
    /\ e.needs \cap permissions # {}

LEMMA DeskEndpoints ==
  EndpointsFor(DeskRequests, {"VIEW_DASHBOARD", "MANAGE_BOOKINGS", "BOOK_TICKET"})
  <1> DEFINE P == {"VIEW_DASHBOARD", "MANAGE_BOOKINGS", "BOOK_TICKET"}
             Has(name) == \E e \in DashboardEndpoints :
                            /\ e.name = name /\ e.roles = Roles /\ e.scope \in Scopes
                            /\ e.needs \cap P # {}
  <1>1. Has("getDashboardStats")
    <2>1. Endpoint("getDashboardStats", {"VIEW_DASHBOARD"}, "own", "refused", FALSE)
            \in DashboardEndpoints
      BY DEF DashboardEndpoints, OverviewEndpoints
    <2> QED
      BY <2>1 DEF Endpoint, Scopes
  <1>2. Has("getProfile")
    <2>1. Fixed("getProfile", {"VIEW_DASHBOARD"}, "profile") \in DashboardEndpoints
      BY DEF DashboardEndpoints, OverviewEndpoints
    <2> QED
      BY <2>1, EndpointParts DEF Scopes
  <1>3. \A e \in BookingEndpoints \cup PointEndpoints :
          e \in DashboardEndpoints /\ e.roles = Roles /\ e.scope \in Scopes
    BY EndpointParts DEF DashboardEndpoints, BookingEndpoints, PointEndpoints, Scopes
  <1>4. Has("getBookings")
    <2>1. Asked("getBookings", {"VIEW_BOOKINGS", "MANAGE_BOOKINGS"}, "list")
            \in BookingEndpoints
      BY DEF BookingEndpoints
    <2> QED
      BY <1>3, <2>1, EndpointParts
  <1>5. \A name \in {"cancelBooking", "createManualBooking"} : Has(name)
    <2>1. /\ Fixed("cancelBooking", {"MANAGE_BOOKINGS"}, "resource") \in BookingEndpoints
          /\ Fixed("createManualBooking", {"BOOK_TICKET"}, "resource") \in BookingEndpoints
      BY DEF BookingEndpoints
    <2> QED
      BY <1>3, <2>1, EndpointParts
  <1>6. \A name \in {"getBookingRoutes", "searchTripsForBooking"} : Has(name)
    <2>1. /\ Asked("getBookingRoutes", {"BOOK_TICKET"}, "list") \in BookingEndpoints
          /\ Asked("searchTripsForBooking", {"BOOK_TICKET"}, "list") \in BookingEndpoints
      BY DEF BookingEndpoints
    <2> QED
      BY <1>3, <2>1, EndpointParts
  <1>7. Has("getRoutePoints")
    <2>1. Fixed("getRoutePoints", {"VIEW_ROUTES", "MANAGE_ROUTES", "BOOK_TICKET"}, "resource")
            \in PointEndpoints
      BY DEF PointEndpoints
    <2> QED
      BY <1>3, <2>1, EndpointParts
  <1> HIDE DEF Has
  <1>8. \A name \in DeskRequests : Has(name)
    BY <1>1, <1>2, <1>4, <1>5, <1>6, <1>7 DEF DeskRequests
  <1> QED
    BY <1>8 DEF EndpointsFor, Has

LEMMA OfficeEndpoints ==
  EndpointsFor(OfficeRequests, {"MANAGE_BUSES", "MANAGE_ROUTES", "MANAGE_TRIPS",
                                "MANAGE_STAFF", "MANAGE_PAYMENTS", "MANAGE_REFUNDS"})
  <1> DEFINE P == {"MANAGE_BUSES", "MANAGE_ROUTES", "MANAGE_TRIPS",
                   "MANAGE_STAFF", "MANAGE_PAYMENTS", "MANAGE_REFUNDS"}
             Has(name) == \E e \in DashboardEndpoints :
                            /\ e.name = name /\ e.roles = Roles /\ e.scope \in Scopes
                            /\ e.needs \cap P # {}
  <1>1. ASSUME NEW name, NEW needs, NEW scope \in Scopes, needs \cap P # {}
        PROVE  /\ Asked(name, needs, scope) \in DashboardEndpoints => Has(name)
               /\ Fixed(name, needs, scope) \in DashboardEndpoints => Has(name)
               /\ Endpoint(name, needs, scope, "refused", TRUE) \in DashboardEndpoints
                    => Has(name)
    <2>1. /\ Endpoint(name, needs, scope, "refused", TRUE).name = name
          /\ Endpoint(name, needs, scope, "refused", TRUE).needs = needs
          /\ Endpoint(name, needs, scope, "refused", TRUE).scope = scope
          /\ Endpoint(name, needs, scope, "refused", TRUE).roles = Roles
      BY DEF Endpoint
    <2>2. \A e \in DashboardEndpoints :
            e.name = name /\ e.roles = Roles /\ e.scope = scope /\ e.needs = needs => Has(name)
      BY <1>1
    <2> HIDE DEF Has
    <2>3. Endpoint(name, needs, scope, "refused", TRUE) \in DashboardEndpoints => Has(name)
      BY <2>1, <2>2, Zenon
    <2>4. /\ Asked(name, needs, scope) \in DashboardEndpoints => Has(name)
          /\ Fixed(name, needs, scope) \in DashboardEndpoints => Has(name)
      BY <2>2, EndpointParts
    <2> QED
      BY <2>3, <2>4, Zenon
  <1>2. {"list", "resource", "create", "required"} \subseteq Scopes
    BY DEF Scopes
  <1>3. {"MANAGE_BUSES"} \cap P # {} /\ {"MANAGE_ROUTES"} \cap P # {}
        /\ {"MANAGE_TRIPS"} \cap P # {} /\ {"MANAGE_STAFF"} \cap P # {}
        /\ {"MANAGE_REFUNDS"} \cap P # {}
        /\ {"VIEW_BUSES", "MANAGE_BUSES"} \cap P # {}
        /\ {"VIEW_ROUTES", "MANAGE_ROUTES"} \cap P # {}
        /\ {"VIEW_TRIPS", "MANAGE_TRIPS"} \cap P # {}
        /\ {"VIEW_STAFF", "MANAGE_STAFF"} \cap P # {}
        /\ {"VIEW_PAYMENTS", "MANAGE_PAYMENTS"} \cap P # {}
        /\ {"VIEW_REFUNDS", "MANAGE_REFUNDS"} \cap P # {}
    OBVIOUS
  <1> HIDE DEF P, Has
  <1>4. \A name \in {"getBuses", "createBus", "updateBus", "deleteBus"} : Has(name)
    <2>1. /\ Asked("getBuses", {"VIEW_BUSES", "MANAGE_BUSES"}, "list") \in DashboardEndpoints
          /\ Asked("createBus", {"MANAGE_BUSES"}, "create") \in DashboardEndpoints
          /\ Fixed("updateBus", {"MANAGE_BUSES"}, "resource") \in DashboardEndpoints
          /\ Fixed("deleteBus", {"MANAGE_BUSES"}, "resource") \in DashboardEndpoints
      BY DEF DashboardEndpoints, BusEndpoints
    <2> QED
      BY <1>1, <1>2, <1>3, <2>1
  <1>5. \A name \in {"createBoardingPoint", "updateBoardingPoint", "deleteBoardingPoint",
                     "createDroppingPoint", "updateDroppingPoint", "deleteDroppingPoint"} :
          Has(name)
    <2>1. \A name \in {"createBoardingPoint", "updateBoardingPoint", "deleteBoardingPoint",
                       "createDroppingPoint", "updateDroppingPoint", "deleteDroppingPoint"} :
            Asked(name, {"MANAGE_ROUTES"}, "required") \in DashboardEndpoints
      BY DEF DashboardEndpoints, PointEndpoints
    <2>2. \A name : Asked(name, {"MANAGE_ROUTES"}, "required") \in DashboardEndpoints => Has(name)
      BY <1>1, <1>2, <1>3
    <2> QED
      BY <2>1, <2>2, Zenon
  <1>6. \A name \in {"getRoutes", "createRoute", "updateRoute", "deleteRoute"} : Has(name)
    <2>1. /\ Asked("getRoutes", {"VIEW_ROUTES", "MANAGE_ROUTES"}, "list") \in DashboardEndpoints
          /\ Asked("createRoute", {"MANAGE_ROUTES"}, "create") \in DashboardEndpoints
          /\ Fixed("updateRoute", {"MANAGE_ROUTES"}, "resource") \in DashboardEndpoints
          /\ Fixed("deleteRoute", {"MANAGE_ROUTES"}, "resource") \in DashboardEndpoints
      BY DEF DashboardEndpoints, RouteEndpoints
    <2> QED
      BY <1>1, <1>2, <1>3, <2>1
  <1>7. \A name \in {"getTrips", "createTrip", "updateTrip", "cancelTrip"} : Has(name)
    <2>1. /\ Asked("getTrips", {"VIEW_TRIPS", "MANAGE_TRIPS"}, "list") \in DashboardEndpoints
          /\ Asked("createTrip", {"MANAGE_TRIPS"}, "create") \in DashboardEndpoints
          /\ Fixed("updateTrip", {"MANAGE_TRIPS"}, "resource") \in DashboardEndpoints
          /\ Fixed("cancelTrip", {"MANAGE_TRIPS"}, "resource") \in DashboardEndpoints
      BY DEF DashboardEndpoints, TripEndpoints
    <2> QED
      BY <1>1, <1>2, <1>3, <2>1
  <1>8. \A name \in {"getStaff", "createStaff", "updateStaff", "deleteStaff"} : Has(name)
    <2>1. /\ Endpoint("getStaff", {"VIEW_STAFF", "MANAGE_STAFF"}, "required", "refused", TRUE)
               \in DashboardEndpoints
          /\ \A name \in {"createStaff", "updateStaff", "deleteStaff"} :
               Endpoint(name, {"MANAGE_STAFF"}, "required", "refused", TRUE)
                 \in DashboardEndpoints
      BY DEF DashboardEndpoints, StaffEndpoints
    <2> QED
      BY <1>1, <1>2, <1>3, <2>1
  <1>9. \A name \in {"getPayments", "getRefunds", "approveRefund", "rejectRefund",
                     "syncSslRefund"} : Has(name)
    <2>1. /\ Asked("getPayments", {"VIEW_PAYMENTS", "MANAGE_PAYMENTS"}, "list")
               \in DashboardEndpoints
          /\ Asked("getRefunds", {"VIEW_REFUNDS", "MANAGE_REFUNDS"}, "list")
               \in DashboardEndpoints
          /\ \A name \in {"approveRefund", "rejectRefund", "syncSslRefund"} :
               Fixed(name, {"MANAGE_REFUNDS"}, "resource") \in DashboardEndpoints
      BY DEF DashboardEndpoints, MoneyEndpoints
    <2> QED
      BY <1>1, <1>2, <1>3, <2>1
  <1>10. \A name \in OfficeRequests : Has(name)
    BY <1>4, <1>5, <1>6, <1>7, <1>8, <1>9 DEF OfficeRequests
  <1> QED
    BY <1>10 DEF EndpointsFor, Has, P

\* What the ADMIN may ask for on the pages of the platform, and on those of a company.
PlatformRequests == {"getDashboardStats", "getUsers", "changeUserRole", "getOperators",
                     "getOperator", "createOperator", "suspendOperator",
                     "activateOperator", "getOperatorStats"}
CompanyRequests == {"getBuses", "getRoutes", "getRoutePoints", "getTrips", "getStaff",
                    "getBookings", "getPayments", "getRefunds"}

LEMMA AdminEndpointsAre ==
  /\ \A name \in PlatformRequests : \E e \in DashboardEndpoints :
       /\ e.name = name /\ e.roles = Roles /\ e.scope \in {"any", "own"}
       /\ e.needs \cap PlatformAdminPermissions # {}
  /\ \A name \in CompanyRequests : \E e \in DashboardEndpoints :
       /\ e.name = name /\ e.roles = Roles
       /\ e.scope \in {"list", "resource"} \/ (e.scope = "required" /\ e.asks)
       /\ e.needs \cap PlatformAdminPermissions # {}
  <1> DEFINE Has(name) == \E e \in DashboardEndpoints :
                            /\ e.name = name /\ e.roles = Roles /\ e.scope \in {"any", "own"}
                            /\ e.needs \cap PlatformAdminPermissions # {}
             Lists(name) == \E e \in DashboardEndpoints :
               /\ e.name = name /\ e.roles = Roles
               /\ e.scope \in {"list", "resource"} \/ (e.scope = "required" /\ e.asks)
               /\ e.needs \cap PlatformAdminPermissions # {}
  <1>1. /\ {"MANAGE_OPERATORS"} \cap PlatformAdminPermissions # {}
        /\ {"VIEW_DASHBOARD", "MANAGE_OPERATORS"} \cap PlatformAdminPermissions # {}
        /\ {"MANAGE_USERS"} \cap PlatformAdminPermissions # {}
        /\ {"VIEW_DASHBOARD"} \cap PlatformAdminPermissions # {}
        /\ {"VIEW_BUSES", "MANAGE_BUSES"} \cap PlatformAdminPermissions # {}
        /\ {"VIEW_ROUTES", "MANAGE_ROUTES"} \cap PlatformAdminPermissions # {}
        /\ {"VIEW_ROUTES", "MANAGE_ROUTES", "BOOK_TICKET"} \cap PlatformAdminPermissions # {}
        /\ {"VIEW_TRIPS", "MANAGE_TRIPS"} \cap PlatformAdminPermissions # {}
        /\ {"VIEW_STAFF", "MANAGE_STAFF"} \cap PlatformAdminPermissions # {}
        /\ {"VIEW_BOOKINGS", "MANAGE_BOOKINGS"} \cap PlatformAdminPermissions # {}
        /\ {"VIEW_PAYMENTS", "MANAGE_PAYMENTS"} \cap PlatformAdminPermissions # {}
        /\ {"VIEW_REFUNDS", "MANAGE_REFUNDS"} \cap PlatformAdminPermissions # {}
    BY DEF PlatformAdminPermissions
  <1>2. \A name \in PlatformRequests : Has(name)
    <2>1. /\ \A name \in {"getOperators", "getOperator", "createOperator",
                          "suspendOperator", "activateOperator"} :
               Fixed(name, {"MANAGE_OPERATORS"}, "any") \in DashboardEndpoints
          /\ Fixed("getOperatorStats", {"VIEW_DASHBOARD", "MANAGE_OPERATORS"}, "any")
               \in DashboardEndpoints
          /\ \A name \in {"getUsers", "changeUserRole"} :
               Fixed(name, {"MANAGE_USERS"}, "any") \in DashboardEndpoints
      BY DEF DashboardEndpoints, OperatorEndpoints, OperatorStats, UserEndpoints
    <2>2. \A name \in PlatformRequests \ {"getDashboardStats"} : Has(name)
      <3>1. \A name, needs : needs \cap PlatformAdminPermissions # {}
                             /\ Fixed(name, needs, "any") \in DashboardEndpoints => Has(name)
        BY EndpointParts
      <3> HIDE DEF Has
      <3> QED
        BY <1>1, <2>1, <3>1 DEF PlatformRequests
    <2>3. Has("getDashboardStats")
      <3>1. Endpoint("getDashboardStats", {"VIEW_DASHBOARD"}, "own", "refused", FALSE)
              \in DashboardEndpoints
        BY DEF DashboardEndpoints, OverviewEndpoints
      <3> QED
        BY <1>1, <3>1 DEF Endpoint
    <2> HIDE DEF Has
    <2> QED
      BY <2>2, <2>3
  <1>3. \A name \in CompanyRequests : Lists(name)
    <2>1. /\ Asked("getBuses", {"VIEW_BUSES", "MANAGE_BUSES"}, "list") \in DashboardEndpoints
          /\ Asked("getRoutes", {"VIEW_ROUTES", "MANAGE_ROUTES"}, "list")
               \in DashboardEndpoints
          /\ Asked("getTrips", {"VIEW_TRIPS", "MANAGE_TRIPS"}, "list") \in DashboardEndpoints
          /\ Asked("getBookings", {"VIEW_BOOKINGS", "MANAGE_BOOKINGS"}, "list")
               \in DashboardEndpoints
          /\ Asked("getPayments", {"VIEW_PAYMENTS", "MANAGE_PAYMENTS"}, "list")
               \in DashboardEndpoints
          /\ Asked("getRefunds", {"VIEW_REFUNDS", "MANAGE_REFUNDS"}, "list")
               \in DashboardEndpoints
          /\ Fixed("getRoutePoints", {"VIEW_ROUTES", "MANAGE_ROUTES", "BOOK_TICKET"},
                   "resource") \in DashboardEndpoints
      BY DEF DashboardEndpoints, BusEndpoints, RouteEndpoints, TripEndpoints,
             BookingEndpoints, MoneyEndpoints, PointEndpoints
    <2>2. \A name, needs :
            needs \cap PlatformAdminPermissions # {} =>
              /\ Asked(name, needs, "list") \in DashboardEndpoints => Lists(name)
              /\ Fixed(name, needs, "resource") \in DashboardEndpoints => Lists(name)
      BY EndpointParts
    <2>3. Lists("getStaff")
      <3>1. Endpoint("getStaff", {"VIEW_STAFF", "MANAGE_STAFF"}, "required", "refused", TRUE)
              \in DashboardEndpoints
        BY DEF DashboardEndpoints, StaffEndpoints
      <3> QED
        BY <1>1, <3>1 DEF Endpoint
    <2> HIDE DEF Lists
    <2> QED
      BY <1>1, <2>1, <2>2, <2>3 DEF CompanyRequests
  <1> QED
    BY <1>2, <1>3

\* What pages ask for.
LEMMA HubRequests ==
  ASSUME NEW caller \in Callers, NEW at, at.company \in Operators, at.page \in HubPages,
         caller.role # "ADMIN", NEW name \in Requests(caller, at)
  PROVE  /\ name \in DeskRequests \cup OfficeRequests
         /\ at.page \in {"overview", "manage", "booking", "search", "seats", "summary",
                         "confirm"} =>
              name \in DeskRequests
  <1>1. name \in PageAt(caller, at).loads \cup PageAt(caller, at).offers \cup {"getProfile"}
    BY DEF Requests, IsHub, Frame, Page, IsPlatformAdmin
  <1>2. CASE at.page \in {"overview", "manage", "booking", "search", "seats", "summary",
                         "confirm"}
    BY <1>1, <1>2 DEF PageAt, Page, OverviewPage, BookingPage, TripSearchPage, SummaryPage,
       Hidden, IsPlatformAdmin, DeskRequests
  <1>3. CASE at.page \in {"bus", "route", "trip"}
    BY <1>1, <1>3 DEF PageAt, Page, BusesPage, RoutePage, RoutePointsPanel, TripPage,
       Hidden, IsPlatformAdmin, DeskRequests, OfficeRequests
  <1>4. CASE at.page \in {"staff", "payment", "refund"}
    BY <1>1, <1>4 DEF PageAt, Page, StaffPage, PaymentPage, RefundPage,
       Hidden, IsPlatformAdmin, DeskRequests, OfficeRequests
  <1> QED
    BY <1>2, <1>3, <1>4 DEF HubPages

LEMMA AdminRequests ==
  ASSUME NEW caller \in Callers, caller.role = "ADMIN", NEW at,
         \/ at.company = NoOperator
            /\ at.page \in {"home", "dashboard", "users", "operators"}
         \/ at.company \in Operators
            /\ at.page \in HubPages \ {"booking", "search", "seats", "summary", "confirm"},
         NEW name \in Requests(caller, at)
  PROVE  \/ name \in PlatformRequests
         \/ at.company \in Operators /\ name \in CompanyRequests
         \/ at.page = "manage" /\ name = "getBookingRoutes"
  <1>1. /\ name \in PageAt(caller, at).loads \cup PageAt(caller, at).offers
                    \cup Frame(caller).loads \cup Frame(caller).offers
        /\ name \in Frame(caller).loads \cup Frame(caller).offers => name \in PlatformRequests
    BY DEF Requests, Frame, Page, IsPlatformAdmin, PlatformRequests
  <1>2. CASE at.page \in {"home", "dashboard", "users", "operators"}
    BY <1>1, <1>2 DEF PageAt, Page, StatisticsPage, UsersPage, OperatorsPage,
       PlatformRequests
  <1>3. CASE at.page \in {"overview", "bus", "route", "trip"}
    BY <1>1, <1>3, HubPagesAre, OperatorsAssumption
       DEF PageAt, Page, OverviewPage, BusesPage, RoutePage, RoutePointsPanel,
       TripPage, Hidden, IsPlatformAdmin, PlatformRequests, CompanyRequests
  <1>4. CASE at.page \in {"staff", "manage", "payment", "refund"}
    BY <1>1, <1>4, HubPagesAre, OperatorsAssumption
       DEF PageAt, Page, StaffPage, BookingPage, PaymentPage, RefundPage,
       Hidden, IsPlatformAdmin, PlatformRequests, CompanyRequests
  <1> QED
    BY <1>2, <1>3, <1>4 DEF HubPages

\* No open page of the dashboard offers what the server refuses its reader, with any
\* number of companies (DashboardController and the pages' loaders and buttons).
THEOREM PagesAreAlwaysServed == Spec => []PagesAreServed
  <1>1. ASSUME Chosen PROVE PagesAreServed
    <2> DEFINE caller == visit.caller
               at == visit.at
               last == visit.last
    <2>1. caller \in Callers /\ at \in Places /\ last \in Operators \cup {NoOperator}
      BY <1>1 DEF Chosen, Visits, Callers
    <2> HIDE DEF caller, at, last
    <2>2. SUFFICES ASSUME IsPlatformAdmin(caller) \/ HasOperatorContext(caller),
                          Settled(caller, at, last) = at, Opens(caller, at),
                          NEW name \in Requests(caller, at)
                   PROVE  \/ Served(caller, at, name)
                          \/ IsPlatformAdmin(caller) /\ at.page = "manage"
                             /\ name = "getBookingRoutes"
      BY DEF PagesAreServed, caller, at, last
    <2>3. CASE IsPlatformAdmin(caller)
      <3>1. caller.role = "ADMIN"
        BY <2>3 DEF IsPlatformAdmin
      <3>2. \/ at.company = NoOperator
               /\ at.page \in {"home", "dashboard", "users", "operators"}
            \/ at.company \in Operators
               /\ at.page \in HubPages \ {"booking", "search", "seats", "summary", "confirm"}
        <4>1. at = At(at.page, at.company)
          BY <2>1, PlacesAre
        <4>2. \A tab \in {"search", "seats", "summary", "confirm"} : at.page # tab
          BY <2>1, <2>2, <3>1, <4>1, OpenToAdmin
        <4>3. \/ at.company = NoOperator
                 /\ at.page \in {"home", "dashboard", "users", "operators"}
              \/ at.company \in Operators /\ at.page \in HubPages \ {"booking"}
          BY <2>1, <2>2, <3>1, AdminStays
        <4> QED
          BY <4>2, <4>3
      <3>3. CASE name \in PlatformRequests
        <4>1. PICK e \in DashboardEndpoints :
                /\ e.name = name /\ e.roles = Roles /\ e.scope \in {"any", "own"}
                /\ e.needs \cap PlatformAdminPermissions # {}
          BY <3>3, AdminEndpointsAre
        <4>2. Served(caller, at, e.name)
          BY <2>1, <3>1, <3>2, <4>1, AdminIsServed
        <4> QED
          BY <4>1, <4>2
      <3>4. CASE at.company \in Operators /\ name \in CompanyRequests
        <4>1. PICK e \in DashboardEndpoints :
                /\ e.name = name /\ e.roles = Roles
                /\ e.scope \in {"list", "resource"} \/ (e.scope = "required" /\ e.asks)
                /\ e.needs \cap PlatformAdminPermissions # {}
          BY <3>4, AdminEndpointsAre
        <4>2. Served(caller, at, e.name)
          BY <2>1, <3>1, <3>4, <4>1, AdminIsServed
        <4> QED
          BY <4>1, <4>2
      <3> QED
        BY <2>1, <2>3, <3>1, <3>2, <3>3, <3>4, AdminRequests
    <2>4. CASE HasOperatorContext(caller)
      <3>1. caller.role \in {"OPERATOR", "STAFF"} /\ caller.operatorId \in Operators
        BY <2>4 DEF HasOperatorContext
      <3>2. at = At(at.page, at.company)
        BY <2>1, PlacesAre
      <3>3. at.page = "users" => ~Opens(caller, at)
        BY <3>1, <3>2, AtParts, HubPagesAre DEF Opens, Can, Gate, RolePermissions
      <3>4. \/ at.page = "home"
            \/ at.company = caller.operatorId /\ at.page \in HubPages
        BY <2>1, <2>2, <3>1, <3>3, StaffStays
      <3>5. at.page # "home"
        <4>1. at.page = "home" => at.company = NoOperator
          BY <2>1, PlacesAre, HubPagesAre
        <4>2. at.page = "home" => Requests(caller, at) = {}
          BY <4>1, OperatorsAssumption DEF Requests, PageAt, Page, IsHub
        <4> QED
          BY <2>2, <4>2
      <3>6. at.company \in Operators /\ at.page \in HubPages
        BY <3>1, <3>4, <3>5
      <3>7. ASSUME NEW e \in DashboardEndpoints, e.roles = Roles, e.scope \in Scopes,
                   e.needs \cap RolePermissions(caller.role) # {}
            PROVE  Served(caller, at, e.name)
        BY <2>1, <3>1, <3>4, <3>5, <3>7, StaffAreServed
      <3>8. CASE name \in DeskRequests
        <4>1. PICK e \in DashboardEndpoints :
                /\ e.name = name /\ e.roles = Roles /\ e.scope \in Scopes
                /\ e.needs \cap {"VIEW_DASHBOARD", "MANAGE_BOOKINGS", "BOOK_TICKET"} # {}
          BY <3>8, DeskEndpoints DEF EndpointsFor
        <4>2. {"VIEW_DASHBOARD", "MANAGE_BOOKINGS", "BOOK_TICKET"}
                \subseteq RolePermissions(caller.role)
          BY <3>1 DEF RolePermissions
        <4> QED
          BY <3>7, <4>1, <4>2
      <3>9. CASE name \in OfficeRequests /\ caller.role = "OPERATOR"
        <4>1. PICK e \in DashboardEndpoints :
                /\ e.name = name /\ e.roles = Roles /\ e.scope \in Scopes
                /\ e.needs \cap {"MANAGE_BUSES", "MANAGE_ROUTES", "MANAGE_TRIPS",
                                 "MANAGE_STAFF", "MANAGE_PAYMENTS", "MANAGE_REFUNDS"} # {}
          BY <3>9, OfficeEndpoints DEF EndpointsFor
        <4>2. {"MANAGE_BUSES", "MANAGE_ROUTES", "MANAGE_TRIPS",
               "MANAGE_STAFF", "MANAGE_PAYMENTS", "MANAGE_REFUNDS"}
                \subseteq RolePermissions(caller.role)
          BY <3>9 DEF RolePermissions
        <4> QED
          BY <3>7, <4>1, <4>2
      <3>10. CASE caller.role = "STAFF"
        <4>1. at.page \in {"overview", "manage", "booking", "search", "seats", "summary",
                          "confirm"}
          BY <2>2, <3>2, <3>6, <3>10, AtParts DEF Opens, Can, Gate, RolePermissions, HubPages
        <4>2. name \in DeskRequests
          BY <2>1, <2>2, <3>6, <3>10, <4>1, HubRequests
        <4> QED
          BY <3>8, <4>2
      <3>11. CASE caller.role = "OPERATOR"
        <4>1. name \in DeskRequests \cup OfficeRequests
          BY <2>1, <2>2, <3>6, <3>11, HubRequests
        <4> QED
          BY <3>8, <3>9, <3>11, <4>1
      <3> QED
        BY <3>1, <3>10, <3>11
    <2> QED
      BY <2>2, <2>3, <2>4
  <1> QED
    BY <1>1, ChosenHolds, PTL

-----------------------------------------------------------------------------
(* Labels.                                                                 *)

LEMMA LabelParts ==
  ASSUME NEW letters, NEW digits, NEW row, NEW column
  PROVE  /\ Lettered(letters, digits).form = "A1"
         /\ Lettered(letters, digits).letters = letters
         /\ Lettered(letters, digits).digits = digits
         /\ RowColumn(row, column).form = "R1C1"
         /\ RowColumn(row, column).digits[1] = row
         /\ RowColumn(row, column).digits[2] = column
  BY DEF Lettered, RowColumn

LEMMA DigitsDiffer ==
  ASSUME NEW c \in 1 .. 10, NEW d \in 1 .. 10, Digits(c) = Digits(d)
  PROVE  c = d
  BY DEF Digits

\* The label of a seat that is not in a sleeper, by its place.
LEMMA PassengerLabelsDiffer ==
  ASSUME NEW r \in Nat \ {0}, NEW k \in Nat \ {0}, NEW c \in 1 .. 10, NEW d \in 1 .. 10,
         PassengerLabel(r, c) = PassengerLabel(k, d)
  PROVE  r = k /\ c = d
  <1>1. CASE r > 26 /\ k > 26
    BY <1>1, LabelParts DEF PassengerLabel
  <1>2. CASE ~(r > 26) /\ ~(k > 26)
    <2>1. <<r>> = <<k>> /\ Digits(c) = Digits(d)
      BY <1>2, LabelParts DEF PassengerLabel
    <2> QED
      BY <2>1, DigitsDiffer
  <1>3. CASE (r > 26 /\ ~(k > 26)) \/ (~(r > 26) /\ k > 26)
    <2>1. PassengerLabel(r, c).form # PassengerLabel(k, d).form
      BY <1>3, LabelParts DEF PassengerLabel
    <2> QED
      BY <2>1
  <1> QED
    BY <1>1, <1>2, <1>3

\* Whoever normalizes a label leaves it alone, but for U10 and L10.
LEMMA PassengerLabelStays ==
  ASSUME NEW r \in Nat \ {0}, NEW c \in 1 .. 10, c < 10 \/ r \notin {U, L},
         NEW row, NEW column
  PROVE  NormalizedLabel(PassengerLabel(r, c), row, column) = PassengerLabel(r, c)
  <1>1. CASE r > 26
    BY <1>1, LabelParts DEF PassengerLabel, NormalizedLabel
  <1>2. CASE ~(r > 26)
    <2>1. /\ PassengerLabel(r, c).form = "A1" /\ PassengerLabel(r, c).letters = <<r>>
          /\ PassengerLabel(r, c).digits = Digits(c)
      BY <1>2, LabelParts DEF PassengerLabel
    <2>2. c < 10 => Len(Digits(c)) = 1
      BY DEF Digits
    <2>3. ~LegacySleeper(PassengerLabel(r, c))
      BY <2>1, <2>2 DEF LegacySleeper
    <2> QED
      BY <2>1, <2>3 DEF NormalizedLabel
  <1> QED
    BY <1>1, <1>2

\* A sleeper's label stays what it is.
LEMMA SleeperLabelStays ==
  ASSUME NEW deck, NEW r, NEW c, NEW row, NEW column
  PROVE  NormalizedLabel(SleeperLabel(deck, r, c), row, column) = SleeperLabel(deck, r, c)
  <1>1. /\ SleeperLabel(deck, r, c).form = "A1"
        /\ SleeperLabel(deck, r, c).letters = <<deck, r>>
    BY LabelParts DEF SleeperLabel
  <1>2. <<deck, r>> \notin {<<U>>, <<L>>}
    OBVIOUS
  <1> QED
    BY <1>1, <1>2 DEF NormalizedLabel, LegacySleeper

\* How the tenth seat of rows U and L is shown.
LEMMA TenthIsShown ==
  ASSUME NEW r \in {U, L}
  PROVE  Shown(PassengerLabel(r, 10), r, 10) = SleeperLabel(r, IF r = L THEN 6 ELSE U, 7)
  <1>1. /\ PassengerLabel(r, 10).form = "A1" /\ PassengerLabel(r, 10).letters = <<r>>
        /\ PassengerLabel(r, 10).digits = <<1, 0>>
    BY LabelParts DEF PassengerLabel, Digits, U, L
  <1>2. LegacySleeper(PassengerLabel(r, 10))
    BY <1>1 DEF LegacySleeper
  <1>3. /\ RowInDeck(r, r) = IF r = L THEN 6 ELSE U
        /\ ColumnInDeck(10) = 7
    BY DEF RowInDeck, ColumnInDeck, DeckRows, DeckColumns, U, L
  <1>4. NormalizedLabel(PassengerLabel(r, 10), r, 10)
          = SleeperLabel(r, IF r = L THEN 6 ELSE U, 7)
    BY <1>1, <1>2, <1>3 DEF NormalizedLabel
  <1> QED
    BY <1>4, SleeperLabelStays DEF Shown

LEMMA SleeperLabelsDiffer ==
  ASSUME NEW deck, NEW r, NEW c \in 1 .. 10, NEW deck2, NEW k, NEW d \in 1 .. 10,
         SleeperLabel(deck, r, c) = SleeperLabel(deck2, k, d)
  PROVE  deck = deck2 /\ r = k /\ c = d
  <1>1. <<deck, r>> = <<deck2, k>> /\ Digits(c) = Digits(d)
    BY LabelParts DEF SleeperLabel
  <1> QED
    BY <1>1, DigitsDiffer

LEMMA SleeperIsNoPassengerLabel ==
  ASSUME NEW deck, NEW k, NEW d, NEW r, NEW c
  PROVE  SleeperLabel(deck, k, d) # PassengerLabel(r, c)
  <1>1. /\ SleeperLabel(deck, k, d).form = "A1"
        /\ SleeperLabel(deck, k, d).letters = <<deck, k>>
    BY LabelParts DEF SleeperLabel
  <1>2. \/ PassengerLabel(r, c).form = "R1C1"
        \/ PassengerLabel(r, c).letters = <<r>>
    BY LabelParts DEF PassengerLabel
  <1>3. <<deck, k>> # <<r>>
    OBVIOUS
  <1> QED
    BY <1>1, <1>2, <1>3

\* Shown labels tell places apart too.
LEMMA ShownLabelsDiffer ==
  ASSUME NEW r \in Nat \ {0}, NEW k \in Nat \ {0}, NEW c \in 1 .. 10, NEW d \in 1 .. 10,
         Shown(PassengerLabel(r, c), r, c) = Shown(PassengerLabel(k, d), k, d)
  PROVE  r = k /\ c = d
  <1>1. ASSUME NEW q \in Nat \ {0}, NEW e \in 1 .. 10
        PROVE  \/ q \in {U, L} /\ e = 10
                  /\ Shown(PassengerLabel(q, e), q, e) = SleeperLabel(q, IF q = L THEN 6 ELSE U, 7)
               \/ ~(q \in {U, L} /\ e = 10)
                  /\ Shown(PassengerLabel(q, e), q, e) = PassengerLabel(q, e)
    <2>1. CASE q \in {U, L} /\ e = 10
      BY <2>1, TenthIsShown
    <2>2. CASE ~(q \in {U, L} /\ e = 10)
      <3>1. NormalizedLabel(PassengerLabel(q, e), q, e) = PassengerLabel(q, e)
        BY <2>2, PassengerLabelStays
      <3> QED
        BY <2>2, <3>1 DEF Shown
    <2> QED
      BY <2>1, <2>2
  <1>2. CASE (r \in {U, L} /\ c = 10) /\ (k \in {U, L} /\ d = 10)
    <2>1. SleeperLabel(r, IF r = L THEN 6 ELSE U, 7) = SleeperLabel(k, IF k = L THEN 6 ELSE U, 7)
      BY <1>1, <1>2
    <2>2. 7 \in 1 .. 10
      OBVIOUS
    <2> QED
      BY <1>2, <2>1, <2>2, SleeperLabelsDiffer
  <1>3. CASE ~(r \in {U, L} /\ c = 10) /\ ~(k \in {U, L} /\ d = 10)
    BY <1>1, <1>3, PassengerLabelsDiffer
  <1>4. CASE (r \in {U, L} /\ c = 10) /\ ~(k \in {U, L} /\ d = 10)
    BY <1>1, <1>4, SleeperIsNoPassengerLabel
  <1>5. CASE ~(r \in {U, L} /\ c = 10) /\ (k \in {U, L} /\ d = 10)
    BY <1>1, <1>5, SleeperIsNoPassengerLabel
  <1> QED
    BY <1>2, <1>3, <1>4, <1>5

\* Seats that are not a sleeper's, by row and column.
PlacesOf(seats, most) ==
  \A s \in seats : \E r \in Nat \ {0}, c \in 1 .. most : s = SeatAt(r, c)

LEMMA SeatsArePlaces ==
  ASSUME NEW n \in Nat, NEW c \in 1 .. 10
  PROVE  PlacesOf(EconomySeats(n, c), c) /\ PlacesOf(BusinessSeats, 4)
  <1>1. ASSUME NEW s \in EconomySeats(n, c)
        PROVE  \E r \in Nat \ {0}, k \in 1 .. c : s = SeatAt(r, k)
    <2>1. PICK i \in 0 .. n - 1 : s = SeatAt(EconomyRow(i, c), EconomyColumn(i, c))
      BY DEF EconomySeats, SeatAt, EconomyRow, EconomyColumn
    <2>2. i \in Nat
      OBVIOUS
    <2> QED
      BY <2>1, <2>2, Division
  <1>2. ASSUME NEW s \in BusinessSeats
        PROVE  \E r \in Nat \ {0}, k \in 1 .. 4 : s = SeatAt(r, k)
    <2>1. PICK i \in 0 .. 27 : s = SeatAt(BusinessRow(i), BusinessColumn(i))
      BY BusinessSeatsAre
    <2>2. BusinessRow(i) \in 1 .. 9 /\ BusinessColumn(i) \in 1 .. 4
      BY BusinessPlaces, Zenon
    <2> QED
      BY <2>1, <2>2
  <1> QED
    BY <1>1, <1>2 DEF PlacesOf

\* What the third part of LabelsIdentifySeats says of seats that are not a sleeper's.
LEMMA PassengerSeatsIdentified ==
  ASSUME NEW seats, IsFiniteSet(seats), NEW most \in 1 .. 10, PlacesOf(seats, most)
  PROVE  /\ Cardinality({s.label : s \in seats}) = Cardinality(seats)
         /\ Cardinality({ShownLabel(s) : s \in seats}) = Cardinality(seats)
         /\ most < 10 => \A s \in seats :
              /\ ShownLabel(s) = s.label
              /\ Shown(RowColumn(s.row, s.column), s.row, s.column) = s.label
  <1>1. \A r, c : /\ SeatAt(r, c).label = PassengerLabel(r, c)
                  /\ SeatAt(r, c).row = r /\ SeatAt(r, c).column = c
    BY DEF SeatAt, Seat
  <1>2. ASSUME NEW s \in seats, NEW t \in seats
        PROVE  /\ s.label = t.label => s = t
               /\ ShownLabel(s) = ShownLabel(t) => s = t
    <2>1. PICK r \in Nat \ {0}, c \in 1 .. most : s = SeatAt(r, c)
      BY DEF PlacesOf
    <2>2. PICK k \in Nat \ {0}, d \in 1 .. most : t = SeatAt(k, d)
      BY DEF PlacesOf
    <2>3. c \in 1 .. 10 /\ d \in 1 .. 10
      OBVIOUS
    <2>4. s.label = t.label => r = k /\ c = d
      <3>1. s.label = PassengerLabel(r, c) /\ t.label = PassengerLabel(k, d)
        BY <1>1, <2>1, <2>2
      <3> QED
        BY <2>3, <3>1, PassengerLabelsDiffer, ZenonT(60)
    <2>5. ShownLabel(s) = ShownLabel(t) => r = k /\ c = d
      <3>1. /\ ShownLabel(s) = Shown(PassengerLabel(r, c), r, c)
            /\ ShownLabel(t) = Shown(PassengerLabel(k, d), k, d)
        BY <1>1, <2>1, <2>2 DEF ShownLabel
      <3> QED
        BY <2>3, <3>1, ShownLabelsDiffer
    <2> QED
      BY <2>1, <2>2, <2>4, <2>5
  <1>3. Cardinality({s.label : s \in seats}) = Cardinality(seats)
    <2> DEFINE T == {s.label : s \in seats}
               f == [s \in seats |-> s.label]
    <2>1. f \in [seats -> T] /\ (\A s, t \in seats : f[s] = f[t] => s = t)
          /\ (\A x \in T : \E s \in seats : f[s] = x)
      BY <1>2
    <2> HIDE DEF f, T
    <2>2. Cardinality(T) = Cardinality(seats)
      BY <2>1, ToldApart, Zenon
    <2> QED
      BY <2>2 DEF T
  <1>4. Cardinality({ShownLabel(s) : s \in seats}) = Cardinality(seats)
    <2> DEFINE T == {ShownLabel(s) : s \in seats}
               f == [s \in seats |-> ShownLabel(s)]
    <2>1. f \in [seats -> T] /\ (\A s, t \in seats : f[s] = f[t] => s = t)
          /\ (\A x \in T : \E s \in seats : f[s] = x)
      BY <1>2
    <2> HIDE DEF f, T
    <2>2. Cardinality(T) = Cardinality(seats)
      BY <2>1, ToldApart, Zenon
    <2> QED
      BY <2>2 DEF T
  <1>5. ASSUME most < 10, NEW s \in seats
        PROVE  /\ ShownLabel(s) = s.label
               /\ Shown(RowColumn(s.row, s.column), s.row, s.column) = s.label
    <2>1. PICK r \in Nat \ {0}, c \in 1 .. most : s = SeatAt(r, c)
      BY DEF PlacesOf
    <2>2. c \in 1 .. 10 /\ c < 10
      BY <1>5
    <2>3. NormalizedLabel(PassengerLabel(r, c), r, c) = PassengerLabel(r, c)
      BY <2>2, PassengerLabelStays
    <2>4. NormalizedLabel(RowColumn(r, c), r, c) = PassengerLabel(r, c)
      BY LabelParts DEF NormalizedLabel
    <2> QED
      BY <1>1, <2>1, <2>3, <2>4 DEF ShownLabel, Shown
  <1> QED
    BY <1>3, <1>4, <1>5

\* The parts of a place in a sleeper.
LEMMA BerthParts ==
  ASSUME NEW i \in 0 .. 35
  PROVE  /\ Berth(i).label = SleeperLabel(DeckOf(i), BerthRow(i), BerthColumn(i))
         /\ Berth(i).row = BerthRow(i) + (IF i < 18 THEN 0 ELSE 6)
         /\ Berth(i).column = BerthColumn(i) + (IF i < 18 THEN 0 ELSE 3)
         /\ ShownLabel(Berth(i)) = Berth(i).label
         /\ Berth(i).label.letters = <<DeckOf(i), BerthRow(i)>>
         /\ Berth(i).label.digits = <<BerthColumn(i)>>
         /\ DeckOf(i) = IF i < 18 THEN U ELSE L
  <1>1. BerthRow(i) \in 1 .. 6 /\ BerthColumn(i) \in 1 .. 3
    BY BerthPlaces
  <1>2. /\ Berth(i).label = SleeperLabel(DeckOf(i), BerthRow(i), BerthColumn(i))
        /\ Berth(i).row = BerthRow(i) + (IF i < 18 THEN 0 ELSE 6)
        /\ Berth(i).column = BerthColumn(i) + (IF i < 18 THEN 0 ELSE 3)
    BY <1>1 DEF Berth, Seat, DeckOf, DeckRows, DeckColumns
  <1>3. ShownLabel(Berth(i)) = Berth(i).label
    BY <1>2, SleeperLabelStays DEF ShownLabel, Shown
  <1>4. /\ Berth(i).label.letters = <<DeckOf(i), BerthRow(i)>>
        /\ Berth(i).label.digits = <<BerthColumn(i)>>
    BY <1>1, <1>2, LabelParts DEF SleeperLabel, Digits
  <1> QED
    BY <1>2, <1>3, <1>4 DEF DeckOf

\* Older labels of a sleeper name the same place.
LEMMA OldBerthLabels ==
  ASSUME NEW i \in 0 .. 35,
         NEW row \in {Berth(i).row, RowInDeck(DeckOf(i), Berth(i).row)}
  PROVE  Shown(Lettered(<<DeckOf(i)>>, <<0, 7>>), row, Berth(i).column) = Berth(i).label
  <1>1. BerthRow(i) \in 1 .. 6 /\ BerthColumn(i) \in 1 .. 3
    BY BerthPlaces
  <1>2. RowInDeck(DeckOf(i), row) = BerthRow(i)
    BY <1>1, BerthParts DEF RowInDeck, DeckRows, U, L
  <1>3. ColumnInDeck(Berth(i).column) = BerthColumn(i)
    BY <1>1, BerthParts, SMTT(30) DEF ColumnInDeck, DeckColumns
  <1>4. LegacySleeper(Lettered(<<DeckOf(i)>>, <<0, 7>>))
    <2>1. DeckOf(i) \in {U, L}
      BY DEF DeckOf
    <2>2. Len(<<0, 7>>) = 2
      OBVIOUS
    <2> QED
      BY <2>1, <2>2, LabelParts DEF LegacySleeper
  <1>5. NormalizedLabel(Lettered(<<DeckOf(i)>>, <<0, 7>>), row, Berth(i).column)
          = SleeperLabel(DeckOf(i), BerthRow(i), BerthColumn(i))
    BY <1>2, <1>3, <1>4, LabelParts DEF NormalizedLabel
  <1> QED
    BY <1>5, BerthParts, SleeperLabelStays, SMTT(30) DEF Shown

LEMMA BerthsIdentified ==
  /\ Cardinality({s.label : s \in SleeperSeats}) = Cardinality(SleeperSeats)
  /\ Cardinality({ShownLabel(s) : s \in SleeperSeats}) = Cardinality(SleeperSeats)
  /\ \A s \in SleeperSeats :
       /\ ShownLabel(s) = s.label
       /\ \A row \in {s.row, RowInDeck(s.label.letters[1], s.row)} :
            Shown(Lettered(<<s.label.letters[1]>>, <<0, 7>>), row, s.column) = s.label
  <1>1. ASSUME NEW s \in SleeperSeats
        PROVE  \E i \in 0 .. 35 : s = Berth(i)
    BY SleeperSeatsAre
  <1>2. ASSUME NEW i \in 0 .. 35, NEW j \in 0 .. 35, Berth(i).label = Berth(j).label
        PROVE  i = j
    <2>1. /\ DeckOf(i) = DeckOf(j) /\ BerthRow(i) = BerthRow(j)
          /\ BerthColumn(i) = BerthColumn(j)
      <3>1. <<DeckOf(i), BerthRow(i)>> = <<DeckOf(j), BerthRow(j)>>
        BY <1>2, BerthParts, Zenon
      <3>2. <<BerthColumn(i)>> = <<BerthColumn(j)>>
        BY <1>2, BerthParts, Zenon
      <3> QED
        BY <3>1, <3>2
    <2> QED
      BY <2>1, BerthPlaces DEF DeckOf, U, L
  <1>3. \A s, t \in SleeperSeats : s.label = t.label => s = t
    BY <1>1, <1>2
  <1>4. \A s \in SleeperSeats : ShownLabel(s) = s.label
    BY <1>1, BerthParts
  <1>5. Cardinality({s.label : s \in SleeperSeats}) = Cardinality(SleeperSeats)
    <2> DEFINE T == {s.label : s \in SleeperSeats}
               f == [s \in SleeperSeats |-> s.label]
    <2>1. f \in [SleeperSeats -> T] /\ (\A s, t \in SleeperSeats : f[s] = f[t] => s = t)
          /\ (\A x \in T : \E s \in SleeperSeats : f[s] = x)
      BY <1>3
    <2>2. IsFiniteSet(SleeperSeats)
      BY SleeperNumbered
    <2> HIDE DEF f, T
    <2>3. Cardinality(T) = Cardinality(SleeperSeats)
      BY <2>1, <2>2, ToldApart, Zenon
    <2> QED
      BY <2>3 DEF T
  <1>6. {ShownLabel(s) : s \in SleeperSeats} = {s.label : s \in SleeperSeats}
    BY <1>4
  <1>7. ASSUME NEW s \in SleeperSeats,
               NEW row \in {s.row, RowInDeck(s.label.letters[1], s.row)}
        PROVE  Shown(Lettered(<<s.label.letters[1]>>, <<0, 7>>), row, s.column) = s.label
    <2>1. PICK i \in 0 .. 35 : s = Berth(i)
      BY <1>1
    <2>2. s.label.letters[1] = DeckOf(i)
      BY <2>1, BerthParts, SMTT(30)
    <2> QED
      BY <2>1, <2>2, OldBerthLabels
  <1> QED
    BY <1>4, <1>5, <1>6, <1>7

\* Labels identify seats on every bus, of any capacity and with up to ten columns, as
\* stored, as shown, and as older versions wrote them (SeatsService, normalizeSeatNumber).
THEOREM LabelsAlwaysIdentifySeats == Spec => []LabelsIdentifySeats
  <1>1. ASSUME Chosen PROVE LabelsIdentifySeats
    <2> DEFINE seats == Generated(coach)
    <2>1. /\ coach.class \in {"BUSINESS", "ECONOMY"} /\ coach.sleeper \in BOOLEAN
          /\ coach.capacity \in Nat /\ coach.columns \in 0 .. 10
      BY <1>1 DEF Chosen, Classes
    <2>2. ColumnsPerRow(coach) \in 1 .. 10
      BY <2>1 DEF ColumnsPerRow
    <2>3. CASE coach.sleeper
      <3>1. seats = SleeperSeats
        BY <2>3 DEF Generated
      <3> HIDE DEF seats
      <3> QED
        BY <2>3, <3>1, BerthsIdentified DEF LabelsIdentifySeats, seats
    <2>4. CASE ~coach.sleeper /\ coach.class = "BUSINESS"
      <3>1. seats = BusinessSeats
        BY <2>4 DEF Generated
      <3>2. /\ IsFiniteSet(seats) /\ PlacesOf(seats, 4)
        BY <3>1, BusinessNumbered, SeatsArePlaces
      <3> HIDE DEF seats
      <3>3. 4 \in 1 .. 10 /\ 4 < 10
        OBVIOUS
      <3>4. /\ Cardinality({s.label : s \in seats}) = Cardinality(seats)
            /\ Cardinality({ShownLabel(s) : s \in seats}) = Cardinality(seats)
            /\ \A s \in seats :
                 /\ ShownLabel(s) = s.label
                 /\ Shown(RowColumn(s.row, s.column), s.row, s.column) = s.label
        BY <3>2, <3>3, PassengerSeatsIdentified
      <3> QED
        BY <2>4, <3>4 DEF LabelsIdentifySeats, seats
    <2>5. CASE ~coach.sleeper /\ coach.class # "BUSINESS"
      <3>1. seats = EconomySeats(coach.capacity, ColumnsPerRow(coach))
        BY <2>5 DEF Generated
      <3>2. /\ IsFiniteSet(seats) /\ PlacesOf(seats, ColumnsPerRow(coach))
        BY <2>1, <2>2, <3>1, EconomyNumbered, SeatsArePlaces
      <3> HIDE DEF seats
      <3>3. /\ Cardinality({s.label : s \in seats}) = Cardinality(seats)
            /\ Cardinality({ShownLabel(s) : s \in seats}) = Cardinality(seats)
            /\ ColumnsPerRow(coach) < 10 => \A s \in seats :
                 /\ ShownLabel(s) = s.label
                 /\ Shown(RowColumn(s.row, s.column), s.row, s.column) = s.label
        BY <2>2, <3>2, PassengerSeatsIdentified
      <3> QED
        BY <2>5, <3>3 DEF LabelsIdentifySeats, seats
    <2> QED
      BY <2>1, <2>3, <2>4, <2>5
  <1> QED
    BY <1>1, ChosenHolds, PTL

-----------------------------------------------------------------------------
(* Drawing.                                                                *)

\* The seats of a business bus, by their numbers.
BusinessSeat(i) == SeatAt(BusinessRow(i), BusinessColumn(i))

LEMMA BusinessSeatParts ==
  ASSUME NEW i \in 0 .. 27
  PROVE  BusinessSeat(i).row = BusinessRow(i) /\ BusinessSeat(i).column = BusinessColumn(i)
  BY DEF BusinessSeat, SeatAt, Seat

\* A seat with a lower number is in front of or beside.
LEMMA BusinessOrder ==
  ASSUME NEW i \in 0 .. 27, NEW j \in 0 .. 27
  PROVE  /\ j < i <=> \/ BusinessRow(j) < BusinessRow(i)
                      \/ (BusinessRow(j) = BusinessRow(i)
                            /\ BusinessColumn(j) < BusinessColumn(i))
         /\ BusinessRow(i) = IF i < 24 THEN (i \div 3) + 1 ELSE 9
  BY BusinessPlaces DEF BusinessRow

\* As many seats come before a seat as its number says.
LEMMA BusinessRanks ==
  ASSUME NEW i \in 0 .. 27
  PROVE  PlaceRank(BusinessSeat(i), BusinessSeats) = i
  <1> DEFINE R == {t \in BusinessSeats :
                     \/ t.row < BusinessSeat(i).row
                     \/ (t.row = BusinessSeat(i).row /\ t.column < BusinessSeat(i).column)}
             f == [j \in 0 .. i - 1 |-> BusinessSeat(j)]
  <1>1. PlaceRank(BusinessSeat(i), BusinessSeats) = Cardinality(R)
    BY DEF PlaceRank
  <1>2. \A s \in BusinessSeats : \E j \in 0 .. 27 : s = BusinessSeat(j)
    BY BusinessSeatsAre DEF BusinessSeat
  <1>3. \A j \in 0 .. 27 : BusinessSeat(j) \in BusinessSeats
    BY BusinessSeatsAre DEF BusinessSeat
  <1>4. \A j \in 0 .. 27 : BusinessSeat(j) \in R <=> j < i
    BY <1>3, BusinessSeatParts, BusinessOrder
  <1>5. \A j \in 0 .. i - 1 : j \in 0 .. 27 /\ j < i
    OBVIOUS
  <1>6. f \in [0 .. i - 1 -> R] /\ \A j \in 0 .. i - 1 : f[j] = BusinessSeat(j)
    BY <1>4, <1>5
  <1>7. \A x \in R : \E j \in 0 .. i - 1 : BusinessSeat(j) = x
    <2> SUFFICES ASSUME NEW x \in R PROVE \E j \in 0 .. i - 1 : BusinessSeat(j) = x
      OBVIOUS
    <2>1. PICK j \in 0 .. 27 : x = BusinessSeat(j)
      BY <1>2
    <2>2. j \in 0 .. i - 1
      BY <1>4, <2>1
    <2> QED
      BY <2>1, <2>2
  <1> HIDE DEF f, R
  <1>8. ASSUME NEW j \in 0 .. i - 1, NEW k \in 0 .. i - 1, f[j] = f[k]
        PROVE  j = k
    <2>1. BusinessRow(j) = BusinessRow(k) /\ BusinessColumn(j) = BusinessColumn(k)
      BY <1>5, <1>6, <1>8, BusinessSeatParts
    <2> QED
      BY <1>5, <2>1, BusinessPlaces
  <1>9. \A x \in R : \E j \in 0 .. i - 1 : f[j] = x
    BY <1>6, <1>7
  <1>10. i \in Nat
    OBVIOUS
  <1>11. Cardinality(R) = i
    BY <1>6, <1>8, <1>9, <1>10, Numbered, Zenon
  <1> QED
    BY <1>1, <1>11

\* Rows of three and one of four are the rows of a business bus.
LEMMA BusinessIsDrawnWhole == BusinessRows(BusinessSeats) = SeatsByRow(BusinessSeats)
  <1> DEFINE RowOf(r) == {s \in BusinessSeats : s.row = r}
  <1>1. ASSUME NEW s \in BusinessSeats
        PROVE  \E i \in 0 .. 27 : s = BusinessSeat(i)
    BY BusinessSeatsAre DEF BusinessSeat
  <1>2. ASSUME NEW k \in 0 .. 7
        PROVE  {s \in BusinessSeats : PlaceRank(s, BusinessSeats) \div 3 = k} = RowOf(k + 1)
    <2>1. ASSUME NEW i \in 0 .. 27
          PROVE  PlaceRank(BusinessSeat(i), BusinessSeats) \div 3 = k
                   <=> BusinessSeat(i).row = k + 1
      <3>1. i \div 3 = k <=> BusinessRow(i) = k + 1
        BY BusinessOrder
      <3> QED
        BY <3>1, BusinessRanks, BusinessSeatParts
    <2>2. \A s \in BusinessSeats : PlaceRank(s, BusinessSeats) \div 3 = k <=> s.row = k + 1
      BY <1>1, <2>1
    <2> QED
      BY <2>2
  <1>3. {s \in BusinessSeats : PlaceRank(s, BusinessSeats) \in 24 .. 27} = RowOf(9)
    <2>1. ASSUME NEW i \in 0 .. 27
          PROVE  PlaceRank(BusinessSeat(i), BusinessSeats) \in 24 .. 27
                   <=> BusinessSeat(i).row = 9
      <3>1. i \in 24 .. 27 <=> BusinessRow(i) = 9
        BY BusinessOrder
      <3> QED
        BY <3>1, BusinessRanks, BusinessSeatParts
    <2>2. \A s \in BusinessSeats : PlaceRank(s, BusinessSeats) \in 24 .. 27 <=> s.row = 9
      BY <1>1, <2>1
    <2> QED
      BY <2>2
  <1>4. \A r : r \in {s.row : s \in BusinessSeats} <=> r \in 1 .. 9
    <2>1. \A s \in BusinessSeats : s.row \in 1 .. 9
      BY <1>1, BusinessSeatParts, BusinessPlaces
    <2>2. ASSUME NEW r \in 1 .. 9 PROVE \E s \in BusinessSeats : s.row = r
      <3>1. 3 * (r - 1) \in 0 .. 27 /\ BusinessRow(3 * (r - 1)) = r
        BY DEF BusinessRow
      <3>2. BusinessSeat(3 * (r - 1)) \in BusinessSeats
        BY <3>1, BusinessSeatsAre DEF BusinessSeat
      <3> QED
        BY <3>1, <3>2, BusinessSeatParts
    <2> QED
      BY <2>1, <2>2
  <1>5. SeatsByRow(BusinessSeats) = {RowOf(r) : r \in 1 .. 9}
    BY <1>4 DEF SeatsByRow
  <1>6. BusinessRows(BusinessSeats) = {RowOf(k + 1) : k \in 0 .. 7} \cup {RowOf(9)}
    BY <1>2, <1>3 DEF BusinessRows
  <1> HIDE DEF RowOf
  <1>7. \A r \in 1 .. 9 : r = 9 \/ (r - 1 \in 0 .. 7 /\ r = (r - 1) + 1)
    OBVIOUS
  <1>8. \A k \in 0 .. 7 : k + 1 \in 1 .. 9
    OBVIOUS
  <1> QED
    BY <1>5, <1>6, <1>7, <1>8

\* The places of one deck of a sleeper, and their order in it.
DeckSeats(first) == {Berth(i) : i \in first .. first + 17}

LEMMA BerthIsShown ==
  ASSUME NEW i \in 0 .. 35
  PROVE  /\ ShownLabel(Berth(i)).letters[1] = IF i < 18 THEN U ELSE L
         /\ ShownLabel(Berth(i)).letters[2] = BerthRow(i)
         /\ ShownLabel(Berth(i)).digits[1] = BerthColumn(i)
  <1>1. ShownLabel(Berth(i)).letters = <<DeckOf(i), BerthRow(i)>>
        /\ ShownLabel(Berth(i)).digits = <<BerthColumn(i)>>
    BY BerthParts, Zenon
  <1> QED
    BY <1>1 DEF DeckOf

LEMMA DecksAre ==
  /\ {s \in SleeperSeats : ShownLabel(s).letters[1] = U} = DeckSeats(0)
  /\ {s \in SleeperSeats : ShownLabel(s).letters[1] = L} = DeckSeats(18)
  <1>1. \A i \in 0 .. 35 : ShownLabel(Berth(i)).letters[1] = IF i < 18 THEN U ELSE L
    BY BerthIsShown
  <1>2. \A s : s \in SleeperSeats /\ ShownLabel(s).letters[1] = U <=> s \in DeckSeats(0)
    <2>1. \A i : i \in 0 .. 17 <=> i \in 0 .. 35 /\ i < 18
      OBVIOUS
    <2>2. 0 + 17 = 17 /\ U # L
      BY DEF U, L
    <2> QED
      BY <1>1, <2>1, <2>2, SleeperSeatsAre DEF DeckSeats
  <1>3. \A s : s \in SleeperSeats /\ ShownLabel(s).letters[1] = L <=> s \in DeckSeats(18)
    <2>1. \A i : i \in 18 .. 35 <=> i \in 0 .. 35 /\ ~(i < 18)
      OBVIOUS
    <2>2. 18 + 17 = 35 /\ U # L
      BY DEF U, L
    <2> QED
      BY <1>1, <2>1, <2>2, SleeperSeatsAre DEF DeckSeats
  <1> QED
    BY <1>2, <1>3

LEMMA BerthOrder ==
  ASSUME NEW first \in {0, 18}, NEW i \in first .. first + 17, NEW j \in first .. first + 17
  PROVE  /\ j < i <=> \/ BerthRow(j) < BerthRow(i)
                      \/ (BerthRow(j) = BerthRow(i) /\ BerthColumn(j) < BerthColumn(i))
         /\ BerthRow(i) = ((i - first) \div 3) + 1
  <1>1. i \in 0 .. 35 /\ j \in 0 .. 35 /\ (i < 18 <=> first = 0) /\ (j < 18 <=> first = 0)
    OBVIOUS
  <1>2. BerthRow(i) = ((i - first) \div 3) + 1
    BY <1>1 DEF BerthRow
  <1> QED
    BY <1>1, <1>2, BerthPlaces

LEMMA BerthRanks ==
  ASSUME NEW first \in {0, 18}, NEW i \in first .. first + 17
  PROVE  LabelRank(Berth(i), DeckSeats(first)) = i - first
  <1> DEFINE Row(x) == x.letters[2]
             a == ShownLabel(Berth(i))
             R == {t \in DeckSeats(first) :
                     LET b == ShownLabel(t)
                     IN \/ Row(b) < Row(a)
                        \/ (Row(b) = Row(a) /\ b.digits[1] < a.digits[1])}
             m == i - first
             f == [j \in 0 .. m - 1 |-> Berth(first + j)]
  <1>1. LabelRank(Berth(i), DeckSeats(first)) = Cardinality(R)
    BY DEF LabelRank
  <1>2. \A j \in first .. first + 17 : j \in 0 .. 35
    OBVIOUS
  <1>3. ASSUME NEW j \in first .. first + 17
        PROVE  /\ ShownLabel(Berth(j)).letters[2] = BerthRow(j)
               /\ ShownLabel(Berth(j)).digits[1] = BerthColumn(j)
    BY <1>2, BerthIsShown
  <1>4. ASSUME NEW j \in first .. first + 17
        PROVE  Berth(j) \in R <=> j < i
    <2>1. Berth(j) \in DeckSeats(first)
      BY DEF DeckSeats
    <2>2. Berth(j) \in R <=> \/ BerthRow(j) < BerthRow(i)
                             \/ (BerthRow(j) = BerthRow(i) /\ BerthColumn(j) < BerthColumn(i))
      BY <1>3, <2>1
    <2> HIDE DEF R
    <2> QED
      BY <2>2, BerthOrder
  <1>5. \A j \in 0 .. m - 1 : first + j \in first .. first + 17 /\ first + j < i
    OBVIOUS
  <1>6. \A x \in R : \E j \in 0 .. m - 1 : Berth(first + j) = x
    <2> SUFFICES ASSUME NEW x \in R PROVE \E j \in 0 .. m - 1 : Berth(first + j) = x
      OBVIOUS
    <2>1. PICK j \in first .. first + 17 : x = Berth(j)
      BY DEF DeckSeats
    <2> HIDE DEF R
    <2>2. j < i
      BY <1>4, <2>1
    <2>3. j - first \in 0 .. m - 1 /\ first + (j - first) = j
      BY <2>2
    <2> QED
      BY <2>1, <2>3
  <1>7. m \in Nat
    OBVIOUS
  <1> HIDE DEF R, m
  <1>8. f \in [0 .. m - 1 -> R] /\ \A j \in 0 .. m - 1 : f[j] = Berth(first + j)
    BY <1>4, <1>5
  <1> HIDE DEF f
  <1>9. ASSUME NEW j \in 0 .. m - 1, NEW k \in 0 .. m - 1, f[j] = f[k]
        PROVE  j = k
    <2>1. Berth(first + j) = Berth(first + k)
      BY <1>8, <1>9
    <2>2. BerthRow(first + j) = BerthRow(first + k)
          /\ BerthColumn(first + j) = BerthColumn(first + k)
      BY <1>3, <1>5, <2>1
    <2>3. ~(first + j < first + k) /\ ~(first + k < first + j)
      BY <1>5, <2>2, BerthOrder
    <2> QED
      BY <1>7, <2>3
  <1>10. \A x \in R : \E j \in 0 .. m - 1 : f[j] = x
    BY <1>6, <1>8
  <1>11. Cardinality(R) = m
    BY <1>7, <1>8, <1>9, <1>10, Numbered, Zenon
  <1> QED
    BY <1>1, <1>11 DEF m

\* A deck is drawn in rows of three, from its first row on.
LEMMA DeckRowsAre ==
  ASSUME NEW first \in {0, 18}, NEW k \in 0 .. 5
  PROVE  {s \in DeckSeats(first) : LabelRank(s, DeckSeats(first)) \div 3 = k}
           = {s \in SleeperSeats : s.row = k + 1 + (first \div 3)}
  <1> DEFINE row == k + 1 + (first \div 3)
  <1>1. row = IF first = 0 THEN k + 1 ELSE k + 7
    OBVIOUS
  <1>2. ASSUME NEW i \in first .. first + 17
        PROVE  LabelRank(Berth(i), DeckSeats(first)) \div 3 = k <=> Berth(i).row = row
    <2>1. i \in 0 .. 35 /\ (i < 18 <=> first = 0)
      OBVIOUS
    <2>2. Berth(i).row = BerthRow(i) + (IF i < 18 THEN 0 ELSE 6)
      BY <2>1, BerthParts, Zenon
    <2>3. BerthRow(i) = ((i - first) \div 3) + 1
      BY BerthOrder
    <2>4. LabelRank(Berth(i), DeckSeats(first)) = i - first
      BY BerthRanks
    <2> QED
      BY <1>1, <2>1, <2>2, <2>3, <2>4
  <1>3. ASSUME NEW i \in 0 .. 35, Berth(i).row = row
        PROVE  i \in first .. first + 17
    <2>1. Berth(i).row = BerthRow(i) + (IF i < 18 THEN 0 ELSE 6) /\ BerthRow(i) \in 1 .. 6
      BY BerthParts, BerthPlaces, Zenon
    <2> QED
      BY <1>1, <1>3, <2>1
  <1>4. \A i \in first .. first + 17 : i \in 0 .. 35
    OBVIOUS
  <1> HIDE DEF row
  <1>5. \A s : s \in DeckSeats(first) /\ LabelRank(s, DeckSeats(first)) \div 3 = k
                 <=> s \in SleeperSeats /\ s.row = row
    BY <1>2, <1>3, <1>4, SleeperSeatsAre DEF DeckSeats
  <1> QED
    BY <1>5 DEF row

LEMMA DeckCounted ==
  ASSUME NEW first \in {0, 18}
  PROVE  Cardinality(DeckSeats(first)) = 18
  <1> DEFINE f == [j \in 0 .. 18 - 1 |-> Berth(first + j)]
             S == DeckSeats(first)
  <1>1. \A j \in 0 .. 18 - 1 : first + j \in first .. first + 17
    OBVIOUS
  <1>2. \A i \in first .. first + 17 : i - first \in 0 .. 18 - 1 /\ first + (i - first) = i
    OBVIOUS
  <1>3. f \in [0 .. 18 - 1 -> S] /\ \A j \in 0 .. 18 - 1 : f[j] = Berth(first + j)
    BY <1>1 DEF DeckSeats
  <1>4. \A x \in S : \E j \in 0 .. 18 - 1 : Berth(first + j) = x
    BY <1>2 DEF DeckSeats
  <1>5. 18 \in Nat
    OBVIOUS
  <1> HIDE DEF f, S
  <1>6. ASSUME NEW j \in 0 .. 18 - 1, NEW k \in 0 .. 18 - 1, f[j] = f[k]
        PROVE  j = k
    <2>1. Berth(first + j) = Berth(first + k)
      BY <1>3, <1>6
    <2>2. LabelRank(Berth(first + j), DeckSeats(first)) = (first + j) - first
          /\ LabelRank(Berth(first + k), DeckSeats(first)) = (first + k) - first
      BY <1>1, BerthRanks
    <2> QED
      BY <2>1, <2>2
  <1>7. \A x \in S : \E j \in 0 .. 18 - 1 : f[j] = x
    BY <1>3, <1>4
  <1>8. Cardinality(S) = 18
    BY <1>3, <1>5, <1>6, <1>7, Numbered, Zenon
  <1> QED
    BY <1>8 DEF S

\* The rows of the two decks are the rows of a sleeper.
LEMMA SleeperIsDrawnWhole == SleeperRows(SleeperSeats) = SeatsByRow(SleeperSeats)
  <1> DEFINE RowOf(r) == {s \in SleeperSeats : s.row = r}
  <1>1. SleeperRows(SleeperSeats) = RowsOfDeck(DeckSeats(0)) \cup RowsOfDeck(DeckSeats(18))
    <2>1. SleeperRows(SleeperSeats)
            = RowsOfDeck({s \in SleeperSeats : ShownLabel(s).letters[1] = U})
              \cup RowsOfDeck({s \in SleeperSeats : ShownLabel(s).letters[1] = L})
      BY DEF SleeperRows
    <2> QED
      BY <2>1, DecksAre, Zenon
  <1>2. 0 .. ((18 - 1) \div 3) = 0 .. 5
    OBVIOUS
  <1>3. RowsOfDeck(DeckSeats(0)) = {RowOf(k + 1) : k \in 0 .. 5}
    <2>1. \A k \in 0 .. 5 :
            {s \in DeckSeats(0) : LabelRank(s, DeckSeats(0)) \div 3 = k} = RowOf(k + 1)
      <3>1. \A k \in 0 .. 5 : k + 1 + (0 \div 3) = k + 1
        OBVIOUS
      <3> QED
        BY <3>1, DeckRowsAre
    <2>2. Cardinality(DeckSeats(0)) = 18
      BY DeckCounted
    <2> QED
      BY <1>2, <2>1, <2>2 DEF RowsOfDeck
  <1>4. RowsOfDeck(DeckSeats(18)) = {RowOf(k + 7) : k \in 0 .. 5}
    <2>1. \A k \in 0 .. 5 :
            {s \in DeckSeats(18) : LabelRank(s, DeckSeats(18)) \div 3 = k} = RowOf(k + 7)
      <3>1. \A k \in 0 .. 5 : k + 1 + (18 \div 3) = k + 7
        OBVIOUS
      <3> QED
        BY <3>1, DeckRowsAre
    <2>2. Cardinality(DeckSeats(18)) = 18
      BY DeckCounted
    <2> QED
      BY <1>2, <2>1, <2>2 DEF RowsOfDeck
  <1>5. \A r : r \in {s.row : s \in SleeperSeats} <=> r \in 1 .. 12
    <2>1. \A s \in SleeperSeats : s.row \in 1 .. 12
      <3>1. ASSUME NEW i \in 0 .. 35 PROVE Berth(i).row \in 1 .. 12
        <4>1. Berth(i).row = BerthRow(i) + (IF i < 18 THEN 0 ELSE 6) /\ BerthRow(i) \in 1 .. 6
          BY BerthParts, BerthPlaces, Zenon
        <4> QED
          BY <4>1
      <3> QED
        BY <3>1, SleeperSeatsAre
    <2>2. ASSUME NEW r \in 1 .. 12 PROVE \E s \in SleeperSeats : s.row = r
      <3>1. 3 * (r - 1) \in 0 .. 35
            /\ BerthRow(3 * (r - 1)) + (IF 3 * (r - 1) < 18 THEN 0 ELSE 6) = r
        BY DEF BerthRow
      <3>2. Berth(3 * (r - 1)) \in SleeperSeats
        BY <3>1, SleeperSeatsAre
      <3>3. Berth(3 * (r - 1)).row = r
        BY <3>1, BerthParts
      <3> QED
        BY <3>2, <3>3
    <2> QED
      BY <2>1, <2>2
  <1>6. SeatsByRow(SleeperSeats) = {RowOf(r) : r \in 1 .. 12}
    BY <1>5 DEF SeatsByRow
  <1> HIDE DEF RowOf
  <1>7. \A r \in 1 .. 12 : \/ r - 1 \in 0 .. 5 /\ r = (r - 1) + 1
                           \/ r - 7 \in 0 .. 5 /\ r = (r - 7) + 7
    OBVIOUS
  <1>8. \A k \in 0 .. 5 : k + 1 \in 1 .. 12 /\ k + 7 \in 1 .. 12
    OBVIOUS
  <1> QED
    BY <1>1, <1>3, <1>4, <1>6, <1>7, <1>8

\* The rows the client draws are the rows of the bus, whatever its class, capacity and
\* columns (SeatSelection: businessRows, sleeperDeckRows, seatsByRow).
THEOREM RowsAreAlwaysDrawnWhole == Spec => []RowsAreDrawnWhole
  <1>1. ASSUME Chosen PROVE RowsAreDrawnWhole
    <2>1. coach.sleeper \in BOOLEAN
      BY <1>1 DEF Chosen
    <2>2. CASE coach.sleeper
      BY <2>2, SleeperIsDrawnWhole DEF RowsAreDrawnWhole, Drawn, Generated
    <2>3. CASE ~coach.sleeper /\ coach.class = "BUSINESS"
      BY <2>3, BusinessIsDrawnWhole DEF RowsAreDrawnWhole, Drawn, Generated
    <2>4. CASE ~coach.sleeper /\ coach.class # "BUSINESS"
      BY <2>4 DEF RowsAreDrawnWhole, Drawn, Generated
    <2> QED
      BY <2>1, <2>2, <2>3, <2>4
  <1> QED
    BY <1>1, ChosenHolds, PTL

-----------------------------------------------------------------------------
(* What the forms send.                                                    *)

\* What a join of records holds.
LEMMA Joined ==
  ASSUME NEW a, NEW b
  PROVE  /\ DOMAIN (a ++ b) = DOMAIN a \cup DOMAIN b
         /\ \A x \in DOMAIN a : (a ++ b)[x] = a[x]
         /\ \A x \in DOMAIN b \ DOMAIN a : (a ++ b)[x] = b[x]
  BY DEF ++

LEMMA AlikeIs ==
  ASSUME NEW rule, NEW fields
  PROVE  DOMAIN Alike(rule, fields) = fields /\ \A f \in fields : Alike(rule, fields)[f] = rule
  BY DEF Alike

LEMMA NoneIs == DOMAIN None = {}
  BY DEF None, Alike

\* What the rules of the server take.
LEMMA TextsFit ==
  ASSUME NEW t \in Texts
  PROVE  /\ Fits(AnyText, t)
         /\ Length(t) >= 1 => Fits(NotEmpty, t)
         /\ Length(t) >= 2 => Fits(Phrase(2, Unlimited), t)
         /\ Length(t) >= 8 => Fits(Secret, t)
         /\ t # Empty => Length(t) >= 1
         /\ t # Null
  BY DEF Fits, Texts, Phrase, Unlimited, AnyText, NotEmpty, Secret, Length, Empty, Words, Null

LEMMA TrimmedTexts ==
  ASSUME NEW t \in Texts
  PROVE  /\ Trimmed(t) \in Texts
         /\ Trimmed(t).chars = t.chars /\ Trimmed(t).blanks = 0 /\ Trimmed(t).mail = t.mail
         /\ Length(Trimmed(t)) = t.chars /\ t.chars \in Nat
         /\ t.blanks = 0 => Trimmed(t) = t
  BY DEF Trimmed, Texts, Length, Unlimited

LEMMA OptionsFit ==
  ASSUME NEW v \in Options
  PROVE  Fits(Choice, v) /\ v # Null /\ v # Empty
  BY DEF Fits, Choice, Options, Given, Null, Empty, Words

LEMMA EmptyIsText == Empty \in Texts /\ Null # Empty /\ Null \notin Texts /\ Trimmed(Empty) = Empty
  BY DEF Empty, Words, Texts, Length, Unlimited, Null, Trimmed

LEMMA EntriesAre ==
  /\ Entries["text"] = Texts /\ Entries["email"] = {t \in Texts : t.blanks = 0}
  /\ Entries["number"] = [is : {"number"}, n : Int] /\ Entries["option"] = Options
  /\ Entries["select"] = Options \cup {Null} /\ Entries["company"] = Options \cup {Null}
  BY DEF Entries

LEMMA NumbersAre ==
  ASSUME NEW v \in Entries.number
  PROVE  v.is = "number" /\ v.n \in Int
  <1>1. v \in [is : {"number"}, n : Int]
    BY DEF Entries
  <1> QED
    BY <1>1

LEMMA ExceptEntered ==
  ASSUME NEW kinds, NEW d, Entered(kinds, d), NEW f \in DOMAIN d, NEW v \in Entries[kinds[f]]
  PROVE  Entered(kinds, [d EXCEPT ![f] = v])
  BY DEF Entered

\* A request with all fields that are needed and none that is unknown is refused for no
\* other field than those in skip.
Accepted(dto, request, skip) ==
  /\ DOMAIN dto.needs \subseteq DOMAIN request
  /\ Faults(dto, request) \cap (DOMAIN request \ skip) = {}

LEMMA AcceptedIf ==
  ASSUME NEW needs, NEW allows, NEW request, NEW skip,
         DOMAIN needs \subseteq DOMAIN request,
         DOMAIN request \subseteq DOMAIN needs \cup DOMAIN allows,
         \A f \in DOMAIN needs \ skip : Fits(needs[f], request[f]),
         \A f \in (DOMAIN allows \cap DOMAIN request) \ skip :
            request[f] = Null \/ Fits(allows[f], request[f])
  PROVE  Accepted(Dto(needs, allows), request, skip)
  <1>1. Dto(needs, allows).needs = needs /\ Dto(needs, allows).allows = allows
    BY DEF Dto
  <1> QED
    BY <1>1 DEF Accepted, Faults

LEMMA RouteEntered ==
  ASSUME NEW d, Entered(RouteInputs, d)
  PROVE  d.origin \in Texts /\ d.destination \in Texts /\ d.operatorId \in Options \cup {Null}
  <1>1. /\ DOMAIN RouteInputs = {"origin", "destination", "operatorId"}
        /\ RouteInputs["origin"] = "text" /\ RouteInputs["destination"] = "text"
        /\ RouteInputs["operatorId"] = "company"
    BY DEF RouteInputs, Inputs, ++
  <1> QED
    BY <1>1, EntriesAre DEF Entered

LEMMA CompanyIs ==
  ASSUME NEW d, d.operatorId \in Options \cup {Null}
  PROVE  /\ DOMAIN Company(d) \subseteq {"operatorId"}
         /\ \A f \in DOMAIN Company(d) : Fits(Choice, Company(d)[f])
  BY NoneIs, OptionsFit DEF Company

LEMMA RouteAccepted ==
  ASSUME NEW d, Entered(RouteInputs, d), NEW new \in BOOLEAN,
         NEW request \in RouteForm(new, d)
  PROVE  Accepted(IF new THEN CreateRouteDto ELSE UpdateRouteDto, request, {})
  <1> DEFINE base == [origin |-> Trimmed(d.origin), destination |-> Trimmed(d.destination)]
             rest == IF new THEN Company(d) ELSE None
  <1>1. d.origin \in Texts /\ d.destination \in Texts /\ d.operatorId \in Options \cup {Null}
    BY RouteEntered
  <1>2. request = base ++ rest /\ d.origin.chars > 0 /\ d.destination.chars > 0
    BY DEF RouteForm, AllSaid
  <1>3. \A f \in {"origin", "destination"} :
          f \in DOMAIN base /\ Fits(NotEmpty, base[f]) /\ Fits(AnyText, base[f])
    BY <1>1, <1>2, TrimmedTexts, TextsFit
  <1>4. /\ DOMAIN rest \subseteq IF new THEN {"operatorId"} ELSE {}
        /\ \A f \in DOMAIN rest : Fits(Choice, rest[f])
    BY <1>1, CompanyIs, NoneIs
  <1>5. DOMAIN base = {"origin", "destination"}
    OBVIOUS
  <1> HIDE DEF base, rest
  <1>6. /\ DOMAIN request = DOMAIN base \cup DOMAIN rest
        /\ \A f \in DOMAIN base : request[f] = base[f]
        /\ \A f \in DOMAIN rest \ DOMAIN base : request[f] = rest[f]
    BY <1>2 DEF ++
  <1>7. CASE new
    <2>1. Accepted(CreateRouteDto, request, {})
      BY <1>3, <1>4, <1>5, <1>6, <1>7, AcceptedIf, AlikeIs DEF CreateRouteDto
    <2> QED
      BY <1>7, <2>1
  <1>8. CASE ~new
    <2>1. Accepted(UpdateRouteDto, request, {})
      BY <1>3, <1>4, <1>5, <1>6, <1>8, AcceptedIf, AlikeIs, NoneIs DEF UpdateRouteDto
    <2> QED
      BY <1>8, <2>1
  <1> QED
    BY <1>7, <1>8

LEMMA TripEntered ==
  ASSUME NEW d, Entered(TripInputs, d)
  PROVE  /\ \A f \in {"busId", "routeId", "departureTime", "arrivalTime", "operatorId"} :
              d[f] \in Options \cup {Null}
         /\ d.price \in Entries.number
  <1>1. /\ DOMAIN TripInputs = {"busId", "routeId", "departureTime", "arrivalTime", "price",
                               "operatorId"}
        /\ \A f \in {"busId", "routeId", "departureTime", "arrivalTime"} : TripInputs[f] = "select"
        /\ TripInputs["price"] = "number" /\ TripInputs["operatorId"] = "company"
    BY DEF TripInputs, TripFields, Alike, Inputs, ++
  <1> QED
    BY <1>1, EntriesAre DEF Entered

LEMMA TripAccepted ==
  ASSUME NEW d, Entered(TripInputs, d), NEW new \in BOOLEAN,
         NEW request \in TripForm(new, d)
  PROVE  Accepted(IF new THEN CreateTripDto ELSE UpdateTripDto, request, {})
  <1> DEFINE base == [f \in DOMAIN TripFields \cup {"price"} |-> d[f]]
             rest == IF new THEN Company(d) ELSE None
             needs == TripFields ++ [price |-> Money]
  <1>1. /\ DOMAIN TripFields = {"busId", "routeId", "departureTime", "arrivalTime"}
        /\ \A f \in DOMAIN TripFields : TripFields[f] = Choice
    BY AlikeIs DEF TripFields
  <1>2. \A f \in DOMAIN TripFields \cup {"operatorId"} : d[f] \in Options \cup {Null}
    BY <1>1, TripEntered
  <1>3. request = base ++ rest /\ Fits(Money, d.price) /\ \A f \in DOMAIN TripFields : d[f] # Null
    BY DEF TripForm, AllFilled
  <1>4. DOMAIN needs = DOMAIN base /\ \A f \in DOMAIN needs : Fits(needs[f], base[f])
    BY <1>1, <1>2, <1>3, OptionsFit DEF ++
  <1>5. /\ DOMAIN rest \subseteq IF new THEN {"operatorId"} ELSE {}
        /\ \A f \in DOMAIN rest : Fits(Choice, rest[f])
    BY <1>2, CompanyIs, NoneIs
  <1>6. "operatorId" \notin DOMAIN base
    BY <1>1
  <1>7. CreateTripDto = Dto(needs, [operatorId |-> Choice]) /\ UpdateTripDto = Dto(None, needs)
    BY DEF CreateTripDto, UpdateTripDto
  <1> HIDE DEF base, rest, needs
  <1>8. /\ DOMAIN request = DOMAIN base \cup DOMAIN rest
        /\ \A f \in DOMAIN base : request[f] = base[f]
        /\ \A f \in DOMAIN rest \ DOMAIN base : request[f] = rest[f]
    BY <1>3 DEF ++
  <1>9. CASE new
    <2>1. Accepted(CreateTripDto, request, {})
      BY <1>4, <1>5, <1>6, <1>7, <1>8, <1>9, AcceptedIf
    <2> QED
      BY <1>9, <2>1
  <1>10. CASE ~new
    <2>1. Accepted(UpdateTripDto, request, {})
      BY <1>4, <1>5, <1>7, <1>8, <1>10, AcceptedIf, NoneIs
    <2> QED
      BY <1>10, <2>1
  <1> QED
    BY <1>9, <1>10

LEMMA BusEntered ==
  ASSUME NEW d, Entered(BusInputs, d)
  PROVE  /\ d.name \in Texts /\ d.registrationNumber \in Texts
         /\ d.busType \in Options /\ d.busClass \in Options /\ d.status \in Options
         /\ d.operatorId \in Options \cup {Null} /\ d.seatCapacity \in Entries.number
  <1>1. /\ DOMAIN BusInputs = {"name", "registrationNumber", "operatorId", "busType", "busClass",
                              "status", "seatCapacity"}
        /\ BusInputs["name"] = "text" /\ BusInputs["registrationNumber"] = "text"
        /\ BusInputs["busType"] = "option" /\ BusInputs["busClass"] = "option"
        /\ BusInputs["status"] = "option"
        /\ BusInputs["operatorId"] = "company" /\ BusInputs["seatCapacity"] = "number"
    BY DEF BusInputs, Inputs, ++
  <1> QED
    BY <1>1, EntriesAre DEF Entered

LEMMA BusAccepted ==
  ASSUME NEW d, Entered(BusInputs, d), NEW new \in BOOLEAN,
         NEW request \in BusForm(new, d)
  PROVE  Accepted(IF new THEN CreateBusDto ELSE UpdateBusDto, request, {"seatCapacity"})
  <1> DEFINE base == [name |-> Trimmed(d.name), registrationNumber |-> Trimmed(d.registrationNumber),
                      seatCapacity |-> d.seatCapacity, busType |-> d.busType,
                      busClass |-> d.busClass]
             rest == IF new THEN Company(d) ELSE [status |-> d.status]
             needs == Alike(NotEmpty, {"name", "registrationNumber"})
                        ++ Alike(Choice, {"busType", "busClass"}) ++ [seatCapacity |-> Whole]
             allows == Alike(AnyText, {"name", "registrationNumber"}) ++ [seatCapacity |-> Whole]
                         ++ Alike(Choice, {"busType", "busClass", "status"})
  <1>1. /\ d.name \in Texts /\ d.registrationNumber \in Texts
        /\ d.busType \in Options /\ d.busClass \in Options /\ d.status \in Options
        /\ d.operatorId \in Options \cup {Null}
    BY BusEntered
  <1>2. request = base ++ rest /\ d.name.chars > 0 /\ d.registrationNumber.chars > 0
    BY DEF BusForm, AllSaid
  <1>3. /\ DOMAIN base = {"name", "registrationNumber", "seatCapacity", "busType", "busClass"}
        /\ DOMAIN needs = DOMAIN base /\ DOMAIN allows = DOMAIN base \cup {"status"}
    BY DEF Alike, ++
  <1>4. \A f \in DOMAIN needs \ {"seatCapacity"} :
          Fits(needs[f], base[f]) /\ Fits(allows[f], base[f])
    <2>1. \A f \in {"name", "registrationNumber"} :
            needs[f] = NotEmpty /\ allows[f] = AnyText /\ Fits(NotEmpty, base[f])
            /\ Fits(AnyText, base[f])
      BY <1>1, <1>2, TrimmedTexts, TextsFit DEF Alike, ++
    <2>2. \A f \in {"busType", "busClass"} :
            needs[f] = Choice /\ allows[f] = Choice /\ Fits(Choice, base[f])
      BY <1>1, OptionsFit DEF Alike, ++
    <2> QED
      BY <1>3, <2>1, <2>2
  <1>5. /\ new => DOMAIN rest \subseteq {"operatorId"}
        /\ ~new => DOMAIN rest = {"status"}
        /\ allows["status"] = Choice
        /\ \A f \in DOMAIN rest : Fits(Choice, rest[f])
    BY <1>1, CompanyIs, OptionsFit DEF Alike, ++
  <1>6. CreateBusDto = Dto(needs, [operatorId |-> Choice]) /\ UpdateBusDto = Dto(None, allows)
    BY DEF CreateBusDto, UpdateBusDto
  <1> HIDE DEF base, rest, needs, allows
  <1>7. /\ DOMAIN request = DOMAIN base \cup DOMAIN rest
        /\ \A f \in DOMAIN base : request[f] = base[f]
        /\ \A f \in DOMAIN rest \ DOMAIN base : request[f] = rest[f]
    BY <1>2 DEF ++
  <1>8. CASE new
    <2>1. Accepted(CreateBusDto, request, {"seatCapacity"})
      BY <1>3, <1>4, <1>5, <1>6, <1>7, <1>8, AcceptedIf
    <2> QED
      BY <1>8, <2>1
  <1>9. CASE ~new
    <2>1. Accepted(UpdateBusDto, request, {"seatCapacity"})
      BY <1>3, <1>4, <1>5, <1>6, <1>7, <1>9, AcceptedIf, NoneIs
    <2> QED
      BY <1>9, <2>1
  <1> QED
    BY <1>8, <1>9

\* The reason of a cancellation and the note of a review.
LEMMA ReasonsAccepted ==
  ASSUME NEW d, Entered(ReasonInputs, d), NEW request \in CancelForm(d)
  PROVE  Accepted(CancelTripDto, request, {"reason"})
         /\ Accepted(CancelBookingDto, request, {"reason"})
  <1>1. request = [reason |-> Trimmed(d.reason)]
    BY DEF CancelForm
  <1> QED
    BY <1>1, AcceptedIf, NoneIs DEF CancelTripDto, CancelBookingDto

LEMMA NotesAccepted ==
  ASSUME NEW d, Entered(NoteInputs, d), NEW request \in ApproveForm(d) \cup RejectForm(d)
  PROVE  Accepted(ReviewRefundDto, request, {"adminNote"})
  <1>1. request = Note(d)
    BY DEF ApproveForm, RejectForm
  <1>2. DOMAIN request \subseteq {"adminNote"}
    BY <1>1, NoneIs DEF Note
  <1> QED
    BY <1>2, AcceptedIf, NoneIs DEF ReviewRefundDto

LEMMA PointEntered ==
  ASSUME NEW d, Entered(PointInputs, d)
  PROVE  d.name \in Texts /\ d.address \in Texts /\ d.isActive \in Options
  <1>1. /\ DOMAIN PointInputs = {"name", "address", "isActive"}
        /\ PointInputs["name"] = "text" /\ PointInputs["address"] = "text"
        /\ PointInputs["isActive"] = "option"
    BY DEF PointInputs, Inputs, ++
  <1> QED
    BY <1>1, EntriesAre DEF Entered

LEMMA PointAccepted ==
  ASSUME NEW d, Entered(PointInputs, d), NEW request \in PointForm(d)
  PROVE  Accepted(CreateBoardingPointDto, request, {})
         /\ Accepted(UpdateBoardingPointDto, request, {})
  <1> DEFINE needs == Alike(NotEmpty, {"name", "address"}) ++ [routeId |-> Choice]
             all == needs ++ [isActive |-> Choice]
  <1>1. d.name \in Texts /\ d.address \in Texts /\ d.isActive \in Options
    BY PointEntered
  <1>2. /\ request = [routeId |-> Given("chosen"), name |-> Trimmed(d.name),
                      address |-> Trimmed(d.address), isActive |-> d.isActive]
        /\ d.name.chars > 0 /\ d.address.chars > 0
    BY DEF PointForm, AllSaid
  <1>3. /\ DOMAIN needs = {"name", "address", "routeId"}
        /\ DOMAIN all = {"name", "address", "routeId", "isActive"}
        /\ needs["routeId"] = Choice /\ all["routeId"] = Choice /\ all["isActive"] = Choice
        /\ \A f \in {"name", "address"} : needs[f] = NotEmpty /\ all[f] = NotEmpty
    BY DEF Alike, ++
  <1>4. /\ DOMAIN request = {"name", "address", "routeId", "isActive"}
        /\ \A f \in {"name", "address"} : Fits(NotEmpty, request[f])
        /\ Fits(Choice, request.routeId) /\ Fits(Choice, request.isActive)
    BY <1>1, <1>2, TrimmedTexts, TextsFit, OptionsFit DEF Options
  <1>5. /\ CreateBoardingPointDto = Dto(needs, [isActive |-> Choice])
        /\ UpdateBoardingPointDto = Dto(None, all)
    BY DEF CreateBoardingPointDto, UpdateBoardingPointDto, Dto
  <1> HIDE DEF needs, all
  <1> QED
    BY <1>3, <1>4, <1>5, AcceptedIf, NoneIs

LEMMA StaffEntered ==
  ASSUME NEW d, Entered(StaffInputs, d)
  PROVE  \A f \in {"fullName", "phoneNumber", "password", "email"} : d[f] \in Texts
  <1>1. /\ DOMAIN StaffInputs = {"fullName", "phoneNumber", "password", "email"}
        /\ \A f \in {"fullName", "phoneNumber", "password"} : StaffInputs[f] = "text"
        /\ StaffInputs["email"] = "email"
    BY DEF StaffInputs, Inputs, ++
  <1> QED
    BY <1>1, EntriesAre DEF Entered

LEMMA StaffAccepted ==
  ASSUME NEW d, Entered(StaffInputs, d), NEW new \in BOOLEAN,
         NEW request \in StaffForm(new, d)
  PROVE  Accepted(IF new THEN CreateStaffDto ELSE UpdateStaffDto, request,
                  {"fullName", "email", "password"})
  <1> DEFINE base == [fullName |-> Trimmed(d.fullName), email |-> Trimmed(d.email),
                      phoneNumber |-> Trimmed(d.phoneNumber)]
             rest == IF new \/ AllSaid(d, {"password"})
                       THEN [password |-> Trimmed(d.password)] ELSE None
  <1>1. Fits(AnyText, base.phoneNumber)
    BY StaffEntered, TrimmedTexts, TextsFit
  <1>2. request = base ++ rest
    BY DEF StaffForm
  <1>3. /\ DOMAIN base = {"fullName", "email", "phoneNumber"}
        /\ DOMAIN rest \subseteq {"password"}
        /\ new => DOMAIN rest = {"password"}
    BY NoneIs
  <1> HIDE DEF base, rest
  <1>4. DOMAIN request = DOMAIN base \cup DOMAIN rest
        /\ \A f \in DOMAIN base : request[f] = base[f]
    BY <1>2 DEF ++
  <1>5. "phoneNumber" \in DOMAIN request /\ Fits(AnyText, request["phoneNumber"])
    BY <1>1, <1>3, <1>4
  <1>6. CASE new
    <2> DEFINE needs == [fullName |-> Phrase(2, Unlimited), email |-> Mail, password |-> Secret]
               allows == [phoneNumber |-> AnyText]
    <2>1. Accepted(CreateStaffDto, request, {"fullName", "email", "password"})
      <3>1. DOMAIN request = DOMAIN needs \cup DOMAIN allows /\ DOMAIN allows = {"phoneNumber"}
            /\ DOMAIN needs = {"fullName", "email", "password"}
        BY <1>3, <1>4, <1>6
      <3>2. allows["phoneNumber"] = AnyText /\ CreateStaffDto = Dto(needs, allows)
        BY DEF CreateStaffDto
      <3> HIDE DEF needs, allows
      <3> QED
        BY <1>5, <3>1, <3>2, AcceptedIf
    <2> QED
      BY <1>6, <2>1
  <1>7. CASE ~new
    <2> DEFINE allows == [fullName |-> AnyText, email |-> Mail, password |-> Secret,
                          phoneNumber |-> AnyText]
    <2>1. Accepted(UpdateStaffDto, request, {"fullName", "email", "password"})
      <3>1. DOMAIN request \subseteq DOMAIN allows
            /\ DOMAIN allows = {"fullName", "email", "password", "phoneNumber"}
        BY <1>3, <1>4
      <3>2. allows["phoneNumber"] = AnyText /\ UpdateStaffDto = Dto(None, allows)
        BY DEF UpdateStaffDto
      <3> HIDE DEF allows
      <3> QED
        BY <1>5, <3>1, <3>2, AcceptedIf, NoneIs
    <2> QED
      BY <1>7, <2>1
  <1> QED
    BY <1>6, <1>7

LEMMA OperatorAccepted ==
  ASSUME NEW d, Entered(OperatorInputs, d), NEW request \in OperatorForm(d)
  PROVE  Accepted(CreateOperatorDto, request,
                  {"companyName", "slug", "email", "adminEmail", "adminPassword"})
  <1> DEFINE needs == Alike(Phrase(2, Unlimited), {"companyName", "slug"})
             allows == Alike(AnyText, {"logo", "phone", "address", "description", "adminName"})
                         ++ Alike(Mail, {"email", "adminEmail"}) ++ [adminPassword |-> Secret]
  <1>1. /\ DOMAIN OperatorInputs = {"companyName", "slug", "adminName", "adminPassword", "email",
                                   "adminEmail"}
        /\ OperatorInputs["adminName"] = "text"
    BY DEF OperatorInputs, Inputs, ++
  <1>2. request = d /\ DOMAIN d = DOMAIN OperatorInputs /\ d.adminName \in Texts
    BY <1>1, EntriesAre DEF OperatorForm, Entered
  <1>3. /\ DOMAIN needs = {"companyName", "slug"}
        /\ DOMAIN allows = {"logo", "phone", "address", "description", "adminName", "email",
                            "adminEmail", "adminPassword"}
        /\ allows["adminName"] = AnyText
    BY DEF Alike, ++
  <1>4. Fits(AnyText, d.adminName)
    BY <1>2, TextsFit
  <1>5. CreateOperatorDto = Dto(needs, allows)
    BY DEF CreateOperatorDto
  <1> HIDE DEF needs, allows
  <1> QED
    BY <1>1, <1>2, <1>3, <1>4, <1>5, AcceptedIf

\* What is sent for a passenger, at the desk or by the passenger.
LEMMA PassengerIs ==
  ASSUME NEW d, d.boardingPointId \in Options, d.droppingPointId \in Options,
         NEW name \in Texts, NEW phone \in Texts, Length(name) >= 1, Length(phone) >= 1
  PROVE  LET given == Passenger(name, phone, d)
             needs == CreateAdminBookingDto.needs
         IN /\ DOMAIN needs = DOMAIN given
            /\ \A f \in DOMAIN needs : Fits(needs[f], given[f])
            /\ DOMAIN given = {"tripId", "seatIds", "boardingPointId", "droppingPointId",
                              "passengerName", "passengerPhone"}
  <1> DEFINE given == Passenger(name, phone, d)
             needs == CreateAdminBookingDto.needs
  <1>1. needs = Alike(Choice, {"tripId", "seatIds", "boardingPointId", "droppingPointId"})
                  ++ Alike(NotEmpty, {"passengerName", "passengerPhone"})
    BY DEF CreateAdminBookingDto, Dto
  <1>2. /\ DOMAIN needs = {"tripId", "seatIds", "boardingPointId", "droppingPointId",
                           "passengerName", "passengerPhone"}
        /\ \A f \in {"tripId", "seatIds", "boardingPointId", "droppingPointId"} : needs[f] = Choice
        /\ \A f \in {"passengerName", "passengerPhone"} : needs[f] = NotEmpty
    BY <1>1 DEF Alike, ++
  <1>3. /\ DOMAIN given = {"tripId", "seatIds", "boardingPointId", "droppingPointId",
                           "passengerName", "passengerPhone"}
        /\ \A f \in {"tripId", "seatIds", "boardingPointId", "droppingPointId"} : given[f] \in Options
        /\ given["passengerName"] = name /\ given["passengerPhone"] = phone
    BY DEF Passenger, Alike, Options, ++
  <1> HIDE DEF given, needs
  <1>4. \A f \in DOMAIN needs : Fits(needs[f], given[f])
    BY <1>2, <1>3, OptionsFit, TextsFit
  <1> QED
    BY <1>2, <1>3, <1>4 DEF given, needs

LEMMA PassengerAccepted ==
  ASSUME NEW d, Entered(PassengerInputs, d), NEW request \in PassengerForm(d)
  PROVE  Accepted(ConfirmBookingDto, request, {})
  <1>1. /\ DOMAIN PassengerInputs = {"name", "phone", "boardingPointId", "droppingPointId"}
        /\ \A f \in {"name", "phone"} : PassengerInputs[f] = "text"
        /\ \A f \in {"boardingPointId", "droppingPointId"} : PassengerInputs[f] = "select"
    BY DEF PassengerInputs, Inputs, ++
  <1>2. /\ request = Passenger(d.name, d.phone, d)
        /\ \A f \in DOMAIN PassengerInputs : d[f] \notin {Empty, Null}
    BY DEF PassengerForm, AllFilled
  <1>3. /\ d.name \in Texts /\ d.phone \in Texts
        /\ d.boardingPointId \in Options /\ d.droppingPointId \in Options
    BY <1>1, <1>2, EntriesAre DEF Entered
  <1>4. Length(d.name) >= 1 /\ Length(d.phone) >= 1
    BY <1>1, <1>2, <1>3, TextsFit
  <1> QED
    BY <1>2, <1>3, <1>4, PassengerIs, AcceptedIf, NoneIs DEF ConfirmBookingDto

LEMMA DeskAccepted ==
  ASSUME NEW d, Entered(DeskInputs, d), NEW request \in DeskForm(d)
  PROVE  Accepted(CreateAdminBookingDto, request, {})
  <1> DEFINE given == Passenger(Trimmed(d.name), Trimmed(d.phone), d)
             discount == IF d.discountType # Null /\ d.discountValue.n > 0
                           THEN [discountType |-> d.discountType, discountValue |-> d.discountValue]
                           ELSE None
             needs == CreateAdminBookingDto.needs
             allows == [discountType |-> Choice, discountValue |-> [Money EXCEPT !.step = 1]]
  <1>1. /\ DOMAIN DeskInputs = {"name", "phone", "discountValue", "boardingPointId",
                               "droppingPointId", "discountType"}
        /\ DeskInputs["name"] = "text" /\ DeskInputs["phone"] = "text"
        /\ DeskInputs["discountValue"] = "number" /\ DeskInputs["boardingPointId"] = "select"
        /\ DeskInputs["droppingPointId"] = "select" /\ DeskInputs["discountType"] = "select"
    BY DEF DeskInputs, Inputs, ++
  <1>2. /\ d.name \in Texts /\ d.phone \in Texts /\ d.discountValue \in Entries.number
        /\ d.boardingPointId \in Options \cup {Null} /\ d.droppingPointId \in Options \cup {Null}
        /\ d.discountType \in Options \cup {Null}
    BY <1>1, EntriesAre DEF Entered
  <1>3. /\ request = given ++ discount /\ d.name.chars > 0 /\ d.phone.chars > 0
        /\ d.boardingPointId # Null /\ d.droppingPointId # Null
    BY DEF DeskForm, AllSaid, AllFilled
  <1>4. /\ DOMAIN needs = DOMAIN given /\ \A f \in DOMAIN needs : Fits(needs[f], given[f])
        /\ DOMAIN given = {"tripId", "seatIds", "boardingPointId", "droppingPointId",
                           "passengerName", "passengerPhone"}
    <2>1. /\ Trimmed(d.name) \in Texts /\ Trimmed(d.phone) \in Texts
          /\ Length(Trimmed(d.name)) >= 1 /\ Length(Trimmed(d.phone)) >= 1
      BY <1>2, <1>3, TrimmedTexts
    <2>2. d.boardingPointId \in Options /\ d.droppingPointId \in Options
      BY <1>2, <1>3
    <2> QED
      BY <2>1, <2>2, PassengerIs
  <1>5. /\ DOMAIN allows = {"discountType", "discountValue"} /\ DOMAIN discount \subseteq DOMAIN allows
        /\ \A f \in DOMAIN discount : Fits(allows[f], discount[f])
    <2>1. CASE d.discountType # Null /\ d.discountValue.n > 0
      <3>1. Fits(Choice, d.discountType)
        BY <1>2, <2>1, OptionsFit
      <3>2. Fits([Money EXCEPT !.step = 1], d.discountValue)
        <4>1. d.discountValue.is = "number" /\ d.discountValue.n \in Int
          BY <1>2, NumbersAre
        <4>2. [Money EXCEPT !.step = 1] = [is |-> "number", least |-> 0, step |-> 1]
          BY DEF Money
        <4>3. \A n \in Int : n % 1 = 0
          OBVIOUS
        <4>4. Fits([is |-> "number", least |-> 0, step |-> 1], d.discountValue)
          BY <2>1, <4>1, <4>3 DEF Fits
        <4> QED
          BY <4>2, <4>4, Zenon
      <3> QED
        BY <2>1, <3>1, <3>2
    <2>2. CASE ~(d.discountType # Null /\ d.discountValue.n > 0)
      BY <2>2, NoneIs
    <2> QED
      BY <2>1, <2>2
  <1>6. CreateAdminBookingDto = Dto(needs, allows)
    BY DEF CreateAdminBookingDto, Dto
  <1> HIDE DEF given, discount, needs, allows
  <1>7. /\ DOMAIN request = DOMAIN given \cup DOMAIN discount
        /\ \A f \in DOMAIN given : request[f] = given[f]
        /\ \A f \in DOMAIN discount \ DOMAIN given : request[f] = discount[f]
    BY <1>3 DEF ++
  <1> QED
    BY <1>4, <1>5, <1>6, <1>7, AcceptedIf

LEMMA ProfileEntered ==
  ASSUME NEW d, Entered(ProfileInputs, d)
  PROVE  /\ \A f \in {"name", "phone", "address", "nid", "passport", "visa"} : d[f] \in Texts
         /\ d.dob \in Options \cup {Null} /\ d.gender \in Options
  <1>1. /\ DOMAIN ProfileInputs = {"name", "phone", "address", "nid", "passport", "visa", "dob",
                                  "gender"}
        /\ \A f \in {"name", "phone", "address", "nid", "passport", "visa"} :
              ProfileInputs[f] = "text"
        /\ ProfileInputs["dob"] = "select" /\ ProfileInputs["gender"] = "option"
    BY DEF ProfileInputs, Inputs, ++
  <1> QED
    BY <1>1, EntriesAre DEF Entered

LEMMA ProfileDtoIs ==
  LET needs == UpdateProfileDto.needs
      allows == UpdateProfileDto.allows
  IN /\ UpdateProfileDto = Dto(needs, allows)
     /\ DOMAIN needs = {"fullName", "phoneNumber"}
     /\ needs["fullName"] = Phrase(1, 100) /\ needs["phoneNumber"] = Phrase(1, 30)
     /\ DOMAIN allows = {"gender", "dateOfBirth", "nationalId", "passportNumber", "address",
                        "visaInfo"}
     /\ allows["gender"] = Choice /\ allows["dateOfBirth"] = Choice
     /\ allows["nationalId"] = Phrase(0, 50) /\ allows["passportNumber"] = Phrase(0, 50)
     /\ allows["address"] = Phrase(0, 300) /\ allows["visaInfo"] = Phrase(0, 100)
  BY DEF UpdateProfileDto, Dto, Alike, ++

LEMMA ProfileAccepted ==
  ASSUME NEW d, Entered(ProfileInputs, d), NEW request \in ProfileForm(d)
  PROVE  Accepted(UpdateProfileDto, request,
                  {"fullName", "phoneNumber", "address", "nationalId", "passportNumber", "visaInfo"})
  <1>1. request = [fullName |-> Trimmed(d.name), phoneNumber |-> Trimmed(d.phone),
                   gender |-> d.gender, address |-> Trimmed(d.address), dateOfBirth |-> d.dob,
                   nationalId |-> Trimmed(d.nid), passportNumber |-> Trimmed(d.passport),
                   visaInfo |-> Trimmed(d.visa)]
    BY DEF ProfileForm
  <1>2. /\ DOMAIN request = {"fullName", "phoneNumber", "gender", "address", "dateOfBirth",
                            "nationalId", "passportNumber", "visaInfo"}
        /\ request["gender"] = d.gender /\ request["dateOfBirth"] = d.dob
    BY <1>1
  <1>3. /\ Fits(Choice, d.gender)
        /\ d.dob = Null \/ Fits(Choice, d.dob)
    BY ProfileEntered, OptionsFit
  <1> QED
    BY <1>2, <1>3, ProfileDtoIs, AcceptedIf

LEMMA PasswordAccepted ==
  ASSUME NEW d, Entered(PasswordInputs, d), NEW request \in PasswordForm(d)
  PROVE  Accepted(ChangePasswordDto, request, {"newPassword"})
  <1>1. DOMAIN PasswordInputs = {"currentPassword", "newPassword", "alike"}
        /\ PasswordInputs["currentPassword"] = "text"
    BY DEF PasswordInputs, Inputs, ++
  <1>2. d.currentPassword \in Texts
    BY <1>1, EntriesAre DEF Entered
  <1>3. /\ request = [currentPassword |-> d.currentPassword, newPassword |-> d.newPassword]
        /\ d.currentPassword # Empty
    BY DEF PasswordForm, AllFilled
  <1>4. Fits(NotEmpty, d.currentPassword)
    BY <1>2, <1>3, TextsFit
  <1> QED
    BY <1>3, <1>4, AcceptedIf, NoneIs DEF ChangePasswordDto

LEMMA RegisterAccepted ==
  ASSUME NEW d, Entered(RegisterInputs, d), NEW request \in RegisterForm(d)
  PROVE  Accepted(RegisterDto, request, {"email"})
  <1> DEFINE needs == [fullName |-> Phrase(2, Unlimited), email |-> Mail, password |-> Secret]
             allows == [phoneNumber |-> AnyText]
  <1>1. /\ DOMAIN RegisterInputs = {"fullName", "phoneNumber", "password", "email", "alike"}
        /\ \A f \in {"fullName", "phoneNumber", "password"} : RegisterInputs[f] = "text"
    BY DEF RegisterInputs, Inputs, ++
  <1>2. \A f \in {"fullName", "phoneNumber", "password"} : d[f] \in Texts
    BY <1>1, EntriesAre DEF Entered
  <1>3. /\ DOMAIN request = {"fullName", "phoneNumber", "password", "email"}
        /\ \A f \in DOMAIN request : request[f] = d[f]
        /\ Length(d.fullName) >= 2 /\ Length(d.password) >= 8
    BY <1>1 DEF RegisterForm
  <1>4. /\ Fits(Phrase(2, Unlimited), d["fullName"]) /\ Fits(Secret, d["password"])
        /\ Fits(AnyText, d["phoneNumber"])
    BY <1>2, <1>3, TextsFit
  <1>5. /\ DOMAIN needs = {"fullName", "email", "password"} /\ DOMAIN allows = {"phoneNumber"}
        /\ needs["fullName"] = Phrase(2, Unlimited) /\ needs["password"] = Secret
        /\ allows["phoneNumber"] = AnyText /\ RegisterDto = Dto(needs, allows)
    BY DEF RegisterDto
  <1> HIDE DEF needs, allows
  <1> QED
    BY <1>3, <1>4, <1>5, AcceptedIf

LEMMA LoginAccepted ==
  ASSUME NEW d, Entered(LoginInputs, d), NEW request \in LoginForm(d)
  PROVE  Accepted(LoginDto, request, {"email"})
  <1> DEFINE needs == [email |-> Mail, password |-> Secret]
  <1>1. DOMAIN LoginInputs = {"email", "password"} /\ LoginInputs["password"] = "text"
    BY DEF LoginInputs, Inputs, ++
  <1>2. /\ request = d /\ DOMAIN d = {"email", "password"} /\ d["password"] \in Texts
        /\ Length(d["password"]) >= 8
    BY <1>1, EntriesAre DEF Entered, LoginForm
  <1>3. Fits(Secret, d["password"])
    BY <1>2, TextsFit
  <1>4. /\ DOMAIN needs = {"email", "password"} /\ needs["password"] = Secret
        /\ LoginDto = Dto(needs, None)
    BY DEF LoginDto
  <1> HIDE DEF needs
  <1> QED
    BY <1>2, <1>3, <1>4, AcceptedIf, NoneIs

LEMMA ForgotAccepted ==
  ASSUME NEW d, Entered(ForgotInputs, d), NEW request \in ForgotForm(d)
  PROVE  Accepted(ForgotPasswordDto, request, {"email"})
  <1>1. request = d /\ DOMAIN d = {"email"}
    BY DEF Entered, ForgotInputs, Inputs, ForgotForm
  <1> QED
    BY <1>1, AcceptedIf, NoneIs DEF ForgotPasswordDto

LEMMA ResetAccepted ==
  ASSUME NEW d, Entered(ResetInputs, d), NEW request \in ResetForm(d)
  PROVE  Accepted(ResetPasswordDto, request, {})
  <1> DEFINE needs == [token |-> Choice, newPassword |-> Secret]
  <1>1. DOMAIN ResetInputs = {"newPassword", "alike"} /\ ResetInputs["newPassword"] = "text"
    BY DEF ResetInputs, Inputs, ++
  <1>2. d.newPassword \in Texts
    BY <1>1, EntriesAre DEF Entered
  <1>3. /\ request = [token |-> Given("chosen"), newPassword |-> d.newPassword]
        /\ Length(d.newPassword) >= 8
    BY DEF ResetForm
  <1>4. Fits(Secret, d.newPassword) /\ Fits(Choice, Given("chosen"))
    BY <1>2, <1>3, TextsFit, OptionsFit DEF Options
  <1>5. /\ DOMAIN needs = {"token", "newPassword"} /\ needs["token"] = Choice
        /\ needs["newPassword"] = Secret /\ ResetPasswordDto = Dto(needs, None)
    BY DEF ResetPasswordDto
  <1>6. /\ DOMAIN request = {"token", "newPassword"} /\ request["token"] = Given("chosen")
        /\ request["newPassword"] = d.newPassword
    BY <1>3
  <1> HIDE DEF needs
  <1> QED
    BY <1>4, <1>5, <1>6, AcceptedIf, NoneIs

Skipped(name) == IF name \in DOMAIN Unchecked THEN Unchecked[name] ELSE {}

LEMMA FormsAre ==
  /\ DOMAIN InputsOf = {"bus", "route", "trip", "cancelTrip", "cancelBooking", "approve", "reject",
                       "boarding", "dropping", "staff", "operator", "desk", "passenger", "profile",
                       "password", "register", "login", "forgot", "reset"}
  /\ InputsOf["bus"] = BusInputs /\ InputsOf["route"] = RouteInputs
  /\ InputsOf["trip"] = TripInputs /\ InputsOf["cancelTrip"] = ReasonInputs
  /\ InputsOf["cancelBooking"] = ReasonInputs /\ InputsOf["approve"] = NoteInputs
  /\ InputsOf["reject"] = NoteInputs /\ InputsOf["boarding"] = PointInputs
  /\ InputsOf["dropping"] = PointInputs /\ InputsOf["staff"] = StaffInputs
  /\ InputsOf["operator"] = OperatorInputs /\ InputsOf["desk"] = DeskInputs
  /\ InputsOf["passenger"] = PassengerInputs /\ InputsOf["profile"] = ProfileInputs
  /\ InputsOf["password"] = PasswordInputs /\ InputsOf["register"] = RegisterInputs
  /\ InputsOf["login"] = LoginInputs /\ InputsOf["forgot"] = ForgotInputs
  /\ InputsOf["reset"] = ResetInputs
  BY DEF InputsOf

LEMMA SkippedAre ==
  /\ \A name \in {"route", "trip", "boarding", "dropping", "desk", "passenger", "reset"} :
       Skipped(name) = {}
  /\ Skipped("bus") = {"seatCapacity"}
  /\ Skipped("cancelTrip") = {"reason"} /\ Skipped("cancelBooking") = {"reason"}
  /\ Skipped("approve") = {"adminNote"} /\ Skipped("reject") = {"adminNote"}
  /\ Skipped("staff") = {"fullName", "email", "password"}
  /\ Skipped("operator") = {"companyName", "slug", "email", "adminEmail", "adminPassword"}
  /\ Skipped("profile") = {"fullName", "phoneNumber", "address", "nationalId", "passportNumber",
                          "visaInfo"}
  /\ Skipped("password") = {"newPassword"} /\ Skipped("register") = {"email"}
  /\ Skipped("login") = {"email"} /\ Skipped("forgot") = {"email"}
  BY DEF Skipped, Unchecked

\* Every request of every form is accepted, but for the fields the form does not check.
LEMMA FormAccepted ==
  ASSUME NEW name \in DOMAIN InputsOf, NEW new \in BOOLEAN,
         NEW d, Entered(InputsOf[name], d), NEW request \in Submitted(name, new, d)
  PROVE  Accepted(DtoOf(name, new), request, Skipped(name))
  <1>1. CASE name = "bus"
    <2>1. InputsOf[name] = BusInputs /\ Skipped(name) = {"seatCapacity"}
      BY <1>1, FormsAre, SkippedAre
    <2>2. /\ request \in BusForm(new, d)
          /\ DtoOf(name, new) = IF new THEN CreateBusDto ELSE UpdateBusDto
      BY <1>1 DEF Submitted, DtoOf
    <2>3. Entered(BusInputs, d)
      BY <2>1
    <2> QED
      BY <2>1, <2>2, <2>3, BusAccepted
  <1>2. CASE name = "route"
    <2>1. InputsOf[name] = RouteInputs /\ Skipped(name) = {}
      BY <1>2, FormsAre, SkippedAre
    <2>2. /\ request \in RouteForm(new, d)
          /\ DtoOf(name, new) = IF new THEN CreateRouteDto ELSE UpdateRouteDto
      BY <1>2 DEF Submitted, DtoOf
    <2>3. Entered(RouteInputs, d)
      BY <2>1
    <2> QED
      BY <2>1, <2>2, <2>3, RouteAccepted
  <1>3. CASE name = "trip"
    <2>1. InputsOf[name] = TripInputs /\ Skipped(name) = {}
      BY <1>3, FormsAre, SkippedAre
    <2>2. /\ request \in TripForm(new, d)
          /\ DtoOf(name, new) = IF new THEN CreateTripDto ELSE UpdateTripDto
      BY <1>3 DEF Submitted, DtoOf
    <2>3. Entered(TripInputs, d)
      BY <2>1
    <2> QED
      BY <2>1, <2>2, <2>3, TripAccepted
  <1>4. CASE name = "staff"
    <2>1. InputsOf[name] = StaffInputs /\ Skipped(name) = {"fullName", "email", "password"}
      BY <1>4, FormsAre, SkippedAre
    <2>2. /\ request \in StaffForm(new, d)
          /\ DtoOf(name, new) = IF new THEN CreateStaffDto ELSE UpdateStaffDto
      BY <1>4 DEF Submitted, DtoOf
    <2>3. Entered(StaffInputs, d)
      BY <2>1
    <2> QED
      BY <2>1, <2>2, <2>3, StaffAccepted
  <1>5. CASE name = "boarding"
    <2>1. InputsOf[name] = PointInputs /\ Skipped(name) = {}
      BY <1>5, FormsAre, SkippedAre
    <2>2. /\ request \in PointForm(d)
          /\ DtoOf(name, new) = IF new THEN CreateBoardingPointDto ELSE UpdateBoardingPointDto
      BY <1>5 DEF Submitted, DtoOf
    <2>3. Entered(PointInputs, d)
      BY <2>1
    <2> QED
      BY <2>1, <2>2, <2>3, PointAccepted
  <1>6. CASE name = "dropping"
    <2>1. InputsOf[name] = PointInputs /\ Skipped(name) = {}
      BY <1>6, FormsAre, SkippedAre
    <2>2. /\ request \in PointForm(d)
          /\ DtoOf(name, new) = IF new THEN CreateBoardingPointDto ELSE UpdateBoardingPointDto
      BY <1>6 DEF Submitted, DtoOf, CreateDroppingPointDto, UpdateDroppingPointDto
    <2>3. Entered(PointInputs, d)
      BY <2>1
    <2> QED
      BY <2>1, <2>2, <2>3, PointAccepted
  <1>7. CASE name = "cancelTrip"
    <2>1. InputsOf[name] = ReasonInputs /\ Skipped(name) = {"reason"}
      BY <1>7, FormsAre, SkippedAre
    <2>2. /\ request \in CancelForm(d)
          /\ DtoOf(name, new) = CancelTripDto
      BY <1>7 DEF Submitted, DtoOf
    <2>3. Entered(ReasonInputs, d)
      BY <2>1
    <2> QED
      BY <2>1, <2>2, <2>3, ReasonsAccepted
  <1>8. CASE name = "cancelBooking"
    <2>1. InputsOf[name] = ReasonInputs /\ Skipped(name) = {"reason"}
      BY <1>8, FormsAre, SkippedAre
    <2>2. /\ request \in CancelForm(d)
          /\ DtoOf(name, new) = CancelBookingDto
      BY <1>8 DEF Submitted, DtoOf
    <2>3. Entered(ReasonInputs, d)
      BY <2>1
    <2> QED
      BY <2>1, <2>2, <2>3, ReasonsAccepted
  <1>9. CASE name = "approve"
    <2>1. InputsOf[name] = NoteInputs /\ Skipped(name) = {"adminNote"}
      BY <1>9, FormsAre, SkippedAre
    <2>2. /\ request \in ApproveForm(d) \cup RejectForm(d)
          /\ DtoOf(name, new) = ReviewRefundDto
      BY <1>9 DEF Submitted, DtoOf
    <2>3. Entered(NoteInputs, d)
      BY <2>1
    <2> QED
      BY <2>1, <2>2, <2>3, NotesAccepted
  <1>10. CASE name = "reject"
    <2>1. InputsOf[name] = NoteInputs /\ Skipped(name) = {"adminNote"}
      BY <1>10, FormsAre, SkippedAre
    <2>2. /\ request \in ApproveForm(d) \cup RejectForm(d)
          /\ DtoOf(name, new) = ReviewRefundDto
      BY <1>10 DEF Submitted, DtoOf
    <2>3. Entered(NoteInputs, d)
      BY <2>1
    <2> QED
      BY <2>1, <2>2, <2>3, NotesAccepted
  <1>11. CASE name = "operator"
    <2>1. InputsOf[name] = OperatorInputs /\ Skipped(name) = {"companyName", "slug", "email", "adminEmail", "adminPassword"}
      BY <1>11, FormsAre, SkippedAre
    <2>2. /\ request \in OperatorForm(d)
          /\ DtoOf(name, new) = CreateOperatorDto
      BY <1>11 DEF Submitted, DtoOf
    <2>3. Entered(OperatorInputs, d)
      BY <2>1
    <2> QED
      BY <2>1, <2>2, <2>3, OperatorAccepted
  <1>12. CASE name = "desk"
    <2>1. InputsOf[name] = DeskInputs /\ Skipped(name) = {}
      BY <1>12, FormsAre, SkippedAre
    <2>2. /\ request \in DeskForm(d)
          /\ DtoOf(name, new) = CreateAdminBookingDto
      BY <1>12 DEF Submitted, DtoOf
    <2>3. Entered(DeskInputs, d)
      BY <2>1
    <2> QED
      BY <2>1, <2>2, <2>3, DeskAccepted
  <1>13. CASE name = "passenger"
    <2>1. InputsOf[name] = PassengerInputs /\ Skipped(name) = {}
      BY <1>13, FormsAre, SkippedAre
    <2>2. /\ request \in PassengerForm(d)
          /\ DtoOf(name, new) = ConfirmBookingDto
      BY <1>13 DEF Submitted, DtoOf
    <2>3. Entered(PassengerInputs, d)
      BY <2>1
    <2> QED
      BY <2>1, <2>2, <2>3, PassengerAccepted
  <1>14. CASE name = "profile"
    <2>1. InputsOf[name] = ProfileInputs /\ Skipped(name) = {"fullName", "phoneNumber", "address", "nationalId",
                                   "passportNumber", "visaInfo"}
      BY <1>14, FormsAre, SkippedAre
    <2>2. /\ request \in ProfileForm(d)
          /\ DtoOf(name, new) = UpdateProfileDto
      BY <1>14 DEF Submitted, DtoOf
    <2>3. Entered(ProfileInputs, d)
      BY <2>1
    <2> QED
      BY <2>1, <2>2, <2>3, ProfileAccepted
  <1>15. CASE name = "password"
    <2>1. InputsOf[name] = PasswordInputs /\ Skipped(name) = {"newPassword"}
      BY <1>15, FormsAre, SkippedAre
    <2>2. /\ request \in PasswordForm(d)
          /\ DtoOf(name, new) = ChangePasswordDto
      BY <1>15 DEF Submitted, DtoOf
    <2>3. Entered(PasswordInputs, d)
      BY <2>1
    <2> QED
      BY <2>1, <2>2, <2>3, PasswordAccepted
  <1>16. CASE name = "register"
    <2>1. InputsOf[name] = RegisterInputs /\ Skipped(name) = {"email"}
      BY <1>16, FormsAre, SkippedAre
    <2>2. /\ request \in RegisterForm(d)
          /\ DtoOf(name, new) = RegisterDto
      BY <1>16 DEF Submitted, DtoOf
    <2>3. Entered(RegisterInputs, d)
      BY <2>1
    <2> QED
      BY <2>1, <2>2, <2>3, RegisterAccepted
  <1>17. CASE name = "login"
    <2>1. InputsOf[name] = LoginInputs /\ Skipped(name) = {"email"}
      BY <1>17, FormsAre, SkippedAre
    <2>2. /\ request \in LoginForm(d)
          /\ DtoOf(name, new) = LoginDto
      BY <1>17 DEF Submitted, DtoOf
    <2>3. Entered(LoginInputs, d)
      BY <2>1
    <2> QED
      BY <2>1, <2>2, <2>3, LoginAccepted
  <1>18. CASE name = "forgot"
    <2>1. InputsOf[name] = ForgotInputs /\ Skipped(name) = {"email"}
      BY <1>18, FormsAre, SkippedAre
    <2>2. /\ request \in ForgotForm(d)
          /\ DtoOf(name, new) = ForgotPasswordDto
      BY <1>18 DEF Submitted, DtoOf
    <2>3. Entered(ForgotInputs, d)
      BY <2>1
    <2> QED
      BY <2>1, <2>2, <2>3, ForgotAccepted
  <1>19. CASE name = "reset"
    <2>1. InputsOf[name] = ResetInputs /\ Skipped(name) = {}
      BY <1>19, FormsAre, SkippedAre
    <2>2. /\ request \in ResetForm(d)
          /\ DtoOf(name, new) = ResetPasswordDto
      BY <1>19 DEF Submitted, DtoOf
    <2>3. Entered(ResetInputs, d)
      BY <2>1
    <2> QED
      BY <2>1, <2>2, <2>3, ResetAccepted
  <1> QED
    BY <1>1, <1>2, <1>3, <1>4, <1>5, <1>6, <1>7, <1>8, <1>9, <1>10, <1>11, <1>12, <1>13, <1>14, <1>15, <1>16, <1>17, <1>18, <1>19, FormsAre

\* What an edit form opens with can be entered: what is stored of a row, and fallbacks.
LEMMA RowIs ==
  ASSUME NEW name \in Editable, NEW row \in Rows[name]
  PROVE  DOMAIN row = Columns(name) /\ \A f \in DOMAIN row : row[f] \in StoredIn(name, f)
  BY FormsAssumption

LEMMA BusRow ==
  ASSUME NEW row \in Rows["bus"]
  PROVE  /\ DOMAIN row = {"name", "registrationNumber", "busType", "busClass", "status", "seatCapacity"}
         /\ row["name"] \in Texts /\ row["registrationNumber"] \in Texts
         /\ row["busType"] \in Options /\ row["busClass"] \in Options /\ row["status"] \in Options
         /\ row["seatCapacity"] \in Entries.number /\ Fits(Whole, row["seatCapacity"])
         /\ Unsavable("bus", row) <=> row["name"].chars = 0 \/ row["registrationNumber"].chars = 0
  <1>1. "bus" \in Editable
    BY DEF Editable
  <1>2. Columns("bus") = DOMAIN BusInputs \ {"operatorId"}
    BY FormsAre DEF Columns
  <1>3. DOMAIN BusInputs = {"name", "registrationNumber", "operatorId", "busType", "busClass",
                           "status", "seatCapacity"}
    BY DEF BusInputs, Inputs, ++
  <1>4. DOMAIN row = {"name", "registrationNumber", "busType", "busClass", "status", "seatCapacity"}
    BY <1>1, <1>2, <1>3, RowIs
  <1>5. \A f \in DOMAIN row : row[f] \in StoredIn("bus", f)
    BY <1>1, RowIs
  <1>6. /\ StoredIn("bus", "name") = Texts /\ StoredIn("bus", "registrationNumber") = Texts
        /\ StoredIn("bus", "seatCapacity") = {v \in Entries.number : Fits(Whole, v)}
        /\ \A f \in {"busType", "busClass", "status"} : StoredIn("bus", f) = Options
    BY DEF StoredIn, TripFields, Alike
  <1>7. /\ row["name"].is = "words" /\ row["registrationNumber"].is = "words"
        /\ \A f \in {"busType", "busClass", "status", "seatCapacity"} : row[f].is # "words"
    BY <1>4, <1>5, <1>6 DEF Texts, Options, Given, Entries
  <1>8. Unsavable("bus", row) <=> row["name"].chars = 0 \/ row["registrationNumber"].chars = 0
    BY <1>4, <1>7 DEF Unsavable
  <1> QED
    BY <1>4, <1>5, <1>6, <1>8

LEMMA RouteRow ==
  ASSUME NEW row \in Rows["route"]
  PROVE  /\ DOMAIN row = {"origin", "destination"}
         /\ row["origin"] \in Texts /\ row["destination"] \in Texts
         /\ Unsavable("route", row) <=> row["origin"].chars = 0 \/ row["destination"].chars = 0
  <1>1. "route" \in Editable
    BY DEF Editable
  <1>2. Columns("route") = DOMAIN RouteInputs \ {"operatorId"}
    BY FormsAre DEF Columns
  <1>3. DOMAIN RouteInputs = {"origin", "destination", "operatorId"}
    BY DEF RouteInputs, Inputs, ++
  <1>4. DOMAIN row = {"origin", "destination"}
    BY <1>1, <1>2, <1>3, RowIs
  <1>5. StoredIn("route", "origin") = Texts /\ StoredIn("route", "destination") = Texts
    BY DEF StoredIn, TripFields, Alike
  <1>6. row["origin"] \in Texts /\ row["destination"] \in Texts
    BY <1>1, <1>4, <1>5, RowIs
  <1>7. Unsavable("route", row) <=> row["origin"].chars = 0 \/ row["destination"].chars = 0
    BY <1>4, <1>6 DEF Unsavable, Texts
  <1> QED
    BY <1>4, <1>6, <1>7

LEMMA TripRow ==
  ASSUME NEW row \in Rows["trip"]
  PROVE  /\ DOMAIN row = {"busId", "routeId", "departureTime", "arrivalTime", "price"}
         /\ \A f \in {"busId", "routeId", "departureTime", "arrivalTime"} : row[f] \in Options
         /\ row["price"] \in Entries.number /\ Fits(Money, row["price"])
         /\ ~Unsavable("trip", row)
  <1>1. "trip" \in Editable
    BY DEF Editable
  <1>2. Columns("trip") = DOMAIN TripInputs \ {"operatorId"}
    BY FormsAre DEF Columns
  <1>3. DOMAIN TripInputs = {"busId", "routeId", "departureTime", "arrivalTime", "price",
                            "operatorId"}
    BY DEF TripInputs, TripFields, Alike, Inputs, ++
  <1>4. DOMAIN row = {"busId", "routeId", "departureTime", "arrivalTime", "price"}
    BY <1>1, <1>2, <1>3, RowIs
  <1>5. /\ \A f \in {"busId", "routeId", "departureTime", "arrivalTime"} :
              StoredIn("trip", f) = Options
        /\ StoredIn("trip", "price") = {v \in Entries.number : Fits(Money, v)}
    BY DEF StoredIn, TripFields, Alike
  <1>6. \A f \in DOMAIN row : row[f] \in StoredIn("trip", f)
    BY <1>1, RowIs
  <1>7. \A f \in DOMAIN row : row[f].is # "words"
    BY <1>4, <1>5, <1>6 DEF Options, Given, Entries
  <1>8. ~Unsavable("trip", row)
    BY <1>7 DEF Unsavable
  <1> QED
    BY <1>4, <1>5, <1>6, <1>8

LEMMA PointRow ==
  ASSUME NEW name \in {"boarding", "dropping"}, NEW row \in Rows[name]
  PROVE  /\ DOMAIN row = {"name", "address", "isActive"}
         /\ row["name"] \in Texts /\ row["address"] \in Texts /\ row["isActive"] \in Options
         /\ Unsavable(name, row) <=> row["name"].chars = 0 \/ row["address"].chars = 0
  <1>1. name \in Editable
    BY DEF Editable
  <1>2. Columns(name) = DOMAIN PointInputs \ {"operatorId"}
    BY FormsAre DEF Columns
  <1>3. DOMAIN PointInputs = {"name", "address", "isActive"}
    BY DEF PointInputs, Inputs, ++
  <1>4. DOMAIN row = {"name", "address", "isActive"}
    BY <1>1, <1>2, <1>3, RowIs
  <1>5. /\ StoredIn(name, "name") = Texts \ {Empty} /\ StoredIn(name, "address") = Texts \ {Empty}
        /\ StoredIn(name, "isActive") = Options
    BY DEF StoredIn, TripFields, Alike
  <1>6. \A f \in DOMAIN row : row[f] \in StoredIn(name, f)
    BY <1>1, RowIs
  <1>7. row["name"].is = "words" /\ row["address"].is = "words" /\ row["isActive"].is # "words"
    BY <1>4, <1>5, <1>6 DEF Texts, Options, Given
  <1>8. Unsavable(name, row) <=> row["name"].chars = 0 \/ row["address"].chars = 0
    BY <1>4, <1>7 DEF Unsavable
  <1> QED
    BY <1>4, <1>5, <1>6, <1>8

LEMMA StaffRow ==
  ASSUME NEW row \in Rows["staff"]
  PROVE  /\ DOMAIN row = {"fullName", "phoneNumber", "password", "email"}
         /\ row["fullName"] \in Texts /\ row["phoneNumber"] \in Texts \cup {Null}
         /\ row["password"] \in Texts /\ row["email"] \in Texts /\ Fits(Mail, row["email"])
         /\ Unsavable("staff", row) <=> row["fullName"].chars = 0
  <1>1. "staff" \in Editable
    BY DEF Editable
  <1>2. Columns("staff") = DOMAIN StaffInputs \ {"operatorId"}
    BY FormsAre DEF Columns
  <1>3. DOMAIN StaffInputs = {"fullName", "phoneNumber", "password", "email"}
    BY DEF StaffInputs, Inputs, ++
  <1>4. DOMAIN row = {"fullName", "phoneNumber", "password", "email"}
    BY <1>1, <1>2, <1>3, RowIs
  <1>5. /\ StoredIn("staff", "fullName") = Texts \ {Empty}
        /\ StoredIn("staff", "phoneNumber") = Texts \cup {Null}
        /\ StoredIn("staff", "password") = Texts
        /\ StoredIn("staff", "email") = {t \in Texts : Fits(Mail, t)}
    BY DEF StoredIn, TripFields, Alike
  <1>6. \A f \in DOMAIN row : row[f] \in StoredIn("staff", f)
    BY <1>1, RowIs
  <1>7. row["fullName"].is = "words" /\ row["email"].chars > 0
    BY <1>4, <1>5, <1>6 DEF Texts, Fits, Mail
  <1>8. Unsavable("staff", row) <=> row["fullName"].chars = 0
    BY <1>4, <1>7 DEF Unsavable
  <1> QED
    BY <1>4, <1>5, <1>6, <1>8

LEMMA ProfileRow ==
  ASSUME NEW row \in Rows["profile"]
  PROVE  /\ DOMAIN row = {"fullName", "phoneNumber", "gender", "dateOfBirth", "address",
                          "nationalId", "passportNumber", "visaInfo"}
         /\ row["fullName"] \in Texts \ {Empty} /\ row["phoneNumber"] \in Texts \cup {Null}
         /\ row["gender"] \in Options \cup {Null} /\ row["dateOfBirth"] \in Options \cup {Null}
         /\ \A f \in {"address", "nationalId", "passportNumber", "visaInfo"} :
              row[f] \in {t \in Texts : Fits(UpdateProfileDto.allows[f], t)} \cup {Null}
  <1>1. "profile" \in Editable
    BY DEF Editable
  <1>2. Columns("profile") = {"fullName", "phoneNumber", "gender", "dateOfBirth", "address",
                              "nationalId", "passportNumber", "visaInfo"}
    BY ProfileDtoIs DEF Columns
  <1>3. /\ StoredIn("profile", "fullName") = Texts \ {Empty}
        /\ StoredIn("profile", "phoneNumber") = Texts \cup {Null}
        /\ StoredIn("profile", "gender") = Options \cup {Null}
        /\ StoredIn("profile", "dateOfBirth") = Options \cup {Null}
    BY DEF StoredIn, TripFields, Alike
  <1>4. ASSUME NEW f \in {"address", "nationalId", "passportNumber", "visaInfo"}
        PROVE  StoredIn("profile", f)
                 = {t \in Texts : Fits(UpdateProfileDto.allows[f], t)} \cup {Null}
    <2>1. DOMAIN TripFields = {"busId", "routeId", "departureTime", "arrivalTime"}
      BY AlikeIs DEF TripFields
    <2> QED
      BY <2>1 DEF StoredIn
  <1>5. \A f \in DOMAIN row : row[f] \in StoredIn("profile", f)
    BY <1>1, RowIs
  <1>6. DOMAIN row = Columns("profile")
    BY <1>1, RowIs
  <1> QED
    BY <1>2, <1>3, <1>4, <1>5, <1>6

LEMMA OrText ==
  ASSUME NEW v \in Texts \cup {Null}, NEW t \in Texts
  PROVE  Or(v, t) \in Texts /\ (v \notin {Null, Empty} => Or(v, t) = v)
         /\ (v \in {Null, Empty} => Or(v, t) = t)
  BY DEF Or

\* What an edit form opens with can be entered.
LEMMA OpenedEntered ==
  ASSUME NEW name \in Editable, NEW row \in Rows[name]
  PROVE  Entered(InputsOf[name], Opened(name, row))
  <1>1. CASE name = "bus"
    <2>1. Opened(name, row) = row ++ [operatorId |-> Null] /\ InputsOf[name] = BusInputs
      BY <1>1, FormsAre DEF Opened, BusOpened
    <2>2. /\ DOMAIN BusInputs = {"name", "registrationNumber", "operatorId", "busType", "busClass",
                                "status", "seatCapacity"}
          /\ BusInputs["name"] = "text" /\ BusInputs["registrationNumber"] = "text"
          /\ BusInputs["busType"] = "option" /\ BusInputs["busClass"] = "option"
          /\ BusInputs["status"] = "option"
          /\ BusInputs["operatorId"] = "company" /\ BusInputs["seatCapacity"] = "number"
      BY DEF BusInputs, Inputs, ++
    <2> DEFINE d == row ++ [operatorId |-> Null]
    <2>3. /\ DOMAIN d = DOMAIN row \cup {"operatorId"} /\ \A f \in DOMAIN row : d[f] = row[f]
          /\ "operatorId" \notin DOMAIN row => d["operatorId"] = Null
      BY DEF ++
    <2> HIDE DEF d
    <2>4. Entered(BusInputs, d)
      BY <1>1, <2>2, <2>3, BusRow, EntriesAre DEF Entered
    <2> QED
      BY <2>1, <2>4 DEF d
  <1>2. CASE name = "route"
    <2>1. Opened(name, row) = row ++ [operatorId |-> Null] /\ InputsOf[name] = RouteInputs
      BY <1>2, FormsAre DEF Opened, RouteOpened
    <2>2. /\ DOMAIN RouteInputs = {"origin", "destination", "operatorId"}
          /\ RouteInputs["origin"] = "text" /\ RouteInputs["destination"] = "text"
          /\ RouteInputs["operatorId"] = "company"
      BY DEF RouteInputs, Inputs, ++
    <2> DEFINE d == row ++ [operatorId |-> Null]
    <2>3. /\ DOMAIN d = DOMAIN row \cup {"operatorId"} /\ \A f \in DOMAIN row : d[f] = row[f]
          /\ "operatorId" \notin DOMAIN row => d["operatorId"] = Null
      BY DEF ++
    <2> HIDE DEF d
    <2>4. Entered(RouteInputs, d)
      BY <1>2, <2>2, <2>3, RouteRow, EntriesAre DEF Entered
    <2> QED
      BY <2>1, <2>4 DEF d
  <1>3. CASE name = "trip"
    <2>1. Opened(name, row) = row ++ [operatorId |-> Null] /\ InputsOf[name] = TripInputs
      BY <1>3, FormsAre DEF Opened, TripOpened
    <2>2. /\ DOMAIN TripInputs = {"busId", "routeId", "departureTime", "arrivalTime", "price",
                                 "operatorId"}
          /\ \A f \in {"busId", "routeId", "departureTime", "arrivalTime"} :
                TripInputs[f] = "select"
          /\ TripInputs["price"] = "number" /\ TripInputs["operatorId"] = "company"
      BY DEF TripInputs, TripFields, Alike, Inputs, ++
    <2> DEFINE d == row ++ [operatorId |-> Null]
    <2>3. /\ DOMAIN d = DOMAIN row \cup {"operatorId"} /\ \A f \in DOMAIN row : d[f] = row[f]
          /\ "operatorId" \notin DOMAIN row => d["operatorId"] = Null
      BY DEF ++
    <2> HIDE DEF d
    <2>4. Entered(TripInputs, d)
      BY <1>3, <2>2, <2>3, TripRow, EntriesAre DEF Entered
    <2> QED
      BY <2>1, <2>4 DEF d
  <1>4. CASE name \in {"boarding", "dropping"}
    <2>1. Opened(name, row) = row /\ InputsOf[name] = PointInputs
      BY <1>4, FormsAre DEF Opened, PointOpened
    <2>2. /\ DOMAIN PointInputs = {"name", "address", "isActive"}
          /\ PointInputs["name"] = "text" /\ PointInputs["address"] = "text"
          /\ PointInputs["isActive"] = "option"
      BY DEF PointInputs, Inputs, ++
    <2>3. Entered(PointInputs, row)
      BY <1>4, <2>2, PointRow, EntriesAre DEF Entered
    <2> QED
      BY <2>1, <2>3
  <1>5. CASE name = "staff"
    <2>1. Opened(name, row) = StaffOpened(row) /\ InputsOf[name] = StaffInputs
      BY <1>5, FormsAre DEF Opened
    <2>2. /\ DOMAIN StaffInputs = {"fullName", "phoneNumber", "password", "email"}
          /\ \A f \in {"fullName", "phoneNumber", "password"} : StaffInputs[f] = "text"
          /\ StaffInputs["email"] = "email"
      BY DEF StaffInputs, Inputs, ++
    <2>3. /\ DOMAIN row = {"fullName", "phoneNumber", "password", "email"}
          /\ row["fullName"] \in Texts /\ row["phoneNumber"] \in Texts \cup {Null}
          /\ row["email"] \in Texts /\ row["email"].blanks = 0
      BY <1>5, StaffRow DEF Fits, Mail
    <2>4. /\ DOMAIN StaffOpened(row) = DOMAIN row
          /\ StaffOpened(row)["fullName"] = row["fullName"]
          /\ StaffOpened(row)["email"] = row["email"]
          /\ StaffOpened(row)["password"] = Empty
          /\ StaffOpened(row)["phoneNumber"] = Or(row["phoneNumber"], Empty)
      BY <2>3 DEF StaffOpened
    <2>5. Entered(StaffInputs, StaffOpened(row))
      BY <2>2, <2>3, <2>4, OrText, EmptyIsText, EntriesAre DEF Entered
    <2> QED
      BY <2>1, <2>5
  <1>6. CASE name = "profile"
    <2>1. Opened(name, row) = ProfileOpened(row) /\ InputsOf[name] = ProfileInputs
      BY <1>6, FormsAre DEF Opened
    <2>2. /\ DOMAIN ProfileInputs = {"name", "phone", "address", "nid", "passport", "visa", "dob",
                                    "gender"}
          /\ \A f \in {"name", "phone", "address", "nid", "passport", "visa"} :
                ProfileInputs[f] = "text"
          /\ ProfileInputs["dob"] = "select" /\ ProfileInputs["gender"] = "option"
      BY DEF ProfileInputs, Inputs, ++
    <2> DEFINE d == ProfileOpened(row)
    <2>3. /\ DOMAIN d = DOMAIN ProfileInputs
          /\ d["name"] = Or(row.fullName, Words(15, 0, 0))
          /\ d["phone"] = Or(row.phoneNumber, Words(11, 0, 0))
          /\ d["gender"] = Or(row.gender, Given("yes")) /\ d["dob"] = row.dateOfBirth
          /\ d["address"] = Or(row.address, Empty) /\ d["nid"] = Or(row.nationalId, Empty)
          /\ d["passport"] = Or(row.passportNumber, Empty) /\ d["visa"] = Or(row.visaInfo, Empty)
      BY <2>2 DEF ProfileOpened
    <2>4. Words(15, 0, 0) \in Texts /\ Words(11, 0, 0) \in Texts
      BY DEF Words, Texts, Length, Unlimited
    <2>5. /\ row.fullName \in Texts \cup {Null} /\ row.phoneNumber \in Texts \cup {Null}
          /\ row.address \in Texts \cup {Null} /\ row.nationalId \in Texts \cup {Null}
          /\ row.passportNumber \in Texts \cup {Null} /\ row.visaInfo \in Texts \cup {Null}
          /\ row.gender \in Options \cup {Null} /\ row.dateOfBirth \in Options \cup {Null}
      BY <1>6, ProfileRow
    <2>6. Or(row.gender, Given("yes")) \in Options
      BY <2>5 DEF Or, Options
    <2> HIDE DEF d
    <2>7. \A f \in {"name", "phone", "address", "nid", "passport", "visa"} : d[f] \in Texts
      BY <2>3, <2>4, <2>5, OrText, EmptyIsText
    <2>8. Entered(ProfileInputs, d)
      BY <2>2, <2>3, <2>5, <2>6, <2>7, EntriesAre DEF Entered
    <2> QED
      BY <2>1, <2>8 DEF d
  <1> QED
    BY <1>1, <1>2, <1>3, <1>4, <1>5, <1>6 DEF Editable

LEMMA KindsAre ==
  ASSUME NEW name \in DOMAIN InputsOf, NEW f \in DOMAIN InputsOf[name]
  PROVE  InputsOf[name][f] \in DOMAIN Entries
  <1>1. DOMAIN Entries = {"text", "email", "number", "option", "select", "company"}
    BY DEF Entries
  <1>2. /\ \A x \in DOMAIN BusInputs : BusInputs[x] \in DOMAIN Entries
        /\ \A x \in DOMAIN RouteInputs : RouteInputs[x] \in DOMAIN Entries
        /\ \A x \in DOMAIN TripInputs : TripInputs[x] \in DOMAIN Entries
        /\ \A x \in DOMAIN ReasonInputs : ReasonInputs[x] \in DOMAIN Entries
        /\ \A x \in DOMAIN NoteInputs : NoteInputs[x] \in DOMAIN Entries
    BY <1>1 DEF BusInputs, RouteInputs, TripInputs, TripFields, Alike, ReasonInputs, NoteInputs,
                Inputs, ++
  <1>3. /\ \A x \in DOMAIN PointInputs : PointInputs[x] \in DOMAIN Entries
        /\ \A x \in DOMAIN StaffInputs : StaffInputs[x] \in DOMAIN Entries
        /\ \A x \in DOMAIN OperatorInputs : OperatorInputs[x] \in DOMAIN Entries
        /\ \A x \in DOMAIN DeskInputs : DeskInputs[x] \in DOMAIN Entries
        /\ \A x \in DOMAIN PassengerInputs : PassengerInputs[x] \in DOMAIN Entries
    BY <1>1 DEF PointInputs, StaffInputs, OperatorInputs, DeskInputs, PassengerInputs, Inputs, ++
  <1>4. /\ \A x \in DOMAIN ProfileInputs : ProfileInputs[x] \in DOMAIN Entries
        /\ \A x \in DOMAIN PasswordInputs : PasswordInputs[x] \in DOMAIN Entries
        /\ \A x \in DOMAIN RegisterInputs : RegisterInputs[x] \in DOMAIN Entries
        /\ \A x \in DOMAIN LoginInputs : LoginInputs[x] \in DOMAIN Entries
        /\ \A x \in DOMAIN ForgotInputs : ForgotInputs[x] \in DOMAIN Entries
        /\ \A x \in DOMAIN ResetInputs : ResetInputs[x] \in DOMAIN Entries
    BY <1>1 DEF ProfileInputs, PasswordInputs, RegisterInputs, LoginInputs, ForgotInputs,
                ResetInputs, Inputs, ++
  <1> QED
    BY <1>2, <1>3, <1>4, FormsAre

\* An open form holds what can be entered, and before any change what there is of a row.
PageInv ==
  page # NoPage =>
    /\ {"of", "new", "changes", "draft"} \subseteq DOMAIN page
    /\ page.of \in DOMAIN InputsOf /\ page.new \in BOOLEAN /\ page.changes \in Nat
    /\ Entered(InputsOf[page.of], page.draft)
    /\ ~page.new => /\ "row" \in DOMAIN page
                    /\ page.of \in Editable /\ page.row \in Rows[page.of]
                    /\ page.changes = 0 => page.draft = Opened(page.of, page.row)

LEMMA PageInit == Init => PageInv
  BY DEF Init, PageInv

LEMMA PageOpens == OpenForm => PageInv'
  <1> SUFFICES ASSUME OpenForm PROVE PageInv'
    OBVIOUS
  <1>1. CASE \E name \in DOMAIN InputsOf : \E draft \in Filled[name] :
               page' = [of |-> name, new |-> TRUE, changes |-> 0, draft |-> draft]
    <2>1. PICK name \in DOMAIN InputsOf : \E draft \in Filled[name] :
                 page' = [of |-> name, new |-> TRUE, changes |-> 0, draft |-> draft]
      BY <1>1
    <2>2. PICK draft \in Filled[name] :
                 page' = [of |-> name, new |-> TRUE, changes |-> 0, draft |-> draft]
      BY <2>1
    <2>3. Entered(InputsOf[name], draft)
      BY FormsAssumption
    <2> QED
      BY <2>2, <2>3 DEF PageInv
  <1>2. CASE \E name \in Editable : \E row \in Rows[name] :
               page' = [of |-> name, new |-> FALSE, changes |-> 0, row |-> row,
                        draft |-> Opened(name, row)]
    <2>1. PICK name \in Editable : \E row \in Rows[name] :
                 page' = [of |-> name, new |-> FALSE, changes |-> 0, row |-> row,
                          draft |-> Opened(name, row)]
      BY <1>2
    <2>2. PICK row \in Rows[name] :
                 page' = [of |-> name, new |-> FALSE, changes |-> 0, row |-> row,
                          draft |-> Opened(name, row)]
      BY <2>1
    <2>3. Entered(InputsOf[name], Opened(name, row))
      BY OpenedEntered
    <2>4. name \in DOMAIN InputsOf
      BY FormsAre DEF Editable
    <2> QED
      BY <2>2, <2>3, <2>4 DEF PageInv
  <1> QED
    BY <1>1, <1>2 DEF OpenForm

LEMMA PageChanges == PageInv /\ FillIn => PageInv'
  <1> SUFFICES ASSUME PageInv, FillIn PROVE PageInv'
    OBVIOUS
  <1>1. PICK f \in DOMAIN page.draft : \E v \in Inputtable[InputsOf[page.of][f]] :
               page' = [page EXCEPT !.changes = page.changes + 1, !.draft[f] = v]
    BY DEF FillIn
  <1>2. PICK v \in Inputtable[InputsOf[page.of][f]] :
               page' = [page EXCEPT !.changes = page.changes + 1, !.draft[f] = v]
    BY <1>1
  <1>3. /\ {"of", "new", "changes", "draft"} \subseteq DOMAIN page
        /\ page.of \in DOMAIN InputsOf /\ page.new \in BOOLEAN /\ page.changes \in Nat
        /\ Entered(InputsOf[page.of], page.draft)
        /\ ~page.new => /\ "row" \in DOMAIN page
                        /\ page.of \in Editable /\ page.row \in Rows[page.of]
    BY DEF FillIn, PageInv
  <1>4. Entered(InputsOf[page.of], [page.draft EXCEPT ![f] = v])
    <2>1. InputsOf[page.of][f] \in DOMAIN Entries
      BY <1>3, KindsAre DEF Entered
    <2>2. v \in Entries[InputsOf[page.of][f]]
      BY <1>2, <2>1, FormsAssumption
    <2> QED
      BY <1>3, <2>2, ExceptEntered
  <1>5. /\ DOMAIN page' = DOMAIN page /\ page'.of = page.of /\ page'.new = page.new
        /\ page'.changes = page.changes + 1
        /\ page'.draft = [page.draft EXCEPT ![f] = v]
        /\ "row" \in DOMAIN page => page'.row = page.row
    BY <1>2, <1>3
  <1>6. page'.changes \in Nat /\ page'.changes # 0
    BY <1>3, <1>5
  <1> QED
    BY <1>3, <1>4, <1>5, <1>6 DEF PageInv

LEMMA PageHolds == Spec => []PageInv
  <1>1. Init => PageInv
    BY PageInit
  <1>2. PageInv /\ [Next]_vars => PageInv'
    <2> SUFFICES ASSUME PageInv, [Next]_vars PROVE PageInv'
      OBVIOUS
    <2>1. page' = page \/ OpenForm \/ FillIn
      BY DEF Next, vars, Choose, Reprice, LockSeats, Buy, Wait, Receive, Outfit, Visit, Seed,
             OpenDrawer, EditDrawer, SaveDrawer, Parked, Plain, Others
    <2>2. CASE page' = page
      BY <2>2 DEF PageInv
    <2> QED
      BY <2>1, <2>2, PageOpens, PageChanges
  <1> QED
    BY <1>1, <1>2, PTL DEF Spec

\* Whatever is filled in, a request is refused for no field the form could have checked,
\* lacks none and has none too many (the forms of the client, the DTOs of the server).
THEOREM FormsAreAlwaysAccepted == Spec => []FormsAreAccepted
  <1>1. ASSUME PageInv PROVE FormsAreAccepted
    <2> SUFFICES ASSUME page # NoPage, NEW request \in Submitted(page.of, page.new, page.draft)
                 PROVE  /\ DOMAIN DtoOf(page.of, page.new).needs \subseteq DOMAIN request
                        /\ Faults(DtoOf(page.of, page.new), request)
                             \cap (DOMAIN request \ Skipped(page.of)) = {}
      BY DEF FormsAreAccepted, Skipped
    <2>1. /\ page.of \in DOMAIN InputsOf /\ page.new \in BOOLEAN
          /\ Entered(InputsOf[page.of], page.draft)
      BY <1>1 DEF PageInv
    <2>2. Accepted(DtoOf(page.of, page.new), request, Skipped(page.of))
      BY <2>1, FormAccepted, Zenon
    <2> QED
      BY <2>2 DEF Accepted
  <1> QED
    BY <1>1, PageHolds, PTL

-----------------------------------------------------------------------------
(* Forms opened and saved without a change.                                *)

LEMMA SameUnchanged ==
  /\ \A v : Unchanged(v, v)
  /\ \A v \in Texts : Unchanged(v, Trimmed(v))
  /\ \A v \in Texts \cup {Null} : Unchanged(v, Trimmed(Or(v, Empty)))
  <1>1. \A t \in Texts : Trimmed(Or(Trimmed(t), Empty)) = Trimmed(t)
    <2> SUFFICES ASSUME NEW t \in Texts PROVE Trimmed(Or(Trimmed(t), Empty)) = Trimmed(t)
      OBVIOUS
    <2>1. Trimmed(t) \in Texts /\ Trimmed(Trimmed(t)) = Trimmed(t)
      BY TrimmedTexts
    <2>2. Or(Trimmed(t), Empty) = Trimmed(t)
      BY <2>1, EmptyIsText DEF Or
    <2> QED
      BY <2>1, <2>2
  <1>2. \A t \in Texts : Or(t, Empty) = t
    BY EmptyIsText DEF Or
  <1>3. \A v : Unchanged(v, v)
    BY DEF Unchanged
  <1>4. \A v \in Texts : Unchanged(v, Trimmed(v))
    BY <1>1, <1>2 DEF Unchanged
  <1>5. \A v \in Texts \cup {Null} : Unchanged(v, Trimmed(Or(v, Empty)))
    <2>1. Or(Null, Empty) = Empty /\ Or(Empty, Empty) = Empty
      BY DEF Or
    <2> QED
      BY <1>2, <1>4, <2>1, EmptyIsText DEF Unchanged
  <1> QED
    BY <1>3, <1>4, <1>5

LEMMA Faultless ==
  ASSUME NEW dto, NEW request, NEW skip, Accepted(dto, request, skip),
         \A f \in skip : f \notin Faults(dto, request)
  PROVE  Faults(dto, request) = {}
  BY DEF Accepted, Faults

\* A row is saved as it is, if it can be.
Harmless(name, row) ==
  LET accepted == {request \in Submitted(name, FALSE, Opened(name, row)) :
                     Faults(DtoOf(name, FALSE), request) = {}}
  IN /\ accepted = {} <=> Unsavable(name, row)
     /\ \A request \in accepted, f \in DOMAIN row :
          Unchanged(row[f], Saved(name, row, request)[f])

LEMMA HarmlessIf ==
  ASSUME NEW name \in Editable \ {"staff"}, NEW row, NEW request,
         Submitted(name, FALSE, Opened(name, row)) = {request},
         Faults(DtoOf(name, FALSE), request) = {}, ~Unsavable(name, row),
         \A f \in DOMAIN row \cap DOMAIN request : Unchanged(row[f], request[f])
  PROVE  Harmless(name, row)
  <1>1. \A f \in DOMAIN row : Unchanged(row[f], Saved(name, row, request)[f])
    BY SameUnchanged DEF Saved, Updating
  <1> QED
    BY <1>1 DEF Harmless

LEMMA BusHarmless ==
  ASSUME NEW row \in Rows["bus"], ~Unsavable("bus", row)
  PROVE  Harmless("bus", row)
  <1> DEFINE d == row ++ [operatorId |-> Null]
             base == [name |-> Trimmed(d.name), registrationNumber |-> Trimmed(d.registrationNumber),
                      seatCapacity |-> d.seatCapacity, busType |-> d.busType,
                      busClass |-> d.busClass]
             request == base ++ [status |-> d.status]
  <1>1. \A f \in DOMAIN row : d[f] = row[f]
    BY DEF ++
  <1>2. /\ Opened("bus", row) = d /\ Entered(BusInputs, d) /\ "bus" \in Editable
        /\ DtoOf("bus", FALSE) = UpdateBusDto
    BY OpenedEntered, FormsAre DEF Opened, BusOpened, Editable, DtoOf
  <1>3. /\ row["name"].chars > 0 /\ row["registrationNumber"].chars > 0
        /\ row["seatCapacity"].n > 0
    <2>1. row["seatCapacity"].n \in Int /\ row["seatCapacity"].n >= 1000
      BY BusRow, NumbersAre DEF Fits, Whole
    <2> QED
      BY <2>1, BusRow DEF Texts
  <1>4. Submitted("bus", FALSE, Opened("bus", row)) = {request}
    <2>1. d.name.chars > 0 /\ d.registrationNumber.chars > 0 /\ d.seatCapacity.n > 0
      BY <1>1, <1>3, BusRow
    <2> HIDE DEF d
    <2>2. BusForm(FALSE, d) = {request}
      BY <2>1 DEF BusForm, AllSaid
    <2> QED
      BY <1>2, <2>2 DEF Submitted
  <1>5. /\ DOMAIN request = {"name", "registrationNumber", "seatCapacity", "busType", "busClass",
                            "status"}
        /\ request["name"] = Trimmed(row["name"])
        /\ request["registrationNumber"] = Trimmed(row["registrationNumber"])
        /\ \A f \in {"seatCapacity", "busType", "busClass", "status"} : request[f] = row[f]
    BY <1>1, BusRow DEF ++
  <1> HIDE DEF d, base, request
  <1>6. Faults(UpdateBusDto, request) = {}
    <2>1. Accepted(UpdateBusDto, request, {"seatCapacity"})
      <3>1. request \in BusForm(FALSE, d)
        BY <1>2, <1>4 DEF Submitted
      <3> QED
        BY <1>2, <3>1, BusAccepted
    <2>2. UpdateBusDto.allows["seatCapacity"] = Whole /\ DOMAIN UpdateBusDto.needs = {}
          /\ "seatCapacity" \in DOMAIN UpdateBusDto.allows
      BY NoneIs DEF UpdateBusDto, Dto, Alike, ++
    <2>3. "seatCapacity" \notin Faults(UpdateBusDto, request)
      BY <1>5, <2>2, BusRow DEF Faults
    <2> QED
      BY <2>1, <2>3, Faultless
  <1>7. \A f \in DOMAIN row \cap DOMAIN request : Unchanged(row[f], request[f])
    BY <1>5, BusRow, SameUnchanged
  <1> QED
    BY <1>2, <1>4, <1>6, <1>7, HarmlessIf

LEMMA RouteHarmless ==
  ASSUME NEW row \in Rows["route"], ~Unsavable("route", row)
  PROVE  Harmless("route", row)
  <1> DEFINE d == row ++ [operatorId |-> Null]
             base == [origin |-> Trimmed(d.origin), destination |-> Trimmed(d.destination)]
             request == base ++ None
  <1>1. \A f \in DOMAIN row : d[f] = row[f]
    BY DEF ++
  <1>2. /\ Opened("route", row) = d /\ Entered(RouteInputs, d) /\ "route" \in Editable
        /\ DtoOf("route", FALSE) = UpdateRouteDto
    BY OpenedEntered, FormsAre DEF Opened, RouteOpened, Editable, DtoOf
  <1>3. Submitted("route", FALSE, Opened("route", row)) = {request}
    <2>1. d.origin.chars > 0 /\ d.destination.chars > 0
      BY <1>1, RouteRow DEF Texts
    <2> HIDE DEF d
    <2>2. RouteForm(FALSE, d) = {request}
      BY <2>1 DEF RouteForm, AllSaid
    <2> QED
      BY <1>2, <2>2 DEF Submitted
  <1>4. /\ DOMAIN request = {"origin", "destination"}
        /\ request["origin"] = Trimmed(row["origin"])
        /\ request["destination"] = Trimmed(row["destination"])
    BY <1>1, RouteRow, NoneIs DEF ++
  <1> HIDE DEF d, base, request
  <1>5. Faults(UpdateRouteDto, request) = {}
    <2>1. request \in RouteForm(FALSE, d)
      BY <1>2, <1>3 DEF Submitted
    <2>2. Accepted(UpdateRouteDto, request, {})
      BY <1>2, <2>1, RouteAccepted
    <2> QED
      BY <2>2, Faultless
  <1>6. \A f \in DOMAIN row \cap DOMAIN request : Unchanged(row[f], request[f])
    BY <1>4, RouteRow, SameUnchanged
  <1> QED
    BY <1>2, <1>3, <1>5, <1>6, HarmlessIf

LEMMA TripHarmless ==
  ASSUME NEW row \in Rows["trip"]
  PROVE  Harmless("trip", row)
  <1> DEFINE d == row ++ [operatorId |-> Null]
             base == [f \in DOMAIN TripFields \cup {"price"} |-> d[f]]
             request == base ++ None
  <1>1. \A f \in DOMAIN row : d[f] = row[f]
    BY DEF ++
  <1>2. /\ Opened("trip", row) = d /\ Entered(TripInputs, d) /\ "trip" \in Editable
        /\ DtoOf("trip", FALSE) = UpdateTripDto
    BY OpenedEntered, FormsAre DEF Opened, TripOpened, Editable, DtoOf
  <1>3. DOMAIN TripFields = {"busId", "routeId", "departureTime", "arrivalTime"}
    BY AlikeIs DEF TripFields
  <1>4. Submitted("trip", FALSE, Opened("trip", row)) = {request}
    <2>1. Fits(Money, d.price) /\ \A f \in DOMAIN TripFields : d[f] \notin {Empty, Null}
      BY <1>1, <1>3, TripRow, OptionsFit
    <2> HIDE DEF d
    <2>2. TripForm(FALSE, d) = {request}
      BY <2>1 DEF TripForm, AllFilled
    <2> QED
      BY <1>2, <2>2 DEF Submitted
  <1>5. DOMAIN request = DOMAIN row /\ \A f \in DOMAIN row : request[f] = row[f]
    BY <1>1, <1>3, TripRow, NoneIs DEF ++
  <1> HIDE DEF d, base, request
  <1>6. Faults(UpdateTripDto, request) = {}
    <2>1. request \in TripForm(FALSE, d)
      BY <1>2, <1>4 DEF Submitted
    <2>2. Accepted(UpdateTripDto, request, {})
      BY <1>2, <2>1, TripAccepted
    <2> QED
      BY <2>2, Faultless
  <1>7. \A f \in DOMAIN row \cap DOMAIN request : Unchanged(row[f], request[f])
    BY <1>5, SameUnchanged
  <1> QED
    BY <1>2, <1>4, <1>6, <1>7, TripRow, HarmlessIf

LEMMA PointHarmless ==
  ASSUME NEW name \in {"boarding", "dropping"}, NEW row \in Rows[name], ~Unsavable(name, row)
  PROVE  Harmless(name, row)
  <1> DEFINE request == [routeId |-> Given("chosen"), name |-> Trimmed(row.name),
                         address |-> Trimmed(row.address), isActive |-> row.isActive]
  <1>1. /\ Opened(name, row) = row /\ Entered(PointInputs, row) /\ name \in Editable
        /\ DtoOf(name, FALSE) = UpdateBoardingPointDto
    BY OpenedEntered, FormsAre DEF Opened, PointOpened, Editable, DtoOf, UpdateDroppingPointDto
  <1>2. Submitted(name, FALSE, Opened(name, row)) = {request}
    <2>1. row.name.chars > 0 /\ row.address.chars > 0
      BY PointRow DEF Texts
    <2>2. PointForm(row) = {request}
      BY <2>1 DEF PointForm, AllSaid
    <2> QED
      BY <1>1, <2>2 DEF Submitted
  <1>3. /\ DOMAIN request = {"routeId", "name", "address", "isActive"}
        /\ request["name"] = Trimmed(row["name"]) /\ request["address"] = Trimmed(row["address"])
        /\ request["isActive"] = row["isActive"]
    OBVIOUS
  <1> HIDE DEF request
  <1>4. Faults(UpdateBoardingPointDto, request) = {}
    <2>1. request \in PointForm(row)
      BY <1>1, <1>2 DEF Submitted
    <2>2. Accepted(UpdateBoardingPointDto, request, {})
      BY <1>1, <2>1, PointAccepted
    <2> QED
      BY <2>2, Faultless
  <1>5. \A f \in DOMAIN row \cap DOMAIN request : Unchanged(row[f], request[f])
    BY <1>3, PointRow, SameUnchanged
  <1> QED
    BY <1>1, <1>2, <1>4, <1>5, HarmlessIf

LEMMA StaffHarmless ==
  ASSUME NEW row \in Rows["staff"], ~Unsavable("staff", row)
  PROVE  Harmless("staff", row)
  <1> DEFINE d == StaffOpened(row)
             base == [fullName |-> Trimmed(d.fullName), email |-> Trimmed(d.email),
                      phoneNumber |-> Trimmed(d.phoneNumber)]
             request == base ++ None
  <1>1. /\ DOMAIN row = {"fullName", "phoneNumber", "password", "email"}
        /\ row["fullName"] \in Texts /\ row["fullName"].chars > 0
        /\ row["phoneNumber"] \in Texts \cup {Null} /\ row["password"] \in Texts
        /\ row["email"] \in Texts /\ row["email"].mail = 3 /\ row["email"].blanks = 0
        /\ row["email"].chars > 0
    BY StaffRow DEF Fits, Mail, Texts
  <1>2. /\ d.fullName = row["fullName"] /\ d.email = row["email"] /\ d.password = Empty
        /\ d.phoneNumber = Or(row["phoneNumber"], Empty)
    BY <1>1 DEF StaffOpened
  <1>3. /\ Opened("staff", row) = d /\ Entered(StaffInputs, d) /\ "staff" \in Editable
        /\ DtoOf("staff", FALSE) = UpdateStaffDto
    BY OpenedEntered, FormsAre DEF Opened, Editable, DtoOf
  <1>4. Submitted("staff", FALSE, Opened("staff", row)) = {request}
    <2>1. d.fullName.chars > 0 /\ d.email.chars > 0 /\ d.email.mail >= 2 /\ d.password.chars = 0
      BY <1>1, <1>2 DEF Empty, Words
    <2>2. d.password = Empty
      BY <1>2
    <2> HIDE DEF d
    <2>3. StaffForm(FALSE, d) = {request}
      BY <2>1, <2>2 DEF StaffForm, AllSaid
    <2> QED
      BY <1>3, <2>3 DEF Submitted
  <1>5. /\ DOMAIN request = {"fullName", "email", "phoneNumber"}
        /\ request["fullName"] = Trimmed(row["fullName"]) /\ request["email"] = row["email"]
        /\ request["phoneNumber"] = Trimmed(Or(row["phoneNumber"], Empty))
    <2>1. Trimmed(row["email"]) = row["email"]
      BY <1>1, TrimmedTexts
    <2> QED
      BY <1>2, <2>1, NoneIs DEF ++
  <1> HIDE DEF d, base, request
  <1>6. Faults(UpdateStaffDto, request) = {}
    <2>1. request \in StaffForm(FALSE, d)
      BY <1>3, <1>4 DEF Submitted
    <2>2. Accepted(UpdateStaffDto, request, {"fullName", "email", "password"})
      BY <1>3, <2>1, StaffAccepted
    <2>3. /\ DOMAIN UpdateStaffDto.needs = {}
          /\ DOMAIN UpdateStaffDto.allows = {"fullName", "email", "password", "phoneNumber"}
          /\ UpdateStaffDto.allows["fullName"] = AnyText /\ UpdateStaffDto.allows["email"] = Mail
      BY NoneIs DEF UpdateStaffDto, Dto
    <2>4. Fits(AnyText, request["fullName"])
      BY <1>1, <1>5, TrimmedTexts, TextsFit
    <2>5. Fits(Mail, request["email"])
      BY <1>5, StaffRow
    <2>6. \A f \in {"fullName", "email", "password"} : f \notin Faults(UpdateStaffDto, request)
      BY <1>5, <2>3, <2>4, <2>5 DEF Faults
    <2> QED
      BY <2>2, <2>6, Faultless
  <1>7. \A f \in DOMAIN row \cap DOMAIN request : Unchanged(row[f], request[f])
    BY <1>1, <1>5, SameUnchanged
  <1>8. \A f \in DOMAIN row : Unchanged(row[f], Saved("staff", row, request)[f])
    <2>1. ASSUME NEW f \in DOMAIN row
          PROVE  \/ Saved("staff", row, request)[f] = row[f]
                 \/ f \in DOMAIN request /\ Saved("staff", row, request)[f] = request[f]
      BY DEF Saved, UpdatingStaff, Updating
    <2> QED
      BY <1>7, <2>1, SameUnchanged
  <1> QED
    BY <1>3, <1>4, <1>6, <1>8 DEF Harmless

\* What a form insists on is not there: it sends nothing.
LEMMA UnsavableNotSent ==
  ASSUME NEW name \in Editable \ {"trip", "profile"}, NEW row \in Rows[name], Unsavable(name, row)
  PROVE  Harmless(name, row)
  <1>1. CASE name = "bus"
    <2> DEFINE d == row ++ [operatorId |-> Null]
    <2>1. d.name = row["name"] /\ d.registrationNumber = row["registrationNumber"]
      BY <1>1, BusRow DEF ++
    <2>2. ~AllSaid(d, {"name", "registrationNumber"})
      BY <1>1, <2>1, BusRow DEF AllSaid
    <2> HIDE DEF d
    <2>3. BusForm(FALSE, d) = {}
      BY <2>2 DEF BusForm
    <2>4. Opened(name, row) = d
      BY <1>1 DEF d, Opened, BusOpened
    <2> QED
      BY <1>1, <2>3, <2>4 DEF Submitted, Harmless
  <1>2. CASE name = "route"
    <2> DEFINE d == row ++ [operatorId |-> Null]
    <2>1. d.origin = row["origin"] /\ d.destination = row["destination"]
      BY <1>2, RouteRow DEF ++
    <2>2. ~AllSaid(d, {"origin", "destination"})
      BY <1>2, <2>1, RouteRow DEF AllSaid
    <2> HIDE DEF d
    <2>3. RouteForm(FALSE, d) = {}
      BY <2>2 DEF RouteForm
    <2>4. Opened(name, row) = d
      BY <1>2 DEF d, Opened, RouteOpened
    <2> QED
      BY <1>2, <2>3, <2>4 DEF Submitted, Harmless
  <1>3. CASE name \in {"boarding", "dropping"}
    <2>1. ~AllSaid(row, {"name", "address"})
      BY <1>3, PointRow DEF AllSaid
    <2>2. PointForm(row) = {}
      BY <2>1 DEF PointForm
    <2>3. Opened(name, row) = row
      BY <1>3 DEF Opened, PointOpened
    <2> QED
      BY <1>3, <2>2, <2>3 DEF Submitted, Harmless
  <1>4. CASE name = "staff"
    <2> DEFINE d == StaffOpened(row)
    <2>1. d.fullName = row["fullName"]
      BY <1>4, StaffRow DEF StaffOpened
    <2>2. ~AllSaid(d, {"fullName", "email"})
      BY <1>4, <2>1, StaffRow DEF AllSaid
    <2> HIDE DEF d
    <2>3. StaffForm(FALSE, d) = {}
      BY <2>2 DEF StaffForm
    <2>4. Opened(name, row) = d
      BY <1>4 DEF d, Opened
    <2> QED
      BY <1>4, <2>3, <2>4 DEF Submitted, Harmless
  <1> QED
    BY <1>1, <1>2, <1>3, <1>4 DEF Editable

\* What is accepted of a profile.
LEMMA ProfileHarmless ==
  ASSUME NEW row \in Rows["profile"],
         NEW request \in Submitted("profile", FALSE, Opened("profile", row)),
         NEW f \in DOMAIN row
  PROVE  \/ Unchanged(row[f], Saved("profile", row, request)[f])
         \/ f \in {"phoneNumber", "gender"} /\ row[f] \in {Null, Empty}
  <1> DEFINE d == ProfileOpened(row)
  <1>1. /\ d.name = Or(row["fullName"], Words(15, 0, 0))
        /\ d.phone = Or(row["phoneNumber"], Words(11, 0, 0))
        /\ d.gender = Or(row["gender"], Given("yes")) /\ d.dob = row["dateOfBirth"]
        /\ d.address = Or(row["address"], Empty) /\ d.nid = Or(row["nationalId"], Empty)
        /\ d.passport = Or(row["passportNumber"], Empty) /\ d.visa = Or(row["visaInfo"], Empty)
    BY DEF ProfileOpened
  <1>2. Opened("profile", row) = d
    BY DEF Opened
  <1> HIDE DEF d
  <1>3. request = [fullName |-> Trimmed(d.name), phoneNumber |-> Trimmed(d.phone),
                   gender |-> d.gender, address |-> Trimmed(d.address), dateOfBirth |-> d.dob,
                   nationalId |-> Trimmed(d.nid), passportNumber |-> Trimmed(d.passport),
                   visaInfo |-> Trimmed(d.visa)]
    BY <1>2 DEF Submitted, ProfileForm
  <1>4. Saved("profile", row, request)[f] = request[f]
    BY <1>3, ProfileRow DEF Saved, Updating
  <1>5. CASE f = "fullName"
    <2>1. d.name = row["fullName"] /\ row["fullName"] \in Texts
      BY <1>1, ProfileRow, EmptyIsText DEF Or
    <2> QED
      BY <1>3, <1>4, <1>5, <2>1, SameUnchanged
  <1>6. CASE f = "phoneNumber" /\ row[f] \notin {Null, Empty}
    <2>1. d.phone = row["phoneNumber"] /\ row["phoneNumber"] \in Texts
      BY <1>1, <1>6, ProfileRow DEF Or
    <2> QED
      BY <1>3, <1>4, <1>6, <2>1, SameUnchanged
  <1>7. CASE f = "gender" /\ row[f] \notin {Null, Empty}
    <2>1. d.gender = row["gender"]
      BY <1>1, <1>7 DEF Or
    <2> QED
      BY <1>3, <1>4, <1>7, <2>1, SameUnchanged
  <1>8. CASE f = "dateOfBirth"
    BY <1>1, <1>3, <1>4, <1>8, SameUnchanged
  <1>9. CASE f \in {"address", "nationalId", "passportNumber", "visaInfo"}
    <2>1. row[f] \in Texts \cup {Null}
      BY <1>9, ProfileRow
    <2>2. request[f] = Trimmed(Or(row[f], Empty))
      BY <1>1, <1>3, <1>9
    <2> QED
      BY <1>4, <2>1, <2>2, SameUnchanged
  <1> QED
    BY <1>5, <1>6, <1>7, <1>8, <1>9, ProfileRow

LEMMA ProfileLimits ==
  /\ UpdateProfileDto.needs["fullName"].most = 100
  /\ UpdateProfileDto.needs["phoneNumber"].most = 30
  BY DEF UpdateProfileDto, Dto, Phrase

\* A name or number that is blank is not sent, one that is too long is refused.
LEMMA ProfileNotSaved ==
  ASSUME NEW row \in Rows["profile"], Unsavable("profile", row),
         NEW request \in Submitted("profile", FALSE, Opened("profile", row))
  PROVE  Faults(UpdateProfileDto, request) # {}
  <1> DEFINE d == ProfileOpened(row)
  <1>1. /\ d.name = Or(row["fullName"], Words(15, 0, 0))
        /\ d.phone = Or(row["phoneNumber"], Words(11, 0, 0))
    BY DEF ProfileOpened
  <1>2. Opened("profile", row) = d /\ Entered(ProfileInputs, d)
    BY OpenedEntered, FormsAre DEF Opened, Editable
  <1>3. d.name \in Texts /\ d.phone \in Texts
    BY <1>2, ProfileEntered
  <1>4. d.name.chars \notin 1 .. 100 \/ d.phone.chars \notin 1 .. 30
    BY <1>1, ProfileLimits DEF Or, Unsavable
  <1> HIDE DEF d
  <1>5. /\ d.name.chars > 0 /\ d.phone.chars > 0
        /\ "fullName" \in DOMAIN request /\ request["fullName"] = Trimmed(d.name)
        /\ "phoneNumber" \in DOMAIN request /\ request["phoneNumber"] = Trimmed(d.phone)
    <2>1. request \in ProfileForm(d)
      BY <1>2 DEF Submitted
    <2> QED
      BY <2>1 DEF ProfileForm, AllSaid
  <1>6. /\ Length(Trimmed(d.name)) = d.name.chars /\ d.name.chars \in Nat
        /\ Length(Trimmed(d.phone)) = d.phone.chars /\ d.phone.chars \in Nat
    BY <1>3, TrimmedTexts DEF Texts
  <1>7. ~Fits(Phrase(1, 100), request["fullName"]) \/ ~Fits(Phrase(1, 30), request["phoneNumber"])
    BY <1>4, <1>5, <1>6 DEF Fits, Phrase
  <1>8. "fullName" \in Faults(UpdateProfileDto, request) \/ "phoneNumber" \in Faults(UpdateProfileDto, request)
    BY <1>5, <1>7, ProfileDtoIs DEF Faults
  <1> QED
    BY <1>8

\* The profile of somebody whose name and number are neither blank nor too long.
LEMMA ProfileSaved ==
  ASSUME NEW row \in Rows["profile"], ~Unsavable("profile", row)
  PROVE  \E request \in Submitted("profile", FALSE, Opened("profile", row)) :
            Faults(UpdateProfileDto, request) = {}
  <1> DEFINE d == ProfileOpened(row)
             request == [fullName |-> Trimmed(d.name), phoneNumber |-> Trimmed(d.phone),
                         gender |-> d.gender, address |-> Trimmed(d.address),
                         dateOfBirth |-> d.dob, nationalId |-> Trimmed(d.nid),
                         passportNumber |-> Trimmed(d.passport), visaInfo |-> Trimmed(d.visa)]
  <1>1. /\ d.name = Or(row["fullName"], Words(15, 0, 0))
        /\ d.phone = Or(row["phoneNumber"], Words(11, 0, 0))
        /\ d.address = Or(row["address"], Empty) /\ d.nid = Or(row["nationalId"], Empty)
        /\ d.passport = Or(row["passportNumber"], Empty) /\ d.visa = Or(row["visaInfo"], Empty)
    BY DEF ProfileOpened
  <1>2. Opened("profile", row) = d /\ Entered(ProfileInputs, d)
    BY OpenedEntered, FormsAre DEF Opened, Editable
  <1>3. /\ d.name \in Texts /\ d.phone \in Texts /\ d.address \in Texts /\ d.nid \in Texts
        /\ d.passport \in Texts /\ d.visa \in Texts
    BY <1>2, ProfileEntered
  <1>4. d.name.chars \in 1 .. 100 /\ d.phone.chars \in 1 .. 30
    BY <1>1, ProfileRow, ProfileLimits DEF Or, Words, Unsavable
  <1> HIDE DEF d
  <1>5. request \in Submitted("profile", FALSE, d)
    <2>1. d.name.chars > 0 /\ d.phone.chars > 0
      BY <1>4
    <2>2. request \in ProfileForm(d)
      BY <2>1 DEF ProfileForm, AllSaid
    <2> QED
      BY <2>2 DEF Submitted
  <1>6. /\ Fits(Phrase(1, 100), Trimmed(d.name)) /\ Fits(Phrase(1, 30), Trimmed(d.phone))
    <2>1. /\ Trimmed(d.name).is = "words" /\ Length(Trimmed(d.name)) \in 1 .. 100
          /\ Trimmed(d.phone).is = "words" /\ Length(Trimmed(d.phone)) \in 1 .. 30
      BY <1>3, <1>4, TrimmedTexts DEF Texts
    <2> QED
      BY <2>1 DEF Fits, Phrase
  <1>7. ASSUME NEW n \in Nat, NEW v \in Texts, Fits(Phrase(0, n), v) \/ v = Empty
        PROVE  Fits(Phrase(0, n), Trimmed(v))
    <2>1. Trimmed(v).is = "words" /\ Length(Trimmed(v)) = v.chars /\ v.chars \in Nat
      BY <1>7, TrimmedTexts DEF Texts
    <2>2. v.chars \in 0 .. n
      BY <1>7, <2>1 DEF Fits, Phrase, Length, Empty, Words, Texts
    <2> QED
      BY <2>1, <2>2 DEF Fits, Phrase
  <1>8. /\ Fits(Phrase(0, 300), Trimmed(d.address)) /\ Fits(Phrase(0, 50), Trimmed(d.nid))
        /\ Fits(Phrase(0, 50), Trimmed(d.passport)) /\ Fits(Phrase(0, 100), Trimmed(d.visa))
    <2>1. /\ Fits(Phrase(0, 300), d.address) \/ d.address = Empty
          /\ Fits(Phrase(0, 50), d.nid) \/ d.nid = Empty
          /\ Fits(Phrase(0, 50), d.passport) \/ d.passport = Empty
          /\ Fits(Phrase(0, 100), d.visa) \/ d.visa = Empty
      BY <1>1, ProfileRow, ProfileDtoIs DEF Or
    <2> QED
      BY <1>3, <1>7, <2>1
  <1>9. /\ DOMAIN request = {"fullName", "phoneNumber", "gender", "address", "dateOfBirth",
                            "nationalId", "passportNumber", "visaInfo"}
        /\ request["fullName"] = Trimmed(d.name) /\ request["phoneNumber"] = Trimmed(d.phone)
        /\ request["address"] = Trimmed(d.address) /\ request["nationalId"] = Trimmed(d.nid)
        /\ request["passportNumber"] = Trimmed(d.passport)
        /\ request["visaInfo"] = Trimmed(d.visa)
    OBVIOUS
  <1>10. Accepted(UpdateProfileDto, request,
                  {"fullName", "phoneNumber", "address", "nationalId", "passportNumber", "visaInfo"})
    <2>1. request \in ProfileForm(d)
      BY <1>5 DEF Submitted
    <2> QED
      BY <1>2, <2>1, ProfileAccepted
  <1> HIDE DEF request
  <1>11. \A f \in {"fullName", "phoneNumber", "address", "nationalId", "passportNumber", "visaInfo"} :
           f \notin Faults(UpdateProfileDto, request)
    BY <1>6, <1>8, <1>9, ProfileDtoIs DEF Faults
  <1>12. Faults(UpdateProfileDto, request) = {}
    BY <1>10, <1>11, Faultless
  <1> QED
    BY <1>2, <1>5, <1>12

\* A bus saved as it is keeps its seats and its capacity.
LEMMA BusSavedAsItIs ==
  ASSUME NEW b, BusKept(b), b.kind # Kind("SLEEPER", "BUSINESS", 36)
  PROVE  Updated(b, Payload(b.kind)) = b
  <1>1. /\ b \in [kind : Described, seats : Described] /\ b.kind \in Described
        /\ b.kind.class = "BUSINESS" =>
             \/ b.kind.capacity = 28
             \/ b.kind.capacity = 36 /\ b.kind.type = "SLEEPER"
        /\ b.kind.class = "ECONOMY" /\ b.kind.type = "SLEEPER" => b.kind.capacity = 36
        /\ b.kind.class \in {"BUSINESS", "ECONOMY"}
    BY DEF BusKept, Described, Classes
  <1>2. b.kind.class = "BUSINESS" => b.kind.capacity = 28
    BY <1>1 DEF Kind, Described
  <1> DEFINE kind == Stored(Payload(b.kind))
  <1>3. kind \in Described /\ kind.type = b.kind.type /\ kind.class = b.kind.class
    BY <1>1, StoredPayload
  <1>4. kind.capacity = b.kind.capacity
    <2>1. b.kind.class = "ECONOMY" /\ b.kind.type # "SLEEPER" => kind = b.kind
      BY <1>1 DEF Payload, Adjusted, Stored
    <2> QED
      BY <1>1, <1>2, <2>1, StoredPayload
  <1>5. kind = b.kind
    BY <1>1, <1>3, <1>4 DEF Described
  <1>6. [b EXCEPT !.kind = b.kind] = b
    BY <1>1
  <1> QED
    BY <1>5, <1>6 DEF Updated

\* Who opens an edit form and saves it as it is changes nothing but blanks around a
\* text, but for the profile's fallbacks and the seeded sleepers of business class; and
\* of all rows the DTOs admit, just those cannot be saved that lack a text the form
\* insists on or, of a profile, have one that is too long (ProfilePage,
\* BusesService.normalizeUpdateDto).
THEOREM UntouchedFormsAlwaysChangeNothing == Spec => []UntouchedFormsChangeNothing
  <1>1. ASSUME EditsInv PROVE \/ Updated(bus, Payload(bus.kind)) = bus
                             \/ bus.kind = Kind("SLEEPER", "BUSINESS", 36)
    BY <1>1, BusSavedAsItIs DEF EditsInv
  <1>2. ASSUME PageInv, page # NoPage, page.changes = 0, ~page.new
        PROVE  LET row == page.row
                   accepted == {request \in Submitted(page.of, FALSE, page.draft) :
                                  Faults(DtoOf(page.of, FALSE), request) = {}}
               IN /\ accepted = {} <=> Unsavable(page.of, row)
                  /\ \A request \in accepted, f \in DOMAIN row :
                       \/ Unchanged(row[f], Saved(page.of, row, request)[f])
                       \/ /\ page.of = "profile" /\ f \in {"phoneNumber", "gender"}
                          /\ row[f] \in {Null, Empty}
    <2>1. /\ page.of \in Editable /\ page.row \in Rows[page.of]
          /\ page.draft = Opened(page.of, page.row)
      BY <1>2 DEF PageInv
    <2>2. CASE page.of = "profile"
      <3>1. DtoOf(page.of, FALSE) = UpdateProfileDto
        BY <2>2 DEF DtoOf
      <3> QED
        BY <2>1, <2>2, <3>1, ProfileHarmless, ProfileSaved, ProfileNotSaved
    <2>3. CASE page.of # "profile"
      <3>1. Harmless(page.of, page.row)
        BY <2>1, <2>3, BusHarmless, RouteHarmless, TripHarmless, PointHarmless, StaffHarmless,
           UnsavableNotSent
           DEF Editable
      <3> QED
        BY <2>1, <3>1 DEF Harmless
    <2> QED
      BY <2>2, <2>3
  <1>3. EditsInv /\ PageInv => UntouchedFormsChangeNothing
    BY <1>1, <1>2 DEF UntouchedFormsChangeNothing
  <1> QED
    BY <1>3, EditsInvHolds, PageHolds, PTL
=============================================================================
