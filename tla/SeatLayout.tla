----------------------------- MODULE SeatLayout -----------------------------
(***************************************************************************)
(* The seats generated for a bus, the labels passengers read, and the rows *)
(* in which the client draws them.                                         *)
(*                                                                         *)
(* A label is text: letters and then digits (A1, UA1, and U07 of an older  *)
(* layout), or R#C#.  Letters are their places in the alphabet.            *)
(***************************************************************************)
EXTENDS Integers, Sequences, FiniteSets

U == 21
L == 12

DeckRows == 6
DeckColumns == 3

\* A bus: its class, whether it is a sleeper, capacity, and columnsPerRow.
Coach(class, sleeper, capacity, columns) ==
  [class |-> class, sleeper |-> sleeper, capacity |-> capacity, columns |-> columns]

-----------------------------------------------------------------------------
(* Labels                                                                  *)

Lettered(letters, digits) == [form |-> "A1", letters |-> letters, digits |-> digits]
RowColumn(row, column) == [form |-> "R1C1", letters |-> <<>>, digits |-> <<row, column>>]

Digits(n) == IF n < 10 THEN <<n>> ELSE <<n \div 10, n % 10>>

\* formatPassengerSeatNumber.
PassengerLabel(row, column) ==
  IF row > 26 THEN RowColumn(row, column) ELSE Lettered(<<row>>, Digits(column))

\* formatSleeperSeatNumber.
SleeperLabel(deck, row, column) == Lettered(<<deck, row>>, Digits(column))

\* /^([UL])(\d{2})$/
LegacySleeper(label) == /\ label.form = "A1"
                        /\ label.letters \in {<<U>>, <<L>>}
                        /\ Len(label.digits) = 2

\* Mutant of RowInDeck: the lower deck is not counted from its own first row.
RowInDeckKept(deck, row) == row

\* The lower deck's rows follow the upper deck's, or start anew.
RowInDeck(deck, row) == IF deck = L /\ row > DeckRows THEN row - DeckRows ELSE row

ColumnInDeck(column) == IF column > DeckColumns THEN column - DeckColumns ELSE column

\* normalizeSeatNumber.
NormalizedLabel(label, row, column) ==
  IF label.form = "R1C1" THEN PassengerLabel(label.digits[1], label.digits[2])
  ELSE IF LegacySleeper(label)
    THEN SleeperLabel(label.letters[1], RowInDeck(label.letters[1], row), ColumnInDeck(column))
  ELSE label

\* The server normalizes what it sends, and the client what it receives.
Shown(label, row, column) == NormalizedLabel(NormalizedLabel(label, row, column), row, column)

-----------------------------------------------------------------------------
(* Layouts                                                                 *)

Seat(row, column, label) == [row |-> row, column |-> column, label |-> label]

ColumnsPerRow(coach) ==
  IF coach.columns > 0 THEN coach.columns
  ELSE IF coach.class = "BUSINESS" THEN 3 ELSE 4

\* buildBusinessSeatsData.
BusinessSeats ==
  {Seat(p[1], p[2], PassengerLabel(p[1], p[2])) :
     p \in ((1 .. 8) \X (1 .. 3)) \cup ({9} \X (1 .. 4))}

\* buildSleeperSeatsData.
SleeperSeats ==
  LET Row(i) == (i \div DeckColumns) + 1
      Column(i) == (i % DeckColumns) + 1
  IN {Seat(Row(i), Column(i), SleeperLabel(U, Row(i), Column(i))) : i \in 0 .. 17}
     \cup
     {Seat(DeckRows + Row(i), DeckColumns + Column(i), SleeperLabel(L, Row(i), Column(i))) :
        i \in 0 .. 17}

\* buildSeatsData.
EconomySeats(capacity, columns) ==
  {Seat((i \div columns) + 1, (i % columns) + 1,
        PassengerLabel((i \div columns) + 1, (i % columns) + 1)) : i \in 0 .. capacity - 1}

\* createForBus for a bus without seats.
Generated(coach) ==
  IF coach.sleeper THEN SleeperSeats
  ELSE IF coach.class = "BUSINESS" THEN BusinessSeats
  ELSE EconomySeats(coach.capacity, ColumnsPerRow(coach))

-----------------------------------------------------------------------------
(* Drawing                                                                 *)

\* seatsByRow.
SeatsByRow(seats) == {{s \in seats : s.row = r} : r \in {s.row : s \in seats}}

\* How many seats come first, by row and column or by shown label.
PlaceRank(s, seats) ==
  Cardinality({t \in seats : \/ t.row < s.row
                             \/ (t.row = s.row /\ t.column < s.column)})

ShownLabel(s) == Shown(s.label, s.row, s.column)

LabelRank(s, seats) ==
  LET a == ShownLabel(s)
      Row(x) == x.letters[2]
  IN Cardinality({t \in seats :
       LET b == ShownLabel(t)
       IN \/ Row(b) < Row(a)
          \/ (Row(b) = Row(a) /\ b.digits[1] < a.digits[1])})

\* Mutant of BusinessRows: the last row is cut off like the others.
BusinessRowsOfThree(seats) ==
  {{s \in seats : PlaceRank(s, seats) \div 3 = k} : k \in 0 .. 8}

\* businessRows: eight rows of three and one of four, whatever the seats' rows.
BusinessRows(seats) ==
  {{s \in seats : PlaceRank(s, seats) \div 3 = k} : k \in 0 .. 7}
    \cup {{s \in seats : PlaceRank(s, seats) \in 24 .. 27}}

\* sleeperDeckRows: the seats of a deck in the order of their labels, three to a row.
RowsOfDeck(deck) ==
  {{s \in deck : LabelRank(s, deck) \div 3 = k} : k \in 0 .. (Cardinality(deck) - 1) \div 3}

\* A deck is told by the label's first letter.
SleeperRows(seats) ==
  LET Deck(d) == {s \in seats : ShownLabel(s).letters[1] = d}
  IN RowsOfDeck(Deck(U)) \cup RowsOfDeck(Deck(L))

Drawn(coach, seats) ==
  IF coach.sleeper THEN SleeperRows(seats)
  ELSE IF coach.class = "BUSINESS" THEN BusinessRows(seats) ELSE SeatsByRow(seats)
=============================================================================
