------------------------------- MODULE MCRules -------------------------------
(***************************************************************************)
(* The inputs the rules are evaluated for.                                 *)
(***************************************************************************)
EXTENDS Rules

\* Every boundary of the policy with the minutes around it.
MCMinutes == {Hours(h) + d : h \in {0, 2, 6, 24}, d \in {-1, 0, 1}}

MCSettings == {Unset, Text, -60, 0, 30, 120, 3600, 7200}

\* Capacities around full rows, beyond row Z, and beyond row U of ten columns;
\* columnsPerRow is 1 to 10 (CreateSeatsForBusDto) or 0, not given.
MCCoaches == {Coach("ECONOMY", FALSE, n, c) : n \in {1, 3, 4, 5, 28, 40, 41, 105, 211},
                                            c \in 0 .. 10}
           \cup {Coach(class, TRUE, 36, 0) : class \in {"BUSINESS", "ECONOMY"}}
           \cup {Coach("BUSINESS", FALSE, 28, 3)}

MCDiscounts == {Discount("none", 0)}
             \cup {Discount("PERCENTAGE", v) : v \in {0, 50, 100, 101}}
             \cup {Discount("FIXED", v) : v \in {0, 100, 700, 701, 2800, 2801}}

\* What may be typed into, or chosen in, an input: texts around every limit, addresses
\* (a browser strips the blanks around them), capacities and prices with parts.
InputtableOf(kind) ==
  CASE kind = "text" -> {Words(n, b, 0) : n \in {0, 1, 2, 7, 8, 30, 31, 50, 51, 100, 101, 255, 256,
                                                 300, 301}, b \in {0, 1, 7}}
    [] kind = "email" -> {Empty} \cup {Words(5, 0, k) : k \in 0 .. 3}
    [] kind = "number" -> {Number(n) : n \in {-1000, 0, 5, 10, 1000, 1500, 40000, 700000}}
    [] kind = "select" -> {Null, Given("chosen")}
    [] kind = "company" -> {Null, Given("chosen")}
    [] kind = "option" -> {Given("yes"), Given("no")}

\* Something every check lets pass.
Usual(kind) ==
  CASE kind = "text" -> Words(9, 0, 0) [] kind = "email" -> Words(9, 0, 3)
    [] kind = "number" -> Number(40000) [] kind = "option" -> Given("yes")
    [] kind \in {"select", "company"} -> Given("chosen")

UsualRow == [bus |-> [f \in DOMAIN BusInputs \ {"operatorId"} |-> Usual(BusInputs[f])],
             route |-> [f \in {"origin", "destination"} |-> Usual("text")],
             trip |-> [f \in DOMAIN TripInputs \ {"operatorId"} |-> Usual(TripInputs[f])],
             boarding |-> [f \in DOMAIN PointInputs |-> Usual(PointInputs[f])],
             dropping |-> [f \in DOMAIN PointInputs |-> Usual(PointInputs[f])],
             staff |-> [f \in DOMAIN StaffInputs |-> Usual(StaffInputs[f])],
             profile |-> [f \in DOMAIN UpdateProfileDto.needs \cup DOMAIN UpdateProfileDto.allows |->
                            IF f \in {"gender", "dateOfBirth"} THEN Given("no") ELSE Usual("text")]]

\* A field of a row as it may be stored: names and numbers around every limit, of blanks
\* only, empty, or not given.
Storable(name, f) ==
  LET usual == UsualRow[name][f]
      values == CASE usual.is = "given" -> {Given("yes"), Given("no")}
                  [] usual.is = "number" \/ f \in {"email", "password"} -> {usual}
                  [] OTHER -> {Words(n, b, 0) : n \in {0, 1, 30, 31, 100, 101}, b \in {0, 1}}
  IN {v \in values \cup {Null} : v \in StoredIn(name, f)}

MCFilled == [name \in DOMAIN InputsOf |->
               {[f \in DOMAIN InputsOf[name] |-> Usual(InputsOf[name][f])]}]

MCRows == [name \in Editable |->
             UNION {{[UsualRow[name] EXCEPT ![f] = v] : v \in Storable(name, f)} :
                      f \in DOMAIN UsualRow[name]}]

MCInputtable == [kind \in {"text", "email", "number", "select", "company", "option"} |->
                   InputtableOf(kind)]
=============================================================================
