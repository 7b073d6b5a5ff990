-------------------------------- MODULE Rules --------------------------------
(***************************************************************************)
(* The pure rules at work: the refund policy as time passes towards        *)
(* departure, the configured durations, the readers of the gateway's       *)
(* answers, the layouts of buses, the pages of the dashboard, a bus under  *)
(* edits, a sale while the price changes, and the forms.  The constants    *)
(* are the inputs that are looked at.                                      *)
(***************************************************************************)
EXTENDS RefundPolicy, SslAnswers, Durations, Schedule, Dashboard, Fares, Forms

CONSTANTS Minutes,      \* instants, in minutes before departure
          Settings,     \* of a duration
          Coaches,      \* buses that get seats
          Typed,        \* capacities typed into the form of a bus
          Prices,       \* of a seat; a trip may be free
          Counts,       \* how many seats are sold together
          Discounts,    \* given at the desk
          Filled,       \* by form, what a form for something new may hold
          Rows,         \* by form, what is stored when the form opens for it
          Inputtable,   \* by kind of input, what may be typed or chosen
          MaxChanges    \* bound: inputs changed after a form has opened

\* columnsPerRow is 1 to 10 (CreateSeatsForBusDto) or 0, not given.
ASSUME RulesAssumption ==
  /\ Operators # {}
  /\ Unset \notin Int /\ Text \notin Int
  /\ Minutes \subseteq Int
  /\ Settings \ {Unset, Text} \subseteq Int
  /\ Coaches \subseteq [class : Classes, sleeper : BOOLEAN, capacity : Nat \ {0},
                        columns : 0 .. 10]
  /\ Typed \subseteq Nat
  /\ Prices \subseteq Nat /\ Counts \subseteq Nat \ {0}
  /\ Discounts \subseteq [kind : {"none", "PERCENTAGE", "FIXED"}, value : Nat]
  /\ MaxChanges \in Nat

\* What an input of a kind can hold.  What is an address has characters.
Texts == {t \in [is : {"words"}, chars : Nat, blanks : Nat, mail : 0 .. 3] :
            Length(t) <= Unlimited /\ (t.mail > 0 => t.chars > 0)}
Options == {Given(what) : what \in {"chosen", "yes", "no"}}
Entries == [text |-> Texts, email |-> {t \in Texts : t.blanks = 0},
            number |-> [is : {"number"}, n : Int], option |-> Options,
            select |-> Options \cup {Null}, company |-> Options \cup {Null}]

\* What is stored of a row: what the DTOs admit, whoever writes it.  None of them trims,
\* so blanks pass for a text; an update of a bus or a route takes an empty one as well,
\* and only updateStaff passes over it.  A time counts to the minute.
StoredIn(name, f) ==
  CASE name \in {"profile", "staff"} /\ f = "phoneNumber" -> Texts \cup {Null}
    [] name = "profile" /\ f \in {"gender", "dateOfBirth"} -> Options \cup {Null}
    [] name = "profile" /\ f \in {"address", "nationalId", "passportNumber", "visaInfo"} ->
         {t \in Texts : Fits(UpdateProfileDto.allows[f], t)} \cup {Null}
    [] f = "password" -> Texts
    [] f = "email" -> {t \in Texts : Fits(Mail, t)}
    [] f = "seatCapacity" -> {v \in Entries.number : Fits(Whole, v)}
    [] f = "price" -> {v \in Entries.number : Fits(Money, v)}
    [] f \in DOMAIN TripFields \cup {"busType", "busClass", "status", "isActive"} -> Options
    [] name = "route" \/ (name = "bus" /\ f \in {"name", "registrationNumber"}) -> Texts
    [] OTHER -> Texts \ {Empty}
Columns(name) == IF name = "profile"
                   THEN DOMAIN UpdateProfileDto.needs \cup DOMAIN UpdateProfileDto.allows
                   ELSE DOMAIN InputsOf[name] \ {"operatorId"}

Entered(kinds, d) == DOMAIN d = DOMAIN kinds /\ \A f \in DOMAIN d : d[f] \in Entries[kinds[f]]

ASSUME FormsAssumption ==
  /\ \A kind \in DOMAIN Entries : Inputtable[kind] \subseteq Entries[kind]
  /\ \A name \in DOMAIN InputsOf : \A d \in Filled[name] : Entered(InputsOf[name], d)
  /\ \A name \in Editable : \A row \in Rows[name] :
       DOMAIN row = Columns(name) /\ \A f \in DOMAIN row : row[f] \in StoredIn(name, f)

\* Whoever is logged in, on any page; an ADMIN remembers a company or none.
Visits == [caller : [role : Roles, operatorId : Operators \cup {NoOperator}],
           at : Places, last : Operators \cup {NoOperator}]

TripsNow == {Trip(type, price) : type \in Types, price \in Prices}

\* An OPERATOR sells like its STAFF.
Sellers == {"USER", "STAFF", "ADMIN"}

VARIABLES left,                 \* minutes before departure
          lock, window, hold,   \* settings of the three durations
          answer,               \* of the gateway
          coach,                \* a bus
          visit,                \* somebody on a page
          bus,                  \* a bus of a company, and
          drawer,               \* the form for it or for a new one
          sale,                 \* a sale
          page                  \* a form somebody fills in

vars == <<left, lock, window, hold, answer, coach, visit, bus, drawer, sale, page>>

editing == <<bus, drawer>>

AnAnswer == [connect |-> "", approval |-> "", nested |-> FALSE, status |-> "",
             request |-> "", ref |-> FALSE]

ACoach == Coach("ECONOMY", FALSE, 40, 4)

AVisit == [caller |-> [role |-> "USER", operatorId |-> NoOperator],
           at |-> At("home", NoOperator), last |-> NoOperator]

ABus == Outfitted(Kind("AC", "ECONOMY", 36))

NoSale == [step |-> "none"]

NoPage == [of |-> "none"]

Closed == [new |-> TRUE, form |-> DefaultForm]

Init == /\ left \in Minutes
        /\ lock \in Settings /\ window \in Settings /\ hold \in Settings
        /\ answer = AnAnswer
        /\ coach = ACoach
        /\ visit = AVisit
        /\ bus = ABus /\ drawer = Closed
        /\ sale = NoSale /\ page = NoPage

\* Departure comes closer.
Wait == /\ coach = ACoach /\ visit = AVisit /\ bus = ABus /\ drawer = Closed
        /\ sale = NoSale /\ page = NoPage
        /\ \E n \in Minutes : n < left /\ left' = n
        /\ UNCHANGED <<lock, window, hold, answer, coach, visit, editing, sale, page>>

\* For what does not depend on time and durations one of their values is enough.
Plain == /\ lock = Unset /\ window = Unset /\ hold = Unset
         /\ left = Hours(24)
         /\ answer = AnAnswer /\ coach = ACoach /\ visit = AVisit
         /\ UNCHANGED <<left, lock, window, hold>>

Parked == Plain /\ bus = ABus /\ drawer = Closed /\ sale = NoSale /\ page = NoPage

Receive == /\ Parked
           /\ answer' \in Answers
           /\ UNCHANGED <<coach, visit, editing, sale, page>>

\* A bus gets its seats.
Outfit == /\ Parked
          /\ coach' \in Coaches
          /\ UNCHANGED <<answer, visit, editing, sale, page>>

\* A page of the dashboard opens.
Visit == /\ Parked
         /\ visit' \in Visits
         /\ UNCHANGED <<answer, coach, editing, sale, page>>

\* A look at another bus of the seeds.
Seed == /\ Parked
        /\ \E kind \in SeededBuses \cup FallbackBuses : bus' = Outfitted(kind)
        /\ UNCHANGED <<answer, coach, visit, drawer, sale, page>>

\* openEditDrawer.
OpenDrawer == /\ Plain /\ sale = NoSale /\ page = NoPage
              /\ drawer = Closed
              /\ drawer' = [new |-> FALSE, form |-> bus.kind]
              /\ UNCHANGED <<answer, coach, visit, bus, sale, page>>

EditDrawer == /\ Plain /\ sale = NoSale /\ page = NoPage
              /\ \E form \in Changes(drawer.form, Typed) : drawer' = [drawer EXCEPT !.form = form]
              /\ UNCHANGED <<answer, coach, visit, bus, sale, page>>

SaveDrawer == /\ Plain /\ sale = NoSale /\ page = NoPage
              /\ bus' = IF drawer.new THEN Created(Payload(drawer.form))
                        ELSE Updated(bus, Payload(drawer.form))
              /\ drawer' = Closed
              /\ UNCHANGED <<answer, coach, visit, sale, page>>

AtDesk == sale.seller # "USER"

Others == <<left, lock, window, hold, answer, coach, visit, editing, page>>

\* Seats of a trip are chosen on a page that shows what they cost, by the passenger
\* or at the desk.
Choose == /\ Parked
          /\ \E trip \in TripsNow, n \in Counts, d \in Discounts, seller \in Sellers :
               /\ seller = "USER" => d = Discount("none", 0)
               /\ sale' = [step |-> "chosen", seller |-> seller, n |-> n, d |-> d,
                           seen |-> trip, now |-> trip]
          /\ UNCHANGED Others

\* The company changes the price, or puts another type of bus on the trip.
Reprice == /\ sale # NoSale
           /\ \E trip \in TripsNow : sale' = [sale EXCEPT !.now = trip]
           /\ UNCHANGED Others

LockSeats == /\ sale.step = "chosen" /\ ~AtDesk
             /\ sale' = [sale EXCEPT !.step = "locked"] ++ [locked |-> sale.now]
             /\ UNCHANGED Others

Buy == /\ \/ sale.step = "locked"
          \/ /\ sale.step = "chosen" /\ AtDesk
             /\ Summary(sale.seen, sale.n, sale.d).open
             /\ ~DeskRefuses(sale.now, sale.n, sale.d)
       /\ sale' = [sale EXCEPT !.step = "sold"]
                   ++ [at |-> sale.now,
                       booking |-> IF AtDesk THEN DeskBooking(sale.now, sale.n, sale.d, sale.seller)
                                   ELSE OnlineBooking(sale.now, sale.n, sale.locked)]
       /\ UNCHANGED Others

Rest == <<left, lock, window, hold, answer, coach, visit, editing, sale>>

\* A form opens for something new or for a row, and inputs are changed.
OpenForm == /\ Parked
            /\ \/ \E name \in DOMAIN InputsOf : \E draft \in Filled[name] :
                    page' = [of |-> name, new |-> TRUE, changes |-> 0, draft |-> draft]
               \/ \E name \in Editable : \E row \in Rows[name] :
                    page' = [of |-> name, new |-> FALSE, changes |-> 0, row |-> row,
                             draft |-> Opened(name, row)]
            /\ UNCHANGED Rest

FillIn == /\ page # NoPage /\ page.changes < MaxChanges
          /\ \E f \in DOMAIN page.draft : \E v \in Inputtable[InputsOf[page.of][f]] :
               page' = [page EXCEPT !.changes = page.changes + 1, !.draft[f] = v]
          /\ UNCHANGED Rest

Next == \/ Choose \/ Reprice \/ LockSeats \/ Buy
        \/ Wait \/ Receive \/ Outfit \/ Visit
        \/ Seed \/ OpenDrawer \/ EditDrawer \/ SaveDrawer
        \/ OpenForm \/ FillIn

Spec == Init /\ [][Next]_vars

-----------------------------------------------------------------------------
\* What the page announces is what the server returns at that moment, is nothing
\* exactly when it would refuse, and is not less than at any later moment: whoever
\* hesitates is never better off (getRefundPreview, cancelBooking).
PreviewsHold == [][/\ RefundFor(left) = Preview(left)
                   /\ CanCancel(left) <=> Preview(left) > 0
                   /\ RefundFor(left') <= Preview(left)]_vars

\* Whatever the settings, the durations are what SeatReservation assumes of them,
\* and none exceeds an hour.
DurationsFit ==
  \A d \in {SeatLockOf(lock), PaymentWindowOf(window), DashboardLockOf(hold, lock)} :
    d \in 1 .. Longest

\* Money counts as returned only on an answer with a reference that neither declines nor
\* says "processing", and what approve understood a later sync understands the same way
\* (Initiate, Query).
AnswersAreReadAlike == InitiateIsStrict(answer) /\ ReadersAgree(answer)

\* Labels tell the seats of a generated layout apart, as stored (the unique index
\* accepts it) and as shown.  Older labels (R#C#, U## and L##, with the lower deck's
\* rows counted on or from its own first row) are shown as the labels generated now
\* for the same place, and these are shown as they are; for this ten columns are left
\* out: U10 and L10 of an economy bus read like sleeper labels.
LabelsIdentifySeats ==
  LET seats == Generated(coach)
  IN /\ Cardinality({s.label : s \in seats}) = Cardinality(seats)
     /\ Cardinality({ShownLabel(s) : s \in seats}) = Cardinality(seats)
     /\ ColumnsPerRow(coach) < 10 =>
          \A s \in seats :
            /\ ShownLabel(s) = s.label
            /\ ~coach.sleeper => Shown(RowColumn(s.row, s.column), s.row, s.column) = s.label
            /\ coach.sleeper =>
                 LET deck == s.label.letters[1]
                 IN \A row \in {s.row, RowInDeck(deck, s.row)} :
                      Shown(Lettered(<<deck>>, <<0, 7>>), row, s.column) = s.label

\* Every generated seat is drawn once, in a row with the seats next to it.
RowsAreDrawnWhole == Drawn(coach, Generated(coach)) = SeatsByRow(Generated(coach))

\* Every link, menu entry and redirect of the dashboard, and the way from the login
\* form, ends at a page whose gate opens for whoever follows it (DashboardRoutes).
LinksOpen ==
  LET caller == visit.caller
      open(at) == LET end == Settled(caller, at, visit.last)
                  IN Redirect(caller, end, visit.last) = end /\ Opens(caller, end)
  IN /\ open(AfterLogin(caller)) /\ open(Landing(caller, visit.last))
     /\ (Settled(caller, visit.at, visit.last) = visit.at /\ Opens(caller, visit.at)) =>
          \A at \in Links(caller, visit.at) : open(at)

\* What an open page loads and what its buttons send, an endpoint admits for the
\* company on the page, for the ADMIN and for every account of a company that is not
\* suspended.  The filter of the ADMIN's bookings stays empty: its routes are served to
\* the desk only.
PagesAreServed ==
  LET caller == visit.caller
      at == visit.at
  IN (/\ IsPlatformAdmin(caller) \/ HasOperatorContext(caller)
      /\ Settled(caller, at, visit.last) = at
      /\ Opens(caller, at)) =>
       \A name \in Requests(caller, at) :
         \/ Served(caller, at, name)
         \/ IsPlatformAdmin(caller) /\ at.page = "manage" /\ name = "getBookingRoutes"

\* However a bus is edited, it has as many seats as its capacity says, and they are
\* of its kind.  A sleeper of business class has 36 and counts 28 of them after any
\* save, and an edit that keeps class and capacity does not turn seats into berths
\* or berths into seats (BusesService.update).
SeatsFollowEdits ==
  LET berths == bus.seats.type = "SLEEPER"
  IN /\ \/ Cardinality(SeatsFor(bus.seats)) = bus.kind.capacity
        \/ bus.kind.class = "BUSINESS" /\ berths
     /\ berths = (bus.kind.type = "SLEEPER") => SeatsFor(bus.seats) = SeatsFor(bus.kind)

\* Every bus leaves once a day or more, on every route the seeds bring and on the way
\* back, is there before it leaves again, and costs what the others of its hour cost
\* (createTripsForDate).
TimetableRuns ==
  LET hours == Departures(bus.kind)
  IN /\ hours # {}
     /\ \A h, g \in hours : h < g => h + TripHours <= g /\ g + TripHours <= h + 24
     /\ \A route \in SeededRoutes \cup FallbackRoutes :
          SupportedRoute(route) /\ SupportedRoute(<<route[2], route[1]>>)
     /\ \A kind \in [type : Types, class : Classes, capacity : {bus.kind.capacity}] :
          Departures(kind) \cap hours # {} => Price(kind) = Price(bus.kind)

\* What a passenger saw is charged, unless the trip changed in between, and every
\* paper says so later, whatever became of the trip: except that a free ticket of the
\* desk shows the full fare on the web.  While the trip stays as it was sold the lines
\* add up, but for a sleeper and, on the web, a free trip; and the shares of company,
\* platform and insurance make up what was paid online, but for a sleeper or if the
\* price changed since the seats were locked.  All of what is sold at the desk is the
\* company's, and what an ADMIN sells there counts as the platform's once more, so that
\* the two statistics add up to twice the sum (Ticket, getOperatorStats, getDashboardStats).
QuotesAreCharged ==
  /\ (sale.step = "chosen" /\ AtDesk /\ sale.seen = sale.now) =>
       (Summary(sale.seen, sale.n, sale.d).open <=> ~DeskRefuses(sale.now, sale.n, sale.d))
  /\ sale.step = "sold" =>
       LET b == sale.booking
           paid == IF Desk(b) THEN b.final ELSE b.total
           asked == IF Desk(b) THEN Summary(sale.seen, b.n, sale.d).final
                    ELSE Quote(sale.seen, b.n)
           same == sale.now = sale.at
       IN /\ sale.seen = sale.at => asked = paid
          /\ MailedTotal(b) = paid
          /\ TicketTotal(b) = paid \/ (Desk(b) /\ paid = 0)
          /\ (same /\ ~Desk(b)) => Quote(sale.now, b.n) = paid
          /\ (same /\ paid > 0 /\ sale.at.price > 0 /\ (Desk(b) \/ sale.at.type # "SLEEPER")) =>
               TicketLines(b, sale.now) = paid
          /\ (same /\ ~Desk(b) /\ sale.locked.price = sale.at.price /\ sale.at.type # "SLEEPER") =>
               CompanyRevenue(b) + PlatformRevenue(b, sale.now) + b.n * Insurance = paid
          /\ Desk(b) => /\ CompanyRevenue(b) = paid
                        /\ PlatformRevenue(b, sale.now) = IF sale.seller = "ADMIN" THEN paid ELSE 0

\* What the forms do not check as the server does.
Unchecked ==
  [bus |-> {"seatCapacity"}, cancelTrip |-> {"reason"}, cancelBooking |-> {"reason"},
   approve |-> {"adminNote"}, reject |-> {"adminNote"},
   staff |-> {"fullName", "email", "password"},
   operator |-> {"companyName", "slug", "email", "adminEmail", "adminPassword"},
   profile |-> {"fullName", "phoneNumber", "address", "nationalId", "passportNumber", "visaInfo"},
   password |-> {"newPassword"}, register |-> {"email"}, login |-> {"email"},
   forgot |-> {"email"}]

\* Whatever is filled in, a request that leaves the client has all fields its endpoint
\* needs and none it does not know, and it is not refused for a field the form could
\* have checked: except those above.
FormsAreAccepted ==
  page # NoPage =>
    LET dto == DtoOf(page.of, page.new)
        skipped == IF page.of \in DOMAIN Unchecked THEN Unchecked[page.of] ELSE {}
    IN \A request \in Submitted(page.of, page.new, page.draft) :
         /\ DOMAIN dto.needs \subseteq DOMAIN request
         /\ Faults(dto, request) \cap (DOMAIN request \ skipped) = {}

\* A form insists on every text but a number to call and a password; the profile's shows
\* a sample user for what is missing, and is refused what is too long.
Unsavable(name, row) ==
  IF name = "profile"
    THEN \E f \in {"fullName", "phoneNumber"} :
           row[f] \notin {Null, Empty} /\ row[f].chars \notin 1 .. UpdateProfileDto.needs[f].most
    ELSE \E f \in DOMAIN row \ {"phoneNumber", "password"} :
           row[f].is = "words" /\ row[f].chars = 0

\* Who opens an edit form and saves it as it is changes nothing but blanks around a
\* text, as far as the row itself decides; it is saved unless a text is blank that the
\* form insists on (the API takes blanks, the form does not) or, of a profile, too long.
\* Except that the profile of somebody without number or gender gets those of a sample
\* user, and that of the buses of seeds and form a seeded sleeper of business class
\* loses 8 of its 36 places (ProfilePage, BusesService.normalizeUpdateDto).
UntouchedFormsChangeNothing ==
  /\ \/ Updated(bus, Payload(bus.kind)) = bus
     \/ bus.kind = Kind("SLEEPER", "BUSINESS", 36)
  /\ (page # NoPage /\ page.changes = 0 /\ ~page.new) =>
       LET row == page.row
           accepted == {request \in Submitted(page.of, FALSE, page.draft) :
                          Faults(DtoOf(page.of, FALSE), request) = {}}
       IN /\ accepted = {} <=> Unsavable(page.of, row)
          /\ \A request \in accepted, f \in DOMAIN row :
               \/ Unchanged(row[f], Saved(page.of, row, request)[f])
               \/ /\ page.of = "profile" /\ f \in {"phoneNumber", "gender"}
                  /\ row[f] \in {Null, Empty}
=============================================================================
