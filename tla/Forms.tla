-------------------------------- MODULE Forms --------------------------------
(***************************************************************************)
(* What the forms of the client check and send, what the data transfer     *)
(* objects of the server admit (main.ts: a ValidationPipe that refuses     *)
(* unknown fields), and what an edit form shows and changes of a row.      *)
(* A text counts its characters between, and the blanks around, the first  *)
(* and the last that is not blank.                                         *)
(***************************************************************************)
EXTENDS Integers

\* A record with the fields of another one besides its own.
f ++ g == [x \in DOMAIN f \cup DOMAIN g |-> IF x \in DOMAIN f THEN f[x] ELSE g[x]]

\* mail: 0 no address, 1 one a browser takes ("a@b"), 2 one the staff page takes
\* ("a@b.c"), 3 one IsEmail takes.
Words(chars, blanks, mail) ==
  [is |-> "words", chars |-> chars, blanks |-> blanks, mail |-> mail]

Empty == Words(0, 0, 0)

Number(thousandths) == [is |-> "number", n |-> thousandths]

\* An id, a date, a flag or a member of an enumeration.
Given(what) == [is |-> "given", what |-> what]

Null == [is |-> "null"]

Length(text) == text.chars + text.blanks
Trimmed(text) == IF text.is = "words" THEN [text EXCEPT !.blanks = 0] ELSE text

-----------------------------------------------------------------------------
(* What the server admits                                                  *)

\* @MinLength (1: @IsNotEmpty) and @MaxLength.
Phrase(least, most) == [is |-> "words", least |-> least, most |-> most]
Unlimited == 1000000
AnyText == Phrase(0, Unlimited)
NotEmpty == Phrase(1, Unlimited)
Secret == Phrase(8, Unlimited)

\* @IsEmail; @IsInt and @Min(1); @IsNumber with two decimals and @Min(0); @IsEnum,
\* @IsDateString, @IsBoolean, ids.
Mail == [is |-> "mail"]
Whole == [is |-> "number", least |-> 1000, step |-> 1000]
Money == [is |-> "number", least |-> 0, step |-> 10]
Choice == [is |-> "given"]

Fits(rule, v) ==
  CASE rule.is = "words"  -> v.is = "words" /\ Length(v) \in rule.least .. rule.most
    [] rule.is = "mail"   -> v.is = "words" /\ v.mail = 3 /\ v.blanks = 0
    [] rule.is = "number" -> v.is = "number" /\ v.n >= rule.least /\ v.n % rule.step = 0
    [] rule.is = "given"  -> v.is = "given"

\* @IsOptional passes what is not sent and null, not an empty text.
Dto(needs, allows) == [needs |-> needs, allows |-> allows]

Alike(rule, fields) == [f \in fields |-> rule]

None == Alike(AnyText, {})

\* The fields a payload is refused for.
Faults(dto, payload) ==
  (DOMAIN payload \ (DOMAIN dto.needs \cup DOMAIN dto.allows))
    \cup {f \in DOMAIN dto.needs : f \in DOMAIN payload => ~Fits(dto.needs[f], payload[f])}
    \cup {f \in DOMAIN dto.allows \cap DOMAIN payload :
            payload[f] # Null /\ ~Fits(dto.allows[f], payload[f])}

CreateBusDto == Dto(Alike(NotEmpty, {"name", "registrationNumber"})
                      ++ Alike(Choice, {"busType", "busClass"}) ++ [seatCapacity |-> Whole],
                    [operatorId |-> Choice])
UpdateBusDto == Dto(None, Alike(AnyText, {"name", "registrationNumber"}) ++ [seatCapacity |-> Whole]
                            ++ Alike(Choice, {"busType", "busClass", "status"}))

CreateRouteDto == Dto(Alike(NotEmpty, {"origin", "destination"}), [operatorId |-> Choice])
UpdateRouteDto == Dto(None, Alike(AnyText, {"origin", "destination"}))

TripFields == Alike(Choice, {"busId", "routeId", "departureTime", "arrivalTime"})
CreateTripDto == Dto(TripFields ++ [price |-> Money], [operatorId |-> Choice])
UpdateTripDto == Dto(None, TripFields ++ [price |-> Money])
CancelTripDto == Dto([reason |-> Phrase(1, 255)], None)

\* PartialType for updates.
CreateBoardingPointDto == Dto(Alike(NotEmpty, {"name", "address"}) ++ [routeId |-> Choice],
                      [isActive |-> Choice])
UpdateBoardingPointDto == Dto(None, CreateBoardingPointDto.needs ++ CreateBoardingPointDto.allows)
CreateDroppingPointDto == CreateBoardingPointDto
UpdateDroppingPointDto == UpdateBoardingPointDto

CreateStaffDto == Dto([fullName |-> Phrase(2, Unlimited), email |-> Mail, password |-> Secret],
                      [phoneNumber |-> AnyText])
UpdateStaffDto == Dto(None, [fullName |-> AnyText, email |-> Mail, password |-> Secret,
                             phoneNumber |-> AnyText])

CreateOperatorDto ==
  Dto(Alike(Phrase(2, Unlimited), {"companyName", "slug"}),
      Alike(AnyText, {"logo", "phone", "address", "description", "adminName"})
        ++ Alike(Mail, {"email", "adminEmail"}) ++ [adminPassword |-> Secret])

CreateAdminBookingDto ==
  Dto(Alike(Choice, {"tripId", "seatIds", "boardingPointId", "droppingPointId"})
        ++ Alike(NotEmpty, {"passengerName", "passengerPhone"}),
      [discountType |-> Choice, discountValue |-> [Money EXCEPT !.step = 1]])
ConfirmBookingDto == Dto(CreateAdminBookingDto.needs, None)
CancelBookingDto == Dto([reason |-> Phrase(1, 255)], None)
ReviewRefundDto == Dto(None, [adminNote |-> Phrase(0, 255)])

UpdateProfileDto ==
  Dto([fullName |-> Phrase(1, 100), phoneNumber |-> Phrase(1, 30)],
      Alike(Choice, {"gender", "dateOfBirth"}) ++ Alike(Phrase(0, 50), {"nationalId", "passportNumber"})
        ++ [address |-> Phrase(0, 300), visaInfo |-> Phrase(0, 100)])
ChangePasswordDto == Dto([currentPassword |-> NotEmpty, newPassword |-> Secret], None)

RegisterDto == Dto([fullName |-> Phrase(2, Unlimited), email |-> Mail, password |-> Secret],
                   [phoneNumber |-> AnyText])
LoginDto == Dto([email |-> Mail, password |-> Secret], None)
ForgotPasswordDto == Dto([email |-> Mail], None)
ResetPasswordDto == Dto([token |-> Choice, newPassword |-> Secret], None)

-----------------------------------------------------------------------------
(* What the client sends: the inputs of a form, and the payloads, one or   *)
(* none, for what is filled in.  alike stands for a password typed twice.  *)

\* A select has an empty entry, an option has none.
Inputs(kind, fields) == [f \in fields |-> kind]

AllSaid(d, fields) == \A f \in fields : d[f].chars > 0
AllFilled(d, fields) == \A f \in fields : d[f] \notin {Empty, Null}

\* A browser submits no form whose e-mail field holds something else.
BrowserTakes(text) == text = Empty \/ text.mail >= 1

\* Sent by who manages several companies.
Company(d) == IF d.operatorId = Null THEN None ELSE [operatorId |-> d.operatorId]

\* For a seater of economy class, whose capacity may be typed; Schedule has the others.
BusInputs == Inputs("text", {"name", "registrationNumber"}) ++ Inputs("company", {"operatorId"})
               ++ Inputs("option", {"busType", "busClass", "status"})
               ++ Inputs("number", {"seatCapacity"})
BusForm(new, d) ==
  IF AllSaid(d, {"name", "registrationNumber"}) /\ d.seatCapacity.n > 0
    THEN {[name |-> Trimmed(d.name), registrationNumber |-> Trimmed(d.registrationNumber),
           seatCapacity |-> d.seatCapacity, busType |-> d.busType, busClass |-> d.busClass]
            ++ (IF new THEN Company(d) ELSE [status |-> d.status])}
    ELSE {}

RouteInputs == Inputs("text", {"origin", "destination"}) ++ Inputs("company", {"operatorId"})

\* Mutant of RouteForm: an update carries the company too.
RouteFormScoped(new, d) ==
  IF AllSaid(d, {"origin", "destination"})
    THEN {[origin |-> Trimmed(d.origin), destination |-> Trimmed(d.destination)] ++ Company(d)}
    ELSE {}

\* Two different cities, and no such route yet.
RouteForm(new, d) ==
  IF AllSaid(d, {"origin", "destination"})
    THEN {[origin |-> Trimmed(d.origin), destination |-> Trimmed(d.destination)]
            ++ (IF new THEN Company(d) ELSE None)}
    ELSE {}

TripInputs == Inputs("select", DOMAIN TripFields) ++ Inputs("number", {"price"})
                ++ Inputs("company", {"operatorId"})
\* min={0} step="0.01"; arrival after departure.
TripForm(new, d) ==
  IF AllFilled(d, DOMAIN TripFields) /\ Fits(Money, d.price)
    THEN {[f \in DOMAIN TripFields \cup {"price"} |-> d[f]] ++ (IF new THEN Company(d) ELSE None)}
    ELSE {}

ReasonInputs == Inputs("text", {"reason"})
CancelForm(d) == IF AllSaid(d, {"reason"}) THEN {[reason |-> Trimmed(d.reason)]} ELSE {}

NoteInputs == Inputs("text", {"adminNote"})
Note(d) == IF AllSaid(d, {"adminNote"}) THEN [adminNote |-> Trimmed(d.adminNote)] ELSE None
ApproveForm(d) == {Note(d)}
RejectForm(d) == IF AllSaid(d, {"adminNote"}) THEN {Note(d)} ELSE {}

PointInputs == Inputs("text", {"name", "address"}) ++ Inputs("option", {"isActive"})
PointForm(d) ==
  IF AllSaid(d, {"name", "address"})
    THEN {[routeId |-> Given("chosen"), name |-> Trimmed(d.name), address |-> Trimmed(d.address),
           isActive |-> d.isActive]}
    ELSE {}

StaffInputs == Inputs("text", {"fullName", "phoneNumber", "password"}) ++ Inputs("email", {"email"})
StaffForm(new, d) ==
  IF /\ AllSaid(d, {"fullName", "email"}) /\ d.email.mail >= 2
     /\ new => AllSaid(d, {"password"})
     /\ d.password # Empty => Length(d.password) >= 8
    THEN {[fullName |-> Trimmed(d.fullName), email |-> Trimmed(d.email),
           phoneNumber |-> Trimmed(d.phoneNumber)]
            ++ (IF new \/ AllSaid(d, {"password"})
                  THEN [password |-> Trimmed(d.password)] ELSE None)}
    ELSE {}

OperatorInputs == Inputs("text", {"companyName", "slug", "adminName", "adminPassword"})
                    ++ Inputs("email", {"email", "adminEmail"})
OperatorForm(d) ==
  IF /\ AllFilled(d, DOMAIN OperatorInputs \ {"email"})
     /\ BrowserTakes(d.email) /\ BrowserTakes(d.adminEmail)
    THEN {d} ELSE {}

DeskInputs == Inputs("text", {"name", "phone"}) ++ Inputs("number", {"discountValue"})
                ++ Inputs("select", {"boardingPointId", "droppingPointId", "discountType"})

Passenger(name, phone, d) ==
  [passengerName |-> name, passengerPhone |-> phone,
   boardingPointId |-> d.boardingPointId, droppingPointId |-> d.droppingPointId]
    ++ Alike(Given("chosen"), {"tripId", "seatIds"})

\* Fares has the limits of a discount.
DeskForm(d) ==
  IF AllSaid(d, {"name", "phone"}) /\ AllFilled(d, {"boardingPointId", "droppingPointId"})
    THEN {Passenger(Trimmed(d.name), Trimmed(d.phone), d)
            ++ (IF d.discountType # Null /\ d.discountValue.n > 0
                  THEN [discountType |-> d.discountType, discountValue |-> d.discountValue]
                  ELSE None)}
    ELSE {}

PassengerInputs == Inputs("text", {"name", "phone"})
                     ++ Inputs("select", {"boardingPointId", "droppingPointId"})
PassengerForm(d) ==
  IF AllFilled(d, DOMAIN PassengerInputs) THEN {Passenger(d.name, d.phone, d)} ELSE {}

ProfileInputs == Inputs("text", {"name", "phone", "address", "nid", "passport", "visa"})
                   ++ Inputs("select", {"dob"}) ++ Inputs("option", {"gender"})
\* A date of birth in the past.
ProfileForm(d) ==
  IF AllSaid(d, {"name", "phone"})
    THEN {[fullName |-> Trimmed(d.name), phoneNumber |-> Trimmed(d.phone), gender |-> d.gender,
           address |-> Trimmed(d.address), dateOfBirth |-> d.dob, nationalId |-> Trimmed(d.nid),
           passportNumber |-> Trimmed(d.passport), visaInfo |-> Trimmed(d.visa)]}
    ELSE {}

PasswordInputs == Inputs("text", {"currentPassword", "newPassword"}) ++ Inputs("option", {"alike"})
PasswordForm(d) ==
  IF AllFilled(d, {"currentPassword", "newPassword"}) /\ d.alike = Given("yes")
    THEN {[currentPassword |-> d.currentPassword, newPassword |-> d.newPassword]} ELSE {}

RegisterInputs == Inputs("text", {"fullName", "phoneNumber", "password"})
                    ++ Inputs("email", {"email"}) ++ Inputs("option", {"alike"})
RegisterForm(d) ==
  IF /\ AllFilled(d, DOMAIN RegisterInputs) /\ BrowserTakes(d.email)
     /\ Length(d.fullName) >= 2 /\ d.alike = Given("yes") /\ Length(d.password) >= 8
    THEN {[f \in DOMAIN RegisterInputs \ {"alike"} |-> d[f]]} ELSE {}

LoginInputs == Inputs("email", {"email"}) ++ Inputs("text", {"password"})
LoginForm(d) ==
  IF AllFilled(d, {"email"}) /\ BrowserTakes(d.email) /\ Length(d.password) >= 8 THEN {d} ELSE {}

ForgotInputs == Inputs("email", {"email"})
ForgotForm(d) == IF AllFilled(d, {"email"}) /\ BrowserTakes(d.email) THEN {d} ELSE {}

\* With the token of the link.
ResetInputs == Inputs("text", {"newPassword"}) ++ Inputs("option", {"alike"})
ResetForm(d) ==
  IF Length(d.newPassword) >= 8 /\ d.alike = Given("yes")
    THEN {[token |-> Given("chosen"), newPassword |-> d.newPassword]} ELSE {}

-----------------------------------------------------------------------------
(* What an edit form shows of a row, and what saving it leaves             *)

Or(v, fallback) == IF v \in {Null, Empty} THEN fallback ELSE v

BusOpened(row) == row ++ [operatorId |-> Null]
RouteOpened(row) == row ++ [operatorId |-> Null]
TripOpened(row) == row ++ [operatorId |-> Null]

\* Mutant of PointOpened: every point is shown as active.
PointOpenedActive(row) == [row EXCEPT !.isActive = Given("yes")]

PointOpened(row) == row

StaffOpened(row) == [row EXCEPT !.password = Empty, !.phoneNumber = Or(@, Empty)]

ProfileOpened(row) ==
  [name |-> Or(row.fullName, Words(15, 0, 0)), phone |-> Or(row.phoneNumber, Words(11, 0, 0)),
   gender |-> Or(row.gender, Given("yes")), address |-> Or(row.address, Empty),
   dob |-> row.dateOfBirth, nid |-> Or(row.nationalId, Empty),
   passport |-> Or(row.passportNumber, Empty), visa |-> Or(row.visaInfo, Empty)]

\* Prisma sets what it is given.
Updating(row, payload) == [f \in DOMAIN row |-> IF f \in DOMAIN payload THEN payload[f] ELSE row[f]]

\* updateStaff.
UpdatingStaff(row, payload) ==
  Updating(row, [f \in {g \in DOMAIN payload : g = "phoneNumber" \/ payload[g] # Empty} |-> payload[f]])

\* Alike up to blanks around a text and to none at all.
Unchanged(v, w) == Trimmed(Or(v, Empty)) = Trimmed(Or(w, Empty))
-----------------------------------------------------------------------------
(* The forms by name                                                       *)

InputsOf ==
  [bus |-> BusInputs, route |-> RouteInputs, trip |-> TripInputs, cancelTrip |-> ReasonInputs,
   cancelBooking |-> ReasonInputs, approve |-> NoteInputs, reject |-> NoteInputs,
   boarding |-> PointInputs, dropping |-> PointInputs, staff |-> StaffInputs, operator |-> OperatorInputs,
   desk |-> DeskInputs, passenger |-> PassengerInputs, profile |-> ProfileInputs,
   password |-> PasswordInputs, register |-> RegisterInputs, login |-> LoginInputs,
   forgot |-> ForgotInputs, reset |-> ResetInputs]

\* A form of its own for what is there already.
Editable == {"bus", "route", "trip", "boarding", "dropping", "staff", "profile"}

Submitted(name, new, d) ==
  CASE name = "bus"      -> BusForm(new, d)  [] name = "route"     -> RouteForm(new, d)
    [] name = "trip"     -> TripForm(new, d) [] name = "staff"     -> StaffForm(new, d)
    [] name \in {"cancelTrip", "cancelBooking"} -> CancelForm(d)
    [] name = "approve"  -> ApproveForm(d)   [] name = "reject"    -> RejectForm(d)
    [] name \in {"boarding", "dropping"} -> PointForm(d)
    [] name = "operator" -> OperatorForm(d)
    [] name = "desk"     -> DeskForm(d)      [] name = "passenger" -> PassengerForm(d)
    [] name = "profile"  -> ProfileForm(d)   [] name = "password"  -> PasswordForm(d)
    [] name = "register" -> RegisterForm(d)  [] name = "login"     -> LoginForm(d)
    [] name = "forgot"   -> ForgotForm(d)    [] name = "reset"     -> ResetForm(d)

DtoOf(name, new) ==
  CASE name = "bus"   -> IF new THEN CreateBusDto ELSE UpdateBusDto
    [] name = "route" -> IF new THEN CreateRouteDto ELSE UpdateRouteDto
    [] name = "trip"  -> IF new THEN CreateTripDto ELSE UpdateTripDto
    [] name = "boarding" -> IF new THEN CreateBoardingPointDto ELSE UpdateBoardingPointDto
    [] name = "dropping" -> IF new THEN CreateDroppingPointDto ELSE UpdateDroppingPointDto
    [] name = "staff" -> IF new THEN CreateStaffDto ELSE UpdateStaffDto
    [] name = "cancelTrip" -> CancelTripDto [] name = "cancelBooking" -> CancelBookingDto
    [] name \in {"approve", "reject"} -> ReviewRefundDto
    [] name = "operator" -> CreateOperatorDto [] name = "desk"     -> CreateAdminBookingDto
    [] name = "passenger" -> ConfirmBookingDto [] name = "profile" -> UpdateProfileDto
    [] name = "password" -> ChangePasswordDto [] name = "register" -> RegisterDto
    [] name = "login"    -> LoginDto          [] name = "forgot"   -> ForgotPasswordDto
    [] name = "reset"    -> ResetPasswordDto

Opened(name, row) ==
  CASE name = "bus"   -> BusOpened(row)   [] name = "route" -> RouteOpened(row)
    [] name = "trip"  -> TripOpened(row)
    [] name \in {"boarding", "dropping"} -> PointOpened(row)
    [] name = "staff" -> StaffOpened(row) [] name = "profile" -> ProfileOpened(row)

Saved(name, row, payload) ==
  IF name = "staff" THEN UpdatingStaff(row, payload) ELSE Updating(row, payload)
=============================================================================
