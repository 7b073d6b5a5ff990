SPECIFICATION Spec
CONSTANTS
  Unset = Unset
  Text = Text
  Operators = {c1, c2}
  NoOperator = NoOperator
  Refused = Refused
  Minutes <- MCMinutes
  Settings <- MCSettings
  Coaches <- MCCoaches
  Typed = {3, 28, 36, 40}
  Prices = {0, 700}
  Counts = {1, 4}
  Discounts <- MCDiscounts
  Filled <- MCFilled
  Rows <- MCRows
  Inputtable <- MCInputtable
  MaxChanges = 1
INVARIANTS
  AnswersAreReadAlike
  LabelsIdentifySeats
  RowsAreDrawnWhole
  LinksOpen
  PagesAreServed
  SeatsFollowEdits
  TimetableRuns
  QuotesAreCharged
  DurationsFit
  FormsAreAccepted
  UntouchedFormsChangeNothing
PROPERTIES
  PreviewsHold
CHECK_DEADLOCK FALSE
