SPECIFICATION Spec
CONSTANTS
  Operators = {c1, c2}
  NoOperator = NoOperator
  Refused = Refused
  Users = {u1, u2, u3, u4}
  NoUser = NoUser
  Emails = {e1, e2, e3}
  NoEmail = NoEmail
  Slots = {s1, s2}
  MaxRequests = 2
  FirstAdmin = u1
  FirstOperator = u2
  FirstCompany = c1
  FirstEmail = e1
  SecondEmail = e2
INVARIANTS
  EmailsIdentifyAccounts
  CompaniesAreKeptApart
PROPERTIES
  LostCompaniesStayLost
  LastAdminFallsToARaceOnly
CHECK_DEADLOCK FALSE
