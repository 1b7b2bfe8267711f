CONSTANTS
  e1 = e1
  u1 = u1
  u2 = u2
  Events = {e1}
  Users = {u1}
  Categories = {"PAYMENT"}
  Ticks = {k1, k2}
  Recipients <- OneUser
  CategoryOf <- MCCategoryOf
  Mandatory = {"PAYMENT"}
  Templates <- BothTemplates
  Registered = {"IN_APP"}
  Switchable <- MCSwitchable
  MaxAttempts = 2
  MaxFaults = 1
  MaxLost = 1
SPECIFICATION Spec
INVARIANTS
  TypeOK
  ProcessedIsExpanded
  AttemptsAreCounted
  NoDoubleSend
  SentWasDelivered
PROPERTIES
  RowsGoForward
