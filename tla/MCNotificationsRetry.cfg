CONSTANTS
  e1 = e1
  u1 = u1
  u2 = u2
  Events = {e1}
  Users = {u1, u2}
  Categories = {"PAYMENT"}
  Ticks = {k1}
  Recipients <- TwoUsers
  CategoryOf <- MCCategoryOf
  Mandatory = {"PAYMENT"}
  Templates <- InAppTemplate
  Registered = {"IN_APP"}
  Switchable <- MCSwitchable
  MaxAttempts = 2
  MaxFaults = 1
  MaxLost = 0
SPECIFICATION FairSpec
PROPERTY SafeToRetry
