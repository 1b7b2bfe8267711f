CONSTANTS
  e1 = e1
  u1 = u1
  u2 = u2
  Events = {e1}
  Users = {u1}
  Categories = {"PAYMENT"}
  Ticks = {k1}
  Recipients <- OneUser
  CategoryOf <- MCCategoryOf
  Mandatory = {"PAYMENT"}
  Templates <- InAppTemplate
  Registered = {}
  Switchable <- MCSwitchable
  MaxAttempts = 5
  MaxFaults = 0
  MaxLost = 0
SPECIFICATION FairSpec
PROPERTY PipelineDelivers
