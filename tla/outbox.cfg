SPECIFICATION Spec
CONSTANTS
  u1 = u1  sms = sms  alert = alert
  Rows = {sms, alert}
  Users = {u1}
  KindOf <- MixedRows
  UserOf <- ToOne
  MaxAttempts = 2
  MaxFailures = 2
  MaxChanges = 1
INVARIANTS DeliveredOnce SentWasDelivered
PROPERTIES AlertsSettle
CHECK_DEADLOCK FALSE
