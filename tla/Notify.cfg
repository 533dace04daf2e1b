\* With Telegram and without; the hub comes and goes.
SPECIFICATION NotifyFairSpec
CONSTANTS
  Sessions = {s1}
  EscalationMs = 2
  PhoneDelays = {2, 3}
  RecheckMs = 1
  MaxAlerts = 2
  LastInput = 4
  Horizon = 8
  Nothing = Nothing
INVARIANT AlertsKeptApart
PROPERTIES PhoneInTime TellsPhone
CHECK_DEADLOCK FALSE
