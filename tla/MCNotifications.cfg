\* Settings: two overlapping changes, with the registrations, a clean-up and a
\* delivery that overlap them; three endpoints at most, two devices.
SPECIFICATION Notifications
CONSTANTS
  Tab = {t1}
  Change = {c1, c2}
  MaxEndpoints = 3
  MaxDevices = 2
  Hour = {8, 22}
  NoHour = NoHour
  Evening = 22
  Morning = 8
SYMMETRY Symmetry
INVARIANT LadderEnds
PROPERTIES
  NoSettingLost
  LiveRegistrationStays
  CooldownKept
  
