SPECIFICATION CalendarSpec
CONSTANTS
  LastYear = 2047
  Hours = {0, 11, 23}
  Zones <- TheZones
INVARIANTS CalendarAgrees LocalTimeAgrees
CHECK_DEADLOCK FALSE
