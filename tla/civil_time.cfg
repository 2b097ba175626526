SPECIFICATION Spec
CONSTANTS
  LastDay = 213503
  TickedDays = 2
  CountedDays = 12000
  NanosPerSecond = 2
INVARIANTS DateIsCalendar TimestampIsClock
CHECK_DEADLOCK FALSE
