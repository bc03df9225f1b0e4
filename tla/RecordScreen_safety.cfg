SPECIFICATION Spec
CONSTANTS
  m1 = m1
  m2 = m2
  Machines = {m1, m2}
  Contents <- MCContents
  DayLength = 2
  Calendar <- MCCalendar
  All = All
  NoMachine = NoMachine
  MaxLoads = 3
  MaxOpens = 2
INVARIANTS TypeOK SharedIsSnapshot RowsSorted DayView
PROPERTIES DateQueryExact FilterExact
CHECK_DEADLOCK FALSE
