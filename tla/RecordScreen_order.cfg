SPECIFICATION Spec
CONSTANTS
  m1 = m1
  m2 = m2
  Machines = {m1, m2}
  Contents <- MCContents
  DayLength = 2
  Calendar <- MCCalendar
  All = All
  NoMachine = NoMachine
  MaxLoads = 2
  MaxOpens = 1
INVARIANT NewestFirst
CHECK_DEADLOCK FALSE
