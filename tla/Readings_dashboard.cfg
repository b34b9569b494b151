\* The dashboard of savings computed from rows.
SPECIFICATION ReadingsSpec
CONSTANTS
  Brands = {"victron", "growatt"}
  DayLen = 2
  DaysPerWeek = 2
  DaysPerMonth = 3
  ServerOffset = 0
  LagosOffset = 1
  Ratings = {60}
  Prices = {1000}
  MaxRows = 3
  LastHour = 6
  NaN = NaN
  MonthStarts = {0, 3, 4, 6}
  MonthSpan = 2
  LastMoment = 9
  MaxRaised = 1
  MaxOccurrences = 3
  Thresholds = {20}
  Hours = {5, 6, 18, 19}
  CriticalSoc = 15
  LowSoc = 30
  Charges = {12, 20, 25, 30, 80}
  Loads = {10, 47, 48}
  Suns = {0, 7, 30}
  Capacities = {0, 1, 500}
  Panels = {0, 50}
  Draws = {1, 2}
  Yields = {1}
  Missing = Missing
INVARIANTS
  DashboardCountsToday
CHECK_DEADLOCK FALSE
