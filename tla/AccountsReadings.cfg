\* Members of one inverter; the sign-up of one address; the grades of one reading;
\* savings computed from rows; the times that the reports of a series tell of.
SPECIFICATION SideSpec
CONSTANTS
  None = None
  Requests = {q1, q2}
  MaxFaults = 1
  People = {e1, e2}
  Owner = owner
  Rows = {m1, m2}
  Tokens = {t1, t2}
  Roles = {"admin", "viewer"}
  Emails = {e1}
  GoogleIds = {g1}
  Codes = {c1, c2}
  MaxTries = 2
  Brands = {"victron", "growatt"}
  DayLen = 2
  DaysPerWeek = 2
  DaysPerMonth = 3
  ServerOffset = 0
  LagosOffset = 1
  Ratings = {60}
  Prices = {1000}
  MaxRows = 3
  LastHour = 6
  NaN = NaN
  MonthStarts = {0, 3, 4, 6}
  MonthSpan = 2
  LastMoment = 9
  MaxRaised = 1
  MaxOccurrences = 3
  Thresholds = {20}
  Hours = {5, 6, 18, 19}
  CriticalSoc = 15
  LowSoc = 30
  Charges = {12, 20, 25, 30, 80}
  Loads = {10, 47, 48}
  Suns = {0, 7, 30}
  Capacities = {0, 1, 500}
  Panels = {0, 50}
  Draws = {1, 2}
  Yields = {1}
  Missing = Missing
SYMMETRY Symmetry
INVARIANTS
  MembersWereInvited
  PatientGuesses
  VerifiedAreSubscribed
  SeriesTellsOnce
  ChartsAddUp
  
  WorseNeverMilder
  AlarmInTime
  InsightsAgree
PROPERTIES
  MembersKeepTheirPlace
  SpentInviteAdmitsNobody
  ResetTokenUsedUp
CHECK_DEADLOCK FALSE
