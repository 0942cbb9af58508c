SPECIFICATION TimesheetsSpec
CONSTANTS
    w1 = w1  w2 = w2  u1 = u1  d1 = d1  m1 = m1
    a1 = a1  a2 = a2  b1 = b1  b2 = b2
    Workers = {w1, w2}
    Users = {u1}
    Dates = {d1}
    Months = {m1}
    MonthOf <- OneMonth
    Shares = {50, 100}
    MaxLines = 2
    MaxActivities = 2
    Faults = TRUE
    Projects = {b1, b2}
    Settings <- MCSettings
    Savers = {a1, a2}
    MaxDays = 1
INVARIANT TimesheetsTypeOK
INVARIANT WithinAllocation
PROPERTY CertifiedActivitiesKept
PROPERTY CertifiedWhenCovered
PROPERTY SavesMatchPage
PROPERTY CertifiedTimeKept
SYMMETRY TimesheetsSymmetry
