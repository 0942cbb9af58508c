SPECIFICATION ActivitiesSpec
CONSTANTS
    w1 = w1  u1 = u1  d1 = d1  d2 = d2  m1 = m1
    Workers = {w1}
    Users = {u1}
    Dates = {d1}
    Months = {m1}
    MonthOf <- OneMonth
    Shares = {50, 100}
    MaxLines = 2
    MaxActivities = 2
    Faults = TRUE
PROPERTY CertifiedActivitiesFrozen
