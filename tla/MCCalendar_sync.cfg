SPECIFICATION FairCalendarSpec
CONSTANTS
    w1 = w1  w2 = w2
    u1 = u1  u2 = u2  boss = boss
    d1 = d1  d2 = d2  d3 = d3
    m1 = m1  m2 = m2
    site = site  home = home  none = none
    NoStatus = none
    Workers = {w1, w2}
    Actors = {u1}
    Users = {u1}
    Roles <- MCRoles
    Leads <- NoLeads
    Dates = {d1, d2}
    Months = {m1}
    MonthOf <- OneMonth
    WorkingDays = {d1, d2}
    Blocked <- NothingBlocked
    Statuses = {site}
    AskedHalves = {"none"}
    AutoSync = {u1}
    DisableFloorplans = FALSE
    Faults = FALSE
PROPERTY AutoSyncCatchesUp
