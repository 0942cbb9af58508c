SPECIFICATION BookingSpec
CONSTANTS
    w1 = w1  w2 = w2  b1 = b1  b2 = b2
    u1 = u1  u2 = u2  d1 = d1  d2 = d2  m1 = m1
    s1 = s1  s2 = s2  visitor = visitor
    site = site  home = home  none = none
    NoStatus = none
    Workers = {w1}
    Bookers = {b1, b2}
    Actors = {u1}
    Users = {u1}
    Roles <- MCRoles
    Leads <- NoLeads
    Dates = {d1}
    Months = {m1}
    MonthOf <- OneMonth
    WorkingDays = {}
    Blocked <- NothingBlocked
    Statuses = {site}
    OnSiteStatuses = {site}
    AskedHalves = {"none"}
    AutoSync = {}
    DisableFloorplans = FALSE
    Seats = {s1}
    Guests = {visitor}
    BookedHalves = {"full", "AM"}
    MaxBookings = 2
    Faults = TRUE
INVARIANT OverlapsWereConcurrent
SYMMETRY MCSymmetry
