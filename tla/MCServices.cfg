SPECIFICATION ServicesSpec
CONSTANTS
    a1 = a1  a2 = a2  b1 = b1  b2 = b2  c1 = c1  c2 = c2  k1 = k1  v1 = v1
    Requests = {a1, a2}
    Sessions = {b1, b2}
    Links = {k1}
    Profiles = {c1, c2}
    Passwords = {c1, c2}
    CacheAge = 2
    MaxChanges = 3
    Logins = {1, 2, 3}
    MaxFailures = 5
    Window = 3
    Challenges = {b1, b2}
    Finishes = {a1, a2}
    Keys = {k1}
    MaxSignatures = 2
    People = {"p1", "p2"}
    Teams = {"t1", "t2"}
    Period = {1, 2}
    Weekend = {1}
    Marks = {"site", "off"}
    Billable = {"site"}
    OnSite = {"site"}
    HomeCountries <- MCHomeCountries
    NoCountry = "none"
    HolidayTables <- MCHolidayTables
    Memberships <- MCMemberships
    MaxReportEdits = 2
    NoStatus = "none"
    Staff = {"p1", "p2"}
    Sites = {"s1", "s2"}
    Corporate = {"s2"}
    NoSite = "none"
    Month = {1, 2}
    Weekdays = {1, 2}
    SiteOff <- MCSiteOff
    SiteGuests = {"guest"}
    Domains <- MCDomains
    Loose = {"t4", "t5"}
    HomeSites <- MCHomeSites
    StaffTeams <- MCStaffTeams
    MaxSiteEdits = 3
    Declarers = {1, 2}
    Lengths <- MCLengths
    MaxMonths = 3
    MaxEntries = 1
    Rows = {1, 2}
    Defaults = 2
    MaxStarts = 3
    MaxDropped = 2
    Members = {k1}
    Crews = {"r1", "r2"}
    Horizon <- MCHorizon
    LastDay = 3
    Weekends = {3}
    Vacations <- MCVacations
    FirstDate = 2
    DaysAtFirst <- MCDaysAtFirst
    MaxNotices = 2
    MaxUpsets = 1
    Admins = {a1, a2}
    Owned = {"u1", "f1", "t1", "p1"}
    Owners = {"s1", "d1", "x1"}
    KindOf <- MCKindOf
    MaxDirectoryFaults = 1
    Plans = {a1, a2}
    Desks = {b1, b2}
    Sitters = {c1, c2}
    DeskDates = {1, 2}
    Visitors = {v1}
    MaxDeskRows = 2
    Uploads = {a1, a2}
    Formats = {b1, b2}
    Fans = {k1}
    MaxPlanSteps = 4
    Emails = {b1, b2}
    Squads = {k1}
    Stewards = {a1, a2}
    MaxIds = 2
    DepartureDays = 1
    MaxTeamEdits = 3
    Banners = {b1, b2}
    NewsDates = {1, 2, 3, 4}
    DayOfMonth <- MCDayOfMonth
    Windows <- MCWindows
    RefreshAge = 2
    MaxNewsEdits = 2
    Boss = v1
    Others = {k1}
    Posts = {a1, a2}
    MaxSessions = 4
    MaxSwitches = 4
    Colleagues = {"p1", "p2"}
    Viewer = "p1"
    TeamManagers = {"p1", "p2"}
    CalendarDates = {1}
    StatusNames = {"site"}
    LogLimit = 2
    MaxPageEvents = 3
    MaxSeconds = 2
INVARIANT ServicesTypeOK
INVARIANT StaleAnswersAreBrief
INVARIANT PasswordChangesHold
INVARIANT PenaltyServed
PROPERTY CeremoniesHold
INVARIANT RemindedOnceADay
PROPERTY NobodyForgotten
INVARIANT DanglingWasLate
INVARIANT PageReconciles
INVARIANT SitesReconcile
INVARIANT RangeReconciles
 
INVARIANT DesksTold
INVARIANT ImageKept
INVARIANT MembershipsKept
INVARIANT BannersAreCurrent
INVARIANT ActingEnds
INVARIANT PagesAgree
SYMMETRY MCServicesSymmetry
CHECK_DEADLOCK FALSE
