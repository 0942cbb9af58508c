SPECIFICATION ProjectsReportSpec
CONSTANTS
    Declarers = {1}
    Lengths <- LengthsOfMonths
    MaxMonths = 3
    MaxEntries = 1
INVARIANT DefaultIsThreeMonths
CHECK_DEADLOCK FALSE
