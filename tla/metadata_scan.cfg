SPECIFICATION ScanSpec
CONSTANTS
    Paths <- ManyPaths
    Listings <- ManyListings
    Worlds <- ManyWorlds
    Edits <- SomeEdits
    MaxEdits = 1
    IntRun = 2
    FloatRun = 1
INVARIANTS
    RefusalIsOfTheFirstOffender
    StatusIsOfTheWorstFile
\* A scan ends.
CHECK_DEADLOCK FALSE
