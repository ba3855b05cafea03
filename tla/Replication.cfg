CONSTANTS
    Core = "core"
    Apis <- MCApis
    Ord <- MCOrd
    Writers = {"main", "star"}
    Clocks = {0, 2}
    DeleteWins = FALSE
    MaxWrites = 3
    Lossy <- MCLossy
    MaxLost = 1
SPECIFICATION FairTables
INVARIANTS RowAboveTombs VersionsDiffer
PROPERTIES Converges
CHECK_DEADLOCK FALSE
