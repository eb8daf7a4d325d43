CONSTANTS
    None = None
    Pid <- MCPid
    Name <- MCName
    Mem <- MCMem
    Needles <- MCNeedles
    NoFilter <- MCNoFilter
    Starts <- MCStarts
    MaxChanges = 1
    MaxKills = 2
SPECIFICATION Spec
INVARIANTS
    TypeOK
PROPERTIES
    RowsAccount
    CountAgrees
    ConfirmsInTwoSteps
ACTION_CONSTRAINT
    ChangesEnd
