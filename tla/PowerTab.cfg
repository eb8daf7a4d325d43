CONSTANTS
    None = None
    Wrong <- OneWrong
    Right = "right"
    MaxCalls = 2
SPECIFICATION FairSpec
CHECK_DEADLOCK FALSE
INVARIANTS
    TypeOK
    StopIsConfirmed
    OkMeansStopping
    PasswordIsForgotten
PROPERTIES
    WindowAnswers
    ConfirmsInTwoSteps
