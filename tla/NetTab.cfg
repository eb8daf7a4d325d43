CONSTANTS
    None = None
    MaxPrefix = 32
    Numbers = {32, 33}
    Texts <- MCTexts
    Prefilled <- MCPrefilled
    Tiles <- MCTiles
    Passwords = {"right"}
    Right = "right"
    MaxApplies = 2
SPECIFICATION FairSpec
INVARIANTS
    TypeOK
    ArgvParses
    PasswordIsForgotten
PROPERTIES
    ApplyReported
    ConfirmsInTwoSteps
ACTION_CONSTRAINT
    FormStands
