SPECIFICATION MCSpec
INVARIANTS
    TypesOK
    FormsFit
    LogIsShown
    CodecsFit
    DriversAgree
    
    UpgradeCompletes
CHECK_DEADLOCK FALSE
