SPECIFICATION Spec
CONSTANTS
    Descriptor <- DescriptorMC
    RuleSets <- RuleSetsMC
    Methods <- MethodsMC
    Paths <- PathsMC
    Values <- ValuesMC
    Contents <- ContentsMC
    Queries <- QueriesMC
    Bodies <- BodiesMC
INVARIANTS PathVarsStand EscapedValuesSurvive FirstFitWins GoAgrees
CHECK_DEADLOCK FALSE
