\* Three messages of up to two fragments, and two texts.
SPECIFICATION FactorySpec
CONSTANTS
    MaxMessages = 3
    MaxParts = 2
    MaxTexts = 2
INVARIANTS FailedStaysFailed AbortsOnlyWhenLate LayersAgree DeliversMessages AnswersAreHeard
PROPERTIES ConstructorReturns
CHECK_DEADLOCK FALSE
