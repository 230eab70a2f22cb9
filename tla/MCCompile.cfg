CONSTANTS
    Source = 2
    Object = 1
    Diags = 1
SPECIFICATION Spec
INVARIANT OutputWhole
INVARIANT ExitHonest
INVARIANT AnswerAfterInput
PROPERTY ClientEnds
PROPERTY JobReported
