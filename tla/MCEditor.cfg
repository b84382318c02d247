SPECIFICATION Spec
CONSTANTS
    MaxGroupId = 2
    MaxCols = 5
    MaxFaults = 2
    MaxKills = 1
INVARIANTS
    EditorShowsAllColumns
    SavedMeansComplete
    EverySaveAnswered
PROPERTIES
    ImplementsNotebook
    AnswersWithoutAdAreTrue
