SPECIFICATION CellsSpec
CONSTANTS
    Texts = {blank, text}
    Empty = blank
    MaxCols = 4
    EditedCells <- SomeCells
    Incidents = TRUE
INVARIANTS
    CellsTypeOK
    HiddenTextsAreFirstColumn
PROPERTIES
    SaveKeepsTexts
    FailedSavesLoseKnownTexts
    AddingKeepsTexts
    OpeningShowsMostTexts
