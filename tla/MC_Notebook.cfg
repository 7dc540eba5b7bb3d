CONSTANTS
    c1 = c1
    c2 = c2
    b1 = b1
    Contents <- NBContents
    Blanks <- NBBlanks
    InitCols = 2
    MaxCols = 3
    Rows <- NBRows
    MaxPending = 1
SPECIFICATION Spec
INVARIANT TypeOK
INVARIANT LayoutIndexed
INVARIANT ContentFieldsPlaced
PROPERTY DeletedBlankLeaves
