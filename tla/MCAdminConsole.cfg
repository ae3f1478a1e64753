CONSTANTS
    Tables = {"pin", "standing"}
    PageSize = 1
    MaxRows = 3
    MaxReads = 2
    MaxViews = 1
SPECIFICATION Spec
INVARIANTS SavedIsShown SpinnerTells AuditInOrder
