SPECIFICATION FairSpec
CONSTANTS
    Apps = {0, 1, 2}
    Catalogs <- AllCatalogs
    Selections <- SomeSelections
INVARIANTS
    ResultIsInstallOrder
    ErrorsAreExact
PROPERTY
    Terminates
CHECK_DEADLOCK FALSE
