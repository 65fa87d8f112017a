SPECIFICATION Spec
CONSTANTS
    NoRow = NoRow
    Countries <- MCCountries
    Spellings <- MCSpellings
    MaxPolicies = 1
    Lossy = FALSE
    Failing = FALSE
INVARIANT AsksForTheNextPiece
