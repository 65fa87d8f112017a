SPECIFICATION Spec
CONSTANTS
    NoRow = NoRow
    Countries <- MCCountries
    Spellings <- MCSpellings
    MaxPolicies = 2
    Lossy = TRUE
    Failing = TRUE
INVARIANTS
    TypeOK
    OnlyQuotesAreRefused
    ScreenServesState
    HelpIsTwoMessagesAway
    CardShowsTheWords
PROPERTY LateButtonsHaveACause
