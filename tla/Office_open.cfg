SPECIFICATION OfficeSpec
CONSTANTS
    All = All
    Kinds <- AllKinds
    PageSize = 1
    MaxDocuments = 2
    MaxEdits = 1
    MaxMoves = 2
    Limits = {3, 5}
    DefaultLimit = 5
    MaxStamp = 2
    MaxSaves = 1
INVARIANTS
    RowsFitTheView
    EmptyMeansNone
    RegistrationFollowsTheSetting
    SavedSettingsAreShown
PROPERTIES
    ConfigIsNeverReset
