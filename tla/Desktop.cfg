CONSTANTS
    Letters <- MCLetters
    Digits <- MCDigits
    Flashes = 2
    FieldWidth = 3
    DialogWidth = 8
    FormWidth = 16
    ListHeightWanted = 2
    MaxLength = 6
    PartLength = 1
    MinName = 1
    MinPassword = 1
    MaxHistory = 2
    ChatPlace <- MCChatPlace
    EntryPlace <- MCEntryPlace
    Openings <- MCOpenings
    Zones <- MCZones
    Steps = 3
    Losses = 1
    Backlog = 0
SPECIFICATION Spec
INVARIANTS
    Painted
    InTurn
    Unwound
    Sealed
CHECK_DEADLOCK FALSE
