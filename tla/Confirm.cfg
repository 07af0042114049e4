\* The three kinds of confirmations, two of each in flight, and one form of the media pages.
CONSTANTS
    MaxId = 2
    MaxFetch = 2
    MaxEdits = 1
    MaxLogin = 2
    MaxChecks = 1
    Confirm = {c1, c2}
    Update = {u1, u2}
    CPath = {c1, c2, u1, u2}
    CAnchor = {an}
    CObj = {o1}
    CSha = {"s"}
    NoName = NoName
    CStart = {c1, c2}
    MaxClock = 1
SPECIFICATION ConfirmSpec
SYMMETRY Interchangeable
CHECK_DEADLOCK FALSE
INVARIANTS ConfirmationTypeOK ApplySound
PROPERTIES OnlyWhatWasShown ApplyKeepsPromise UpdateKeepsPromise ConfirmedAsShown ReferencesFollow
