SPECIFICATION OutsideSpec
CONSTANTS
    Thread = {th1, th2, th3}
    Wallet = {w1, w2}
    Empty = Empty
    Keep = 2
    MaxNow = 9
    Base <- BaseFiles
    Listed <- ListedFiles
    downloadRetries = 2
    Versions <- SomeVersions
    None = None
    Messages <- SomeMessages
    MaxPlugs = 2
    Account = {a1, a2}
    Slot = {s1, s2}
    MaxChanges = 3
    Nobody = Nobody
    Panel <- SomePanel
    MaxTicks = 3
    Task = {t1, t2}
    GUI = GUI
    Node = {n1, n2}
    Public = Public
    Legacy = Legacy
    Unset = Unset
    MaxCalls = 4
    Width = 20
    GasDecimals = 2
    Decimals = {0, 1, 4}
    Digit = {0, 1, 9}
    MaxDigits = 2
    Thrown = Thrown
    Number = {0, 1, 2, 7, 33, 66, 1048, 1049, 1051, 1052}
INVARIANTS
    OutsideTypeOK
    Expires
    WholeOrNothing
    OneVersion
    Framing
    HandleIsOpen
    SignatureIsGenuine
    BalancesMatch
    RightPlaces
    EndpointWhole
    LiveIsStored
    AmountsExact
PROPERTIES
    PopupCloses
    SigningEnds
    HeaderSettles
    SetterEnds
CHECK_DEADLOCK FALSE
