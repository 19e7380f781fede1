SPECIFICATION FairSpec
CONSTANTS
    r1 = r1
    r2 = r2
    s1 = s1
    o1 = o1
    Req = {r1}
    Session = {s1}
    SessionOf <- OneSession
    Origin = {o1}
    Unnamed = {}
    NoAccount = NoAccount
    Account = {a1}
    Wallet = {w1}
    Stored <- Unknown
    Methods = {"eth_accounts"}
    Complete = {TRUE}
    Answer <- Tx
    Refused = Refused
    NotFound = NotFound
    Nobody = Nobody
    Own = Own
    MaxTx = 1
    Confirmed = {r1}
    PoolSize = 4
    ScreenPopup = 0
    Faults = {}
    Closed = Closed
PROPERTY PermissionAnswered
CHECK_DEADLOCK FALSE
