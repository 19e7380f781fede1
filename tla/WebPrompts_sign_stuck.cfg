SPECIFICATION FairSpec
CONSTANTS
    r1 = r1
    r2 = r2
    s1 = s1
    o1 = o1
    Req = {r1, r2}
    Session = {s1}
    SessionOf <- OneSession
    Origin = {o1}
    Unnamed = {}
    NoAccount = NoAccount
    Account = {a1}
    Wallet = {w1}
    Stored <- AllAllowed
    Methods = {"eth_sign"}
    Complete = {TRUE}
    Answer <- Tx
    Refused = Refused
    NotFound = NotFound
    Nobody = Nobody
    Own = Own
    MaxTx = 1
    Confirmed = {r1, r2}
    PoolSize = 4
    ScreenPopup = 0
    Faults = {}
    Closed = Closed
PROPERTY SignAnswered
CHECK_DEADLOCK FALSE
