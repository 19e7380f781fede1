SPECIFICATION FairSpec
CONSTANTS
    r1 = r1
    r2 = r2
    s1 = s1
    o1 = o1
    Req = {r1, r2}
    Session = {s1}
    SessionOf <- OneSession
    Origin = {o1}
    Unnamed = {}
    NoAccount = NoAccount
    Account = {a1}
    Wallet = {w1}
    Stored <- AllAllowed
    Methods = {"eth_sendTransaction"}
    Complete = {TRUE}
    Answer <- Tx
    Refused = Refused
    NotFound = NotFound
    Nobody = Nobody
    Own = Own
    MaxTx = 2
    Confirmed = {r1}
    PoolSize = 2
    ScreenPopup = 1
    Faults = {"step", "throw"}
    Closed = Closed
PROPERTY TransactionAnswered
CHECK_DEADLOCK FALSE
