SPECIFICATION WebSpec
SYMMETRY Alike
CONSTANTS
    r1 = r1
    r2 = r2
    s1 = s1
    o1 = o1
    Req = {r1, r2}
    Session = {s1}
    SessionOf <- OneSession
    Origin = {o1, o2}
    Unnamed = {"none"}
    NoAccount = NoAccount
    Account = {a1}
    Wallet = {w1}
    Stored <- Unknown
    Methods = {"eth_accounts", "eth_sendTransaction", "eth_sign"}
    Complete = {TRUE, FALSE}
    Answer <- Tx
    Refused = Refused
    NotFound = NotFound
    Nobody = Nobody
    Own = Own
    MaxTx = 1
    Confirmed = {r1, r2}
    PoolSize = 4
    ScreenPopup = 0
    Faults = {"step", "throw", "clear", "wallet"}
    Closed = Closed
INVARIANTS WebTypeOK LockOwnership NoStaleAnswer AllowanceNamesAsker
PROPERTIES ImplementsHandleServer OneQuestionPerSite
CHECK_DEADLOCK FALSE
