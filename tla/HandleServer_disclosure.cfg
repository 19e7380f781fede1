SPECIFICATION Spec
SYMMETRY Alike
CONSTANTS
    r1 = r1
    r2 = r2
    s1 = s1
    s2 = s2
    Req = {r1, r2}
    Session = {s1, s2}
    SessionOf <- OwnSession
    Origin = {o1}
    Unnamed = {"none"}
    NoAccount = NoAccount
    Account = {a1, a2}
    Wallet = {w1}
    Stored <- Unknown
    Methods = {"eth_accounts", "eth_sign", "eth_chainId", "other"}
    Complete = {TRUE, FALSE}
    Answer = {v1}
    Refused = Refused
    NotFound = NotFound
    Nobody = Nobody
CONSTRAINT OnlyAsked
INVARIANTS
    ConsentBeforeDisclosure
PROPERTY FreshAccount
