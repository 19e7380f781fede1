SPECIFICATION KeySpec
CONSTANTS
    Addr = {a1, a2, a3}
    Uuid = {u1, u2, u3, u4}
    Name = {n1}
    Unnamed = Unnamed
    None = None
    Broken = Broken
SYMMETRY Symmetry
INVARIANTS KeyTypeOK ListIsBook EraseForgets
PROPERTIES ImplementsAccountBook
