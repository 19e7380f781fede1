SPECIFICATION WsFairSpec
CONSTANTS
    Session = {s1}
    Task = {t1, t2}
    Caller = {gui, settings}
    Gui = gui
    Handler = {h1}
    Threads = 2
    Nobody = Nobody
INVARIANTS WsTypeOK StopQuiesces OneOperation
PROPERTIES StopReturns WriterReturns
CHECK_DEADLOCK FALSE
