SPECIFICATION MCSpec
CONSTANTS
    a = a
    b = b
    t = t
    p = p
    q = q
    Clients = {a, b}
    Pfxs = {p, q}
    Commands <- Mixed
    Talkers = {a}
    MaxLines = 2
    SocketRoom = 2
    OutRoom = 2
    DropLimit = 1
    MaxConnects = 3
    MaxCommands = 2
    MayHang = {}
    MayLeave = {b}
CHECK_DEADLOCK FALSE
INVARIANTS FiltersCounted HeardInOrder
PROPERTIES PreciousTakesBusDown EverybodyIsServed
