SPECIFICATION PlainSpec
CONSTANTS
    Clients = {c1, c2}
    Bodies = {b1}
    NoBody = NoBody
    MaxPuts = 1
INVARIANT NoTornState
