\* Two connections that use one id after another.
SPECIFICATION Spec
CONSTANTS
    c1 = c1 c2 = c2 c3 = c3 p1 = p1 p2 = p2 i1 = i1 i2 = i2
    Conns = {c1, c2}
    Peers = {p1}
    Networks = {n1}
    Ips = {i1}
    Source <- OneSource
    Verified <- PlainListener
    Vacant = Vacant NoConn = NoConn AnyPeer = AnyPeer NoIdentity = NoIdentity
    MaxConnections = 2
    MaxConnectionsPerIp = 2
    MaxRegistrationsPerIp = 2
SYMMETRY Symmetry
PROPERTIES LiveIncumbentKeepsSlot
