\* Two clients on one network.
SPECIFICATION Spec
CONSTANTS
    Peers = {p1, p2}
    Networks = {n1}
    talker = talker
    listener = listener
    Conns = {talker, listener}
    Vacant = Vacant
    QueueCap = 4
    MaxFrames <- RegisterAndAsk
SYMMETRY Symmetric
INVARIANTS ViewStaysFresh
