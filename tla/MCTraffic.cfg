\* Two connections, two ids, two networks.
SPECIFICATION Spec
CONSTANTS
    Peers = {p1, p2}
    Networks = {n1, n2}
    talker = talker
    listener = listener
    Conns = {talker, listener}
    Vacant = Vacant
    QueueCap = 2
    MaxFrames <- TalkAndListen
VIEW WithoutViews
SYMMETRY Symmetric
INVARIANTS TrafficTypeOK NetworkIsolation AuthenticSender OrderedDelivery
