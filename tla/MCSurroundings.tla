---------------------------- MODULE MCSurroundings -----------------------------
(* A small instance of Surroundings for TLC. *)
EXTENDS Surroundings, TLC

\* Peers with a short id, a long one, and one cut inside a character.
MCPeerIds == {"short", "long", "split"}

Ip(form, net, host_) == [form |-> form, net |-> net, host |-> host_]
At(ip, port) == [ip |-> ip, port |-> port]

Home == Ip("v6", "net6", 1)
MCSources == {Home, Ip("v4", "net4", 1), Ip("mapped", "net4", 1)}
MCCandidates ==
    {At(Ip("v6", "unspecified", 0), 1), At(Ip("v6", "net6", 2), 1),
     At(Ip("v6", "far6", 1), 2), At(Ip("v4", "net4", 1), 1),
     At(Ip("mapped", "net4", 1), 2), At(Ip("v4", "net4", 2), 1),
     At(Ip("mapped", "private", 1), 3)}

Lists(S, n) == UNION {[1..k -> S] : k \in 0..n}

Offer(network, advertised, source) ==
    [network |-> network, advertised |-> advertised, source |-> source]

MCAnyOffers == {Offer("n1", l, s) : l \in Lists(MCCandidates, 3), s \in MCSources}

\* Peers in the south west and at the pole, peers with a locatable address
\* behind one that is not, and peers nowhere the database knows.
MCOffers ==
    [p \in MCPeerIds |->
        CASE p = "long" ->
                {Offer("n1", <<At(Ip("v6", "net6", 2), 1)>>, Home),
                 Offer("n2", <<At(Ip("v4", "net4", 1), 1), At(Ip("mapped", "net4", 1), 2)>>,
                       Ip("v4", "net4", 1)),
                 Offer("n1", <<At(Ip("v6", "net6", 2), 1), At(Ip("v6", "unspecified", 0), 2)>>,
                       Home),
                 Offer("n1", <<>>, Home)}
          [] p = "short" ->
                {Offer("n2", <<At(Ip("v4", "far4", 1), 1)>>, Ip("v4", "far4", 1)),
                 Offer("n1", <<At(Ip("v4", "documentation", 1), 1)>>,
                       Ip("v4", "documentation", 1))}
          [] p = "split" -> {Offer("n2", <<>>, Home)}]

MCGeoDb ==
    (<<"net6", 1>> :> [lat |-> 90, lon |-> 180]) @@ (<<"net4", 1>> :> [lat |-> -3, lon |-> -1])
      @@ (<<"far4", 1>> :> [lat |-> -4, lon |-> -5])
      @@ (<<"documentation", 1>> :> [lat |-> 0, lon |-> 4])

Rec(key, providers) == [key |-> key, providers |-> providers]
MCAnswers ==
    {[records |-> <<>>, truncated |-> FALSE],
     [records |-> <<Rec(1, 2), Rec(2, 1)>>, truncated |-> FALSE],
     [records |-> <<Rec(2, 3), Rec(2, 1)>>, truncated |-> FALSE],
     [records |-> <<Rec(3, 3), Rec(2, 1)>>, truncated |-> TRUE]}

\* One configuration the service's environment carries over in full, and the
\* defaults.
MCConfigs == {{}, {"limits", "tls_cert", "tls_key"}}
===============================================================================
