\* Pages: three peers, lists of up to three candidates, two published.
\* DHT: two nodes, three answers over three keys, two published.
\* Process: both hosts, every configuration, every listener refused or not.
\* Service: any host, two invocations in a row of any command by any caller.
SPECIFICATION Spec
CONSTANTS
    PeerIds <- MCPeerIds
    LongIds = {"long", "split"}
    SplitIds = {"split"}
    Offers <- MCOffers
    AnyOffers <- MCAnyOffers
    DocPaths = {"/stats.json", "/map.json"}
    MaxDialable = 2
    CellDeg = 5
    GeoDb <- MCGeoDb
    Nodes = {n1, n2}
    Answers <- MCAnswers
    MaxAnswers = 3
    MaxPublishedKeys = 2
    Configs <- MCConfigs
    MaxCommands = 2
INVARIANTS
    DialableSound StatsHonest MapHonest
    ViewIsTheUnion AnswersConserved
    ExitTellsWhy
    UninstallTellsTruth InstallTellsTruth RefusedInstallHarmless OnlyAddressedChange
PROPERTIES
    WholeOrEnded StopAnswered
