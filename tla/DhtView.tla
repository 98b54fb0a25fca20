-------------------------------- MODULE DhtView --------------------------------
(***************************************************************************)
(* The published view of the content layer (src/dht_view.rs): the union of *)
(* the nodes' answers, a sequence of [from, records, truncated] with       *)
(* records a sequence of [key, providers].  Content keys are numbers, for  *)
(* their order.  `from` is history: the code does not keep who answered.   *)
(***************************************************************************)
EXTENDS Integers, Sequences, FiniteSetsExt

CONSTANT MaxPublishedKeys     \* MAX_PUBLISHED_KEYS

ASSUME DhtViewAssumption == MaxPublishedKeys \in Nat

\* The records of all answers, in order of arrival.
Records(answers) ==
    LET upTo[i \in 0..Len(answers)] ==
            IF i = 0 THEN <<>> ELSE upTo[i - 1] \o answers[i].records
    IN upTo[Len(answers)]

\* Mutant: the providers of every report are summed.
ProvidersSummed(key, recs) ==
    LET sum[i \in 0..Len(recs)] ==
            IF i = 0 THEN 0
            ELSE sum[i - 1] + (IF recs[i].key = key THEN recs[i].providers ELSE 0)
    IN sum[Len(recs)]

\* A slot of the union: the most providers any record gives, and how many
\* records there are.
Providers(key, recs) ==
    LET most[i \in 0..Len(recs)] ==
            IF i = 0 THEN 0
            ELSE LET so_far == most[i - 1] IN
                 IF recs[i].key = key /\ recs[i].providers > so_far
                 THEN recs[i].providers ELSE so_far
    IN most[Len(recs)]

ReportedBy(key, recs) == Cardinality({i \in DOMAIN recs : recs[i].key = key})

\* The order of sort_by: best corroborated, best replicated, then by key.
Before(a, b) ==
    \/ a.reported_by > b.reported_by
    \/ a.reported_by = b.reported_by /\ a.providers > b.providers
    \/ a.reported_by = b.reported_by /\ a.providers = b.providers /\ a.key < b.key

\* The entries in that order, which no two distinct keys tie in.
Sorted(entries) ==
    CHOOSE s \in [1..Cardinality(entries) -> entries] :
        \A i, j \in DOMAIN s : i < j => Before(s[i], s[j])

BuildDhtView(answers) ==
    LET recs == Records(answers)
        union == {r.key : r \in Range(recs)}
        entry(k) == [key |-> k, providers |-> Providers(k, recs),
                     reported_by |-> ReportedBy(k, recs)]
        sorted == Sorted({entry(k) : k \in union})
    IN [reporting_peers |-> Len(answers),
        total_keys |-> Cardinality(union),
        truncated |-> \/ \E i \in DOMAIN answers : answers[i].truncated
                      \/ Cardinality(union) > MaxPublishedKeys,
        keys |-> SubSeq(sorted, 1, Min({Len(sorted), MaxPublishedKeys}))]

-------------------------------------------------------------------------------

\* Where the key is named: the <<answer, record>> positions.
Reports(answers, key) ==
    UNION {{<<i, j>> : j \in {n \in DOMAIN answers[i].records :
                                 answers[i].records[n].key = key}} : i \in DOMAIN answers}

\* The nodes that named the key, and all that answered.
Reporters(answers, key) == {answers[at[1]].from : at \in Reports(answers, key)}
Answerers(answers) == {answers[i].from : i \in DOMAIN answers}

\* Every node answered once and named no key twice.
OneReportEach(answers) ==
    /\ \A i, n \in DOMAIN answers : answers[i].from = answers[n].from => i = n
    /\ \A i \in DOMAIN answers : \A j, n \in DOMAIN answers[i].records :
          answers[i].records[j].key = answers[i].records[n].key => j = n

\* What a view of these answers has to be, said of the answers themselves.
\* Where a node reports twice nothing is said of the numbers of nodes: they
\* are then numbers of reports.
IsViewOf(view, answers) ==
    LET named == UNION {{answers[i].records[j].key : j \in DOMAIN answers[i].records} :
                           i \in DOMAIN answers}
        most == [k \in named |-> Max({answers[at[1]].records[at[2]].providers :
                                         at \in Reports(answers, k)})]
        due == [k \in named |->
                   [key |-> k, providers |-> most[k],
                    reported_by |-> Cardinality(Reporters(answers, k))]]
        shown == {view.keys[n].key : n \in DOMAIN view.keys}
    IN /\ view.total_keys = Cardinality(named)
       /\ Len(view.keys) = Min({Cardinality(named), MaxPublishedKeys})
       /\ shown \subseteq named
       /\ \A n \in DOMAIN view.keys :
             /\ view.keys[n].providers = most[view.keys[n].key]
             /\ \A m \in DOMAIN view.keys : n < m => Before(view.keys[n], view.keys[m])
       /\ OneReportEach(answers) =>
             /\ view.reporting_peers = Cardinality(Answerers(answers))
             /\ \A n \in DOMAIN view.keys :
                   /\ view.keys[n] = due[view.keys[n].key]
                   /\ \A k \in named \ shown : Before(view.keys[n], due[k])
       /\ ~view.truncated => named = shown /\ \A i \in DOMAIN answers : ~answers[i].truncated
===============================================================================
