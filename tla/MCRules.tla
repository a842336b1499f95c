------------------------------ MODULE MCRules ------------------------------
(* Small snapshots around every threshold of a scaled-down RuleConfig.       *)
EXTENDS Rules

MCCfg ==
    [disabled |-> {},
     r1 |-> [maxBytesIn |-> 0, minRetained |-> 2],
     r2 |-> [minEmptyDays |-> 30],
     r3 |-> [multiplier |-> 4, minRetained |-> 3, floor |-> 2],
     r4 |-> [minPartitions |-> 2, maxPerPartition |-> 1, target |-> 4, confluentCents |-> 50],
     r5 |-> [minBytesIn |-> 2, percent |-> 65],
     r6 |-> [trigger |-> 3, proposed |-> 2],
     r7 |-> [factor |-> 3, minRetained |-> 2, minPartitions |-> 3],
     r8 |-> [minRetained |-> 1, suffixes |-> {"changelog", "repartition"}]]

Topic(n, suffix, nonProd, parts, rf, times, compr, kept, active, in) ==
    [name |-> n, suffix |-> suffix, nonProd |-> nonProd, prefixes |-> {"app"},
     partitions |-> IF kept[2] = <<>> THEN parts ELSE Len(kept[2]), rf |-> rf, retention |-> times[1], lag |-> times[2],
     compression |-> compr, retained |-> kept[1], partitionBytes |-> kept[2],
     active |-> active, bytesIn |-> in]

\* Retention and lag: unknown, within and beyond proportion, infinite, and with
\* lags that overflow when doubled.
Times == {<<-1, -1>>, <<-1, 2>>, <<3, 0>>, <<9, 2>>, <<8, 2>>, <<2, 0>>, <<-1, 9>>, <<15, 9>>}

\* Retained bytes and their spread over the partitions, when it is known.
Kept == {<<0, <<>>>>, <<1, <<>>>>, <<5, <<>>>>,
         <<6, <<1, 1, 4>>>>, <<9, <<4, 1, 4>>>>, <<7, <<1, 1, 1, 4>>>>}

Varied ==
    {Topic("a", suffix, nonProd, parts, rf, times, "producer", kept, active, in) :
        suffix \in {"", "changelog"}, nonProd \in BOOLEAN, parts \in {1, 4},
        rf \in {2, 3}, times \in Times, kept \in Kept, active \in {0, 1}, in \in {0, 1, 4}}

Others ==
    {Topic("b", "", FALSE, 3, 3, <<9, 2>>, "zstd", <<5, <<>>>>, 0, 0),
     Topic("b", "repartition", TRUE, 9, 3, <<-1, -1>>, "none", <<3, <<>>>>, 0, 2)}

Groupings ==
    {<<>>, <<[id |-> "app", state |-> "Empty", age |-> 30]>>,
     <<[id |-> "x", state |-> "Stable", age |-> -1]>>}

MCSnapshots ==
    {[provider |-> prov, topics |-> <<a, b>>, groups |-> groups] :
        prov \in {"self", "confluent"}, a \in Varied, b \in Others, groups \in Groupings}

MCCostModels == {[flag |-> "", monthly |-> 0], [flag |-> "", monthly |-> 100],
                 [flag |-> "confluent", monthly |-> 0]}

\* Snapshots that collect.Build made: provider "self", lag and commit age unknown.
CollectedSnapshots ==
    {s \in MCSnapshots : /\ s.provider = "self"
                         /\ \A i \in DOMAIN s.topics : s.topics[i].lag = -1
                         /\ \A i \in DOMAIN s.groups : s.groups[i].age = -1}
=============================================================================
