------------------------------- MODULE MCReload -------------------------------
EXTENDS Reload

\* Two good configs that share upstream 1, of which one has an upstream more,
\* and a config that build_table rejects.
Small  == [ok |-> TRUE, upstreams |-> [n \in {1} |-> 1]]
Large  == [ok |-> TRUE, upstreams |-> [n \in {1, 2} |-> 2]]
Broken == [ok |-> FALSE, upstreams |-> [n \in {1} |-> 3]]

MCContents == {Small, Large, Broken}

\* The config is replaced up to three times; or certificate and key once each.
ReplacedConfig == [config |-> TRUE, tls |-> FALSE, edits |-> 3]
ReplacedPair   == [config |-> FALSE, tls |-> TRUE, edits |-> 2]

MCSetups     == {ReplacedConfig, ReplacedPair}
OneNewConfig == {[config |-> TRUE, tls |-> FALSE, edits |-> 1]}

=============================================================================
