-------------------------- MODULE MCKeyVisService --------------------------
EXTENDS KeyVisService

MCConfigs == {[on |-> TRUE, policy |-> "db"], [on |-> TRUE, policy |-> "kv"],
              [on |-> FALSE, policy |-> "kv"]}

\* Key ranges without tables.
KVConfigs == {[on |-> TRUE, policy |-> "kv"], [on |-> FALSE, policy |-> "kv"]}
=============================================================================
