------------------------------ MODULE MCWatchHub ------------------------------
(* An object in a namespace and one without; a subscription of each level.    *)
EXTENDS WatchHub

MCObjects == {[namespace |-> "shop", name |-> "web"], [namespace |-> "", name |-> "node"]}
MCFilters == {[level |-> "cluster", namespace |-> "", name |-> ""],
              [level |-> "namespace", namespace |-> "core", name |-> ""],
              [level |-> "resource", namespace |-> "shop", name |-> "web"]}
=============================================================================
