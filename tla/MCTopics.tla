------------------------------ MODULE MCTopics ------------------------------
(* Small instances of Topics.  OwnGroup is one of the keys, so a caller    *)
(* can also follow, provide and stop the key the node itself provides.     *)
EXTENDS Topics
=============================================================================
