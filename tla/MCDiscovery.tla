----------------------------- MODULE MCDiscovery -----------------------------
(* Three peers with two addresses each, a book for two peers, and one      *)
(* query of any kind.                                                      *)
EXTENDS Discovery
=============================================================================
