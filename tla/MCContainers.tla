---------------------------- MODULE MCContainers ----------------------------
(* Containers on small instances. *)
EXTENDS Containers

AllApart == { {}, {"lost"}, {"stale", "lost"} }
Ordinary == { {} }
OnlyLost == { {"lost"} }
=============================================================================
