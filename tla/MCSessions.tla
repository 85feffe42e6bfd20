----------------------------- MODULE MCSessions -----------------------------
(* Small instances of Sessions for TLC; the requests are interchangeable,   *)
(* and so are the sessions.                                                 *)
EXTENDS Sessions, TLC

Symmetry == Permutations(Session) \cup Permutations(Handler)
=============================================================================
