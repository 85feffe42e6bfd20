---------------------------- MODULE MCGeneration ----------------------------
(* Generation on small instances. *)
EXTENDS Generation

(* From nothing that meets to everything: an execution without a meeting is *)
(* also one of every larger set, but the properties tell the sets apart.     *)
FromNoneToAll ==
    { {}, {"late", "play"}, {"late", "blind", "refused"}, {"late", "blind", "twice"},
      {"late", "blind", "twice", "delete"} }
JustNone == {{}}
=============================================================================
