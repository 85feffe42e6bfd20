----------------------------- MODULE MCMutexes -----------------------------
(* Small instances for TLC of the parts that guard what they keep by a mutex *)
(* of their own: the port pool, the verdict of a test, and the image and the *)
(* files the Docker calls keep.  They share nothing, so an execution is of   *)
(* one of them.                                                              *)
EXTENDS PortPool, Verdict, OneShots, TLC

VARIABLE part  \* the part this execution is of

mutexVars == <<part, poolVars, verdictVars, vars>>

Pool == part = "pool" /\ PoolNext /\ UNCHANGED <<verdictVars, vars>>
Verdicts == part = "verdict" /\ VerdictNext /\ UNCHANGED <<poolVars, vars>>
Calls == part = "calls" /\ Next /\ UNCHANGED <<poolVars, verdictVars>>

MutexInit ==
    /\ part \in {"pool", "verdict", "calls"}
    /\ PoolInit /\ VerdictInit /\ Init
    /\ part # "calls" => mix = CHOOSE m \in Mixes : TRUE

MutexNext == (Pool \/ Verdicts \/ Calls) /\ UNCHANGED part

MutexSpec == MutexInit /\ [][MutexNext]_mutexVars

\* The pool is small without symmetry.
Symmetry == Permutations(Run) \cup Permutations(Call) \cup Permutations(Image)

------------------------------------------------------------------------------
\* Operations that share nothing but the image are not mixed in one execution.
Together == {{"declared", "runtime"}, {"upload", "options"}, {"template", "test"},
             {"put", "copy", "multidata"}}
=============================================================================
