----------------------------- MODULE MCTestRuns -----------------------------
(* Small instances of TestRuns for TLC.                                     *)
EXTENDS TestRuns
=============================================================================
