------------------------ MODULE MCThresholdExecution ------------------------
(* Executors under two requests at once, a job delivered again, two jobs   *)
(* that share a session, a drifted job, and a restart.                  *)
EXTENDS ThresholdExecution

MCJobs ==
    {[session |-> 1, message |-> "a", drift |-> "none"],
     [session |-> 1, message |-> "b", drift |-> "none"],
     [session |-> 2, message |-> "b", drift |-> "signers"],
     [session |-> 2, message |-> "b", drift |-> "material"],
     [session |-> 3, message |-> "b", drift |-> "none"],
     [session |-> 4, message |-> "a", drift |-> "none"]}
=============================================================================
