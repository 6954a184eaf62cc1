----------------------------- MODULE MCLiveness -----------------------------
(* The parts that promise progress, for TLC, each on its own as in MCParts: *)
(* the daemon, its reconnect loop, and a Kubernetes deploy that waits.      *)
EXTENDS AgentDaemon, AgentLoop, K8sRelease

VARIABLE waiting \* the part that runs

LivenessInit ==
    /\ waiting \in {"daemon", "loop", "k8s"}
    /\ waiting # "loop" => up = FALSE /\ minCli = "unenforced"
    /\ Init /\ LoopInit /\ K8sInit

LivenessNext ==
    /\ UNCHANGED waiting
    /\ \/ waiting = "daemon" /\ Next /\ UNCHANGED <<loopvars, k8vars>>
       \/ waiting = "loop" /\ LoopNext /\ UNCHANGED <<vars, k8vars>>
       \/ waiting = "k8s" /\ K8sNext /\ UNCHANGED <<vars, loopvars>>

\* FairSpec, K8sFairSpec and LoopFairSpec.  At rest, what the first two are fair
\* to is disabled; the loop could start.
LivenessSpec ==
    /\ LivenessInit /\ [][LivenessNext]_<<waiting, vars, loopvars, k8vars>>
    /\ Fairness
    /\ WF_k8vars(Poll)
    /\ WF_loopvars(waiting = "loop" /\ Start) /\ WF_loopvars(waiting = "loop" /\ HandshakeFails)
    /\ WF_loopvars(waiting = "loop" /\ GivesUp) /\ WF_loopvars(waiting = "loop" /\ Waits)
    /\ WF_loopvars(waiting = "loop" /\ Redials) /\ WF_loopvars(waiting = "loop" /\ Hello)
    /\ SF_loopvars(waiting = "loop" /\ Hello /\ pc' = "serving")
=============================================================================
