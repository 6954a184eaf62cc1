SPECIFICATION SerialSpec
CONSTANTS
    Managed = {do}
    K8s = k8s
    None = None
    Clis = {c1}
    Ssh = ssh
    GivenHosts = {h}
    Apps <- TwoApps
    SelectorNewVM = FALSE
    MaxAttempts = 3
    MaxDestroys = 2
INVARIANTS VMTracked CheckpointFacts OneVMPerApp AgentOfBox
PROPERTY SharedAgentSurvives
CHECK_DEADLOCK FALSE
