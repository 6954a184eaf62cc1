SPECIFICATION Spec
CONSTANTS
    Managed = {do}
    K8s = k8s
    None = None
    Clis = {c1}
    Ssh = ssh
    GivenHosts = {}
    Apps <- TwoApps
    SelectorNewVM = FALSE
    MaxAttempts = 2
    MaxDestroys = 2
INVARIANT LastDestroyDeletesVM
CHECK_DEADLOCK FALSE
