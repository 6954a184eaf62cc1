SPECIFICATION Spec
CONSTANTS
    Managed = {do}
    K8s = k8s
    None = None
    Clis = {c1, c2}
    Ssh = ssh
    GivenHosts = {}
    Apps <- TwoApps
    SelectorNewVM = FALSE
    MaxAttempts = 2
    MaxDestroys = 1
SYMMETRY Symmetry
INVARIANT VMTracked
CHECK_DEADLOCK FALSE
