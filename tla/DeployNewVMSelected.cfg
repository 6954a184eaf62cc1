SPECIFICATION Spec
CONSTANTS
    Managed = {do}
    K8s = k8s
    None = None
    Clis = {c1}
    Ssh = ssh
    GivenHosts = {}
    Apps <- OneApp
    SelectorNewVM = TRUE
    MaxAttempts = 2
    MaxDestroys = 0
INVARIANT VMTracked
CHECK_DEADLOCK FALSE
