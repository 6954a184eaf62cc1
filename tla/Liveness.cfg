SPECIFICATION LivenessSpec
CHECK_DEADLOCK FALSE
CONSTANTS
    Handlers = {g1, g2}
    TxIds = {t1}
    Cap = 1
    MaxOpenConns = 1
    MaxSessions = 2
    NoTx = NoTx
    ReconnectInitial = 1
    ReconnectMax = 60
    MaxRefused = 8
    MaxK8sRuns = 3
    MaxPolls = 1
    Hosts = {"domain"}
PROPERTIES AbandonedTxUnblocks StaleEntryGoes Reconnects CIWaitEnds
