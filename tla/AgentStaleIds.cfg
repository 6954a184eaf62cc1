SPECIFICATION Spec
CONSTANTS
    Handlers = {g1, g2}
    TxIds = {t1, t2}
    Cap = 1
    MaxOpenConns = 1
    MaxSessions = 2
    NoTx = NoTx
INVARIANT NoStaleTxIds
