SPECIFICATION Spec
CONSTANTS
    Handlers = {g1, g2, g3}
    TxIds = {t1, t2}
    Cap = 2
    MaxOpenConns = 2
    MaxSessions = 2
    NoTx = NoTx
SYMMETRY Symmetry
INVARIANTS SlotsConserved OneEnder NoConnLeak
PROPERTIES EndingDropsEntry ServiceSpec
