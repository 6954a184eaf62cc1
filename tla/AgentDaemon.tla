---------------------------- MODULE AgentDaemon ----------------------------
(***************************************************************************)
(* The local agent's session with the cloud: one daemon process, its       *)
(* reconnecting stream, one goroutine per reverse RPC, the query           *)
(* semaphore, the transaction pool and its idle reaper.                    *)
(*                                                                         *)
(* Data is abstracted to what the properties tell apart: a statement is a  *)
(* handler in "run", rows and errors are "finished", the clock is the set  *)
(* `idle' of pooled transactions whose lastUsed is older than              *)
(* txIdleTimeout.  One registered connection stands for all of them        *)
(* (ConnCache models the pool of handles).  What database/sql does with a  *)
(* transaction is external: txstate is the outcome the database gives it.  *)
(***************************************************************************)
EXTENDS Naturals, FiniteSets

CONSTANTS
    Handlers,     \* goroutines that can be serving a reverse RPC at once
    TxIds,        \* ids txPool.Add can mint; each is minted once
    Cap,          \* semaphore capacity, 0 for the nil (uncapped) semaphore
    MaxOpenConns, \* SetMaxOpenConns of the connection
    MaxSessions,  \* bound: successful Hello/Welcome exchanges
    NoTx          \* "this request carries no tx_id"

ASSUME FiniteConstants == IsFiniteSet(Handlers) /\ IsFiniteSet(TxIds)
ASSUME NumericConstants == Cap \in Nat /\ MaxOpenConns \in Nat /\ MaxSessions \in Nat
ASSUME NoTxIsNoId == NoTx \notin TxIds

VARIABLES
    daemon,   \* where Run's reconnect loop is
    session,  \* number of the latest session; a handler keeps its own
    h,        \* the handler goroutines
    sem,      \* tokens in the semaphore's channel
    txs,      \* keys of txPool.txs
    idle,     \* pooled ids whose lastUsed is before the reaper's cutoff
    reaping,  \* ids reapIdle deleted, whose rollback goroutine has not run
    txstate,  \* what the database did with the transaction
    txsess,   \* the session whose stream context the transaction began under
    told,     \* tx_ids whose BeginTxResponse was sent on the current stream
    acked     \* tx_ids for which a CommitResponse was sent

vars == <<daemon, session, h, sem, txs, idle, reaping, txstate, txsess, told, acked>>
poolVars == <<txs, idle, reaping>>
loopVars == <<daemon, session>>

Ops  == {"none", "query", "plan", "begin", "stmt", "commit", "rollback"}
Pcs  == {"idle", "acquire", "conn", "run", "add", "reply", "get", "touch", "pop", "end"}
Handler == [op: Ops, pc: Pcs, tx: TxIds \cup {NoTx}, sess: Nat, slot: BOOLEAN]

NoRPC == [op |-> "none", pc |-> "idle", tx |-> NoTx, sess |-> 0, slot |-> FALSE]

Init ==
    /\ daemon = "dial" /\ session = 0
    /\ h = [g \in Handlers |-> NoRPC]
    /\ sem = 0
    /\ txs = {} /\ idle = {} /\ reaping = {}
    /\ txstate = [t \in TxIds |-> "none"]
    /\ txsess = [t \in TxIds |-> 0]
    /\ told = {} /\ acked = {}

-----------------------------------------------------------------------------
(* Shared definitions *)

\* The stream context of session s is live until runOnce returns.
Live(s) == daemon = "online" /\ s = session

Open(t) == txstate[t] = "open"

\* Transactions of S that are still open are rolled back; tx.Rollback on a
\* transaction that is already done returns ErrTxDone and changes nothing.
RolledBack(S) ==
    [t \in TxIds |-> IF t \in S /\ Open(t) THEN "rolledback" ELSE txstate[t]]

\* Connections checked out of the *sqlx.DB: each open transaction pins one,
\* and so does a statement outside a transaction while it runs.
Pinned     == {t \in TxIds : Open(t)}
Borrowing  == {g \in Handlers : h[g].op = "query" /\ h[g].pc = "run"}
ConnsInUse == Cardinality(Pinned) + Cardinality(Borrowing)

\* Mutant of Return: the deferred Release is missing.
ReturnKeepsSlot(g) ==
    /\ h' = [h EXCEPT ![g] = NoRPC]
    /\ UNCHANGED sem

\* The handler's function returns: its deferred sem.Release runs with it.
Return(g) ==
    /\ h' = [h EXCEPT ![g] = NoRPC]
    /\ sem' = IF h[g].slot THEN sem - 1 ELSE sem

Goto(g, pc) == h' = [h EXCEPT ![g].pc = pc] /\ UNCHANGED sem
-----------------------------------------------------------------------------
(* handleReverseRPC: one goroutine per message of the read loop.  The      *)
(* requests that take a slot start at "acquire"; tx-bound statements,      *)
(* Commit and Rollback start on the transaction pool.                      *)

FirstPc == [query |-> "acquire", plan |-> "acquire", begin |-> "acquire",
            stmt |-> "get", commit |-> "pop", rollback |-> "pop"]

\* Bound: no more BeginTx requests than there are ids left to mint.
IdsLeft == Cardinality({g \in Handlers : h[g].op = "begin" /\ h[g].tx = NoTx})
             < Cardinality({t \in TxIds : txstate[t] = "none"})

Receive(g, op, t) ==
    /\ daemon = "online" /\ h[g].op = "none"
    /\ op = "begin" => IdsLeft
    /\ IF op \in {"stmt", "commit", "rollback"} THEN t \in told ELSE t = NoTx
    /\ h' = [h EXCEPT ![g] = [op |-> op, pc |-> FirstPc[op], tx |-> t,
                              sess |-> session, slot |-> FALSE]]
    /\ UNCHANGED <<loopVars, sem, poolVars, txstate, txsess, told, acked>>

\* select: a free slot is taken even when the context is done as well.
Acquire(g) ==
    /\ h[g].pc = "acquire"
    /\ Cap = 0 \/ sem < Cap
    /\ sem' = IF Cap = 0 THEN sem ELSE sem + 1
    /\ h' = [h EXCEPT ![g].slot = (Cap # 0),
                      ![g].pc = IF h[g].op = "plan" THEN "run" ELSE "conn"]
    /\ UNCHANGED <<loopVars, poolVars, txstate, txsess, told, acked>>

\* queryAcquireTimeout, or the stream died while waiting.  A full semaphore
\* makes it wait; with a free slot only a dead stream can win the select.
AcquireFails(g) ==
    /\ h[g].pc = "acquire" /\ Cap # 0
    /\ sem = Cap \/ ~Live(h[g].sess)
    /\ Return(g)
    /\ UNCHANGED <<loopVars, poolVars, txstate, txsess, told, acked>>

\* A statement outside a transaction gets a connection of the *sqlx.DB.
QueryConn(g) ==
    /\ h[g].pc = "conn" /\ h[g].op = "query"
    /\ ConnsInUse < MaxOpenConns
    /\ Goto(g, "run")
    /\ UNCHANGED <<loopVars, poolVars, txstate, txsess, told, acked>>

\* db.BeginTxx(ctx): the transaction belongs to the stream's context.
BeginConn(g, t) ==
    /\ h[g].pc = "conn" /\ h[g].op = "begin"
    /\ ConnsInUse < MaxOpenConns
    /\ txstate[t] = "none"
    /\ txstate' = [txstate EXCEPT ![t] = "open"]
    /\ txsess' = [txsess EXCEPT ![t] = h[g].sess]
    /\ h' = [h EXCEPT ![g].tx = t, ![g].pc = "add"]
    /\ UNCHANGED <<loopVars, sem, poolVars, told, acked>>

\* No connection: unknown uuid, or the database refused.
ConnRefused(g) ==
    /\ h[g].pc = "conn"
    /\ Return(g)
    /\ UNCHANGED <<loopVars, poolVars, txstate, txsess, told, acked>>

\* The wait for a connection has no timeout: only the stream's end cuts it.
ConnCancelled(g) == ~Live(h[g].sess) /\ ConnRefused(g)

\* A statement or a schema plan finishes and its response or error is sent.
RunDone(g) ==
    /\ h[g].pc = "run"
    /\ Return(g)
    /\ UNCHANGED <<loopVars, poolVars, txstate, txsess, told, acked>>

-----------------------------------------------------------------------------
(* The transaction pool *)

\* Mutant of BeginSchemaFails: the error path forgets the rollback.
BeginSchemaFailsOpen(g) ==
    /\ h[g].pc = "add"
    /\ Return(g)
    /\ UNCHANGED <<loopVars, poolVars, txstate, txsess, told, acked>>

\* handleBeginTx after BeginTxx: applying the schema fails, ...
BeginSchemaFails(g) ==
    /\ h[g].pc = "add"
    /\ txstate' = RolledBack({h[g].tx})
    /\ Return(g)
    /\ UNCHANGED <<loopVars, poolVars, txsess, told, acked>>

\* ... or the transaction enters the pool, whatever became of the stream.
BeginAdd(g) ==
    /\ h[g].pc = "add"
    /\ txs' = txs \cup {h[g].tx}
    /\ Goto(g, "reply")
    /\ UNCHANGED <<loopVars, idle, reaping, txstate, txsess, told, acked>>

\* stream.Send of the BeginTxResponse; on a dead stream nothing arrives.
BeginReply(g) ==
    /\ h[g].pc = "reply"
    /\ told' = IF Live(h[g].sess) THEN told \cup {h[g].tx} ELSE told
    /\ Return(g)
    /\ UNCHANGED <<loopVars, poolVars, txstate, txsess, acked>>

\* txPool.Get: the lookup is under the mutex, touch() comes after it.
StmtGet(g) ==
    /\ h[g].pc = "get"
    /\ IF h[g].tx \in txs THEN Goto(g, "touch") ELSE Return(g)
    /\ UNCHANGED <<loopVars, poolVars, txstate, txsess, told, acked>>

StmtTouch(g) ==
    /\ h[g].pc = "touch"
    /\ idle' = idle \ {h[g].tx}
    /\ Goto(g, "run")
    /\ UNCHANGED <<loopVars, txs, reaping, txstate, txsess, told, acked>>

\* Mutant of Pop: the entry is found and left in the map.
PopLeavesEntry(g) ==
    /\ h[g].pc = "pop"
    /\ IF h[g].tx \in txs THEN Goto(g, "end") ELSE Return(g)
    /\ UNCHANGED <<loopVars, poolVars, txstate, txsess, told, acked>>

\* txPool.Pop: whoever removes the entry is the one who ends the transaction.
\* An unknown id is a QueryError for Commit and a success for Rollback.
Pop(g) ==
    /\ h[g].pc = "pop"
    /\ IF h[g].tx \in txs THEN Goto(g, "end") ELSE Return(g)
    /\ txs' = txs \ {h[g].tx}
    /\ idle' = idle \ {h[g].tx}
    /\ UNCHANGED <<loopVars, reaping, txstate, txsess, told, acked>>

\* tx.Commit succeeds and the CommitResponse is sent if the stream still is.
Commit(g) ==
    /\ h[g].pc = "end" /\ h[g].op = "commit"
    /\ Open(h[g].tx)
    /\ txstate' = [txstate EXCEPT ![h[g].tx] = "committed"]
    /\ acked' = IF Live(h[g].sess) THEN acked \cup {h[g].tx} ELSE acked
    /\ Return(g)
    /\ UNCHANGED <<loopVars, poolVars, txsess, told>>

\* Mutant of CommitFails: the CommitResponse is sent before the error is seen.
CommitFailsAcked(g) ==
    /\ h[g].pc = "end" /\ h[g].op = "commit"
    /\ Open(h[g].tx)
    /\ \E outcome \in {"committed", "rolledback"} :
          txstate' = [txstate EXCEPT ![h[g].tx] = outcome]
    /\ acked' = acked \cup {h[g].tx}
    /\ Return(g)
    /\ UNCHANGED <<loopVars, poolVars, txsess, told>>

\* tx.Commit fails at the database: the outcome is the database's.
CommitFails(g) ==
    /\ h[g].pc = "end" /\ h[g].op = "commit"
    /\ Open(h[g].tx)
    /\ \E outcome \in {"committed", "rolledback"} :
          txstate' = [txstate EXCEPT ![h[g].tx] = outcome]
    /\ Return(g)
    /\ UNCHANGED <<loopVars, poolVars, txsess, told, acked>>

\* tx.Commit refuses without trying: the transaction is done (ErrTxDone) or
\* the context it began under is.
CommitRefused(g) ==
    /\ h[g].pc = "end" /\ h[g].op = "commit"
    /\ ~Open(h[g].tx) \/ ~Live(txsess[h[g].tx])
    /\ Return(g)
    /\ UNCHANGED <<loopVars, poolVars, txstate, txsess, told, acked>>

Rollback(g) ==
    /\ h[g].pc = "end" /\ h[g].op = "rollback"
    /\ txstate' = RolledBack({h[g].tx})
    /\ Return(g)
    /\ UNCHANGED <<loopVars, poolVars, txsess, told, acked>>

-----------------------------------------------------------------------------
(* The reaper and the clock *)

\* txIdleTimeout passes since the last touch of a pooled transaction,
\* whether or not a statement is running on it.
GoIdle(t) ==
    /\ t \in txs \ idle
    /\ idle' = idle \cup {t}
    /\ UNCHANGED <<loopVars, h, sem, txs, reaping, txstate, txsess, told, acked>>

\* Mutant of ReapIdle: the expired entries stay in the map.
ReapIdleKeepsEntries ==
    /\ idle # {}
    /\ reaping' = reaping \cup idle
    /\ idle' = {}
    /\ UNCHANGED <<loopVars, h, sem, txs, txstate, txsess, told, acked>>

\* Mutant of ReapIdle: the entries are dropped and nobody rolls them back.
ReapIdleForgets ==
    /\ idle # {}
    /\ txs' = txs \ idle /\ idle' = {}
    /\ UNCHANGED <<loopVars, h, sem, reaping, txstate, txsess, told, acked>>

\* Mutant of ReapIdle: the reaper lives only as long as a stream.
ReapIdleOnline ==
    /\ idle # {} /\ daemon = "online"
    /\ txs' = txs \ idle
    /\ reaping' = reaping \cup idle
    /\ idle' = {}
    /\ UNCHANGED <<loopVars, h, sem, txstate, txsess, told, acked>>

\* One sweep: the expired entries leave the pool under its mutex, ...
ReapIdle ==
    /\ idle # {}
    /\ txs' = txs \ idle
    /\ reaping' = reaping \cup idle
    /\ idle' = {}
    /\ UNCHANGED <<loopVars, h, sem, txstate, txsess, told, acked>>

\* ... and a goroutine per entry rolls it back later.
ReapRollback(t) ==
    /\ t \in reaping
    /\ reaping' = reaping \ {t}
    /\ txstate' = RolledBack({t})
    /\ UNCHANGED <<loopVars, h, sem, txs, idle, txsess, told, acked>>

\* database/sql rolls a transaction back when its context is done.
CtxRollback(t) ==
    /\ Open(t) /\ ~Live(txsess[t])
    /\ txstate' = RolledBack({t})
    /\ UNCHANGED <<loopVars, h, sem, poolVars, txsess, told, acked>>

-----------------------------------------------------------------------------
(* Run's reconnect loop *)

\* Hello / Welcome.  The cloud forgets the tx_ids of the stream before.
Welcome ==
    /\ daemon = "dial" /\ session < MaxSessions
    /\ daemon' = "online" /\ session' = session + 1
    /\ told' = {}
    /\ UNCHANGED <<h, sem, poolVars, txstate, txsess, acked>>

DialFails ==
    /\ daemon = "dial" /\ daemon' = "closing"
    /\ UNCHANGED <<session, h, sem, poolVars, txstate, txsess, told, acked>>

\* EOF or error: runOnce returns and its deferred cancel ends the context.
StreamEnds ==
    /\ daemon = "online" /\ daemon' = "closing"
    /\ UNCHANGED <<session, h, sem, poolVars, txstate, txsess, told, acked>>

CloseAll ==
    /\ daemon = "closing" /\ daemon' = "wait"
    /\ txstate' = RolledBack(txs)
    /\ txs' = {} /\ idle' = {}
    /\ UNCHANGED <<session, h, sem, reaping, txsess, told, acked>>

Retry ==
    /\ daemon = "wait" /\ daemon' = "dial"
    /\ UNCHANGED <<session, h, sem, poolVars, txstate, txsess, told, acked>>

\* The process ends: a signal, a non-retryable error or a crash.  Its
\* connections close and the database rolls back what was open on them.
Exit ==
    /\ daemon # "stopped" /\ daemon' = "stopped"
    /\ h' = [g \in Handlers |-> NoRPC] /\ sem' = 0
    /\ txs' = {} /\ idle' = {} /\ reaping' = {}
    /\ txstate' = RolledBack(TxIds)
    /\ UNCHANGED <<session, txsess, told, acked>>

\* launchd's KeepAlive or systemd's Restart starts the agent again.
Restart ==
    /\ daemon = "stopped" /\ daemon' = "dial"
    /\ UNCHANGED <<session, h, sem, poolVars, txstate, txsess, told, acked>>

-----------------------------------------------------------------------------
(* The specification *)

HandlerStep(g) ==
    \/ Acquire(g) \/ AcquireFails(g)
    \/ QueryConn(g) \/ (\E t \in TxIds : BeginConn(g, t)) \/ ConnCancelled(g)
    \/ RunDone(g)
    \/ BeginAdd(g) \/ BeginReply(g)
    \/ StmtGet(g) \/ StmtTouch(g)
    \/ Pop(g) \/ Commit(g) \/ CommitRefused(g) \/ Rollback(g)

Failure(g) == ConnRefused(g) \/ BeginSchemaFails(g) \/ CommitFails(g)

Loop == Welcome \/ DialFails \/ StreamEnds \/ CloseAll \/ Retry \/ Exit \/ Restart

Next ==
    \/ \E g \in Handlers :
          \/ \E op \in Ops \ {"none"}, t \in TxIds \cup {NoTx} : Receive(g, op, t)
          \/ HandlerStep(g)
          \/ Failure(g)
    \/ ReapIdle
    \/ \E t \in TxIds : GoIdle(t) \/ ReapRollback(t) \/ CtxRollback(t)
    \/ Loop

Spec == Init /\ [][Next]_vars

\* The Go scheduler runs every goroutine that can run; database/sql serves
\* its waiters in the order they came, so a handler that can get a
\* connection again and again does; the clock advances and the reaper's
\* ticker fires; a statement's end is the database's promise.
Fairness ==
    /\ \A g \in Handlers : SF_vars(HandlerStep(g))
    /\ WF_vars(ReapIdle)
    /\ \A t \in TxIds : /\ WF_vars(GoIdle(t))
                        /\ WF_vars(ReapRollback(t))
                        /\ WF_vars(CtxRollback(t))
    /\ WF_vars(CloseAll) /\ WF_vars(Retry)

FairSpec == Spec /\ Fairness

-----------------------------------------------------------------------------
(* Properties *)

\* Every variable has its type; a pooled id that is idle is pooled.
TypeOK ==
    /\ daemon \in {"dial", "online", "closing", "wait", "stopped"}
    /\ session \in Nat
    /\ h \in [Handlers -> Handler]
    /\ sem \in Nat
    /\ txs \subseteq TxIds /\ idle \subseteq txs /\ reaping \subseteq TxIds
    /\ txstate \in [TxIds -> {"none", "open", "committed", "rolledback"}]
    /\ txsess \in [TxIds -> Nat]
    /\ told \subseteq TxIds /\ acked \subseteq TxIds

SlotHolders == {g \in Handlers : h[g].slot}

\* agent/semaphore.go: however a reverse RPC ends (answered, refused, timed
\* out, cut by the stream), across reconnects and with handlers of an old
\* session still running, the tokens in the channel are exactly the handlers
\* that will release one, and they never exceed the cap.
SlotsConserved ==
    /\ sem = Cardinality(SlotHolders)
    /\ sem <= Cap

\* The handler removed tx from the pool, or has not put it there yet, and is
\* the one that has to end it.
Holds(g, t) == h[g].pc \in {"add", "end"} /\ h[g].tx = t

\* agent/txpool.go, Pop / reapIdle / CloseAll: a transaction has at most one
\* party that will commit or roll it back, whatever Commit, Rollback, the
\* reaper and the end of a session do at the same time.
OneEnder ==
    /\ txs \cap reaping = {}
    /\ \A g \in Handlers, t \in TxIds : Holds(g, t) => t \notin txs \cup reaping
    /\ \A g1, g2 \in Handlers, t \in TxIds :
          Holds(g1, t) /\ Holds(g2, t) => g1 = g2

\* An open transaction pins one of the few database connections.  It always
\* has somebody who will end it: the pool (and so the reaper or CloseAll), a
\* rollback goroutine, a handler, or database/sql once its stream is over.
NoConnLeak ==
    \A t \in TxIds : Open(t) =>
        \/ t \in txs \cup reaping
        \/ \E g \in Handlers : Holds(g, t)
        \/ ~Live(txsess[t])

\* A Commit or Rollback answered in any way leaves no entry behind ("so the
\* underlying DB connection is released regardless of which lifecycle
\* command the cloud sent", agent/txpool.go).
EndingDropsEntry ==
    [][\A g \in Handlers :
          h[g].op \in {"commit", "rollback"} /\ h'[g].op = "none"
             => h[g].tx \notin txs']_vars

Busy(g) == h[g].op # "none"

\* Once the cloud stops using its transactions, every request gets its
\* answer: the reaper frees the connections that abandoned transactions pin,
\* on which slot holders wait without a timeout.
AbandonedTxUnblocks ==
    <>[](\A g \in Handlers : h[g].op # "stmt")
        => \A g \in Handlers : Busy(g) ~> ~Busy(g)

\* An entry added to the pool after its session's CloseAll does not stay.
StaleEntryGoes ==
    \A t \in TxIds : (t \in txs /\ ~Live(txsess[t])) ~> (t \notin txs)

\* What the agent promises of its transactions (TxService).
Service == INSTANCE TxService WITH state <- txstate, MaxOpen <- MaxOpenConns
ServiceSpec == Service!Spec

\* agent/daemon.go:154-158: CloseAll keeps the next session from inheriting
\* the tx_ids of a dead one.
NoStaleTxIds == daemon = "online" => \A t \in txs : txsess[t] = session
=============================================================================
