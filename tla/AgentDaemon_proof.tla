------------------------- MODULE AgentDaemon_proof -------------------------
(***************************************************************************)
(* The daemon's session (AgentDaemon), for every number of handlers, ids   *)
(* and slots, and the loop around it (AgentLoop), for any waits.           *)
(* The session's invariant is proved in three layers, each using the ones  *)
(* before: types and slots, then who ends a transaction, then that         *)
(* somebody does.                                                          *)
(***************************************************************************)
EXTENDS AgentDaemon, AgentLoop, Numbers, FiniteSetTheorems, TLAPS

\* What a handler's place in its function says of its request.
Shape(r) ==
    /\ r.op = "none" => ~r.slot
    /\ r.pc = "acquire" => ~r.slot /\ r.op \in {"query", "plan", "begin"}
    /\ r.pc = "conn" => r.op \in {"query", "begin"}
    /\ r.pc \in {"add", "reply"} => r.op = "begin" /\ r.tx \in TxIds
    /\ r.pc \in {"get", "touch"} => r.op = "stmt" /\ r.tx \in TxIds
    /\ r.pc = "run" => r.op \in {"query", "plan", "stmt"}
    /\ r.pc \in {"pop", "end"} => r.op \in {"commit", "rollback"} /\ r.tx \in TxIds

Shapes == \A g \in Handlers : Shape(h[g])

\* The first layer.
SlotInv == TypeOK /\ Shapes /\ SlotsConserved

\* A transaction that somebody may end has begun.
Minted ==
    \A t \in TxIds :
        t \in txs \cup reaping \/ (\E g \in Handlers : Holds(g, t))
            => txstate[t] # "none"

\* No transaction, and no request, is of a session still to come.
Sessions ==
    /\ \A t \in TxIds : txsess[t] <= session
    /\ \A g \in Handlers : h[g].sess <= session

\* The invariant of the whole module.
IInv == SlotInv /\ Minted /\ Sessions /\ OneEnder /\ NoConnLeak

-----------------------------------------------------------------------------
(* Facts about the helpers *)

LEMMA NoRPCType == NoRPC \in Handler /\ Shape(NoRPC)
BY DEF NoRPC, Handler, Ops, Pcs, Shape

LEMMA SlotHoldersFinite ==
    /\ IsFiniteSet(SlotHolders) /\ Cardinality(SlotHolders) \in Nat
<1>1. SlotHolders \in SUBSET Handlers
  BY DEF SlotHolders
<1>2. IsFiniteSet(SlotHolders)
  BY <1>1, FiniteConstants, FS_Subset
<1>3. QED
  BY <1>2, FS_CardinalityType

LEMMA RolledBackType ==
    ASSUME NEW S, TypeOK
    PROVE  /\ RolledBack(S) \in [TxIds -> {"none", "open", "committed", "rolledback"}]
           /\ \A t \in TxIds : /\ RolledBack(S)[t] = "open" => Open(t) /\ t \notin S
                               /\ txstate[t] # "none" <=> RolledBack(S)[t] # "none"
BY DEF TypeOK, RolledBack, Open

\* A handler that returns gives back the slot it holds, if it holds one.
LEMMA ReturnKeeps ==
    ASSUME SlotInv, NEW g \in Handlers, Return(g)
    PROVE  /\ h' \in [Handlers -> Handler] /\ Shapes'
           /\ sem' \in Nat /\ SlotsConserved'
<1>1. h' \in [Handlers -> Handler] /\ Shapes'
  BY NoRPCType DEF SlotInv, TypeOK, Shapes, Return
<1>2. CASE h[g].slot
  <2>1. SlotHolders' = SlotHolders \ {g} /\ g \in SlotHolders
    BY <1>2 DEF SlotInv, TypeOK, SlotHolders, Return, NoRPC
  <2>2. Cardinality(SlotHolders') = Cardinality(SlotHolders) - 1
    BY <2>1, SlotHoldersFinite, FS_RemoveElement
  <2>3. SlotHolders # {} /\ Cardinality(SlotHolders) # 0
    BY <2>1, SlotHoldersFinite, FS_EmptySet
  <2>4. sem' = sem - 1
    BY <1>2 DEF Return
  <2>5. sem' \in Nat /\ SlotsConserved'
    BY <2>2, <2>3, <2>4, SlotHoldersFinite, NumericConstants DEF SlotInv, SlotsConserved
  <2>6. QED
    BY <1>1, <2>5
<1>3. CASE ~h[g].slot
  <2>1. SlotHolders' = SlotHolders /\ sem' = sem
    BY <1>3 DEF SlotInv, TypeOK, SlotHolders, Return, NoRPC
  <2>2. QED
    BY <1>1, <2>1 DEF SlotInv, TypeOK, SlotsConserved
<1>4. QED
  BY <1>2, <1>3

\* A handler that moves on keeps the slot it holds, or that it holds none.
LEMMA MoveKeeps ==
    ASSUME SlotInv, NEW g \in Handlers, UNCHANGED sem, NEW r \in Handler,
           h' = [h EXCEPT ![g] = r], Shape(r), r.slot = h[g].slot
    PROVE  /\ h' \in [Handlers -> Handler] /\ Shapes'
           /\ sem' \in Nat /\ SlotsConserved'
<1>1. h' \in [Handlers -> Handler] /\ Shapes'
  BY DEF SlotInv, TypeOK, Shapes
<1>2. SlotHolders' = SlotHolders
  BY DEF SlotInv, TypeOK, SlotHolders
<1>3. QED
  BY <1>1, <1>2 DEF SlotInv, TypeOK, SlotsConserved

\* Handler g goes to at and nothing else of it changes.
LEMMA GotoKeeps ==
    ASSUME SlotInv, NEW g \in Handlers, NEW at \in Pcs, Goto(g, at),
           Shape([h[g] EXCEPT !.pc = at])
    PROVE  /\ h' \in [Handlers -> Handler] /\ Shapes'
           /\ sem' \in Nat /\ SlotsConserved'
<1>1. [h[g] EXCEPT !.pc = at] \in Handler /\ [h[g] EXCEPT !.pc = at].slot = h[g].slot
  BY DEF SlotInv, TypeOK, Handler
<1>2. h' = [h EXCEPT ![g] = [h[g] EXCEPT !.pc = at]] /\ UNCHANGED sem
  BY DEF SlotInv, TypeOK, Goto
<1>3. QED
  BY <1>1, <1>2, MoveKeeps

-----------------------------------------------------------------------------
(* The first layer: types, shapes and slots *)

LEMMA SlotInit == Init => SlotInv
<1> SUFFICES ASSUME Init PROVE SlotInv
  OBVIOUS
<1>1. TypeOK /\ Shapes
  BY NoRPCType DEF Init, TypeOK, Shapes
<1>2. SlotHolders = {}
  BY DEF Init, SlotHolders, NoRPC
<1>3. SlotsConserved
  BY <1>2, FS_EmptySet, NumericConstants DEF Init, SlotsConserved
<1>4. QED
  BY <1>1, <1>3 DEF SlotInv

\* What a step must show of the handlers, and what of the rest.
HandlersKept == h' \in [Handlers -> Handler] /\ Shapes' /\ sem' \in Nat /\ SlotsConserved'
RestTyped ==
    /\ daemon' \in {"dial", "online", "closing", "wait", "stopped"}
    /\ session' \in Nat
    /\ txs' \subseteq TxIds /\ idle' \subseteq txs' /\ reaping' \subseteq TxIds
    /\ txstate' \in [TxIds -> {"none", "open", "committed", "rolledback"}]
    /\ txsess' \in [TxIds -> Nat]
    /\ told' \subseteq TxIds /\ acked' \subseteq TxIds

LEMMA KeptIsInvariant ==
    ASSUME HandlersKept, RestTyped PROVE SlotInv'
BY DEF HandlersKept, RestTyped, SlotInv, TypeOK

LEMMA IdleHandlersKept ==
    ASSUME SlotInv, UNCHANGED <<h, sem>> PROVE HandlersKept
BY DEF HandlersKept, SlotInv, TypeOK, Shapes, SlotsConserved, SlotHolders

\* A request is received.
LEMMA SlotReceive ==
    ASSUME SlotInv, NEW g \in Handlers, NEW op \in Ops \ {"none"},
           NEW t \in TxIds \cup {NoTx}, Receive(g, op, t)
    PROVE  SlotInv'
<1> DEFINE r == [op |-> op, pc |-> FirstPc[op], tx |-> t, sess |-> session, slot |-> FALSE]
<1>1. r \in Handler
  BY DEF SlotInv, TypeOK, Ops, Pcs, Handler, FirstPc
<1>2. t \in TxIds \/ op \notin {"stmt", "commit", "rollback"}
  BY DEF Receive, SlotInv, TypeOK
<1>3. Shape(r)
  BY <1>2 DEF Ops, Shape, FirstPc
<1>4. h[g].slot = FALSE
  BY DEF Receive, SlotInv, TypeOK, Handler, Shapes, Shape
<1>5. h' = [h EXCEPT ![g] = r] /\ UNCHANGED sem
  BY DEF Receive
<1>6. r.slot = h[g].slot
  BY <1>4
<1> HIDE DEF r
<1>7. HandlersKept
  BY <1>1, <1>3, <1>5, <1>6, MoveKeeps DEF HandlersKept
<1>8. RestTyped
  BY DEF Receive, RestTyped, SlotInv, TypeOK, loopVars, poolVars
<1>9. QED
  BY <1>7, <1>8, KeptIsInvariant

LEMMA SlotAcquire ==
    ASSUME SlotInv, NEW g \in Handlers, Acquire(g)
    PROVE  SlotInv'
<1>1. h' \in [Handlers -> Handler] /\ Shapes'
  BY DEF Acquire, SlotInv, TypeOK, Handler, Pcs, Shapes, Shape
<1>2. HandlersKept
  <2>1. CASE Cap = 0
    <3>1. SlotHolders' = SlotHolders /\ sem' = sem
      BY <2>1 DEF Acquire, SlotInv, TypeOK, Handler, Shapes, Shape, SlotHolders
    <3>2. QED
      BY <1>1, <3>1 DEF HandlersKept, SlotInv, TypeOK, SlotsConserved
  <2>2. CASE Cap # 0
    <3>1. SlotHolders' = SlotHolders \cup {g} /\ g \notin SlotHolders
      BY <2>2 DEF Acquire, SlotInv, TypeOK, Handler, Shapes, Shape, SlotHolders
    <3>2. Cardinality(SlotHolders') = Cardinality(SlotHolders) + 1
      BY <3>1, SlotHoldersFinite, FS_AddElement
    <3>3. sem' = sem + 1 /\ sem < Cap
      BY <2>2 DEF Acquire
    <3>4. QED
      BY <1>1, <3>2, <3>3, SlotHoldersFinite, NumericConstants
         DEF HandlersKept, SlotInv, TypeOK, SlotsConserved
  <2>3. QED
    BY <2>1, <2>2
<1>3. RestTyped
  BY DEF Acquire, RestTyped, SlotInv, TypeOK, loopVars, poolVars
<1>4. QED
  BY <1>2, <1>3, KeptIsInvariant

\* Everything else a handler does: it returns, or it moves on.
LEMMA SlotHandler ==
    ASSUME SlotInv, NEW g \in Handlers,
           \/ AcquireFails(g) \/ QueryConn(g) \/ ConnRefused(g) \/ RunDone(g)
           \/ BeginSchemaFails(g) \/ BeginAdd(g) \/ BeginReply(g)
           \/ StmtGet(g) \/ StmtTouch(g) \/ Pop(g)
           \/ Commit(g) \/ CommitFails(g) \/ CommitRefused(g) \/ Rollback(g)
    PROVE  SlotInv'
<1>1. h[g] \in Handler /\ Shape(h[g])
  BY DEF SlotInv, TypeOK, Shapes
<1>2. HandlersKept
  <2>1. CASE Return(g)
    BY <2>1, ReturnKeeps DEF HandlersKept
  <2>2. CASE QueryConn(g) \/ StmtTouch(g)
    <3>1. Goto(g, "run") /\ Shape([h[g] EXCEPT !.pc = "run"])
      BY <1>1, <2>2 DEF QueryConn, StmtTouch, Shape, Handler
    <3>2. QED
      BY <3>1, GotoKeeps DEF HandlersKept, Pcs
  <2>3. CASE BeginAdd(g)
    <3>1. Goto(g, "reply") /\ Shape([h[g] EXCEPT !.pc = "reply"])
      BY <1>1, <2>3 DEF BeginAdd, Shape, Handler
    <3>2. QED
      BY <3>1, GotoKeeps DEF HandlersKept, Pcs
  <2>4. CASE StmtGet(g) /\ ~Return(g)
    <3>1. Goto(g, "touch") /\ Shape([h[g] EXCEPT !.pc = "touch"])
      BY <1>1, <2>4 DEF StmtGet, Shape, Handler
    <3>2. QED
      BY <3>1, GotoKeeps DEF HandlersKept, Pcs
  <2>5. CASE Pop(g) /\ ~Return(g)
    <3>1. Goto(g, "end") /\ Shape([h[g] EXCEPT !.pc = "end"])
      BY <1>1, <2>5 DEF Pop, Shape, Handler
    <3>2. QED
      BY <3>1, GotoKeeps DEF HandlersKept, Pcs
  <2>6. QED
    BY <2>1, <2>2, <2>3, <2>4, <2>5
       DEF AcquireFails, ConnRefused, RunDone, BeginSchemaFails, BeginReply,
           Commit, CommitFails, CommitRefused, Rollback
<1>3. h[g].pc \in {"add", "reply", "end"} => h[g].tx \in TxIds
  BY <1>1 DEF Shape
<1>4. RestTyped
  <2>1. CASE AcquireFails(g) \/ QueryConn(g) \/ ConnRefused(g) \/ RunDone(g)
             \/ StmtGet(g) \/ CommitRefused(g)
    BY <2>1 DEF AcquireFails, QueryConn, ConnRefused, RunDone, StmtGet, CommitRefused,
                RestTyped, SlotInv, TypeOK, loopVars, poolVars
  <2>2. CASE BeginSchemaFails(g) \/ Rollback(g)
    BY <2>2, RolledBackType DEF BeginSchemaFails, Rollback,
                RestTyped, SlotInv, TypeOK, loopVars, poolVars
  <2>3. CASE BeginAdd(g) \/ BeginReply(g) \/ StmtTouch(g) \/ Pop(g)
    BY <1>3, <2>3 DEF BeginAdd, BeginReply, StmtTouch, Pop,
                RestTyped, SlotInv, TypeOK, loopVars, poolVars
  <2>4. CASE Commit(g) \/ CommitFails(g)
    BY <1>3, <2>4 DEF Commit, CommitFails,
                RestTyped, SlotInv, TypeOK, loopVars, poolVars
  <2>5. QED
    BY <2>1, <2>2, <2>3, <2>4
<1>5. QED
  BY <1>2, <1>4, KeptIsInvariant

LEMMA SlotBeginConn ==
    ASSUME SlotInv, NEW g \in Handlers, NEW t \in TxIds, BeginConn(g, t)
    PROVE  SlotInv'
<1> DEFINE r == [h[g] EXCEPT !.tx = t, !.pc = "add"]
<1>1. h[g] \in Handler /\ Shape(h[g])
  BY DEF SlotInv, TypeOK, Shapes
<1>2. r \in Handler /\ Shape(r) /\ r.slot = h[g].slot
  BY <1>1 DEF BeginConn, Shape, Handler, Pcs
<1>3. h' = [h EXCEPT ![g] = r] /\ UNCHANGED sem
  BY DEF BeginConn, SlotInv, TypeOK
<1> HIDE DEF r
<1>4. HandlersKept
  BY <1>2, <1>3, MoveKeeps DEF HandlersKept
<1>5. h[g].sess \in Nat
  BY <1>1 DEF Handler
<1>6. RestTyped
  BY <1>5 DEF BeginConn, RestTyped, SlotInv, TypeOK, loopVars, poolVars
<1>7. QED
  BY <1>4, <1>6, KeptIsInvariant

\* The steps that are not a handler's.
LEMMA SlotOthers ==
    ASSUME SlotInv, ReapIdle \/ Loop \/ UNCHANGED vars
                    \/ \E t \in TxIds : GoIdle(t) \/ ReapRollback(t) \/ CtxRollback(t)
    PROVE  SlotInv'
<1>1. CASE Exit
  <2>1. SlotHolders' = {} /\ sem' = 0
    BY <1>1 DEF Exit, SlotHolders, NoRPC
  <2>2. SlotsConserved'
    BY <2>1, FS_EmptySet, NumericConstants DEF SlotsConserved
  <2>3. HandlersKept
    BY <1>1, <2>1, <2>2, NoRPCType DEF Exit, HandlersKept, Shapes
  <2>4. RestTyped
    BY <1>1, RolledBackType DEF Exit, RestTyped, SlotInv, TypeOK
  <2>5. QED
    BY <2>3, <2>4, KeptIsInvariant
<1>2. CASE ~Exit
  <2>1. UNCHANGED <<h, sem>>
    BY <1>2 DEF ReapIdle, GoIdle, ReapRollback, CtxRollback, vars,
                Loop, Welcome, DialFails, StreamEnds, CloseAll, Retry, Restart
  <2>2. HandlersKept
    BY <2>1, IdleHandlersKept
  <2>3. RestTyped
    <3>1. CASE CloseAll \/ \E t \in TxIds : ReapRollback(t) \/ CtxRollback(t)
      <4>1. \E S : txstate' = RolledBack(S)
        BY <3>1 DEF CloseAll, ReapRollback, CtxRollback
      <4>2. txstate' \in [TxIds -> {"none", "open", "committed", "rolledback"}]
        BY <4>1, RolledBackType DEF SlotInv
      <4>3. QED
        BY <3>1, <4>2 DEF CloseAll, ReapRollback, CtxRollback,
              RestTyped, SlotInv, TypeOK, loopVars, poolVars
    <3>2. CASE ReapIdle \/ UNCHANGED vars \/ \E t \in TxIds : GoIdle(t)
      BY <3>2 DEF ReapIdle, GoIdle, vars, RestTyped, SlotInv, TypeOK, loopVars, poolVars
    <3>3. CASE Welcome \/ DialFails \/ StreamEnds \/ Retry \/ Restart
      BY <3>3 DEF Welcome, DialFails, StreamEnds, Retry, Restart,
              RestTyped, SlotInv, TypeOK, loopVars, poolVars
    <3>4. QED
      BY <1>2, <3>1, <3>2, <3>3 DEF Loop
  <2>4. QED
    BY <2>2, <2>3, KeptIsInvariant
<1>3. QED
  BY <1>1, <1>2

LEMMA SlotStep == SlotInv /\ [Next]_vars => SlotInv'
BY SlotReceive, SlotAcquire, SlotHandler, SlotBeginConn, SlotOthers
   DEF Next, HandlerStep, Failure, ConnCancelled

LEMMA SlotInvariance == Spec => []SlotInv
BY SlotInit, SlotStep, PTL DEF Spec

\* Every variable keeps its type, whatever the constants.
THEOREM TypeCorrect == Spec => []TypeOK
BY SlotInvariance, PTL DEF SlotInv

\* agent/semaphore.go: no reverse RPC, however it ends, keeps a slot or gives
\* back one it does not hold, for every cap and any number of handlers.
THEOREM SlotsAreConserved == Spec => []SlotsConserved
BY SlotInvariance, PTL DEF SlotInv

-----------------------------------------------------------------------------
(* The second layer: nobody ends another's transaction *)

OwnerInv == SlotInv /\ Minted /\ Sessions /\ OneEnder

LEMMA OwnerInit == Init => OwnerInv
BY SlotInit DEF Init, OwnerInv, Minted, Sessions, OneEnder, Holds, NoRPC

\* No handler becomes a holder in this step.
HoldersShrink == \A g \in Handlers, t \in TxIds : Holds(g, t)' => Holds(g, t)
NoneForgotten == \A t \in TxIds : txstate[t] # "none" => txstate'[t] # "none"

LEMMA ShrinkKeeps ==
    ASSUME Minted, OneEnder, HoldersShrink, NoneForgotten,
           txs' \cup reaping' \subseteq txs \cup reaping, txs' \cap reaping' = {}
    PROVE  Minted' /\ OneEnder'
BY DEF Minted, OneEnder, HoldersShrink, NoneForgotten

\* A handler that returns holds nothing; one that goes elsewhere than to "add"
\* or "end" does not either.
LEMMA ReturnShrinks ==
    ASSUME SlotInv, NEW g \in Handlers, Return(g) PROVE HoldersShrink
BY DEF SlotInv, TypeOK, Return, NoRPC, HoldersShrink, Holds

LEMMA GotoShrinks ==
    ASSUME SlotInv, NEW g \in Handlers, NEW at \in Pcs \ {"add", "end"}, Goto(g, at)
    PROVE  HoldersShrink
BY DEF SlotInv, TypeOK, Handler, Goto, HoldersShrink, Holds

LEMMA SameHShrinks == ASSUME UNCHANGED h PROVE HoldersShrink
BY DEF HoldersShrink, Holds

\* The steps of a handler that neither begin a transaction nor move it
\* between the handler and the pool.
Aside(g) ==
    \/ \E op \in Ops \ {"none"}, t \in TxIds \cup {NoTx} : Receive(g, op, t)
    \/ Acquire(g) \/ AcquireFails(g) \/ QueryConn(g) \/ ConnRefused(g) \/ RunDone(g)
    \/ BeginSchemaFails(g) \/ BeginReply(g) \/ StmtGet(g) \/ StmtTouch(g)
    \/ Commit(g) \/ CommitFails(g) \/ CommitRefused(g) \/ Rollback(g)

LEMMA AsideShrinks ==
    ASSUME SlotInv, NEW g \in Handlers, Aside(g)
    PROVE  HoldersShrink
<1>1. CASE Return(g)
  BY <1>1, ReturnShrinks
<1>2. CASE \E op \in Ops \ {"none"}, t \in TxIds \cup {NoTx} : Receive(g, op, t)
  BY <1>2 DEF Receive, SlotInv, TypeOK, Ops, FirstPc, HoldersShrink, Holds
<1>3. CASE Acquire(g)
  BY <1>3 DEF Acquire, SlotInv, TypeOK, Handler, HoldersShrink, Holds
<1>4. CASE QueryConn(g) \/ StmtTouch(g)
  BY <1>4, GotoShrinks DEF QueryConn, StmtTouch, Pcs
<1>5. CASE StmtGet(g) /\ ~Return(g)
  BY <1>5, GotoShrinks DEF StmtGet, Pcs
<1>6. QED
  BY <1>1, <1>2, <1>3, <1>4, <1>5
     DEF Aside, AcquireFails, ConnRefused, RunDone, BeginSchemaFails, BeginReply,
         Commit, CommitFails, CommitRefused, Rollback

LEMMA AsideForgetsNone ==
    ASSUME SlotInv, NEW g \in Handlers, Aside(g)
    PROVE  NoneForgotten
<1>1. CASE BeginSchemaFails(g) \/ Rollback(g)
  BY <1>1, RolledBackType DEF BeginSchemaFails, Rollback, SlotInv, NoneForgotten
<1>2. CASE Commit(g) \/ CommitFails(g)
  BY <1>2 DEF Commit, CommitFails, SlotInv, TypeOK, NoneForgotten
<1>3. CASE UNCHANGED txstate
  BY <1>3 DEF NoneForgotten
<1>4. QED
  BY <1>1, <1>2, <1>3
     DEF Aside, Receive, Acquire, AcquireFails, QueryConn, ConnRefused, RunDone,
         BeginReply, StmtGet, StmtTouch, CommitRefused

LEMMA OwnerAside ==
    ASSUME OwnerInv, NEW g \in Handlers, Aside(g)
    PROVE  Minted' /\ OneEnder'
<1>1. UNCHANGED <<txs, reaping>>
  BY DEF Aside, Receive, Acquire, AcquireFails, QueryConn, ConnRefused, RunDone,
         BeginSchemaFails, BeginReply, StmtGet, StmtTouch,
         Commit, CommitFails, CommitRefused, Rollback, poolVars
<1>2. HoldersShrink /\ NoneForgotten
  BY AsideShrinks, AsideForgetsNone DEF OwnerInv
<1>3. txs \cap reaping = {}
  BY DEF OwnerInv, OneEnder
<1>4. QED
  BY <1>1, <1>2, <1>3, ShrinkKeeps DEF OwnerInv

\* A transaction that nobody held is held by the handler that began it.
LEMMA OwnerBeginConn ==
    ASSUME OwnerInv, NEW g \in Handlers, NEW t \in TxIds, BeginConn(g, t)
    PROVE  Minted' /\ OneEnder'
<1>1. /\ t \notin txs \cup reaping
      /\ \A g2 \in Handlers : ~Holds(g2, t)
  BY DEF OwnerInv, Minted, BeginConn
<1>2. UNCHANGED <<txs, reaping>>
  BY DEF BeginConn, poolVars
<1>3. \A g2 \in Handlers, t2 \in TxIds :
         Holds(g2, t2)' => Holds(g2, t2) \/ (g2 = g /\ t2 = t)
  BY DEF BeginConn, OwnerInv, SlotInv, TypeOK, Handler, Holds
<1>4. txstate'[t] = "open" /\ NoneForgotten
  BY DEF BeginConn, OwnerInv, SlotInv, TypeOK, NoneForgotten
<1>5. Minted'
  BY <1>2, <1>3, <1>4 DEF OwnerInv, Minted, NoneForgotten
<1>6. OneEnder'
  BY <1>1, <1>2, <1>3 DEF OwnerInv, OneEnder
<1>7. QED
  BY <1>5, <1>6

\* The holder puts it in the pool and holds it no more.
LEMMA OwnerBeginAdd ==
    ASSUME OwnerInv, NEW g \in Handlers, BeginAdd(g)
    PROVE  Minted' /\ OneEnder'
<1> DEFINE t == h[g].tx
<1>1. t \in TxIds /\ Holds(g, t)
  BY DEF BeginAdd, OwnerInv, SlotInv, Shapes, Shape, Holds
<1>2. /\ t \notin reaping /\ txstate[t] # "none"
      /\ \A g2 \in Handlers : Holds(g2, t) => g2 = g
  BY <1>1 DEF OwnerInv, OneEnder, Minted
<1>3. txs' = txs \cup {t} /\ UNCHANGED <<reaping, txstate>>
  BY DEF BeginAdd
<1>4. HoldersShrink /\ \A t2 \in TxIds : ~Holds(g, t2)'
  BY DEF BeginAdd, Goto, OwnerInv, SlotInv, TypeOK, Handler, HoldersShrink, Holds
<1> HIDE DEF t
<1>5. Minted'
  BY <1>1, <1>2, <1>3, <1>4 DEF OwnerInv, Minted, HoldersShrink
<1>6. OneEnder'
  BY <1>1, <1>2, <1>3, <1>4 DEF OwnerInv, OneEnder, HoldersShrink
<1>7. QED
  BY <1>5, <1>6

\* Pop takes it out of the pool and holds it, or finds nothing.
LEMMA OwnerPop ==
    ASSUME OwnerInv, NEW g \in Handlers, Pop(g)
    PROVE  Minted' /\ OneEnder'
<1> DEFINE t == h[g].tx
<1>1. t \in TxIds
  BY DEF Pop, OwnerInv, SlotInv, Shapes, Shape
<1>2. txs' = txs \ {t} /\ UNCHANGED <<reaping, txstate>>
  BY DEF Pop
<1>3. CASE t \notin txs
  <2>1. HoldersShrink
    BY <1>3, ReturnShrinks DEF Pop, OwnerInv
  <2>2. QED
    BY <1>2, <2>1, ShrinkKeeps DEF OwnerInv, OneEnder, NoneForgotten
<1>4. CASE t \in txs
  <2>1. /\ t \notin reaping /\ txstate[t] # "none"
        /\ \A g2 \in Handlers : ~Holds(g2, t)
    BY <1>1, <1>4 DEF OwnerInv, OneEnder, Minted
  <2>2. \A g2 \in Handlers, t2 \in TxIds :
           Holds(g2, t2)' => Holds(g2, t2) \/ (g2 = g /\ t2 = t)
    BY <1>4 DEF Pop, Goto, OwnerInv, SlotInv, TypeOK, Handler, Holds
  <2> HIDE DEF t
  <2>3. Minted'
    BY <1>2, <2>1, <2>2 DEF OwnerInv, Minted
  <2>4. OneEnder'
    BY <1>2, <2>1, <2>2 DEF OwnerInv, OneEnder
  <2>5. QED
    BY <2>3, <2>4
<1>5. QED
  BY <1>3, <1>4

LEMMA OwnerOthers ==
    ASSUME OwnerInv, ReapIdle \/ Loop \/ UNCHANGED vars
                     \/ \E t \in TxIds : GoIdle(t) \/ ReapRollback(t) \/ CtxRollback(t)
    PROVE  Minted' /\ OneEnder'
<1>1. HoldersShrink
  <2>1. CASE Exit
    BY <2>1 DEF Exit, NoRPC, HoldersShrink, Holds
  <2>2. CASE UNCHANGED h
    BY <2>2, SameHShrinks
  <2>3. QED
    BY <2>1, <2>2 DEF ReapIdle, GoIdle, ReapRollback, CtxRollback, vars,
                  Loop, Welcome, DialFails, StreamEnds, CloseAll, Retry, Restart
<1>2. NoneForgotten
  <2>1. CASE UNCHANGED txstate
    BY <2>1 DEF NoneForgotten
  <2>2. CASE \E S : txstate' = RolledBack(S)
    BY <2>2, RolledBackType DEF OwnerInv, SlotInv, NoneForgotten
  <2>3. QED
    BY <2>1, <2>2 DEF ReapIdle, GoIdle, ReapRollback, CtxRollback, vars,
                  Loop, Welcome, DialFails, StreamEnds, CloseAll, Retry, Restart, Exit
<1>3. txs' \cup reaping' \subseteq txs \cup reaping /\ txs' \cap reaping' = {}
  <2>1. idle \subseteq txs /\ txs \cap reaping = {}
    BY DEF OwnerInv, SlotInv, TypeOK, OneEnder
  <2>2. QED
    BY <2>1 DEF ReapIdle, GoIdle, ReapRollback, CtxRollback, vars, poolVars,
                  Loop, Welcome, DialFails, StreamEnds, CloseAll, Retry, Restart, Exit
<1>4. QED
  BY <1>1, <1>2, <1>3, ShrinkKeeps DEF OwnerInv

\* A handler keeps its session, gets the latest, or is reset.
SessKept == \A g \in Handlers : h'[g].sess \in {h[g].sess, 0, session}

LEMMA SessionStep ==
    ASSUME SlotInv, Sessions, [Next]_vars PROVE Sessions'
<1> USE DEF HandlerStep, Failure, ConnCancelled,
     Receive, Acquire, AcquireFails, QueryConn, BeginConn, ConnRefused, RunDone,
     BeginSchemaFails, BeginAdd, BeginReply, StmtGet, StmtTouch, Pop, Commit,
     CommitFails, CommitRefused, Rollback, ReapIdle, GoIdle, ReapRollback, CtxRollback,
     Loop, Welcome, DialFails, StreamEnds, CloseAll, Retry, Exit, Restart
<1>1. session \in Nat /\ session' \in Nat /\ session <= session'
  <2>1. session \in Nat
    BY DEF SlotInv, TypeOK
  <2>2. session' = session \/ session' = session + 1
    BY DEF Next, vars, loopVars
  <2>3. QED
    BY <2>1, <2>2
<1>2. \A t \in TxIds : txsess[t] \in Nat
  BY DEF SlotInv, TypeOK
<1>3. \A g \in Handlers : h[g].sess \in Nat
  BY DEF SlotInv, TypeOK, Handler
<1>4. \A t \in TxIds : txsess'[t] = txsess[t] \/ \E g \in Handlers : txsess'[t] = h[g].sess
  BY DEF SlotInv, TypeOK, Next, vars
<1>5. SessKept
  <2>1. CASE UNCHANGED h \/ Exit
    BY <2>1 DEF SessKept, NoRPC
  <2>2. ASSUME NEW g \in Handlers, Return(g) PROVE SessKept
    BY <2>2 DEF SessKept, SlotInv, TypeOK, Return, NoRPC
  <2>3. ASSUME NEW g \in Handlers, NEW at \in Pcs, Goto(g, at) PROVE SessKept
    BY <2>3 DEF SessKept, SlotInv, TypeOK, Handler, Goto
  <2>4. ASSUME NEW g \in Handlers, Acquire(g) PROVE SessKept
    <3>1. \A g2 \in Handlers : g2 # g => h'[g2] = h[g2]
      BY <2>4 DEF SlotInv, TypeOK
    <3>2. h'[g].sess = h[g].sess
      BY <2>4 DEF SlotInv, TypeOK, Handler
    <3>3. QED
      BY <3>1, <3>2 DEF SessKept
  <2>5. ASSUME NEW g \in Handlers, NEW t \in TxIds, BeginConn(g, t) PROVE SessKept
    <3>1. \A g2 \in Handlers : g2 # g => h'[g2] = h[g2]
      BY <2>5 DEF SlotInv, TypeOK
    <3>2. h'[g].sess = h[g].sess
      BY <2>5 DEF SlotInv, TypeOK, Handler
    <3>3. QED
      BY <3>1, <3>2 DEF SessKept
  <2>6. ASSUME NEW g \in Handlers, NEW op \in Ops \ {"none"}, NEW t \in TxIds \cup {NoTx},
               Receive(g, op, t)
        PROVE  SessKept
    BY <2>6 DEF SessKept, SlotInv, TypeOK
  <2>7. QED
    BY <2>1, <2>2, <2>3, <2>4, <2>5, <2>6 DEF Next, vars, Pcs
<1>6. QED
  BY <1>1, <1>2, <1>3, <1>4, <1>5 DEF Sessions, SessKept

LEMMA OwnerStep == OwnerInv /\ [Next]_vars => OwnerInv'
<1> SUFFICES ASSUME OwnerInv, [Next]_vars PROVE OwnerInv'
  OBVIOUS
<1>1. SlotInv' /\ Sessions'
  BY SlotStep, SessionStep DEF OwnerInv
<1>2. Minted' /\ OneEnder'
  BY OwnerAside, OwnerBeginConn, OwnerBeginAdd, OwnerPop, OwnerOthers
     DEF Next, HandlerStep, Failure, ConnCancelled, Aside
<1>3. QED
  BY <1>1, <1>2 DEF OwnerInv

LEMMA OwnerInvariance == Spec => []OwnerInv
BY OwnerInit, OwnerStep, PTL DEF Spec

\* agent/txpool.go: a pooled transaction is committed or rolled back by at
\* most one of Commit, Rollback, the reaper and CloseAll, for any number of
\* handlers and transactions.
THEOREM OneEnderAlways == Spec => []OneEnder
BY OwnerInvariance, PTL DEF OwnerInv

-----------------------------------------------------------------------------
(* The third layer: somebody ends every transaction *)

\* Who will end t.
Covered(t) ==
    \/ t \in txs \cup reaping
    \/ \E g \in Handlers : Holds(g, t)
    \/ ~Live(txsess[t])

LEMMA LeakIsUncovered == NoConnLeak <=> \A t \in TxIds : Open(t) => Covered(t)
BY DEF NoConnLeak, Covered

LEMMA IInvInit == Init => IInv
BY OwnerInit DEF Init, IInv, OwnerInv, NoConnLeak, Open

\* The context of a session that is over stays done.
LEMMA DeadStaysDead ==
    ASSUME OwnerInv, NEW t \in TxIds, ~Live(txsess[t]), txsess'[t] = txsess[t],
           Loop \/ UNCHANGED <<daemon, session>>
    PROVE  ~Live(txsess[t])'
<1>1. txsess[t] \in Nat /\ session \in Nat /\ txsess[t] <= session
  BY DEF OwnerInv, SlotInv, TypeOK, Sessions
<1>2. CASE Welcome
  BY <1>1, <1>2 DEF Welcome, Live
<1>3. CASE ~Welcome
  BY <1>3 DEF Loop, DialFails, StreamEnds, CloseAll, Retry, Exit, Restart, Live
<1>4. QED
  BY <1>2, <1>3

LEMMA CoverAside ==
    ASSUME IInv, NEW g \in Handlers, Aside(g), NEW t \in TxIds, Open(t)'
    PROVE  Covered(t)'
<1> USE DEF Aside, Receive, Acquire, AcquireFails, QueryConn, ConnRefused, RunDone,
            BeginSchemaFails, BeginReply, StmtGet, StmtTouch,
            Commit, CommitFails, CommitRefused, Rollback
<1>1. OwnerInv /\ SlotInv
  BY DEF IInv, OwnerInv
<1>2. UNCHANGED <<txs, reaping, daemon, session, txsess>>
  BY DEF poolVars, loopVars
<1>3. Open(t)
  BY <1>1, RolledBackType DEF SlotInv, TypeOK, Open
<1>4. CASE ~Holds(g, t)
  <2>1. \A g2 \in Handlers : Holds(g2, t) => Holds(g2, t)'
    BY <1>1, <1>4 DEF SlotInv, TypeOK, Handler, Return, Goto, Holds
  <2>2. QED
    BY <1>2, <1>3, <2>1 DEF IInv, NoConnLeak, Covered, Live
<1>5. CASE Holds(g, t)
  <2>1. CASE h[g].pc = "add"
    <3>1. BeginSchemaFails(g)
      BY <1>1, <2>1 DEF SlotInv, TypeOK, Shapes, Shape
    <3>2. ~Open(t)'
      BY <1>1, <1>5, <3>1, RolledBackType DEF Holds, SlotInv, Open
    <3>3. QED
      BY <3>2
  <2>2. CASE h[g].pc = "end"
    <3>1. Commit(g) \/ CommitFails(g) \/ CommitRefused(g) \/ Rollback(g)
      BY <1>1, <2>2 DEF SlotInv, TypeOK, Shapes, Shape
    <3>2. CASE CommitRefused(g)
      BY <1>2, <1>3, <1>5, <3>2 DEF Holds, Covered, Live
    <3>3. CASE Commit(g) \/ CommitFails(g)
      BY <1>1, <1>5, <3>3 DEF Holds, SlotInv, TypeOK, Open
    <3>4. CASE Rollback(g)
      BY <1>1, <1>5, <3>4, RolledBackType DEF Holds, SlotInv, Open
    <3>5. QED
      BY <3>1, <3>2, <3>3, <3>4
  <2>3. QED
    BY <1>5, <2>1, <2>2 DEF Holds
<1>6. QED
  BY <1>4, <1>5

LEMMA CoverBeginConn ==
    ASSUME IInv, NEW g \in Handlers, NEW t \in TxIds, BeginConn(g, t),
           NEW u \in TxIds, Open(u)'
    PROVE  Covered(u)'
<1>1. SlotInv
  BY DEF IInv
<1>2. h[g] \in Handler /\ h'[g].tx = t /\ h'[g].pc = "add"
  BY <1>1 DEF BeginConn, SlotInv, TypeOK, Handler
<1>3. CASE u = t
  BY <1>2, <1>3 DEF Covered, Holds
<1>4. CASE u # t
  <2>1. Open(u) /\ txsess'[u] = txsess[u] /\ UNCHANGED <<txs, reaping, daemon, session>>
    BY <1>1, <1>4 DEF BeginConn, SlotInv, TypeOK, Open, poolVars, loopVars
  <2>2. \A g2 \in Handlers : Holds(g2, u) => Holds(g2, u)'
    BY <1>1 DEF BeginConn, SlotInv, TypeOK, Holds
  <2>3. QED
    BY <2>1, <2>2 DEF IInv, NoConnLeak, Covered, Live
<1>5. QED
  BY <1>3, <1>4

LEMMA CoverBeginAdd ==
    ASSUME IInv, NEW g \in Handlers, BeginAdd(g), NEW t \in TxIds, Open(t)'
    PROVE  Covered(t)'
<1>1. SlotInv
  BY DEF IInv
<1>2. /\ txs' = txs \cup {h[g].tx}
      /\ UNCHANGED <<reaping, txstate, txsess, daemon, session>>
  BY DEF BeginAdd, loopVars
<1>3. \A g2 \in Handlers : g2 # g => h'[g2] = h[g2]
  BY <1>1 DEF BeginAdd, Goto, SlotInv, TypeOK
<1>4. \A g2 \in Handlers : Holds(g2, t) => Holds(g2, t)' \/ t = h[g].tx
  BY <1>3 DEF Holds
<1>5. QED
  BY <1>2, <1>4 DEF IInv, NoConnLeak, Covered, Live, Open

LEMMA CoverPop ==
    ASSUME IInv, NEW g \in Handlers, Pop(g), NEW t \in TxIds, Open(t)'
    PROVE  Covered(t)'
<1>1. SlotInv
  BY DEF IInv
<1>2. /\ txs' = txs \ {h[g].tx}
      /\ UNCHANGED <<reaping, txstate, txsess, daemon, session>>
  BY DEF Pop, loopVars
<1>3. \A g2 \in Handlers : Holds(g2, t) => Holds(g2, t)'
  BY <1>1 DEF Pop, Goto, Return, SlotInv, TypeOK, Holds
<1>4. CASE t = h[g].tx /\ t \in txs
  BY <1>1, <1>4 DEF Pop, Goto, SlotInv, TypeOK, Handler, Holds, Covered
<1>5. CASE ~(t = h[g].tx /\ t \in txs)
  <2>1. t \in txs => t \in txs'
    BY <1>2, <1>5
  <2>2. Open(t)
    BY <1>2 DEF Open
  <2>3. ~Live(txsess[t]) => ~Live(txsess[t])'
    BY <1>2 DEF Live
  <2>4. Covered(t)
    BY <2>2 DEF IInv, NoConnLeak, Covered
  <2>5. QED
    BY <1>2, <1>3, <2>1, <2>3, <2>4 DEF Covered
<1>6. QED
  BY <1>4, <1>5

LEMMA CoverOthers ==
    ASSUME IInv, ReapIdle \/ Loop \/ UNCHANGED vars
                 \/ \E t \in TxIds : GoIdle(t) \/ ReapRollback(t) \/ CtxRollback(t),
           NEW u \in TxIds, Open(u)'
    PROVE  Covered(u)'
<1>1. OwnerInv /\ SlotInv
  BY DEF IInv, OwnerInv
<1>2. ~Exit
  BY <1>1, RolledBackType DEF Exit, SlotInv, Open
<1>3. Open(u) /\ UNCHANGED <<h, txsess>>
  <2>1. UNCHANGED <<h, txsess>> /\ (UNCHANGED txstate \/ \E S : txstate' = RolledBack(S))
    BY <1>2 DEF ReapIdle, GoIdle, ReapRollback, CtxRollback, vars,
            Loop, Welcome, DialFails, StreamEnds, CloseAll, Retry, Restart
  <2>2. Open(u)
    BY <1>1, <2>1, RolledBackType DEF SlotInv, Open
  <2>3. QED
    BY <2>1, <2>2
<1>4. u \in txs \cup reaping => u \in txs' \cup reaping'
  <2>1. CASE CloseAll
    BY <1>1, <2>1, RolledBackType DEF CloseAll, SlotInv, Open
  <2>2. ASSUME NEW t \in TxIds, ReapRollback(t) PROVE <1>4
    BY <1>1, <2>2, RolledBackType DEF ReapRollback, SlotInv, Open
  <2>3. QED
    BY <1>2, <2>1, <2>2
       DEF ReapIdle, GoIdle, CtxRollback, vars, poolVars,
           Loop, Welcome, DialFails, StreamEnds, Retry, Restart
<1>5. ~Live(txsess[u]) => ~Live(txsess[u])'
  <2>1. Loop \/ UNCHANGED <<daemon, session>>
    BY DEF ReapIdle, GoIdle, ReapRollback, CtxRollback, vars, loopVars
  <2>2. QED
    BY <1>1, <1>3, <2>1, DeadStaysDead
<1>6. Covered(u)
  BY <1>3 DEF IInv, NoConnLeak, Covered
<1>7. QED
  BY <1>3, <1>4, <1>5, <1>6 DEF Covered, Holds

LEMMA IInvStep == IInv /\ [Next]_vars => IInv'
<1> SUFFICES ASSUME IInv, [Next]_vars PROVE IInv'
  OBVIOUS
<1>1. OwnerInv'
  BY OwnerStep DEF IInv, OwnerInv
<1>2. ASSUME NEW t \in TxIds, Open(t)' PROVE Covered(t)'
  BY <1>2, CoverAside, CoverBeginConn, CoverBeginAdd, CoverPop, CoverOthers
     DEF Next, HandlerStep, Failure, ConnCancelled, Aside
<1>3. NoConnLeak'
  BY <1>2 DEF NoConnLeak, Covered
<1>4. QED
  BY <1>1, <1>3 DEF IInv, OwnerInv

LEMMA Invariance == Spec => []IInv
BY IInvInit, IInvStep, PTL DEF Spec

\* agent/daemon.go and agent/txpool.go: no step, crash or reconnect leaves an
\* open transaction, and the connection it pins, with nobody to end it.
THEOREM NoConnLeakEver == Spec => []NoConnLeak
BY Invariance, PTL DEF IInv

-----------------------------------------------------------------------------
(* An answered Commit or Rollback leaves no entry *)

\* A step of handler g changes no other handler.
LEMMA OthersKeep ==
    ASSUME SlotInv, NEW g \in Handlers, NEW g2 \in Handlers, g2 # g,
           \/ Aside(g) \/ (\E t \in TxIds : BeginConn(g, t)) \/ BeginAdd(g) \/ Pop(g)
    PROVE  h'[g2] = h[g2]
<1>1. CASE Return(g) \/ \E at \in Pcs : Goto(g, at)
  BY <1>1 DEF SlotInv, TypeOK, Return, Goto
<1>2. CASE Acquire(g) \/ \E t \in TxIds : BeginConn(g, t)
  BY <1>2 DEF SlotInv, TypeOK, Acquire, BeginConn
<1>3. CASE \E op \in Ops \ {"none"}, t \in TxIds \cup {NoTx} : Receive(g, op, t)
  BY <1>3 DEF SlotInv, TypeOK, Receive
<1>4. QED
  BY <1>1, <1>2, <1>3
     DEF Aside, AcquireFails, QueryConn, ConnRefused, RunDone, BeginSchemaFails,
         BeginAdd, BeginReply, StmtGet, StmtTouch, Pop, Commit, CommitFails,
         CommitRefused, Rollback, Pcs

\* A Commit or Rollback ends when Pop finds nothing, or after Pop took the entry.
LEMMA EndingStep ==
    ASSUME IInv, Next, NEW g \in Handlers,
           h[g].op \in {"commit", "rollback"}, h'[g].op = "none"
    PROVE  h[g].tx \notin txs'
<1>1. SlotInv /\ Shape(h[g]) /\ h'[g] # h[g] /\ h[g].op # "none"
  BY DEF IInv, SlotInv, Shapes
<1>2. CASE Exit
  BY <1>2 DEF Exit
<1>3. CASE Pop(g)
  BY <1>3 DEF Pop
<1>4. CASE Commit(g) \/ CommitFails(g) \/ CommitRefused(g) \/ Rollback(g)
  <2>1. h[g].tx \in TxIds /\ Holds(g, h[g].tx)
    BY <1>1, <1>4 DEF Commit, CommitFails, CommitRefused, Rollback, Shape, Holds
  <2>2. UNCHANGED txs
    BY <1>4 DEF Commit, CommitFails, CommitRefused, Rollback, poolVars
  <2>3. QED
    BY <2>1, <2>2 DEF IInv, OneEnder
<1>5. CASE \/ (Aside(g) /\ ~Commit(g) /\ ~CommitFails(g) /\ ~CommitRefused(g) /\ ~Rollback(g))
           \/ BeginAdd(g) \/ \E t \in TxIds : BeginConn(g, t)
  BY <1>1, <1>5
     DEF Aside, Receive, Acquire, AcquireFails, QueryConn, BeginConn, ConnRefused, RunDone,
         BeginSchemaFails, BeginAdd, BeginReply, StmtGet, StmtTouch, Shape
<1>6. ASSUME NEW g2 \in Handlers,
             \/ Aside(g2) \/ (\E t \in TxIds : BeginConn(g2, t)) \/ BeginAdd(g2) \/ Pop(g2)
      PROVE  g2 = g
  BY <1>1, <1>6, OthersKeep
<1>7. ~UNCHANGED h
  BY <1>1
<1>8. QED
  BY <1>2, <1>3, <1>4, <1>5, <1>6, <1>7
     DEF Next, HandlerStep, Failure, ConnCancelled, Aside,
         ReapIdle, GoIdle, ReapRollback, CtxRollback,
         Loop, Welcome, DialFails, StreamEnds, CloseAll, Retry, Restart

\* agent/txpool.go: whatever the answer to a Commit or a Rollback, its entry
\* has left the pool when the request ends.
THEOREM EndingAlwaysDropsEntry == Spec => EndingDropsEntry
<1>1. IInv /\ [Next]_vars =>
        [\A g \in Handlers :
            h[g].op \in {"commit", "rollback"} /\ h'[g].op = "none"
               => h[g].tx \notin txs']_vars
  BY EndingStep
<1>2. QED
  BY <1>1, Invariance, PTL DEF Spec, EndingDropsEntry

-----------------------------------------------------------------------------
(* The daemon implements TxService *)

\* RolledBack is an abort of the transactions that were open, or nothing.
LEMMA RolledBackAborts ==
    ASSUME TypeOK, NEW S, txstate' = RolledBack(S), UNCHANGED acked
    PROVE  (\E T \in SUBSET TxIds : Service!Abort(T)) \/ UNCHANGED txstate
<1> DEFINE T == {t \in TxIds : t \in S /\ Open(t)}
<1>1. T \in SUBSET TxIds
  OBVIOUS
<1>2. CASE T = {}
  BY <1>2 DEF RolledBack, TypeOK
<1>3. CASE T # {}
  <2>1. T \subseteq Service!OpenTxs
    BY DEF Service!OpenTxs, Open
  <2>2. txstate' = [t \in TxIds |-> IF t \in T THEN "rolledback" ELSE txstate[t]]
    BY DEF RolledBack
  <2>3. Service!Abort(T)
    BY <1>3, <2>1, <2>2 DEF Service!Abort
  <2>4. QED
    BY <1>1, <2>3
<1>4. QED
  BY <1>2, <1>3

\* BeginTxx pins a connection, so one of MaxOpenConns was free.
LEMMA BeginImplements ==
    ASSUME SlotInv, NEW g \in Handlers, NEW t \in TxIds, BeginConn(g, t)
    PROVE  Service!Begin(t)
<1>1. Service!OpenTxs = Pinned
  BY DEF Service!OpenTxs, Pinned, Open
<1>2. IsFiniteSet(Pinned) /\ IsFiniteSet(Borrowing)
  <2>1. Pinned \in SUBSET TxIds /\ Borrowing \in SUBSET Handlers
    BY DEF Pinned, Borrowing
  <2>2. QED
    BY <2>1, FiniteConstants, FS_Subset
<1>3. Cardinality(Pinned) \in Nat /\ Cardinality(Borrowing) \in Nat
  BY <1>2, FS_CardinalityType
<1>4. Cardinality(Pinned) + Cardinality(Borrowing) < MaxOpenConns
  BY DEF BeginConn, ConnsInUse
<1>5. Cardinality(Service!OpenTxs) < MaxOpenConns
  BY <1>1, <1>3, <1>4, NumericConstants
<1>6. Service!Cardinality(Service!OpenTxs) < MaxOpenConns
  BY <1>5, Zenon DEF Cardinality, Service!Cardinality
<1>7. QED
  BY <1>6 DEF BeginConn, Service!Begin

LEMMA CommitImplements ==
    ASSUME IInv, NEW g \in Handlers, Commit(g) \/ CommitFails(g)
    PROVE  \E t \in TxIds : Service!Commit(t) \/ Service!Abort({t})
<1> DEFINE t == h[g].tx
<1>1. t \in TxIds /\ SlotInv /\ Open(t)
  BY DEF Commit, CommitFails, IInv, SlotInv, Shapes, Shape
<1>2. CASE txstate' = [txstate EXCEPT ![t] = "committed"]
  <2>1. acked' \in {acked, acked \cup {t}}
    BY DEF Commit, CommitFails
  <2>2. Service!Commit(t)
    BY <1>1, <1>2, <2>1 DEF Open, Service!Commit
  <2>3. QED
    BY <1>1, <2>2
<1>3. CASE txstate' = [txstate EXCEPT ![t] = "rolledback"] /\ UNCHANGED acked
  <2>1. {t} # {} /\ {t} \subseteq Service!OpenTxs
    BY <1>1 DEF Service!OpenTxs, Open
  <2>2. txstate' = [u \in TxIds |-> IF u \in {t} THEN "rolledback" ELSE txstate[u]]
    BY <1>1, <1>3 DEF SlotInv, TypeOK
  <2>3. Service!Abort({t})
    BY <1>3, <2>1, <2>2 DEF Service!Abort
  <2>4. QED
    BY <1>1, <2>3
<1>4. QED
  BY <1>2, <1>3 DEF Commit, CommitFails

LEMMA ServiceStep == IInv /\ [Next]_vars => [Service!Next]_(Service!vars)
<1> SUFFICES ASSUME IInv, [Next]_vars PROVE [Service!Next]_(Service!vars)
  OBVIOUS
<1>1. TypeOK /\ SlotInv
  BY DEF IInv, SlotInv
<1>2. CASE UNCHANGED <<txstate, acked>>
  BY <1>2 DEF Service!vars
<1>3. CASE (\E S : txstate' = RolledBack(S)) /\ UNCHANGED acked
  BY <1>1, <1>3, RolledBackAborts DEF Service!Next, Service!vars
<1>4. CASE \E g \in Handlers, t \in TxIds : BeginConn(g, t)
  BY <1>1, <1>4, BeginImplements DEF Service!Next
<1>5. CASE \E g \in Handlers : Commit(g) \/ CommitFails(g)
  <2>1. \E t \in TxIds : Service!Commit(t) \/ Service!Abort({t})
    BY <1>5, CommitImplements
  <2>2. \A t \in TxIds : {t} \in SUBSET TxIds
    OBVIOUS
  <2>3. QED
    BY <2>1, <2>2 DEF Service!Next
<1>6. QED
  BY <1>2, <1>3, <1>4, <1>5
     DEF Next, vars, HandlerStep, Failure, ConnCancelled,
     Receive, Acquire, AcquireFails, QueryConn, ConnRefused, RunDone,
     BeginSchemaFails, BeginAdd, BeginReply, StmtGet, StmtTouch, Pop,
     CommitRefused, Rollback, ReapIdle, GoIdle, ReapRollback, CtxRollback,
     Loop, Welcome, DialFails, StreamEnds, CloseAll, Retry, Exit, Restart

\* What the cloud is promised of a remote transaction holds of the daemon,
\* crashes, reconnects, the reaper and concurrent requests included.
THEOREM ImplementsService == Spec => ServiceSpec
<1>1. Init => Service!Init
  BY DEF Init, Service!Init
<1>2. QED
  BY <1>1, ServiceStep, Invariance, PTL DEF Spec, ServiceSpec, Service!Spec

-----------------------------------------------------------------------------
(* The reconnect loop *)

\* The powers of two are what their definition says: it has a solution.
LEMMA Power2Is ==
  /\ Power2 \in [Nat -> Nat] /\ Power2[0] = 1
  /\ \A n \in Nat : Power2[n + 1] = 2 * Power2[n]
  <1> DEFINE twice == [m \in Nat |-> 2 * m]
             Powers(f) == f = [n \in Nat |-> IF n = 0 THEN 1 ELSE 2 * f[n - 1]]
  <1>1. twice \in [Nat -> Nat] /\ 1 \in Nat
    OBVIOUS
  <1>2. PICK f \in [Nat -> Nat] : f[0] = 1 /\ \A n \in Nat : f[n + 1] = twice[f[n]]
    <2> HIDE DEF twice
    <2>1. \E f \in [Nat -> Nat] : Iterates(f, twice, 1)
      BY <1>1, Iteration
    <2> QED  BY <2>1 DEF Iterates
  <1>3. \A n \in Nat : f[n] = IF n = 0 THEN 1 ELSE 2 * f[n - 1]
    <2> SUFFICES ASSUME NEW n \in Nat, n # 0 PROVE f[n] = 2 * f[n - 1]
      BY <1>2
    <2>1. n - 1 \in Nat /\ (n - 1) + 1 = n
      OBVIOUS
    <2> QED  BY <1>2, <2>1
  <1>4. Powers(f)
    BY <1>2, <1>3
  <1>5. Power2 = CHOOSE p : Powers(p)
    BY DEF Power2
  <1> HIDE DEF Powers
  <1>6. Powers(Power2)
    BY <1>4, <1>5
  <1> USE DEF Powers
  <1>7. \A n \in Nat : Power2[n] = IF n = 0 THEN 1 ELSE 2 * Power2[n - 1]
    BY <1>6
  <1>8. Power2[0] = 1 /\ \A n \in Nat : Power2[n + 1] = 2 * Power2[n]
    BY <1>7
  <1>9. Power2 \in [Nat -> Nat]
    <2> DEFINE T == {n \in Nat : Power2[n] \in Nat}
    <2>1. T = Nat
      <3>1. 0 \in T /\ \A n \in T : n + 1 \in T
        BY <1>8
      <3>2. T \in SUBSET Nat
        OBVIOUS
      <3> HIDE DEF T
      <3> QED  BY <3>1, <3>2, SetInduction
    <2>2. DOMAIN Power2 = Nat /\ Power2 = [n \in DOMAIN Power2 |-> Power2[n]]
      BY <1>6
    <2> QED  BY <2>1, <2>2
  <1> QED  BY <1>8, <1>9

\* Doubled as often as dials were refused: by the attempt that is under way, and
\* by the wait after it.
Slowed(n) == backoff = ReconnectMax \/ backoff >= ReconnectInitial * Power2[n]

LoopInv ==
    /\ LoopTypeOK
    /\ refused < MaxRefused =>
           /\ pc = "dial" => Slowed(refused)
           /\ pc \in {"ended", "waiting"} /\ refused # 0 => Slowed(refused - 1)
    /\ pc = "serving" => refused = 0
    /\ pc = "ended" /\ err = "nil" => refused = 0
    /\ pc = "waiting" /\ err = "nil" => backoff = ReconnectInitial /\ refused = 0

LEMMA LoopInitially == LoopInit => LoopInv
  BY LoopConstants, Power2Is DEF LoopInit, LoopInv, LoopTypeOK, Errors

\* The next wait is the double, or the maximum.
LEMMA RedialsKeeps == ASSUME LoopInv, Redials PROVE LoopInv'
  <1> USE LoopConstants
  <1>1. /\ backoff' = NextBackoff(backoff) /\ pc = "waiting" /\ pc' = "dial"
        /\ UNCHANGED <<err, refused, up, minCli>>
    BY DEF Redials
  <1>2. /\ backoff \in Nat /\ ReconnectInitial <= backoff /\ backoff <= ReconnectMax
        /\ refused \in Nat /\ refused <= MaxRefused
    BY DEF LoopInv, LoopTypeOK
  <1>3. LoopTypeOK'
    BY <1>1, <1>2 DEF LoopInv, LoopTypeOK, NextBackoff
  <1>4. ASSUME refused < MaxRefused
        PROVE  backoff' = ReconnectMax \/ backoff' >= ReconnectInitial * Power2[refused]
    <2>1. CASE backoff = ReconnectMax
      BY <1>1, <1>2, <2>1 DEF NextBackoff
    <2>2. CASE refused = 0
      <3>1. ReconnectInitial * Power2[refused] = ReconnectInitial
        BY <2>2, Power2Is
      <3> QED  BY <1>1, <1>2, <3>1 DEF NextBackoff
    <2>3. CASE refused # 0 /\ backoff >= ReconnectInitial * Power2[refused - 1]
      <3>1. Power2[refused] = 2 * Power2[refused - 1] /\ Power2[refused - 1] \in Nat
        <4>1. refused - 1 \in Nat /\ refused = (refused - 1) + 1
          BY <1>2, <2>3
        <4> QED  BY <4>1, Power2Is
      <3>2. DEFINE k == ReconnectInitial * Power2[refused - 1]
      <3>3. k \in Nat /\ ReconnectInitial * Power2[refused] = 2 * k
        BY <3>1
      <3> QED  BY <1>1, <1>2, <2>3, <3>3 DEF NextBackoff
    <2> QED  BY <1>1, <1>2, <1>4, <2>1, <2>2, <2>3 DEF LoopInv, Slowed
  <1> QED  BY <1>1, <1>3, <1>4 DEF LoopInv, Slowed

\* A dial that no Welcome answers, or one that is welcomed.
LEMMA DialKeeps == ASSUME LoopInv, HandshakeFails \/ Hello PROVE LoopInv'
  <1>1. /\ pc = "dial" /\ backoff' = backoff /\ up' = up /\ minCli' = minCli
        /\ \/ pc' = "ended" /\ err' \in Errors \ {"nil"} /\ refused' = OneMore
           \/ pc' = "serving" /\ err' = "nil" /\ refused' = 0
    BY DEF HandshakeFails, Hello, EndsWith, Errors
  <1>2. /\ refused \in Nat /\ refused <= MaxRefused /\ MaxRefused \in Nat
        /\ refused < MaxRefused => Slowed(refused)
    BY <1>1, LoopConstants DEF LoopInv, LoopTypeOK
  <1>3. CASE pc' = "serving" /\ err' = "nil" /\ refused' = 0
    BY <1>1, <1>2, <1>3 DEF LoopInv, LoopTypeOK, Errors
  <1>4. CASE pc' = "ended" /\ err' \in Errors \ {"nil"} /\ refused' = OneMore
    <2>1. /\ refused' \in 0..MaxRefused
          /\ refused' < MaxRefused => refused < MaxRefused /\ refused' - 1 = refused
      BY <1>2, <1>4 DEF OneMore
    <2>2. LoopTypeOK'
      BY <1>1, <1>4, <2>1 DEF LoopInv, LoopTypeOK, Errors
    <2>3. refused' < MaxRefused =>
             backoff' = ReconnectMax \/ backoff' >= ReconnectInitial * Power2[refused' - 1]
      BY <1>1, <1>2, <2>1 DEF Slowed
    <2> QED  BY <1>4, <2>2, <2>3 DEF LoopInv, Slowed
  <1> QED  BY <1>1, <1>3, <1>4

\* The invariant is inductive.
LEMMA LoopInductive == LoopInv /\ [LoopNext]_loopvars => LoopInv'
  <1> SUFFICES ASSUME LoopInv, [LoopNext]_loopvars PROVE LoopInv'
    OBVIOUS
  <1> USE DEF LoopInv, LoopTypeOK, Errors, Slowed
  <1>1. CASE Start
    <2>1. ReconnectInitial * Power2[0] = ReconnectInitial
      BY LoopConstants, Power2Is
    <2> QED  BY <1>1, <2>1, LoopConstants DEF Start
  <1>2. CASE Redials
    BY <1>2, RedialsKeeps
  <1>3. CASE HandshakeFails \/ Hello
    BY <1>3, DialKeeps
  <1>4. CASE Waits
    BY <1>4, LoopConstants DEF Waits
  <1>5. CASE \/ SessionEnds \/ GivesUp \/ Cancelled \/ Respawn
             \/ ServerChanges \/ UNCHANGED loopvars
    BY <1>5 DEF SessionEnds, GivesUp, Cancelled, Respawn, ServerChanges, loopvars, EndsWith
  <1> QED  BY <1>1, <1>2, <1>3, <1>4, <1>5 DEF LoopNext

\* For any initial and maximum wait and however long the server stays away: after
\* n dials in a row that it did not welcome the daemon waits at least the initial
\* wait doubled n - 1 times, or the maximum; a stream that ended cleanly costs the
\* initial wait (daemon.go, Run and nextBackoff).
THEOREM RefusalsAlwaysSlowDown == LoopSpec => []RefusalsSlowDown
  <1>1. LoopInv => RefusalsSlowDown
    BY LoopConstants DEF LoopInv, LoopTypeOK, RefusalsSlowDown, Slowed
  <1> QED  BY <1>1, LoopInitially, LoopInductive, PTL DEF LoopSpec
=============================================================================
