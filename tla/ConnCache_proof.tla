-------------------------- MODULE ConnCache_proof --------------------------
(***************************************************************************)
(* Proofs about ConnCache, for any callers, registry and number of         *)
(* handles.                                                                *)
(***************************************************************************)
EXTENDS ConnCache, TLAPS

\* Handles are minted in order, so the ones of running Gets are their own:
\* open, not cached, and not another's.
Fresh ==
    /\ None \notin open
    /\ \A g \in Callers : get[g].pc = "store" =>
          /\ get[g].new \in 1..handles /\ get[g].new \in open
          /\ get[g].uuid \in Registered
          /\ \A u \in Uuids : cache[u] # get[g].new
          /\ \A g2 \in Callers : get[g2].pc = "store" /\ g2 # g
                                    => get[g2].new # get[g].new
    /\ \A u \in Uuids : cache[u] # None => cache[u] \in 1..handles
    /\ \A u, v \in Uuids : cache[u] = cache[v] /\ cache[u] # None => u = v

\* Until Close, what a Get returned is what the pool still has.
Current ==
    /\ \A g \in Callers : get[g].pc \in {"lookup", "check", "take", "open", "store", "have"}
                             => get[g].uuid \in Uuids
    /\ \A g \in Callers : get[g].pc = "open" => get[g].uuid \in Registered
    /\ \A g \in Callers : get[g].pc \in {"check", "take"} => get[g].uuid \in Unknown
    /\ \A u \in Uuids : cache[u] # None => u \in Registered
    /\ ~closed =>
          /\ fallback \in open \cup {None}
          /\ \A g \in Callers : get[g].pc = "take" => fallback # None
          /\ \A u \in Uuids : cache[u] # None => cache[u] \in open
          /\ \A g \in Callers : get[g].pc = "have" =>
                get[g].db = IF get[g].uuid \in Registered THEN cache[get[g].uuid]
                                                          ELSE fallback

IInv == TypeOK /\ Fresh /\ Current /\ NoHandleLost

LEMMA NoGetType == NoGet \in Get
BY DEF NoGet, Get

LEMMA IInvInit == Init => IInv
<1> SUFFICES ASSUME Init PROVE IInv
  OBVIOUS
<1>1. TypeOK
  <2>1. \A g \in Callers : get[g].pc = "idle"
    BY DEF Init, NoGet
  <2>2. open \subseteq Handles /\ handles \in 0..MaxHandles
    BY HandleBound DEF Init, Handles
  <2>3. QED
    BY <2>1, <2>2, NoGetType DEF Init, TypeOK
<1>2. Fresh /\ Current /\ NoHandleLost
  BY DEF Init, NoGet, Fresh, Current, NoHandleLost
<1>3. QED
  BY <1>1, <1>2 DEF IInv

\* A step that leaves the pool alone and moves g to a place where it has no
\* handle of its own.
LEMMA Simple ==
    ASSUME IInv, NEW g \in Callers, NEW r \in Get, get' = [get EXCEPT ![g] = r],
           get[g].pc # "store", r.pc # "store",
           r.pc = "have" /\ ~closed => r.db # None,
           r.pc \in {"check", "take"} => r.uuid \in Unknown,
           r.pc = "take" /\ ~closed => fallback # None,
           r.pc # "idle" => r.uuid \in Uuids,
           r.pc = "open" => r.uuid \in Registered,
           r.pc = "have" /\ ~closed =>
              r.db = IF r.uuid \in Registered THEN cache[r.uuid] ELSE fallback,
           UNCHANGED <<cache, open, handles, fallback, closed>>
    PROVE  IInv'
<1>1. TypeOK'
  BY DEF IInv, TypeOK
<1>2. Fresh'
  BY DEF IInv, TypeOK, Fresh
<1>3. Current'
  BY DEF IInv, TypeOK, Current, Get
<1>4. NoHandleLost'
  BY DEF IInv, TypeOK, NoHandleLost
<1>5. QED
  BY <1>1, <1>2, <1>3, <1>4 DEF IInv

\* The steps that open no handle, cache none and close none.
LEMMA SimpleSteps ==
    ASSUME IInv, NEW g \in Callers,
           \/ \E u \in Uuids : Call(g, u)
           \/ Hit(g) \/ Miss(g) \/ CheckFallback(g) \/ TakeFallback(g)
           \/ OpenFails(g) \/ Done(g)
    PROVE  IInv'
<1>1. get[g] \in Get /\ NoGet \in Get /\ get \in [Callers -> Get]
  BY NoGetType DEF IInv, TypeOK
<1>2. ASSUME NEW u \in Uuids, Call(g, u) PROVE IInv'
  <2> DEFINE r == [NoGet EXCEPT !.pc = "lookup", !.uuid = u]
  <2>1. r \in Get /\ r.pc = "lookup" /\ r.uuid = u
    BY DEF NoGet, Get
  <2>2. get' = [get EXCEPT ![g] = r] /\ get[g].pc = "idle"
    BY <1>2 DEF Call
  <2>3. UNCHANGED <<cache, open, handles, fallback, closed>>
    BY <1>2 DEF Call
  <2> HIDE DEF r
  <2>4. QED
    BY <2>1, <2>2, <2>3, Simple
<1>3. ASSUME NEW d, ~closed => d # None, Returns(g, d),
             get[g].pc \in {"lookup", "take"}, d \in Handles \cup {None},
             ~closed => d = IF get[g].uuid \in Registered THEN cache[get[g].uuid]
                                                          ELSE fallback,
             UNCHANGED <<cache, open, handles, fallback, closed>>
      PROVE  IInv'
  <2> DEFINE r == [get[g] EXCEPT !.pc = "have", !.new = None, !.db = d]
  <2>1. r \in Get /\ r.pc = "have" /\ r.uuid = get[g].uuid /\ r.db = d
    BY <1>1, <1>3 DEF Get
  <2>2. get' = [get EXCEPT ![g] = r]
    BY <1>1, <1>3 DEF Returns
  <2>3. get[g].uuid \in Uuids
    BY <1>3 DEF IInv, Current
  <2> HIDE DEF r
  <2>4. QED
    BY <1>3, <2>1, <2>2, <2>3, Simple
<1>4. ASSUME Fails(g), get[g].pc # "store",
             UNCHANGED <<cache, open, handles, fallback, closed>>
      PROVE  IInv'
  <2>1. NoGet.pc = "idle"
    BY DEF NoGet
  <2>2. QED
    BY <1>1, <1>4, <2>1, Simple DEF Fails
<1>5. CASE Hit(g)
  <2> DEFINE u == get[g].uuid
  <2>1. u \in Uuids /\ cache[u] # None /\ u \in Registered
    BY <1>5 DEF Hit, IInv, Current
  <2>2. cache[u] \in Handles
    BY <2>1 DEF IInv, TypeOK
  <2>3. QED
    BY <1>3, <1>5, <2>1, <2>2 DEF Hit
<1>6. CASE Miss(g)
  <2> DEFINE u == get[g].uuid
  <2>1. u \in Uuids
    BY <1>6 DEF Miss, IInv, Current
  <2>2. ASSUME NEW pc \in {"open", "check"}, Goto(g, pc),
               pc = "open" => u \in Registered, pc = "check" => u \in Unknown
        PROVE  IInv'
    <3> DEFINE r == [get[g] EXCEPT !.pc = pc]
    <3>1. r \in Get /\ r.pc = pc /\ r.uuid = u
      BY <1>1 DEF Get
    <3>2. get' = [get EXCEPT ![g] = r]
      BY <1>1, <2>2 DEF Goto
    <3>3. UNCHANGED <<cache, open, handles, fallback, closed>> /\ get[g].pc = "lookup"
      BY <1>6 DEF Miss
    <3> HIDE DEF r
    <3>4. QED
      BY <2>1, <2>2, <3>1, <3>2, <3>3, Simple
  <2>3. CASE Fails(g)
    BY <1>4, <1>6, <2>3 DEF Miss
  <2>4. QED
    BY <1>6, <2>2, <2>3 DEF Miss
<1>7. CASE CheckFallback(g)
  <2> DEFINE r == [get[g] EXCEPT !.pc = "take"]
  <2>1. r \in Get /\ r.pc = "take" /\ r.uuid = get[g].uuid
    BY <1>1 DEF Get
  <2>2. get[g].uuid \in Uuids /\ get[g].uuid \in Unknown
    BY <1>7 DEF CheckFallback, IInv, Current
  <2>3. CASE fallback # None /\ Goto(g, "take")
    <3>1. get' = [get EXCEPT ![g] = r]
      BY <1>1, <2>3 DEF Goto
    <3>2. UNCHANGED <<cache, open, handles, fallback, closed>> /\ get[g].pc = "check"
      BY <1>7 DEF CheckFallback
    <3> HIDE DEF r
    <3>3. QED
      BY <2>1, <2>2, <2>3, <3>1, <3>2, Simple
  <2>4. CASE Fails(g)
    BY <1>4, <1>7, <2>4 DEF CheckFallback
  <2>5. QED
    BY <1>7, <2>3, <2>4 DEF CheckFallback
<1>8. CASE TakeFallback(g)
  <2>1. get[g].uuid \in Unknown /\ get[g].uuid \notin Registered
    BY <1>8, Distinct DEF TakeFallback, IInv, Current
  <2>2. fallback \in Handles \cup {None}
    BY DEF IInv, TypeOK, Handles
  <2>3. ~closed => fallback # None
    BY <1>8 DEF TakeFallback, IInv, Current
  <2>4. QED
    BY <1>3, <1>8, <2>1, <2>2, <2>3 DEF TakeFallback
<1>9. CASE OpenFails(g) \/ Done(g)
  BY <1>4, <1>9 DEF OpenFails, Done
<1>10. QED
  BY <1>2, <1>5, <1>6, <1>7, <1>8, <1>9

LEMMA OpenStep ==
    ASSUME IInv, NEW g \in Callers, Open(g)
    PROVE  IInv'
<1> DEFINE r == [get[g] EXCEPT !.pc = "store", !.new = handles + 1]
<1>1. /\ get[g] \in Get /\ get \in [Callers -> Get]
      /\ handles \in Nat /\ handles + 1 \in 1..MaxHandles
  BY HandleBound DEF IInv, TypeOK, Open
<1>2. r \in Get /\ r.pc = "store" /\ r.new = handles + 1 /\ r.uuid = get[g].uuid
  BY <1>1 DEF Get, Handles
<1>3. get' = [get EXCEPT ![g] = r]
  BY <1>1 DEF Open
<1>4. /\ get[g].pc = "open" /\ handles' = handles + 1
      /\ open' = open \cup {handles + 1} /\ UNCHANGED <<cache, fallback, closed>>
  BY DEF Open
<1> HIDE DEF r
<1>5. TypeOK'
  BY <1>1, <1>2, <1>3, <1>4, HandleBound DEF IInv, TypeOK, Handles
<1>6. Fresh'
  <2>1. handles + 1 # None
    BY <1>1, Distinct
  <2>2. \A u \in Uuids : cache[u] # handles + 1
    BY <1>1, <2>1 DEF IInv, Fresh
  <2>3. \A g2 \in Callers : g2 # g => get'[g2] = get[g2]
    BY <1>1, <1>3
  <2>4. \A g2 \in Callers : get[g2].pc = "store" => get[g2].new # handles + 1
    BY <1>1 DEF IInv, Fresh
  <2>5. get'[g] = r /\ get[g].uuid \in Registered
    BY <1>1, <1>3, <1>4 DEF IInv, Current
  <2>6. 1..handles \subseteq 1..handles' /\ handles + 1 \in 1..handles'
    BY <1>1, <1>4
  <2>7. QED
    BY <1>2, <1>4, <2>1, <2>2, <2>3, <2>4, <2>5, <2>6 DEF IInv, Fresh
<1>7. Current'
  BY <1>1, <1>2, <1>3, <1>4 DEF IInv, TypeOK, Current
<1>8. NoHandleLost'
  BY <1>1, <1>2, <1>3, <1>4 DEF IInv, TypeOK, NoHandleLost
<1>9. QED
  BY <1>5, <1>6, <1>7, <1>8 DEF IInv

LEMMA StoreStep ==
    ASSUME IInv, NEW g \in Callers, Store(g)
    PROVE  IInv'
<1> DEFINE u == get[g].uuid
           new == get[g].new
           db == IF cache[u] # None THEN cache[u] ELSE new
           r == [get[g] EXCEPT !.pc = "have", !.new = None, !.db = db]
<1>1. /\ get[g] \in Get /\ get \in [Callers -> Get] /\ get[g].pc = "store"
      /\ cache \in [Uuids -> Handles \cup {None}]
  BY DEF IInv, TypeOK, Store
<1>2. /\ u \in Uuids /\ u \in Registered /\ new \in 1..handles /\ new \in open
      /\ handles \in 0..MaxHandles
      /\ new \in 1..MaxHandles /\ new # None /\ new # Fallback
  BY <1>1, HandleBound, Distinct DEF IInv, TypeOK, Fresh, Current
<1>3. db \in Handles /\ db # None
  BY <1>1, <1>2, Distinct DEF Handles
<1>4. r \in Get /\ r.pc = "have" /\ r.uuid = u /\ r.db = db
  BY <1>1, <1>3 DEF Get
<1>5. get' = [get EXCEPT ![g] = r] /\ UNCHANGED <<handles, fallback, closed>>
  BY <1>1 DEF Store, Returns
<1>6. CASE cache[u] # None
  <2>1. open' = open \ {new} /\ UNCHANGED cache /\ db = cache[u]
    BY <1>6 DEF Store
  <2> HIDE DEF r, db
  <2>2. TypeOK'
    BY <1>3, <1>4, <1>5, <2>1 DEF IInv, TypeOK
  <2>3. Fresh'
    BY <1>1, <1>2, <1>4, <1>5, <2>1 DEF IInv, Fresh
  <2>4. Current'
    BY <1>1, <1>2, <1>4, <1>5, <2>1 DEF IInv, TypeOK, Fresh, Current
  <2>5. NoHandleLost'
    BY <1>1, <1>2, <1>4, <1>5, <2>1 DEF IInv, Fresh, NoHandleLost
  <2>6. QED
    BY <2>2, <2>3, <2>4, <2>5 DEF IInv
<1>7. CASE cache[u] = None
  <2>1. cache' = [cache EXCEPT ![u] = new] /\ UNCHANGED open /\ db = new
    BY <1>7 DEF Store
  <2> HIDE DEF r, db
  <2>2. TypeOK'
    BY <1>1, <1>2, <1>3, <1>4, <1>5, <2>1 DEF IInv, TypeOK
  <2>3. Fresh'
    BY <1>1, <1>2, <1>4, <1>5, <2>1 DEF IInv, Fresh
  <2>4. Current'
    BY <1>1, <1>2, <1>4, <1>5, <1>7, <2>1 DEF IInv, TypeOK, Fresh, Current
  <2>5. NoHandleLost'
    BY <1>1, <1>2, <1>4, <1>5, <1>7, <2>1 DEF IInv, Fresh, NoHandleLost
  <2>6. QED
    BY <2>2, <2>3, <2>4, <2>5 DEF IInv
<1>8. QED
  BY <1>6, <1>7

LEMMA CloseStep ==
    ASSUME IInv, Close PROVE IInv'
<1>1. TypeOK'
  BY DEF IInv, TypeOK, Close
<1>2. Fresh'
  <2>1. ASSUME NEW g \in Callers, get[g].pc = "store"
        PROVE  get[g].new \in open'
    <3>1. get[g].new \in 1..MaxHandles
      BY <2>1, HandleBound DEF IInv, TypeOK, Fresh
    <3>2. get[g].new # fallback
      BY <3>1, Distinct DEF IInv, TypeOK
    <3>3. QED
      BY <2>1, <3>2 DEF IInv, Fresh, Close
  <2>2. QED
    BY <2>1 DEF IInv, Fresh, Close, Get, TypeOK
<1>3. Current'
  BY DEF IInv, Current, Close
<1>4. NoHandleLost'
  BY DEF IInv, NoHandleLost, Close
<1>5. QED
  BY <1>1, <1>2, <1>3, <1>4 DEF IInv

LEMMA IInvStep == IInv /\ [Next]_vars => IInv'
<1> SUFFICES ASSUME IInv, [Next]_vars PROVE IInv'
  OBVIOUS
<1>1. CASE UNCHANGED vars
  BY <1>1 DEF vars, IInv, TypeOK, Fresh, Current, NoHandleLost
<1>2. CASE Next
  BY <1>2, SimpleSteps, OpenStep, StoreStep, CloseStep DEF Next
<1>3. QED
  BY <1>1, <1>2

LEMMA Invariance == Spec => []IInv
BY IInvInit, IInvStep, PTL DEF Spec

\* agent/dbpool.go, Get: all requests of a connection share one handle until
\* the pool is closed, however many race to open it.
THEOREM OneHandle == Spec => []OneHandlePerConnection
<1>1. IInv => OneHandlePerConnection
  BY DEF IInv, Current, OneHandlePerConnection
<1>2. QED
  BY <1>1, Invariance, PTL

\* Nobody is given a handle that the loser of a race closed.
THEOREM HandedOutIsAlwaysOpen == Spec => []HandedOutIsOpen
<1>1. IInv => HandedOutIsOpen
  BY DEF IInv, TypeOK, Current, HandedOutIsOpen
<1>2. QED
  BY <1>1, Invariance, PTL

\* No open handle is out of Close's reach, except while a Get still holds it.
THEOREM NoHandleEverLost == Spec => []NoHandleLost
BY Invariance, PTL DEF IInv
=============================================================================
