----------------------------- MODULE ConnCache -----------------------------
(***************************************************************************)
(* The daemon's cache of database handles: concurrent Gets of the same     *)
(* connection open handles outside the mutex and race to cache theirs.     *)
(* AgentDaemon counts the connections of one handle and relies on there    *)
(* being one per registered connection.                                    *)
(*                                                                         *)
(* The registry is read once, when the daemon starts.  Its entries, and    *)
(* what sqlx.Open makes of a driver and a DSN, are constants.              *)
(***************************************************************************)
EXTENDS Naturals

CONSTANTS
    Callers,    \* handler goroutines
    Registered, \* connection uuids in the registry, with a DSN
    NoDsn,      \* uuids in the registry whose DSN the keychain has lost
    Unknown,    \* uuids that are not in it
    MaxHandles, \* bound: handles opened
    Fallback,   \* the handle of NUZUR_AGENT_DSN, when it is set
    None

ASSUME HandleBound == MaxHandles \in Nat
ASSUME Distinct ==
    /\ None \notin 1..MaxHandles /\ Fallback \notin 1..MaxHandles
    /\ Registered \cap NoDsn = {} /\ (Registered \cup NoDsn) \cap Unknown = {}

VARIABLES
    get,      \* each caller's Get
    cache,    \* handle cached for each uuid
    open,     \* handles that are open
    handles,  \* handles opened so far
    fallback, \* the pool's fallback handle
    closed    \* Close has run

vars == <<get, cache, open, handles, fallback, closed>>

Uuids   == Registered \cup NoDsn \cup Unknown
Handles == 1..MaxHandles \cup {Fallback}
Get     == [pc: {"idle", "lookup", "check", "take", "open", "store", "have"},
            uuid: Uuids \cup {None}, new: Handles \cup {None}, db: Handles \cup {None}]
NoGet   == [pc |-> "idle", uuid |-> None, new |-> None, db |-> None]

Init ==
    /\ get = [g \in Callers |-> NoGet]
    /\ cache = [u \in Uuids |-> None]
    /\ fallback \in {Fallback, None} /\ open = {fallback} \ {None}
    /\ handles = 0 /\ closed = FALSE

Goto(g, pc) == get' = [get EXCEPT ![g].pc = pc]
Returns(g, db) == get' = [get EXCEPT ![g] = [@ EXCEPT !.pc = "have", !.new = None,
                                                      !.db = db]]
Fails(g) == get' = [get EXCEPT ![g] = NoGet]

-----------------------------------------------------------------------------
Call(g, u) ==
    /\ get[g].pc = "idle"
    /\ get' = [get EXCEPT ![g] = [NoGet EXCEPT !.pc = "lookup", !.uuid = u]]
    /\ UNCHANGED <<cache, open, handles, fallback, closed>>

\* The cached handle, under the mutex.
Hit(g) ==
    LET u == get[g].uuid
    IN  /\ get[g].pc = "lookup" /\ cache[u] # None
        /\ Returns(g, cache[u])
        /\ UNCHANGED <<cache, open, handles, fallback, closed>>

\* No cached handle: a registered uuid is opened after the mutex is released.
Miss(g) ==
    LET u == get[g].uuid
    IN  /\ get[g].pc = "lookup" /\ cache[u] = None
        /\ \/ u \in Registered /\ Goto(g, "open")
           \/ u \in NoDsn /\ Fails(g)
           \/ u \in Unknown /\ Goto(g, "check")
        /\ UNCHANGED <<cache, open, handles, fallback, closed>>

\* The fallback field is compared with nil, without the mutex, ...
CheckFallback(g) ==
    /\ get[g].pc = "check"
    /\ IF fallback # None THEN Goto(g, "take") ELSE Fails(g)
    /\ UNCHANGED <<cache, open, handles, fallback, closed>>

\* ... and read again to be returned.  Close may have cleared it by then.
TakeFallback(g) ==
    /\ get[g].pc = "take"
    /\ Returns(g, fallback)
    /\ UNCHANGED <<cache, open, handles, fallback, closed>>

Open(g) ==
    /\ get[g].pc = "open" /\ handles < MaxHandles
    /\ handles' = handles + 1 /\ open' = open \cup {handles + 1}
    /\ get' = [get EXCEPT ![g].pc = "store", ![g].new = handles + 1]
    /\ UNCHANGED <<cache, fallback, closed>>

\* sqlx.Open refuses the driver.
OpenFails(g) ==
    /\ get[g].pc = "open" /\ Fails(g)
    /\ UNCHANGED <<cache, open, handles, fallback, closed>>

\* Mutant of Store: the cache is not looked at again.
StoreWithoutRecheck(g) ==
    LET u == get[g].uuid
    IN  /\ get[g].pc = "store"
        /\ cache' = [cache EXCEPT ![u] = get[g].new]
        /\ Returns(g, get[g].new)
        /\ UNCHANGED <<open, handles, fallback, closed>>

\* Mutant of Store: the loser of the race closes the winner's handle.
StoreClosesOther(g) ==
    LET u == get[g].uuid
    IN  /\ get[g].pc = "store"
        /\ IF cache[u] # None
           THEN Returns(g, cache[u]) /\ open' = open \ {cache[u]} /\ UNCHANGED cache
           ELSE /\ cache' = [cache EXCEPT ![u] = get[g].new]
                /\ Returns(g, get[g].new) /\ UNCHANGED open
        /\ UNCHANGED <<handles, fallback, closed>>

\* Mutant of Store: the loser leaves its own handle open.
StoreLeaks(g) ==
    LET u == get[g].uuid
    IN  /\ get[g].pc = "store"
        /\ IF cache[u] # None
           THEN Returns(g, cache[u]) /\ UNCHANGED cache
           ELSE cache' = [cache EXCEPT ![u] = get[g].new] /\ Returns(g, get[g].new)
        /\ UNCHANGED <<open, handles, fallback, closed>>

\* The cache is looked at again under the mutex: who comes second closes the
\* handle it opened and takes the one that is there.
Store(g) ==
    LET u == get[g].uuid
    IN  /\ get[g].pc = "store"
        /\ IF cache[u] # None
           THEN Returns(g, cache[u]) /\ open' = open \ {get[g].new} /\ UNCHANGED cache
           ELSE /\ cache' = [cache EXCEPT ![u] = get[g].new]
                /\ Returns(g, get[g].new) /\ UNCHANGED open
        /\ UNCHANGED <<handles, fallback, closed>>

\* The request that called Get is done with the handle.
Done(g) ==
    /\ get[g].pc = "have" /\ Fails(g)
    /\ UNCHANGED <<cache, open, handles, fallback, closed>>

\* Run returns; handlers of the last session may still be in a Get.
Close ==
    /\ ~closed /\ closed' = TRUE
    /\ open' = open \ ({cache[u] : u \in Uuids} \cup {fallback})
    /\ cache' = [u \in Uuids |-> None] /\ fallback' = None
    /\ UNCHANGED <<get, handles>>

Next ==
    \/ \E g \in Callers :
          \/ \E u \in Uuids : Call(g, u)
          \/ Hit(g) \/ Miss(g) \/ CheckFallback(g) \/ TakeFallback(g)
          \/ Open(g) \/ OpenFails(g) \/ Store(g) \/ Done(g)
    \/ Close

Spec == Init /\ [][Next]_vars

-----------------------------------------------------------------------------
(* Properties *)

\* Every variable has its type, and until the pool is closed a Get that
\* returned has a handle.
TypeOK ==
    /\ get \in [Callers -> Get]
    /\ ~closed => \A g \in Callers : get[g].pc = "have" => get[g].db # None
    /\ cache \in [Uuids -> Handles \cup {None}]
    /\ open \subseteq Handles /\ handles \in 0..MaxHandles
    /\ fallback \in {Fallback, None} /\ closed \in BOOLEAN

\* agent/dbpool.go, Get: until the pool is closed all users of a connection
\* share one handle, so its SetMaxOpenConns bounds what they use together.
OneHandlePerConnection ==
    ~closed => \A g1, g2 \in Callers :
        get[g1].pc = "have" /\ get[g2].pc = "have" /\ get[g1].uuid = get[g2].uuid
            => get[g1].db = get[g2].db

\* No Get is given a handle that another one, losing the race, has closed.
HandedOutIsOpen ==
    ~closed => \A g \in Callers : get[g].pc = "have" => get[g].db \in open

\* Every open handle is one that Close will find, or that the Get that opened
\* it has still to cache or to close.
NoHandleLost ==
    \A d \in open :
        \/ d = fallback
        \/ \E u \in Uuids : cache[u] = d
        \/ \E g \in Callers : get[g].pc = "store" /\ get[g].new = d
=============================================================================
