----------------------------- MODULE TxService -----------------------------
(***************************************************************************)
(* What the local agent promises the cloud of a remote transaction: it is  *)
(* begun once, ended once, and a commit is acknowledged in the step that   *)
(* makes it or not at all.  A transaction may always be aborted while it   *)
(* is open: by request, by the reaper or with its session.                 *)
(***************************************************************************)
EXTENDS Naturals, FiniteSets

CONSTANTS TxIds, MaxOpen

VARIABLES state, acked

vars == <<state, acked>>

OpenTxs == {t \in TxIds : state[t] = "open"}

Init == state = [t \in TxIds |-> "none"] /\ acked = {}

Begin(t) ==
    /\ state[t] = "none"
    /\ Cardinality(OpenTxs) < MaxOpen
    /\ state' = [state EXCEPT ![t] = "open"]
    /\ UNCHANGED acked

Commit(t) ==
    /\ state[t] = "open"
    /\ state' = [state EXCEPT ![t] = "committed"]
    /\ acked' \in {acked, acked \cup {t}}

Abort(S) ==
    /\ S # {} /\ S \subseteq OpenTxs
    /\ state' = [t \in TxIds |-> IF t \in S THEN "rolledback" ELSE state[t]]
    /\ UNCHANGED acked

Next ==
    \/ \E t \in TxIds : Begin(t) \/ Commit(t)
    \/ \E S \in SUBSET TxIds : Abort(S)

Spec == Init /\ [][Next]_vars
=============================================================================
