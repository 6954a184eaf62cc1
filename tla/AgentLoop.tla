----------------------------- MODULE AgentLoop -----------------------------
(***************************************************************************)
(* The daemon's outer loop: its start, Hello / Welcome with the version    *)
(* check, the way a stream ends, and the backoff between attempts.         *)
(* AgentDaemon models what happens inside a session.                       *)
(***************************************************************************)
EXTENDS Naturals

CONSTANTS
    ReconnectInitial, ReconnectMax, \* seconds
    MaxRefused                      \* bound of the history variable `refused'

ASSUME LoopConstants ==
    /\ ReconnectInitial \in Nat \ {0} /\ ReconnectMax \in Nat
    /\ ReconnectInitial <= ReconnectMax
    /\ MaxRefused \in Nat

VARIABLES
    pc,       \* where Run is
    err,      \* how the last runOnce returned
    backoff,  \* seconds
    refused,  \* history: dials in a row that no Welcome answered
    up,       \* the connection manager answers
    minCli    \* min_cli_version of its Welcome, against CLI_VERSION

loopvars == <<pc, err, backoff, refused, up, minCli>>

MinVersions == {"unenforced", "older", "newer", "malformed"}
Errors == {"nil", "transient", "tooold", "precondition"}

\* cliVersionAtLeast: an unparseable requirement fails closed.
CliVersionAtLeast(min) == min \in {"unenforced", "older"}

NextBackoff(cur) == IF cur * 2 > ReconnectMax THEN ReconnectMax ELSE cur * 2

LoopInit ==
    /\ pc = "start" /\ err = "nil"
    /\ backoff = ReconnectInitial /\ refused = 0
    /\ up \in BOOLEAN /\ minCli \in MinVersions

Start ==
    /\ pc = "start" /\ pc' = "dial"
    /\ backoff' = ReconnectInitial /\ refused' = 0
    /\ err' = "nil"
    /\ UNCHANGED <<up, minCli>>

EndsWith(e) == pc' = "ended" /\ err' = e
OneMore == IF refused < MaxRefused THEN refused + 1 ELSE refused

\* Opening the stream or sending Hello fails, or the server closes the
\* stream with FailedPrecondition before any Welcome.
HandshakeFails ==
    /\ pc = "dial"
    /\ \/ ~up /\ EndsWith("transient")
       \/ up /\ ~CliVersionAtLeast(minCli) /\ EndsWith("precondition")
    /\ refused' = OneMore
    /\ UNCHANGED <<backoff, up, minCli>>

\* The first message: a Welcome that passes the version check, one that does
\* not (ErrCLITooOld), or something else.
Hello ==
    /\ pc = "dial" /\ up
    /\ \/ CliVersionAtLeast(minCli) /\ pc' = "serving" /\ err' = "nil" /\ refused' = 0
       \/ ~CliVersionAtLeast(minCli) /\ EndsWith("tooold") /\ refused' = OneMore
       \/ EndsWith("transient") /\ refused' = OneMore
    /\ UNCHANGED <<backoff, up, minCli>>

\* Recv ends: EOF is a nil error, anything else is returned as it is.
SessionEnds ==
    /\ pc = "serving"
    /\ \E e \in {"nil", "transient", "precondition"} : EndsWith(e)
    /\ UNCHANGED <<backoff, refused, up, minCli>>

\* Errors that are not retryable leave Run.
GivesUp ==
    /\ pc = "ended" /\ err \in {"tooold", "precondition"}
    /\ pc' = "exited"
    /\ UNCHANGED <<err, backoff, refused, up, minCli>>

\* Mutant of Waits: any stream that ends starts the backoff anew.
WaitsAlwaysReset ==
    /\ pc = "ended" /\ err \in {"nil", "transient"}
    /\ pc' = "waiting"
    /\ backoff' = ReconnectInitial
    /\ UNCHANGED <<err, refused, up, minCli>>

Waits ==
    /\ pc = "ended" /\ err \in {"nil", "transient"}
    /\ pc' = "waiting"
    /\ backoff' = IF err = "nil" THEN ReconnectInitial ELSE backoff
    /\ UNCHANGED <<err, refused, up, minCli>>

\* Mutant of Redials: at the ceiling the loop gives up waiting.
RedialsBelowMax ==
    /\ pc = "waiting" /\ pc' = "dial"
    /\ backoff < ReconnectMax
    /\ backoff' = NextBackoff(backoff)
    /\ UNCHANGED <<err, refused, up, minCli>>

Redials ==
    /\ pc = "waiting" /\ pc' = "dial"
    /\ backoff' = NextBackoff(backoff)
    /\ UNCHANGED <<err, refused, up, minCli>>

\* The context is cancelled: a signal reached the process.
Cancelled ==
    /\ pc \in {"dial", "serving", "ended", "waiting"} /\ pc' = "exited"
    /\ UNCHANGED <<err, backoff, refused, up, minCli>>

\* launchd's KeepAlive or systemd's Restart runs `agent start' again.
Respawn ==
    /\ pc = "exited" /\ pc' = "start"
    /\ UNCHANGED <<err, backoff, refused, up, minCli>>

\* The connection manager comes and goes and changes its requirement.
ServerChanges ==
    /\ up' \in BOOLEAN /\ minCli' \in MinVersions
    /\ UNCHANGED <<pc, err, backoff, refused>>

LoopNext == \/ Start \/ HandshakeFails \/ Hello \/ SessionEnds \/ GivesUp \/ Waits
        \/ Redials \/ Cancelled \/ Respawn \/ ServerChanges

LoopSpec == LoopInit /\ [][LoopNext]_loopvars

\* The loop runs, timers fire; a server that is up and accepts this version
\* keeps welcoming it rather than sending something else for ever.
LoopFairSpec ==
    /\ LoopSpec
    /\ WF_loopvars(Start) /\ WF_loopvars(HandshakeFails) /\ WF_loopvars(GivesUp)
    /\ WF_loopvars(Waits) /\ WF_loopvars(Redials) /\ SF_loopvars(Hello /\ pc' = "serving")
    /\ WF_loopvars(Hello)
-----------------------------------------------------------------------------
(* Properties *)

LoopTypeOK ==
    /\ pc \in {"start", "dial", "serving", "ended", "waiting", "exited"}
    /\ err \in Errors
    /\ backoff \in ReconnectInitial..ReconnectMax
    /\ refused \in 0..MaxRefused
    /\ up \in BOOLEAN /\ minCli \in MinVersions

\* 2 to the power of n.
Power2[n \in Nat] == IF n = 0 THEN 1 ELSE 2 * Power2[n - 1]

\* agent/daemon.go, Run and nextBackoff: a server that does not welcome the
\* daemon is asked ever more rarely, whatever happened before: the wait after
\* the n-th dial in a row that no Welcome answered is at least ReconnectInitial
\* doubled n - 1 times, or the ceiling; a stream that ended cleanly costs
\* ReconnectInitial.
RefusalsSlowDown ==
    pc = "waiting" =>
        /\ refused \in 1..(MaxRefused - 1) =>
               backoff >= ReconnectMax \/ backoff >= ReconnectInitial * Power2[refused - 1]
        /\ err = "nil" => backoff = ReconnectInitial

\* Once the server stays up and accepts this version, a daemon that is not
\* stopped gets back to serving whatever its backoff has grown to.
Reconnects ==
    <>[](up /\ CliVersionAtLeast(minCli)) => []<>(pc \in {"serving", "exited"})

-----------------------------------------------------------------------------
(* What a comment says and the code does not do *)

\* agent/daemon.go:160-161, "On a successful Hello/Welcome (no error), reset
\* backoff so the next failure starts fresh at 1s instead of compounding": when
\* a stream that was welcomed fails, the wait is the initial one.
WelcomeResets == pc = "waiting" /\ refused = 0 => backoff = ReconnectInitial
=============================================================================
