--------------------------- MODULE MCDeploySerial ---------------------------
(***************************************************************************)
(* Deploy from one terminal, for TLC, in two settings with bounds of their *)
(* own: one app that is deployed again and again, and two apps that may    *)
(* share a box of the user's or a VM.                                      *)
(***************************************************************************)
EXTENDS MCDeploy

VARIABLE setting

InSetting ==
    IF setting = "one app"
    THEN \A p \in Clis : cli[p].req.project \in {"A", None} /\ cli[p].req.host \notin GivenHosts
    ELSE attempts <= 2

SerialSpec ==
    /\ Init /\ setting \in {"one app", "two apps"}
    /\ [][Next /\ UNCHANGED setting /\ InSetting']_<<vars, setting>>
=============================================================================
