-------------------------- MODULE MCReadinessAudit -------------------------
(* Instances of ReadinessAudit for TLC: two frames, three bars.           *)
EXTENDS ReadinessAudit

MCAuditFrames == <<"15m", "1h">>
MCAuditWindow == <<0, 2>>
=============================================================================
