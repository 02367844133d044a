------------------------------ MODULE OneShot ------------------------------
(* What the tool ledger promises of one proposed tool call, whatever       *)
(* replays, crashes and races happen underneath: it is refused, or it runs *)
(* at most once and ends in one outcome that never changes; a gated call   *)
(* runs only under consent, consent is never withdrawn, and a call that    *)
(* has consent is never denied.                                            *)
CONSTANT Requests

VARIABLES
    phase,    \* where each request stands
    consent   \* whether the approval bound to it was granted

vars == <<phase, consent>>

Done == {"ok", "failure", "unknown"}
Phases == {"new", "said", "refused", "gated", "open", "running", "denied"} \cup Done

OneShotInit ==
    /\ phase \in [Requests -> {"new", "gated"}]
    /\ consent = [r \in Requests |-> FALSE]

\* A call may be born with consent: its approval was granted before the row.
Propose(r) ==
    /\ phase[r] = "new"
    /\ \E p \in {"said", "refused", "gated", "open"}, c \in BOOLEAN :
         /\ c => p \in {"gated", "refused"}
         /\ phase' = [phase EXCEPT ![r] = p]
         /\ consent' = [consent EXCEPT ![r] = c]

Consent(r) ==
    /\ phase[r] \in {"gated", "refused"}
    /\ consent' = [consent EXCEPT ![r] = TRUE]
    /\ UNCHANGED phase

Refuse(r) ==
    /\ phase[r] \in {"gated", "open"}
    /\ phase' = [phase EXCEPT ![r] = "refused"]
    /\ UNCHANGED consent

Deny(r) ==
    /\ phase[r] = "gated" /\ ~consent[r]
    /\ phase' = [phase EXCEPT ![r] = "denied"]
    /\ UNCHANGED consent

Start(r) ==
    /\ phase[r] = "open" \/ (phase[r] = "gated" /\ consent[r])
    /\ phase' = [phase EXCEPT ![r] = "running"]
    /\ UNCHANGED consent

Finish(r) ==
    /\ phase[r] = "running"
    /\ \E d \in Done : phase' = [phase EXCEPT ![r] = d]
    /\ UNCHANGED consent

OneShotNext ==
    \E r \in Requests :
      Propose(r) \/ Consent(r) \/ Refuse(r) \/ Deny(r) \/ Start(r) \/ Finish(r)

OneShotSpec == OneShotInit /\ [][OneShotNext]_vars
=============================================================================
