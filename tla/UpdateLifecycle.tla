--------------------------- MODULE UpdateLifecycle ---------------------------
(***************************************************************************)
(* What the update manager promises about a candidate, free of processes,  *)
(* locks and files: one candidate at a time is prepared, retained,         *)
(* installed with the user's consent, and ends used, discarded or in the   *)
(* user's hands.                                                           *)
(***************************************************************************)
CONSTANTS Versions, None

VARIABLES
    phase,      \* none, preparing, retained, installing, manual
    candidate,  \* the candidate of the last three phases
    consent     \* the user asked for this candidate to be installed

vars == <<phase, candidate, consent>>

Init == phase = "none" /\ candidate = None /\ consent = FALSE

Prepare ==
    /\ phase = "none"
    /\ phase' = "preparing"
    /\ UNCHANGED <<candidate, consent>>

(* Preparation fails, or is found dead. *)
Abandon ==
    /\ phase = "preparing"
    /\ phase' = "none"
    /\ UNCHANGED <<candidate, consent>>

(* A prepared candidate, or one an older updater left behind. *)
Retain ==
    /\ phase \in {"none", "preparing"}
    /\ phase' = "retained"
    /\ candidate' \in Versions
    /\ consent' = FALSE

Consent ==
    /\ phase = "retained"
    /\ consent' = ~consent
    /\ UNCHANGED <<phase, candidate>>

Install ==
    /\ phase = "retained"
    /\ consent
    /\ phase' = "installing"
    /\ UNCHANGED <<candidate, consent>>

(* Authentication is cancelled: the same candidate, and no consent left. *)
Decline ==
    /\ phase = "installing"
    /\ phase' = "retained"
    /\ consent' = FALSE
    /\ UNCHANGED candidate

Fail ==
    /\ phase = "installing"
    /\ phase' = "manual"
    /\ consent' = FALSE
    /\ UNCHANGED candidate

(* Installed or rolled back; reconciled after manual action; discarded. *)
Finish ==
    /\ phase \in {"installing", "manual"} \/ (phase = "retained" /\ ~consent)
    /\ phase' = "none"
    /\ candidate' = None
    /\ consent' = FALSE

Next == Prepare \/ Abandon \/ Retain \/ Consent \/ Install \/ Decline \/ Fail \/ Finish

Spec == Init /\ [][Next]_vars
=============================================================================
