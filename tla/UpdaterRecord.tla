---------------------------- MODULE UpdaterRecord ----------------------------
(***************************************************************************)
(* The updater's record as those see it who only read its status: the      *)
(* stages of a preparation are one state, an installation that was rolled  *)
(* back is one that ended, and of the rest only the request matters.       *)
(*                                                                         *)
(* UpdateBridge takes every step of its updater from here, and             *)
(* UpdateManagerProofs shows that UpdateManager takes no others: so what   *)
(* the bridge expects of the record is what the updater does with it.      *)
(* Left out are two commands the bridge knows nothing of: discarding a     *)
(* candidate, and the repair of a failure an older updater recorded.       *)
(***************************************************************************)
VARIABLE rec

Record(s, r) == [state |-> s, requested |-> r]

(* update: preparation, consent and installation *)

Prepare ==
    /\ rec = Record("update-available", FALSE)
    /\ rec' = Record("preparing", FALSE)

(* An error before the download, during the preparation, or while it is
   announced: the candidate is kept by none of them. *)
Reject ==
    /\ rec.state \in {"update-available", "preparing", "ready-to-install"}
    /\ ~rec.requested
    /\ rec' = Record("failed", FALSE)

Retain ==
    /\ rec = Record("preparing", FALSE)
    /\ rec' = Record("ready-to-install", FALSE)

Request ==
    /\ rec = Record("ready-to-install", FALSE)
    /\ rec' = Record("ready-to-install", TRUE)

Cancel ==
    /\ rec = Record("ready-to-install", TRUE)
    /\ rec' = Record("ready-to-install", FALSE)

Install ==
    /\ rec = Record("ready-to-install", TRUE)
    /\ rec' = Record("installing", TRUE)

Deny ==
    /\ rec = Record("installing", TRUE)
    /\ rec' = Record("ready-to-install", FALSE)

(* The outcome is saved before the request is taken back: a reader may find
   one with the other, for good if the update dies in between. *)
Settle ==
    /\ rec = Record("installing", TRUE)
    /\ \E s \in {"installed", "install-failed-manual-action"} : rec' = Record(s, TRUE)

Close ==
    /\ rec.state \in {"installed", "install-failed-manual-action"}
    /\ rec.requested
    /\ rec' = Record(rec.state, FALSE)

(* check-now and the daemon's check: a request that was left behind stays until
   an answer comes *)

Query ==
    /\ rec.state \in {"idle", "update-available", "installed", "failed"}
    /\ rec' = Record("checking", rec.requested)

Answer(s) ==
    /\ rec.state = "checking"
    /\ s \in {"idle", "update-available"}
    /\ rec' = Record(s, FALSE)

FailCheck ==
    /\ rec.state = "checking"
    /\ rec' = Record("failed", rec.requested)

(* Recovery, by anyone who opens the record, and by the daemon that starts. *)

RecoverStale ==
    \/ /\ rec.state \in {"checking", "preparing"}
       /\ rec' = Record("failed", FALSE)
    \/ Cancel

RecoverInstall ==
    /\ rec.state = "installing"
    /\ rec' = Record("install-failed-manual-action", rec.requested)

(* reconcile-install: the user ran the manual command *)
Reconcile ==
    /\ rec.state = "install-failed-manual-action"
    /\ rec' = Record("installed", FALSE)

Next ==
    \/ Prepare \/ Reject \/ Retain \/ Request \/ Cancel \/ Install \/ Deny
    \/ Settle \/ Close \/ Query \/ (\E s \in {"idle", "update-available"} : Answer(s))
    \/ FailCheck \/ RecoverStale \/ RecoverInstall \/ Reconcile
=============================================================================
