--------------------------- MODULE IdentityStore ---------------------------
(***************************************************************************)
(* What a KER module promises about its identity and calibration, without  *)
(* any of the protocol: the stored page and the page being run change      *)
(* together or not at all, a failed write never disturbs what is running,  *)
(* and a restart runs what is stored.                                      *)
(***************************************************************************)
EXTENDS KerPage

VARIABLES
  stored,    \* the USERROW
  running,   \* the page in force, Virgin for the build default
  certain    \* no write has failed since the running page was adopted

vars == <<stored, running, certain>>

Init ==
  /\ stored \in Page
  /\ running = Adopted(stored)
  /\ certain = TRUE

\* A page is provisioned: stored and running move to it in one step.
Provision ==
  /\ stored' \in ValidPages
  /\ running' = stored'
  /\ certain' = TRUE

\* A write fails: what is stored is unknown, what is running is kept.
FailedWrite ==
  /\ \E p \in ValidPages : stored' \in Unverified(stored, p)
  /\ certain' = FALSE
  /\ UNCHANGED running

\* A restart, possibly in the middle of a write.
Restart ==
  /\ \/ stored' = stored
     \/ \E p \in ValidPages : stored' \in Interrupted(stored, p)
  /\ running' = Adopted(stored')
  /\ certain' = TRUE

Next == Provision \/ FailedWrite \/ Restart

Spec == Init /\ [][Next]_vars
=============================================================================
