----------------------------- MODULE PageWrite -----------------------------
(***************************************************************************)
(* What a command of the host tool promises about the USERROW of a module: *)
(* a page appears there only while a command that was asked for it runs;   *)
(* a write that fails or is cut short leaves the old page, the new one or  *)
(* one that is broken; and "verified" is said of a page that is there.     *)
(***************************************************************************)
CONSTANT Broken              \* contents of the USERROW that are no page

VARIABLES job,         \* the pages the running command may store
          stored,      \* the USERROW
          verified     \* the last command reported a verified page

vars == <<job, stored, verified>>

Init == job = {} /\ verified = FALSE

\* A command starts; one that writes nothing has an empty job.
Open(pages) ==
  /\ job = {} /\ job' = pages
  /\ verified' = FALSE /\ UNCHANGED stored

Program ==
  /\ stored' \in job
  /\ UNCHANGED <<job, verified>>

Fail ==
  /\ job # {} /\ stored' \in Broken
  /\ UNCHANGED <<job, verified>>

Close(success) ==
  /\ job # {} /\ job' = {}
  /\ verified' = success
  /\ success => stored \in job
  /\ UNCHANGED stored

Next ==
  \/ \E pages \in {job', {}} : Open(pages)
  \/ Program \/ Fail
  \/ \E success \in BOOLEAN : Close(success)

Spec == Init /\ [][Next]_vars
=============================================================================
