----------------------------- MODULE MCAdapters -----------------------------
(* The parts of the OpenCode plugin that keep state of a session, and the    *)
(* processes of a Codex hook, one part at a time.  (The coordinator and the  *)
(* checkpoint share the generation, which SaveCheckpoint counts for itself.) *)
EXTENDS Coordinator, SaveCheckpoint, CodexSupervisor

VARIABLE subject

Init ==
    /\ subject \in {"coordinator", "checkpoint", "codex hook"}
    /\ CoordinatorInit /\ SaveInit /\ SupervisorInit
    /\ subject # "codex hook" => windows = FALSE

Next ==
    /\ UNCHANGED subject
    /\ \/ /\ subject = "coordinator" /\ CoordinatorNext
          /\ UNCHANGED <<saveVars, supervisorVars>>
       \/ /\ subject = "checkpoint" /\ SaveNext
          /\ UNCHANGED <<coordinatorVars, supervisorVars>>
       \/ /\ subject = "codex hook" /\ SupervisorNext
          /\ UNCHANGED <<coordinatorVars, saveVars>>

Spec ==
    /\ Init /\ [][Next]_<<subject, coordinatorVars, saveVars, supervisorVars>>
    /\ CoordinatorFairness
    /\ WF_supervisorVars(subject = "codex hook" /\ Late)
    /\ WF_supervisorVars(subject = "codex hook" /\ Main)
    /\ WF_supervisorVars(subject = "codex hook" /\ WorkerReads)
=============================================================================
