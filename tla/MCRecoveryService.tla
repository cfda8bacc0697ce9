------------------------- MODULE MCRecoveryService --------------------------
(***************************************************************************)
(* TLC instances of RecoveryService.  Both views keep all that the guards  *)
(* read.  The clock stands still in these instances, so that started_at,   *)
(* which only the watcher reads, decides nothing.                          *)
(***************************************************************************)
EXTENDS RecoveryService, TLC

\* Requests are interchangeable, and so are the event goroutines.
Symmetry == Permutations(Requests) \cup Permutations(Handlers)

Common == <<dockerVars, lock, call, expired, now, loose, faults, crashes, hnd>>

\* Without the histories slipped and lost and the columns oom_killed, health,
\* status and started_at, which no invariant of RecoverySafety reads.
SafetyView ==
    <<Common, restarts, notices,
      [c \in Containers |-> <<row[c].present, row[c].restartCount,
                              row[c].circuitOpen>>]>>

\* Without the histories slipped and restarts, the notifications and the columns
\* oom_killed, health and started_at, which no property of RecoveryLiveness reads;
\* every step that its fairness is about changes something of the rest.
LivenessView ==
    <<Common, lost,
      [c \in Containers |-> <<row[c].present, row[c].status,
                              row[c].restartCount, row[c].circuitOpen>>]>>
=============================================================================
