----------------------------- MODULE MCConsolidation -----------------------------
(***************************************************************************)
(* Instances of Consolidation: one session with one linked memory.  The    *)
(* turns of a user are serial in one server, so one turn is in flight.     *)
(***************************************************************************)
EXTENDS Consolidation

MCWorker == Sweep \cup Manual \cup Batch

MCNew == NoRow
MCIdle == Resting("idle", Old)
MCFailed == Resting("failed", Old)

\* A conversation goes on while maintenance and the user's endpoint compete
\* for the session, or while the session is deleted; or claimants of a retry
\* compete for it with maintenance, or one with the endpoint and a deletion.
MCScenarios ==
    {MCNew, MCIdle} \X {Turn \cup Sweep \cup Manual}
    \cup {<<MCFailed, Turn \cup Sweep \cup Manual>>, <<MCIdle, Turn \cup Sweep \cup Deletion>>}
    \cup {MCFailed} \X {Sweep \cup Batch}
    \cup {<<MCFailed, Manual \cup Deletion \cup {CHOOSE b \in Batch : TRUE}>>}
===============================================================================
