----------------------------- MODULE AuditStream -----------------------------
(***************************************************************************)
(* The audit log and the event bus in one process (create_app of            *)
(* orchestrator/main.py): an entry is published after it is written, while  *)
(* append holds the log's lock, and a restart takes the bus down; one that  *)
(* comes between the two leaves an entry that is never published.           *)
(***************************************************************************)
EXTENDS AuditLog, EventBus

streamVars == <<auditVars, busVars>>

StreamInit == AuditInit /\ BusInit

\* A mutation of Appended: an entry is published before it is written, also
\* when its write then fails.
AppendedPublishingFirst == (AppendReturns \/ AppendFails) /\ Publish

\* The entry is on the disk: it is published, and append returns.
Appended == AppendReturns /\ Publish

StreamNext ==
    \/ Appended
    \/ (AppendWrites \/ AppendBegins \/ AppendEnds \/ AppendFails \/ Tamper) /\ UNCHANGED busVars
    \/ Restart /\ BusStops
    \/ BusStep /\ UNCHANGED auditVars

StreamSpec == StreamInit /\ [][StreamNext]_streamVars /\ BusFairness

-----------------------------------------------------------------------------
StreamTypeOK == AuditTypeOK /\ BusTypeOK

\* What a connection has been sent is in the log: the e-th event on the bus is
\* the e-th one append returned, and a log that verify calls valid and nobody
\* changed has it, through restarts and failed writes.  A connection is sent
\* its events in the order of the calls of append, which is that of the log
\* (ValidLogIsComplete).
StreamedEventsAreLogged ==
    \A w \in Connections : \A i \in DOMAIN seen[w] :
        /\ seen[w][i] \in DOMAIN acked
        /\ \A j \in 1 .. i - 1 : acked[seen[w][j]] < acked[seen[w][i]]
        /\ Verify(file) = "valid" /\ changed = NoLine =>
              \E l \in DOMAIN file : file[l].event = acked[seen[w][i]]
=============================================================================
