------------------------------ MODULE EventFeed ------------------------------
(***************************************************************************)
(* What the live dashboard stream promises (orchestrator/core/bus.py): a    *)
(* connection sees events of the audit log in the order of the log, each at *)
(* most once; events may be missing ("slow subscribers drop events").       *)
(***************************************************************************)
EXTENDS Naturals, Sequences

CONSTANT Connections

VARIABLES
    published,   \* the number of events append has published
    seen         \* the events each connection has been sent, by ordinal

LastSeen(w) == IF seen[w] = << >> THEN 0 ELSE seen[w][Len(seen[w])]

FeedInit ==
    /\ published = 0
    /\ seen = [w \in Connections |-> << >>]

PublishOne == published' = published + 1 /\ UNCHANGED seen

Deliver(w) ==
    /\ \E e \in LastSeen(w) + 1 .. published : seen' = [seen EXCEPT ![w] = Append(@, e)]
    /\ UNCHANGED published

FeedNext == PublishOne \/ \E w \in Connections : Deliver(w)

FeedSpec == FeedInit /\ [][FeedNext]_<<published, seen>>
=============================================================================
