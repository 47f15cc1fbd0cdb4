------------------------------ MODULE AuditLog ------------------------------
(***************************************************************************)
(* The hash-chained JSONL audit log (orchestrator/core/audit.py) through    *)
(* failed and torn writes, restarts and changes to the file from outside.   *)
(* A line longer than the write buffer reaches the disk in two parts, and   *)
(* append goes on when its line is there: verify, which does not take the   *)
(* lock of append, may read in between, and the process may die there.      *)
(*                                                                          *)
(* An event is the ordinal of its append call.  The digest of an entry is   *)
(* the sequence of the events it chains over: like sha256 it determines the *)
(* entry and everything before it, which is all the log relies on.          *)
(***************************************************************************)
EXTENDS Naturals, Sequences

CONSTANTS
    MaxEvents,    \* bound on the calls of append
    Garbled,      \* a line json.loads refuses: a torn entry, or two run together
    NoLine        \* no line has been changed from outside

ASSUME AuditBounds == MaxEvents \in Nat

\* The two markers are neither entries nor line numbers.
ASSUME AuditMarkers ==
    /\ NoLine \notin Nat
    /\ Garbled \notin [event : Nat, prev : Seq(Nat), hash : Seq(Nat)]

VARIABLES
    file,      \* the lines of audit.jsonl
    open,      \* the last line has no newline yet
    lastHash,  \* AuditLog._last_hash
    count,     \* events that append was called with
    writing,   \* how far the append that holds the lock has got with its line
    acked,     \* history: events append published and returned, in order
    torn,      \* history: some write left part of an entry behind
    changed    \* history: the line changed or removed from outside

auditVars == <<file, open, lastHash, count, writing, acked, torn, changed>>

\* No append is under way; the first part of its line is on the disk, as a
\* line of its own or glued to one that was left open; all of the line is.
Writing == {"none", "part", "glued", "whole"}

Event == Nat
Hash == Seq(Event)
GenesisHash == << >>

\* sha256 over the previous hash and the canonical JSON of the entry.
Digest(prev, event) == Append(prev, event)

Entry(prev, event) == [event |-> event, prev |-> prev, hash |-> Digest(prev, event)]

Line == [event : Event, prev : Hash, hash : Hash] \cup {Garbled}

-----------------------------------------------------------------------------
\* _scan_last_hash: the hash of the last line that parses.
ScanLastHash(f) ==
    LET parsed == {i \in DOMAIN f : f[i] # Garbled}
    IN  IF parsed = {} THEN GenesisHash
        ELSE f[CHOOSE i \in parsed : \A j \in parsed : j <= i].hash

\* The hash line i has to name as its predecessor.
PrevOf(f, i) == IF i = 1 THEN GenesisHash ELSE f[i - 1].hash

\* A mutation of ChainHolds: the stored hash is trusted.
ChainHoldsUnhashed(f) == \A i \in DOMAIN f : f[i].prev = PrevOf(f, i)

\* Every entry names its predecessor and carries its own digest.
ChainHolds(f) ==
    \A i \in DOMAIN f : /\ f[i].prev = PrevOf(f, i)
                        /\ f[i].hash = Digest(f[i].prev, f[i].event)

\* A mutation of Verify: lines that do not parse are passed over.
VerifySkipping(f) ==
    LET g == SelectSeq(f, LAMBDA l : l # Garbled)
    IN  IF ChainHolds(g) THEN "valid" ELSE "broken"

\* verify: the lines are read in order, up to the first that is not in order.
\* json.loads is not guarded, so one that does not parse raises.
Verify(f) ==
    LET garbled == {i \in DOMAIN f : f[i] = Garbled}
        first == CHOOSE i \in garbled : \A j \in garbled : i <= j
    IN  IF garbled = {}
        THEN IF ChainHolds(f) THEN "valid" ELSE "broken"
        ELSE IF ChainHolds(SubSeq(f, 1, first - 1)) THEN "raises" ELSE "broken"

-----------------------------------------------------------------------------
\* The file after a write that put all of line there, with its newline or
\* without: behind a line that was left open, the two cannot be told apart.
Written(line) ==
    IF open THEN [file EXCEPT ![Len(file)] = Garbled] ELSE Append(file, line)

\* The entry append builds.
NextEntry == Entry(lastHash, count + 1)

\* append, under its lock: the whole line is written.
AppendWrites ==
    /\ writing = "none" /\ count < MaxEvents
    /\ file' = Written(NextEntry)
    /\ open' = FALSE
    /\ count' = count + 1
    /\ writing' = "whole"
    /\ UNCHANGED <<lastHash, acked, torn, changed>>

\* append of a line longer than the buffer: its first part is on the disk,
AppendBegins ==
    /\ writing = "none" /\ count < MaxEvents
    /\ file' = Written(Garbled)
    /\ open' = TRUE
    /\ count' = count + 1
    /\ writing' = IF open THEN "glued" ELSE "part"
    /\ UNCHANGED <<lastHash, acked, torn, changed>>

\* and then the rest.
AppendEnds ==
    /\ writing \in {"part", "glued"}
    /\ file' = IF writing = "glued" THEN file ELSE [file EXCEPT ![Len(file)] = Entry(lastHash, count)]
    /\ open' = FALSE
    /\ writing' = "whole"
    /\ UNCHANGED <<lastHash, count, acked, torn, changed>>

\* With its line on the disk, append moves _last_hash, calls the publishers,
\* whose exceptions it swallows, and returns.
AppendReturns ==
    /\ writing = "whole"
    /\ lastHash' = Digest(lastHash, count)
    /\ acked' = Append(acked, count)
    /\ writing' = "none"
    /\ UNCHANGED <<file, open, count, torn, changed>>

\* The write raises (the disk is full) with nothing written, with all of the
\* entry but the newline, or with the first part of it; _last_hash stays.
AppendFails ==
    /\ \/ /\ writing = "none" /\ count < MaxEvents
          /\ count' = count + 1
          /\ \/ UNCHANGED <<file, open, torn>>
             \/ file' = Written(NextEntry) /\ open' = TRUE /\ torn' = TRUE
       \/ /\ writing \in {"part", "glued"}
          /\ torn' = TRUE
          /\ UNCHANGED <<file, open, count>>
    /\ writing' = "none"
    /\ UNCHANGED <<lastHash, acked, changed>>

\* A mutation of Restart: the chain is started afresh.
RestartFromGenesis ==
    /\ lastHash' = GenesisHash
    /\ torn' = (torn \/ writing \in {"part", "glued"})
    /\ writing' = "none"
    /\ UNCHANGED <<file, open, count, acked, changed>>

\* The orchestrator stops, at any point of an append or between two, and is
\* started again: the constructor scans the file.  An entry that is on the
\* disk stays in the log though its append never published it or returned.
Restart ==
    /\ lastHash' = ScanLastHash(file)
    /\ torn' = (torn \/ writing \in {"part", "glued"})
    /\ writing' = "none"
    /\ UNCHANGED <<file, open, count, acked, changed>>

\* From outside, once: the content of an entry is edited, or a line that has
\* a successor is removed.
Tamper ==
    /\ changed = NoLine
    /\ \E i \in DOMAIN file :
         /\ file[i] # Garbled
         /\ \/ \E e \in (1 .. MaxEvents) \ {file[i].event} : file' = [file EXCEPT ![i].event = e]
            \/ /\ i < Len(file)
               /\ file' = SubSeq(file, 1, i - 1) \o SubSeq(file, i + 1, Len(file))
         /\ changed' = i
    /\ UNCHANGED <<open, lastHash, count, writing, acked, torn>>

AuditInit ==
    /\ file = << >>
    /\ open = FALSE
    /\ lastHash = GenesisHash
    /\ count = 0
    /\ writing = "none"
    /\ acked = << >>
    /\ torn = FALSE
    /\ changed = NoLine

-----------------------------------------------------------------------------
(* Properties. *)

\* The shape of the log.
AuditTypeOK ==
    /\ file \in Seq(Line)
    /\ open \in BOOLEAN
    /\ open => file # << >>
    /\ lastHash \in Hash
    /\ count \in 0 .. MaxEvents
    /\ writing \in Writing
    /\ writing \in {"part", "glued"} => open
    /\ writing = "whole" => file # << >> /\ ~open
    /\ acked \in Seq(Event)
    /\ torn \in BOOLEAN

\* A log that was only appended to verifies: through restarts and failed
\* writes, as long as no write was torn, and at any moment but in the middle
\* of a write that takes two.
UntouchedLogVerifies ==
    ~torn /\ writing \in {"none", "whole"} /\ changed = NoLine => Verify(file) = "valid"

\* verify says "valid" only of a log in which every event whose append
\* returned can still be read, all of them in the order of the calls: a torn
\* write that swallows a later entry is never passed over.  Between them may
\* be entries of appends that did not return: the process died, or the write
\* raised, with the entry on the disk.
ValidLogIsComplete ==
    LET readable == {i \in DOMAIN file : file[i] # Garbled}
    IN  Verify(file) = "valid" /\ changed = NoLine =>
            /\ \A i, j \in readable : i < j => file[i].event < file[j].event
            /\ \A k \in DOMAIN acked : \E i \in readable : file[i].event = acked[k]

\* "Tampering with any past line breaks the chain": an edited entry, or a
\* removed one that had a successor, makes verify fail for good, whatever is
\* appended or restarted afterwards.
TamperingIsDetected == changed # NoLine => Verify(file) # "valid"
=============================================================================
