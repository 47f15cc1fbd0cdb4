---------------------------- MODULE AuditLogProofs ----------------------------
(***************************************************************************)
(* The inductive invariant of AuditLog, for any number of events, and what  *)
(* it implies of verify.  AuditStreamProofs carries it to the specification *)
(* of the log and the bus together.                                         *)
(***************************************************************************)
EXTENDS AuditLog, SequenceTheorems, WellFoundedInduction, TLAPS

\* Every step of the log.
AuditNext ==
    \/ AppendWrites \/ AppendBegins \/ AppendEnds \/ AppendReturns \/ AppendFails
    \/ Restart \/ Tamper

-----------------------------------------------------------------------------
(* The inductive invariant. *)

\* The lines no append is still writing.
Whole == IF writing = "part" THEN Len(file) - 1 ELSE Len(file)

\* One of them does not parse, and never will again.
Spoiled == \E g \in 1 .. Whole : file[g] = Garbled

\* Line i of f is in order: the conjuncts of ChainHolds.
Linked(f, i) ==
    /\ f[i].prev = PrevOf(f, i)
    /\ f[i].hash = Digest(f[i].prev, f[i].event)

\* A line an append has begun does not parse.
HalfLineGarbled == writing \in {"part", "glued"} => file[Len(file)] = Garbled

\* Only a torn write leaves a line open behind it or spoils one.
OnlyTornSpoils ==
    ~torn /\ changed = NoLine => ~Spoiled /\ (open => writing = "part")

\* A log nobody changed and no torn write has spoiled is a chain, which goes
\* on from its last line; an append that has its line there has not moved
\* _last_hash yet.
UnspoiledIsChain ==
    changed = NoLine /\ ~Spoiled =>
        /\ \A i \in 1 .. Whole : Linked(file, i)
        /\ writing = "part" \/ (writing = "none" /\ ~open) => lastHash = PrevOf(file, Whole + 1)
        /\ writing = "whole" => file[Len(file)] = Entry(lastHash, count)

\* Its lines are events in the order of the calls, all of them before the one
\* a half-done write is about, and no event that was acknowledged is missing.
UnspoiledIsInOrder ==
    changed = NoLine /\ ~Spoiled =>
        /\ \A i, j \in 1 .. Whole : i < j => file[i].event < file[j].event
        /\ \A i \in 1 .. Whole :
              file[i].event <= count /\ (writing = "part" => file[i].event # count)
        /\ \A k \in DOMAIN acked : \E i \in 1 .. Whole : file[i].event = acked[k]

\* Events are acknowledged in the order of the calls, and the one that is
\* being written is not yet.
AckedInOrder ==
    /\ \A k, l \in DOMAIN acked : k < l => acked[k] < acked[l]
    /\ \A k \in DOMAIN acked :
          acked[k] <= count /\ (writing # "none" => acked[k] # count)

\* A change leaves a line behind that does not parse, or one that is out of
\* order, or one that will be as soon as the append that has begun it ends.
ChangeLeavesBreak ==
    changed # NoLine =>
        \/ Spoiled
        \/ \E k \in 1 .. Whole : ~Linked(file, k)
        \/ writing = "part" /\ lastHash # PrevOf(file, Len(file))

AuditIInv ==
    /\ AuditTypeOK
    /\ HalfLineGarbled
    /\ OnlyTornSpoils
    /\ UnspoiledIsChain
    /\ UnspoiledIsInOrder
    /\ AckedInOrder
    /\ ChangeLeavesBreak

-----------------------------------------------------------------------------
(* Lines, digests and the file after a write. *)

\* The marker of an unreadable line is in Line, and no entry is one.
LEMMA Lines ==
    /\ Garbled \in Line
    /\ \A l \in Line : l # Garbled => l \in [event : Event, prev : Hash, hash : Hash]
BY DEF Line

LEMMA EntryFields ==
    ASSUME NEW prev \in Hash, NEW e \in Event
    PROVE  /\ Entry(prev, e) \in Line
           /\ Entry(prev, e) # Garbled
           /\ Entry(prev, e).event = e
           /\ Entry(prev, e).prev = prev
           /\ Entry(prev, e).hash = Digest(prev, e)
<1>1. Digest(prev, e) \in Hash
  BY AppendProperties DEF Digest, Hash
<1>2. Entry(prev, e) \in [event : Event, prev : Hash, hash : Hash]
  BY <1>1 DEF Entry
<1> QED
  BY <1>2, AuditMarkers DEF Entry, Line, Event, Hash

\* What the chain relies on of sha256: a digest is not the hash it was taken
\* over, and entries that differ have different digests.
LEMMA DigestDiffers ==
    ASSUME NEW prev \in Hash, NEW e \in Event
    PROVE  /\ Digest(prev, e) \in Hash
           /\ Digest(prev, e) # prev
           /\ \A d \in Event : Digest(prev, d) = Digest(prev, e) => d = e
<1>1. Digest(prev, e) \in Hash /\ Len(Digest(prev, e)) = Len(prev) + 1
  BY AppendProperties DEF Digest, Hash
<1>2. Len(prev) \in Nat
  BY LenProperties DEF Hash
<1>3. \A d \in Event : Digest(prev, d) = Digest(prev, e) => d = e
  BY AppendInjective DEF Digest, Hash
<1> QED
  BY <1>1, <1>2, <1>3

\* A write adds its line, or garbles the one that was left open.
LEMMA WrittenFile ==
    ASSUME AuditTypeOK, NEW line \in Line
    PROVE  /\ Written(line) \in Seq(Line)
           /\ Written(line) # << >>
           /\ Len(Written(line)) = IF open THEN Len(file) ELSE Len(file) + 1
           /\ \A i \in 1 .. Len(file) :
                 (open => i # Len(file)) => Written(line)[i] = file[i]
           /\ Written(line)[Len(Written(line))] = IF open THEN Garbled ELSE line
<1> file \in Seq(Line) /\ open \in BOOLEAN /\ (open => file # << >>)
  BY DEF AuditTypeOK
<1>1. CASE open
  <2>1. Len(file) \in 1 .. Len(file)
    BY <1>1, LenProperties, EmptySeq
  <2> QED
    BY <1>1, <2>1, Lines, ExceptSeq, EmptySeq DEF Written
<1>2. CASE ~open
  BY <1>2, AppendProperties, LenProperties DEF Written
<1> QED
  BY <1>1, <1>2

-----------------------------------------------------------------------------
(* The type. *)

\* Among finitely many positions there is a last one.
LEMMA LastPosition ==
    ASSUME NEW n \in Nat, NEW S \in SUBSET (1 .. n), S # {}
    PROVE  \E i \in S : \A j \in S : j <= i
<1> DEFINE T == {k \in Nat : n - k \in S}
<1>1. T \subseteq Nat /\ T # {}
  <2>1. PICK i \in S : TRUE
    OBVIOUS
  <2>2. i \in 1 .. n
    BY <2>1
  <2>3. n - i \in Nat /\ n - (n - i) = i
    BY <2>2
  <2> QED
    BY <2>1, <2>3
<1>2. PICK m \in T : \A k \in T : ~ (<<k, m>> \in OpToRel(<, Nat))
  BY <1>1, NatLessThanWellFounded, WFMin
<1>3. OpToRel(<, Nat) = {p \in Nat \X Nat : p[1] < p[2]}
  BY Zenon DEF OpToRel
<1>4. m \in Nat
  BY <1>2
<1>5. ASSUME NEW k \in T PROVE m <= k
  <2>1. k \in Nat
    OBVIOUS
  <2>2. ~ (<<k, m>> \in {p \in Nat \X Nat : p[1] < p[2]})
    BY <1>2, <1>3
  <2> QED
    BY <1>4, <2>1, <2>2
<1>6. n - m \in S
  BY <1>2
<1>7. ASSUME NEW j \in S PROVE j <= n - m
  <2>1. j \in 1 .. n /\ n - j \in T
    BY <1>7
  <2> QED
    BY <2>1, <1>5
<1> QED
  BY <1>6, <1>7

\* The hash a restarted log goes on from is the hash of some line.
LEMMA ScanIsHash ==
    ASSUME NEW f \in Seq(Line)
    PROVE  ScanLastHash(f) \in Hash
<1> DEFINE parsed == {i \in DOMAIN f : f[i] # Garbled}
<1>1. GenesisHash \in Hash
  BY EmptySeq DEF GenesisHash, Hash
<1>2. ASSUME NEW i \in parsed PROVE f[i].hash \in Hash
  BY <1>2, Lines, LenProperties
<1>3. ASSUME parsed # {}
      PROVE  (CHOOSE i \in parsed : \A j \in parsed : j <= i) \in parsed
  <2>1. Len(f) \in Nat /\ parsed \in SUBSET (1 .. Len(f))
    BY LenProperties
  <2> QED
    BY <1>3, <2>1, LastPosition
<1> QED
  BY <1>1, <1>2, <1>3 DEF ScanLastHash

\* The entry an append writes, now or in its second part, is a line.
LEMMA NextEntryIsLine ==
    ASSUME AuditTypeOK
    PROVE  /\ NextEntry \in Line /\ NextEntry # Garbled
           /\ NextEntry.event = count + 1 /\ NextEntry.prev = lastHash
           /\ NextEntry.hash = Digest(lastHash, count + 1)
           /\ NextEntry.hash \in Hash
           /\ Entry(lastHash, count) \in Line
           /\ Digest(lastHash, count) \in Hash
<1> count \in Event /\ count + 1 \in Event /\ lastHash \in Hash
  BY AuditBounds DEF AuditTypeOK, Event
<1> QED
  BY EntryFields, DigestDiffers DEF NextEntry

\* A line whose event was edited is still a line.
LEMMA EditedLine ==
    ASSUME NEW l \in Line, l # Garbled, NEW e \in Event
    PROVE  /\ [l EXCEPT !.event = e] \in Line
           /\ [l EXCEPT !.event = e] # Garbled
           /\ [l EXCEPT !.event = e].event = e
           /\ [l EXCEPT !.event = e].prev = l.prev
           /\ [l EXCEPT !.event = e].hash = l.hash
<1>1. l \in [event : Event, prev : Hash, hash : Hash]
  BY Lines
<1>2. [l EXCEPT !.event = e] \in [event : Event, prev : Hash, hash : Hash]
  BY <1>1
<1>3. [l EXCEPT !.event = e] # Garbled
  BY <1>2, AuditMarkers DEF Event, Hash
<1> QED
  BY <1>1, <1>2, <1>3 DEF Line

\* A file without its i-th line.
Without(f, i) == SubSeq(f, 1, i - 1) \o SubSeq(f, i + 1, Len(f))

LEMMA WithoutLine ==
    ASSUME NEW f \in Seq(Line), NEW i \in 1 .. Len(f)
    PROVE  /\ Without(f, i) \in Seq(Line)
           /\ Len(Without(f, i)) = Len(f) - 1
           /\ \A k \in 1 .. Len(f) - 1 :
                 Without(f, i)[k] = IF k < i THEN f[k] ELSE f[k + 1]
<1> DEFINE a == SubSeq(f, 1, i - 1)
           b == SubSeq(f, i + 1, Len(f))
<1>1. Len(f) \in Nat /\ \A k \in 1 .. Len(f) : f[k] \in Line
  BY LenProperties, ElementOfSeq
<1>2. /\ a \in Seq(Line) /\ Len(a) = i - 1
      /\ \A k \in 1 .. i - 1 : a[k] = f[k]
  BY <1>1, SubSeqProperties
<1>3. /\ b \in Seq(Line) /\ Len(b) = Len(f) - i
      /\ \A k \in 1 .. Len(f) - i : b[k] = f[i + k]
  BY <1>1, SubSeqProperties
<1> HIDE DEF a, b
<1>4. /\ a \o b \in Seq(Line) /\ Len(a \o b) = Len(a) + Len(b)
      /\ \A k \in 1 .. Len(a) + Len(b) :
            (a \o b)[k] = IF k <= Len(a) THEN a[k] ELSE b[k - Len(a)]
  BY <1>2, <1>3, ConcatProperties
<1>5. ASSUME NEW k \in 1 .. Len(f) - 1
      PROVE  (a \o b)[k] = IF k < i THEN f[k] ELSE f[k + 1]
  <2>1. CASE k < i
    BY <1>1, <1>2, <1>3, <1>4, <2>1
  <2>2. CASE ~(k < i)
    <3>1. k - (i - 1) \in 1 .. Len(f) - i /\ i + (k - (i - 1)) = k + 1
      BY <1>1, <2>2
    <3>2. (a \o b)[k] = b[k - (i - 1)]
      <4>1. k \in 1 .. Len(a) + Len(b) /\ ~(k <= Len(a)) /\ Len(a) = i - 1
        BY <1>1, <1>2, <1>3, <2>2
      <4> QED
        BY <1>4, <4>1
    <3>3. b[k - (i - 1)] = f[i + (k - (i - 1))]
      BY <1>3, <3>1
    <3> QED
      BY <2>2, <3>1, <3>2, <3>3
  <2> QED
    BY <2>1, <2>2
<1>6. Without(f, i) = a \o b
  BY DEF Without, a, b
<1> QED
  BY <1>1, <1>2, <1>3, <1>4, <1>5, <1>6

LEMMA AuditTypeStep ==
    ASSUME AuditTypeOK, [AuditNext]_auditVars
    PROVE  AuditTypeOK'
<1>1. /\ file \in Seq(Line) /\ open \in BOOLEAN /\ (open => file # << >>)
      /\ lastHash \in Hash /\ count \in 0 .. MaxEvents
      /\ writing \in Writing /\ (writing \in {"part", "glued"} => open)
      /\ (writing = "whole" => file # << >> /\ ~open)
      /\ acked \in Seq(Event) /\ torn \in BOOLEAN /\ MaxEvents \in Nat
  BY AuditBounds DEF AuditTypeOK
<1>2. Len(file) \in Nat /\ DOMAIN file = 1 .. Len(file)
  BY <1>1, LenProperties
<1>3. CASE AppendWrites
  <2>1. file' \in Seq(Line) /\ file' # << >>
    BY <1>3, NextEntryIsLine, WrittenFile DEF AppendWrites
  <2>2. open' = FALSE /\ writing' = "whole"
    BY <1>3 DEF AppendWrites
  <2>3. count' \in 0 .. MaxEvents
    BY <1>1, <1>3 DEF AppendWrites
  <2>4. lastHash' = lastHash /\ acked' = acked /\ torn' = torn
    BY <1>3 DEF AppendWrites
  <2> QED
    BY <1>1, <2>1, <2>2, <2>3, <2>4 DEF AuditTypeOK, Writing
<1>4. CASE AppendBegins
  <2>1. file' \in Seq(Line) /\ file' # << >>
    BY <1>4, Lines, WrittenFile DEF AppendBegins
  <2> QED
    BY <1>1, <1>4, <2>1 DEF AppendBegins, AuditTypeOK, Writing
<1>5. CASE AppendEnds
  <2>1. Len(file) \in 1 .. Len(file)
    BY <1>1, <1>2, <1>5, EmptySeq DEF AppendEnds
  <2>2. file' \in Seq(Line) /\ file' # << >>
    BY <1>1, <1>5, <2>1, NextEntryIsLine, ExceptSeq, EmptySeq DEF AppendEnds
  <2>3. open' = FALSE /\ writing' = "whole"
    BY <1>5 DEF AppendEnds
  <2>4. count' = count /\ lastHash' = lastHash /\ acked' = acked /\ torn' = torn
    BY <1>5 DEF AppendEnds
  <2> QED
    BY <1>1, <2>2, <2>3, <2>4 DEF AuditTypeOK, Writing
<1>10. CASE AppendReturns
  <2>1. lastHash' \in Hash
    BY <1>10, NextEntryIsLine DEF AppendReturns
  <2>2. acked' \in Seq(Event)
    BY <1>1, <1>10, AppendProperties DEF AppendReturns, Event
  <2> QED
    BY <1>1, <1>10, <2>1, <2>2 DEF AppendReturns, AuditTypeOK, Writing
<1>6. CASE AppendFails
  <2>1. file' \in Seq(Line) /\ (open' => file' # << >>) /\ open' \in BOOLEAN
    <3>1. Written(NextEntry) \in Seq(Line) /\ Written(NextEntry) # << >>
      BY NextEntryIsLine, WrittenFile
    <3>2. \/ file' = file /\ open' = open
          \/ file' = Written(NextEntry) /\ open' = TRUE
      BY <1>6 DEF AppendFails
    <3>3. CASE file' = file /\ open' = open
      BY <1>1, <3>3
    <3>4. CASE file' = Written(NextEntry) /\ open' = TRUE
      BY <3>1, <3>4
    <3> QED
      BY <3>2, <3>3, <3>4
  <2>2. count' \in 0 .. MaxEvents /\ torn' \in BOOLEAN
    <3>1. \/ count' = count
          \/ count < MaxEvents /\ count' = count + 1
      BY <1>6 DEF AppendFails
    <3>2. count' \in 0 .. MaxEvents
      BY <1>1, <3>1
    <3>3. torn' = torn \/ torn' = TRUE
      BY <1>6 DEF AppendFails
    <3>4. torn' \in BOOLEAN
      BY <1>1, <3>3, Zenon
    <3> QED
      BY <3>2, <3>4
  <2>3. writing' = "none" /\ lastHash' = lastHash /\ acked' = acked
    BY <1>6 DEF AppendFails
  <2> QED
    BY <1>1, <2>1, <2>2, <2>3 DEF AuditTypeOK, Writing
<1>7. CASE Restart
  BY <1>1, <1>7, ScanIsHash DEF Restart, AuditTypeOK, Writing
<1>8. CASE Tamper
  <2>1. PICK i \in DOMAIN file :
          /\ file[i] # Garbled
          /\ \/ \E e \in (1 .. MaxEvents) \ {file[i].event} :
                   file' = [file EXCEPT ![i].event = e]
             \/ i < Len(file) /\ file' = Without(file, i)
    BY <1>8 DEF Tamper, Without
  <2>2. i \in 1 .. Len(file)
    BY <1>2
  <2>3. file' \in Seq(Line) /\ file' # << >>
    <3>1. ASSUME NEW e \in 1 .. MaxEvents, file' = [file EXCEPT ![i].event = e]
          PROVE  file' \in Seq(Line) /\ file' # << >>
      <4>1. file' = [file EXCEPT ![i] = [file[i] EXCEPT !.event = e]]
        BY <3>1
      <4>2. [file[i] EXCEPT !.event = e] \in Line
        BY <1>1, <2>1, <2>2, EditedLine, ElementOfSeq DEF Event
      <4> QED
        BY <1>1, <1>2, <2>2, <4>1, <4>2, ExceptSeq, EmptySeq
    <3>2. ASSUME i < Len(file), file' = Without(file, i)
          PROVE  file' \in Seq(Line) /\ file' # << >>
      BY <1>1, <1>2, <2>2, <3>2, WithoutLine, EmptySeq
    <3> QED
      BY <2>1, <3>1, <3>2
  <2> QED
    BY <1>1, <1>8, <2>3 DEF Tamper, AuditTypeOK
<1>9. CASE UNCHANGED auditVars
  BY <1>9 DEF auditVars, AuditTypeOK
<1> QED
  BY <1>3, <1>4, <1>5, <1>6, <1>7, <1>8, <1>9, <1>10 DEF AuditNext

-----------------------------------------------------------------------------
(* The chain. *)

\* The types the proofs below start from.
LEMMA AuditTypes ==
    ASSUME AuditTypeOK
    PROVE  /\ file \in Seq(Line) /\ Len(file) \in Nat
           /\ \A i \in 1 .. Len(file) : file[i] \in Line
           /\ acked \in Seq(Event) /\ Len(acked) \in Nat /\ DOMAIN acked = 1 .. Len(acked)
           /\ \A k \in DOMAIN acked : acked[k] \in Nat
           /\ Whole \in Nat
           /\ writing # "part" => Whole = Len(file)
           /\ writing = "part" => Whole = Len(file) - 1
           /\ open \/ writing # "none" => Len(file) >= 1
           /\ writing \in Writing /\ (writing \in {"part", "glued"} => open)
           /\ writing = "whole" => ~open
           /\ lastHash \in Hash /\ count \in Nat
<1>1. /\ file \in Seq(Line) /\ (open => file # << >>) /\ acked \in Seq(Event)
      /\ writing \in Writing /\ (writing \in {"part", "glued"} => open)
      /\ (writing = "whole" => file # << >> /\ ~open)
      /\ lastHash \in Hash /\ count \in Nat
  BY AuditBounds DEF AuditTypeOK
<1>2. /\ Len(file) \in Nat /\ (file # << >> => Len(file) >= 1)
      /\ Len(acked) \in Nat /\ DOMAIN acked = 1 .. Len(acked)
  BY <1>1, LenProperties, EmptySeq
<1>3. open \/ writing # "none" => Len(file) >= 1
  BY <1>1, <1>2 DEF Writing
<1>4. /\ \A i \in 1 .. Len(file) : file[i] \in Line
      /\ \A k \in DOMAIN acked : acked[k] \in Nat
  BY <1>1, <1>2, ElementOfSeq DEF Event
<1>5. CASE writing = "part"
  BY <1>1, <1>2, <1>3, <1>4, <1>5 DEF Whole
<1>6. CASE writing # "part"
  BY <1>1, <1>2, <1>3, <1>4, <1>6 DEF Whole
<1> QED
  BY <1>5, <1>6

\* A line's place in the chain depends on it and its predecessor only.
LEMMA LinkedLocal ==
    ASSUME NEW f, NEW g, NEW n \in Nat, \A i \in 1 .. n : g[i] = f[i]
    PROVE  /\ \A i \in 1 .. n : Linked(g, i) <=> Linked(f, i)
           /\ PrevOf(g, n + 1) = PrevOf(f, n + 1)
<1>1. ASSUME NEW i \in 1 .. n + 1 PROVE PrevOf(g, i) = PrevOf(f, i)
  <2>1. CASE i = 1
    BY <2>1 DEF PrevOf
  <2>2. CASE i # 1
    <3>1. i - 1 \in 1 .. n
      BY <2>2
    <3> QED
      BY <2>2, <3>1 DEF PrevOf
  <2> QED
    BY <2>1, <2>2
<1>2. n + 1 \in 1 .. n + 1 /\ \A i \in 1 .. n : i \in 1 .. n + 1
  OBVIOUS
<1> QED
  BY <1>1, <1>2 DEF Linked

\* Once a line is spoiled, by a torn write or in a log that was changed, the
\* invariant asks no more.
LEMMA SpoiledIsEnough ==
    ASSUME AuditTypeOK', AckedInOrder', Spoiled', HalfLineGarbled', torn' \/ changed' # NoLine
    PROVE  AuditIInv'
BY DEF AuditIInv, OnlyTornSpoils, UnspoiledIsChain, UnspoiledIsInOrder, ChangeLeavesBreak

\* The line an append completes extends the chain of the lines before it, is
\* about a later event, and a break among those is still there.
LEMMA LineAdded ==
    ASSUME AuditIInv, AuditTypeOK', writing' \in {"none", "whole"},
           changed' = changed, acked' = acked,
           \/ writing = "part" /\ count' = count
           \/ writing = "none" /\ ~open /\ count' = count + 1,
           Len(file') = Whole + 1,
           \A i \in 1 .. Whole : file'[i] = file[i],
           file'[Whole + 1] # Garbled,
           file'[Whole + 1].event = count',
           file'[Whole + 1].prev = lastHash,
           file'[Whole + 1].hash = Digest(lastHash, file'[Whole + 1].event)
    PROVE  /\ Whole' = Whole + 1
           /\ Spoiled' <=> Spoiled
           /\ HalfLineGarbled'
           /\ changed' = NoLine /\ ~Spoiled' => \A i \in 1 .. Whole' : Linked(file', i)
           /\ UnspoiledIsInOrder'
           /\ ChangeLeavesBreak'
<1> USE DEF AuditIInv
<1>1. Whole \in Nat
  BY AuditTypes
<1>2. Whole' = Whole + 1
  BY DEF Whole
<1>3. Spoiled' <=> Spoiled
  BY <1>1, <1>2 DEF Spoiled
<1>4. HalfLineGarbled'
  BY DEF HalfLineGarbled
<1>5. /\ \A i \in 1 .. Whole : Linked(file', i) <=> Linked(file, i)
      /\ PrevOf(file', Whole + 1) = PrevOf(file, Whole + 1)
  BY <1>1, LinkedLocal
<1>6. Linked(file', Whole + 1) <=> lastHash = PrevOf(file, Whole + 1)
  BY <1>5 DEF Linked
<1>7. ASSUME changed' = NoLine, ~Spoiled'
      PROVE  \A i \in 1 .. Whole' : Linked(file', i)
  <2>1. /\ \A i \in 1 .. Whole : Linked(file, i)
        /\ lastHash = PrevOf(file, Whole + 1)
    BY <1>3, <1>7 DEF UnspoiledIsChain
  <2>2. \A i \in 1 .. Whole' : i \in 1 .. Whole \/ i = Whole + 1
    BY <1>1, <1>2
  <2> QED
    BY <1>5, <1>6, <2>1, <2>2
<1>8. ASSUME changed' # NoLine, ~Spoiled'
      PROVE  \E k \in 1 .. Whole' : ~Linked(file', k)
  <2>1. \/ \E k \in 1 .. Whole : ~Linked(file, k)
        \/ writing = "part" /\ lastHash # PrevOf(file, Len(file))
    BY <1>3, <1>8 DEF ChangeLeavesBreak
  <2>2. CASE \E k \in 1 .. Whole : ~Linked(file, k)
    BY <1>1, <1>2, <1>5, <2>2
  <2>3. CASE writing = "part" /\ lastHash # PrevOf(file, Len(file))
    <3>1. Len(file) = Whole + 1 /\ Whole + 1 \in 1 .. Whole'
      BY <1>1, <1>2, <2>3, AuditTypes
    <3> QED
      BY <1>6, <2>3, <3>1
  <2> QED
    BY <2>1, <2>2, <2>3
<1>9. UnspoiledIsInOrder'
  <2> SUFFICES ASSUME changed' = NoLine, ~Spoiled'
               PROVE  /\ \A i, j \in 1 .. Whole' : i < j => file'[i].event < file'[j].event
                      /\ \A i \in 1 .. Whole' : file'[i].event <= count'
                      /\ \A k \in DOMAIN acked' : \E i \in 1 .. Whole' : file'[i].event = acked'[k]
    BY DEF UnspoiledIsInOrder
  <2>1. /\ \A i, j \in 1 .. Whole : i < j => file[i].event < file[j].event
        /\ \A i \in 1 .. Whole :
              file[i].event <= count /\ (writing = "part" => file[i].event # count)
        /\ \A k \in DOMAIN acked : \E i \in 1 .. Whole : file[i].event = acked[k]
    BY <1>3 DEF UnspoiledIsInOrder
  <2>2. count \in Nat /\ count' \in Nat
    BY AuditTypes
  <2>3. \A i \in 1 .. Whole : file[i].event \in Nat
    <3> TAKE i \in 1 .. Whole
    <3>1. file[i] \in Line /\ file[i] # Garbled
      <4>1. i \in 1 .. Len(file)
        BY <1>1, AuditTypes
      <4> QED
        BY <1>3, <4>1, AuditTypes DEF Spoiled
    <3> QED
      BY <3>1, Lines DEF Event
  <2>4. \A i \in 1 .. Whole : file'[i].event < count'
    BY <2>1, <2>2, <2>3
  <2>5. \A i \in 1 .. Whole' : i \in 1 .. Whole \/ i = Whole + 1
    BY <1>1, <1>2
  <2>6. \A i \in 1 .. Whole : i \in 1 .. Whole'
    BY <1>1, <1>2
  <2>7. ASSUME NEW i \in 1 .. Whole', NEW j \in 1 .. Whole', i < j
        PROVE  file'[i].event < file'[j].event
    <3>1. CASE j = Whole + 1
      <4>1. i \in 1 .. Whole
        BY <1>1, <1>2, <2>7, <3>1
      <4> QED
        BY <2>4, <3>1, <4>1
    <3>2. CASE j \in 1 .. Whole
      <4>1. i \in 1 .. Whole
        BY <1>1, <1>2, <2>7, <3>2
      <4> QED
        BY <2>1, <2>7, <3>2, <4>1
    <3> QED
      BY <2>5, <3>1, <3>2
  <2>8. \A i \in 1 .. Whole' : file'[i].event <= count'
    BY <2>2, <2>3, <2>4, <2>5
  <2>9. \A k \in DOMAIN acked' : \E i \in 1 .. Whole' : file'[i].event = acked'[k]
    BY <2>1, <2>6
  <2> QED
    BY <2>7, <2>8, <2>9
<1> QED
  BY <1>2, <1>3, <1>4, <1>7, <1>8, <1>9 DEF ChangeLeavesBreak

-----------------------------------------------------------------------------
(* Each step of the log. *)

\* A line that is left open by an append that is over was torn, unless the
\* file was changed.
LEMMA OpenIsTorn ==
    ASSUME AuditIInv, open, writing # "part"
    PROVE  torn \/ changed # NoLine
BY DEF AuditIInv, OnlyTornSpoils

\* A write behind a line that was left open spoils the file.
LEMMA WriteBehindOpen ==
    ASSUME AuditIInv, AuditTypeOK', AckedInOrder', writing = "none", open,
           NEW line \in Line, file' = Written(line), writing' # "part",
           torn => torn', changed' = changed
    PROVE  AuditIInv'
<1>1. AuditTypeOK /\ Len(file) >= 1 /\ Len(file) \in Nat
  BY AuditTypes DEF AuditIInv
<1>2. Len(file') = Len(file) /\ file'[Len(file')] = Garbled
  BY <1>1, WrittenFile
<1>3. Whole' = Len(file')
  BY DEF Whole
<1>4. Spoiled' /\ HalfLineGarbled'
  BY <1>1, <1>2, <1>3 DEF Spoiled, HalfLineGarbled
<1> QED
  BY <1>4, OpenIsTorn, SpoiledIsEnough

\* An event is acknowledged after those that were called for before it.
LEMMA AckedStep ==
    ASSUME AuditTypeOK, AckedInOrder, [AuditNext]_auditVars
    PROVE  AckedInOrder'
<1>1. /\ acked \in Seq(Nat) /\ Len(acked) \in Nat /\ DOMAIN acked = 1 .. Len(acked)
      /\ \A k \in DOMAIN acked : acked[k] \in Nat
      /\ count \in Nat
  BY AuditTypes DEF Event
<1>2. /\ \A k, l \in DOMAIN acked : k < l => acked[k] < acked[l]
      /\ \A k \in DOMAIN acked :
            acked[k] <= count /\ (writing # "none" => acked[k] # count)
  BY DEF AckedInOrder
<1>3. CASE AppendReturns
  <2>1. /\ writing = "whole" /\ writing' = "none" /\ count' = count
        /\ acked' = Append(acked, count)
    BY <1>3 DEF AppendReturns
  <2>2. /\ DOMAIN acked' = 1 .. Len(acked) + 1
        /\ \A k \in 1 .. Len(acked) : acked'[k] = acked[k]
        /\ acked'[Len(acked) + 1] = count
    BY <1>1, <2>1, AppendProperties, LenProperties
  <2>3. \A k \in 1 .. Len(acked) : acked'[k] < count
    BY <1>1, <1>2, <2>1, <2>2
  <2>4. ASSUME NEW k \in DOMAIN acked', NEW l \in DOMAIN acked', k < l
        PROVE  acked'[k] < acked'[l]
    <3>1. k \in 1 .. Len(acked) /\ (l \in 1 .. Len(acked) \/ l = Len(acked) + 1)
      BY <1>1, <2>2, <2>4
    <3>2. CASE l \in 1 .. Len(acked)
      BY <1>1, <1>2, <2>2, <2>4, <3>1, <3>2
    <3>3. CASE l = Len(acked) + 1
      BY <2>2, <2>3, <3>1, <3>3
    <3> QED
      BY <3>1, <3>2, <3>3
  <2>5. \A k \in DOMAIN acked' : acked'[k] <= count
    <3> TAKE k \in DOMAIN acked'
    <3>1. k \in 1 .. Len(acked) \/ k = Len(acked) + 1
      BY <1>1, <2>2
    <3> QED
      BY <1>1, <1>2, <2>2, <3>1
  <2> QED
    BY <2>1, <2>4, <2>5 DEF AckedInOrder
<1>4. ASSUME acked' = acked,
             \/ count' = count + 1
             \/ count' = count /\ (writing' = "none" \/ writing # "none")
      PROVE  AckedInOrder'
  BY <1>1, <1>2, <1>4 DEF AckedInOrder
<1>5. CASE AppendWrites \/ AppendBegins
  BY <1>4, <1>5 DEF AppendWrites, AppendBegins
<1>6. CASE AppendEnds
  BY <1>4, <1>6 DEF AppendEnds
<1>7. CASE AppendFails
  BY <1>4, <1>7 DEF AppendFails
<1>8. CASE Restart
  BY <1>4, <1>8 DEF Restart
<1>9. CASE Tamper
  BY <1>4, <1>9 DEF Tamper
<1>10. CASE UNCHANGED auditVars
  BY <1>4, <1>10 DEF auditVars
<1> QED
  BY <1>3, <1>5, <1>6, <1>7, <1>8, <1>9, <1>10 DEF AuditNext

\* The entry a whole write puts behind a closed line.
LEMMA NextEntryAdded ==
    ASSUME AuditTypeOK, writing = "none", ~open, file' = Written(NextEntry)
    PROVE  /\ Whole = Len(file) /\ Whole \in Nat
           /\ Len(file') = Whole + 1
           /\ \A i \in 1 .. Whole : file'[i] = file[i]
           /\ file'[Whole + 1] = NextEntry
           /\ NextEntry # Garbled /\ NextEntry.prev = lastHash
           /\ NextEntry.event = count + 1
           /\ NextEntry.hash = Digest(lastHash, NextEntry.event)
<1>1. Whole = Len(file) /\ Whole \in Nat
  BY AuditTypes
<1>2. /\ Len(Written(NextEntry)) = Len(file) + 1
      /\ \A i \in 1 .. Len(file) : Written(NextEntry)[i] = file[i]
      /\ Written(NextEntry)[Len(Written(NextEntry))] = NextEntry
  BY NextEntryIsLine, WrittenFile
<1>3. /\ NextEntry # Garbled /\ NextEntry.prev = lastHash
      /\ NextEntry.event = count + 1
      /\ NextEntry.hash = Digest(lastHash, NextEntry.event)
  BY NextEntryIsLine
<1> QED
  BY <1>1, <1>2, <1>3

LEMMA AppendWritesStep ==
    ASSUME AuditIInv, AuditTypeOK', AckedInOrder', AppendWrites
    PROVE  AuditIInv'
<1> AuditTypeOK
  BY DEF AuditIInv
<1>1. /\ writing = "none" /\ writing' = "whole" /\ ~open' /\ torn' = torn /\ changed' = changed
      /\ file' = Written(NextEntry) /\ lastHash' = lastHash
      /\ count' = count + 1 /\ acked' = acked
  BY DEF AppendWrites
<1>2. CASE open
  BY <1>1, <1>2, NextEntryIsLine, WriteBehindOpen
<1>3. CASE ~open
  <2>1. /\ Whole = Len(file) /\ Whole \in Nat
        /\ Len(file') = Whole + 1
        /\ \A i \in 1 .. Whole : file'[i] = file[i]
        /\ file'[Whole + 1] = NextEntry
        /\ NextEntry # Garbled /\ NextEntry.prev = lastHash
        /\ NextEntry.event = count + 1
        /\ NextEntry.hash = Digest(lastHash, NextEntry.event)
    BY <1>1, <1>3, NextEntryAdded
  <2>2. /\ Whole' = Whole + 1
        /\ Spoiled' <=> Spoiled
        /\ HalfLineGarbled'
        /\ changed' = NoLine /\ ~Spoiled' => \A i \in 1 .. Whole' : Linked(file', i)
        /\ UnspoiledIsInOrder'
        /\ ChangeLeavesBreak'
    BY <1>1, <1>3, <2>1, LineAdded
  <2>3. OnlyTornSpoils'
    BY <1>1, <2>2 DEF AuditIInv, OnlyTornSpoils
  <2>4. file'[Len(file')] = Entry(lastHash', count')
    BY <1>1, <2>1 DEF NextEntry
  <2>5. UnspoiledIsChain'
    BY <1>1, <2>2, <2>4 DEF UnspoiledIsChain
  <2> QED
    BY <2>2, <2>3, <2>5 DEF AuditIInv
<1> QED
  BY <1>2, <1>3

\* The lines of a file that is not spoiled are about events.
LEMMA UnspoiledEvents ==
    ASSUME AuditTypeOK, ~Spoiled
    PROVE  \A i \in 1 .. Whole : file[i].event \in Nat
<1> TAKE i \in 1 .. Whole
<1>1. i \in 1 .. Len(file)
  BY AuditTypes
<1>2. file[i] \in Line /\ file[i] # Garbled
  BY <1>1, AuditTypes DEF Spoiled
<1> QED
  BY <1>2, Lines DEF Event

\* An event that is called for, and not on the disk yet, is after all that are.
LEMMA LaterEvent ==
    ASSUME AuditIInv, changed' = changed, Spoiled' <=> Spoiled, Whole' = Whole,
           \A i \in 1 .. Whole : file'[i] = file[i],
           count' = count + 1, acked' = acked
    PROVE  UnspoiledIsInOrder'
<1> SUFFICES ASSUME changed' = NoLine, ~Spoiled'
             PROVE  /\ \A i, j \in 1 .. Whole : i < j => file[i].event < file[j].event
                    /\ \A i \in 1 .. Whole : file[i].event <= count' /\ file[i].event # count'
                    /\ \A k \in DOMAIN acked : \E i \in 1 .. Whole : file[i].event = acked[k]
  BY DEF UnspoiledIsInOrder
<1>1. /\ \A i, j \in 1 .. Whole : i < j => file[i].event < file[j].event
      /\ \A i \in 1 .. Whole : file[i].event <= count
      /\ \A k \in DOMAIN acked : \E i \in 1 .. Whole : file[i].event = acked[k]
  BY DEF AuditIInv, UnspoiledIsInOrder
<1>2. count \in Nat /\ \A i \in 1 .. Whole : file[i].event \in Nat
  BY AuditTypes, UnspoiledEvents DEF AuditIInv
<1> QED
  BY <1>1, <1>2

LEMMA AppendBeginsStep ==
    ASSUME AuditIInv, AuditTypeOK', AckedInOrder', AppendBegins
    PROVE  AuditIInv'
<1> AuditTypeOK
  BY DEF AuditIInv
<1>1. /\ writing = "none" /\ open' /\ torn' = torn /\ changed' = changed
      /\ writing' = IF open THEN "glued" ELSE "part"
      /\ file' = Written(Garbled) /\ lastHash' = lastHash
      /\ count' = count + 1 /\ acked' = acked
  BY DEF AppendBegins
<1>2. CASE open
  BY <1>1, <1>2, Lines, WriteBehindOpen
<1>3. CASE ~open
  <2>1. writing' = "part" /\ Whole = Len(file) /\ Whole \in Nat
    BY <1>1, <1>3, AuditTypes
  <2>2. /\ Len(file') = Whole + 1
        /\ \A i \in 1 .. Whole : file'[i] = file[i]
        /\ file'[Len(file')] = Garbled
    BY <1>1, <1>3, <2>1, Lines, WrittenFile
  <2>3. Whole' = Whole
    BY <2>1, <2>2 DEF Whole
  <2>4. Spoiled' <=> Spoiled
    BY <2>1, <2>2, <2>3 DEF Spoiled
  <2>5. /\ \A i \in 1 .. Whole : Linked(file', i) <=> Linked(file, i)
        /\ PrevOf(file', Whole + 1) = PrevOf(file, Whole + 1)
    BY <2>1, <2>2, LinkedLocal
  <2>6. HalfLineGarbled'
    BY <2>2 DEF HalfLineGarbled
  <2>7. OnlyTornSpoils'
    BY <1>1, <2>1, <2>4 DEF AuditIInv, OnlyTornSpoils
  <2>8. UnspoiledIsChain'
    <3> SUFFICES ASSUME changed' = NoLine, ~Spoiled'
                 PROVE  /\ \A i \in 1 .. Whole' : Linked(file', i)
                        /\ lastHash' = PrevOf(file', Whole' + 1)
      BY <2>1 DEF UnspoiledIsChain
    <3>1. /\ \A i \in 1 .. Whole : Linked(file, i)
          /\ lastHash = PrevOf(file, Whole + 1)
      BY <1>1, <1>3, <2>4 DEF AuditIInv, UnspoiledIsChain
    <3> QED
      BY <1>1, <2>3, <2>5, <3>1
  <2>9. ChangeLeavesBreak'
    BY <1>1, <2>3, <2>4, <2>5 DEF AuditIInv, ChangeLeavesBreak
  <2>10. UnspoiledIsInOrder'
    BY <1>1, <2>2, <2>3, <2>4, LaterEvent
  <2> QED
    BY <2>6, <2>7, <2>8, <2>9, <2>10 DEF AuditIInv
<1> QED
  BY <1>2, <1>3

\* A write that was begun and is given up leaves its line spoiled.
LEMMA GivenUp ==
    ASSUME AuditIInv, AuditTypeOK', AckedInOrder', writing \in {"part", "glued"},
           writing' \in {"none", "whole"}, file' = file, torn' \/ changed' # NoLine
    PROVE  AuditIInv'
<1>1. Len(file) \in Nat /\ Len(file) >= 1
  BY AuditTypes DEF AuditIInv
<1>2. file'[Len(file')] = Garbled /\ Whole' = Len(file)
  BY DEF AuditIInv, HalfLineGarbled, Whole
<1>3. Spoiled' /\ HalfLineGarbled'
  BY <1>1, <1>2 DEF Spoiled, HalfLineGarbled
<1> QED
  BY <1>3, SpoiledIsEnough

LEMMA AppendEndsStep ==
    ASSUME AuditIInv, AuditTypeOK', AckedInOrder', AppendEnds
    PROVE  AuditIInv'
<1> AuditTypeOK
  BY DEF AuditIInv
<1> DEFINE line == Entry(lastHash, count)
<1>1. /\ writing \in {"part", "glued"} /\ writing' = "whole" /\ ~open' /\ torn' = torn /\ changed' = changed
      /\ file' = IF writing = "glued" THEN file ELSE [file EXCEPT ![Len(file)] = line]
      /\ lastHash' = lastHash /\ count' = count /\ acked' = acked
  BY DEF AppendEnds
<1>2. CASE writing = "glued"
  BY <1>1, <1>2, AuditTypes, OpenIsTorn, GivenUp
<1>3. CASE writing = "part"
  <2>1. /\ Whole = Len(file) - 1 /\ Whole \in Nat /\ open /\ Len(file) \in Nat
        /\ file \in Seq(Line)
    BY <1>3, AuditTypes
  <2>2. /\ line \in Line /\ line # Garbled /\ line.prev = lastHash
        /\ line.event = count /\ line.hash = Digest(lastHash, line.event)
    BY AuditTypes, EntryFields DEF Event
  <2>3. /\ Len(file') = Whole + 1
        /\ \A i \in 1 .. Whole : file'[i] = file[i]
        /\ file'[Whole + 1] = line
    <3>1. Len(file) \in 1 .. Len(file) /\ file' = [file EXCEPT ![Len(file)] = line]
      BY <1>1, <1>3, <2>1
    <3>2. /\ Len(file') = Len(file)
          /\ \A j \in 1 .. Len(file) : file'[j] = IF j = Len(file) THEN line ELSE file[j]
      BY <2>1, <2>2, <3>1, ExceptSeq
    <3> QED
      BY <2>1, <3>2
  <2> HIDE DEF line
  <2>4. /\ Whole' = Whole + 1
        /\ Spoiled' <=> Spoiled
        /\ HalfLineGarbled'
        /\ changed' = NoLine /\ ~Spoiled' => \A i \in 1 .. Whole' : Linked(file', i)
        /\ UnspoiledIsInOrder'
        /\ ChangeLeavesBreak'
    BY <1>1, <1>3, <2>2, <2>3, LineAdded
  <2>5. OnlyTornSpoils'
    BY <1>1, <2>4 DEF AuditIInv, OnlyTornSpoils
  <2>6. UnspoiledIsChain'
    <3>1. file'[Len(file')] = Entry(lastHash', count')
      BY <1>1, <2>3 DEF line
    <3> QED
      BY <1>1, <2>4, <3>1 DEF UnspoiledIsChain
  <2> QED
    BY <2>4, <2>5, <2>6 DEF AuditIInv
<1> QED
  BY <1>1, <1>2, <1>3

\* The last line of the file is the entry append has written: _last_hash moves
\* to its hash, and its event is acknowledged.
LEMMA AppendReturnsStep ==
    ASSUME AuditIInv, AuditTypeOK', AckedInOrder', AppendReturns
    PROVE  AuditIInv'
<1> AuditTypeOK
  BY DEF AuditIInv
<1>1. /\ writing = "whole" /\ writing' = "none" /\ lastHash' = Digest(lastHash, count)
      /\ acked' = Append(acked, count) /\ file' = file /\ open' = open /\ ~open
      /\ count' = count /\ torn' = torn /\ changed' = changed
  BY AuditTypes DEF AppendReturns
<1>2. Whole = Len(file) /\ Len(file) \in Nat /\ Len(file) >= 1 /\ Whole' = Whole
  BY <1>1, AuditTypes DEF Whole
<1>3. Spoiled' <=> Spoiled
  BY <1>1, <1>2 DEF Spoiled
<1>4. HalfLineGarbled'
  BY <1>1 DEF HalfLineGarbled
<1>5. OnlyTornSpoils'
  BY <1>1, <1>3 DEF AuditIInv, OnlyTornSpoils
<1>6. ChangeLeavesBreak'
  BY <1>1, <1>2, <1>3 DEF AuditIInv, ChangeLeavesBreak
<1>7. ASSUME changed = NoLine, ~Spoiled
      PROVE  /\ \A i \in 1 .. Whole : Linked(file, i)
             /\ file[Whole].event = count
             /\ file[Whole].hash = Digest(lastHash, count)
  <2>1. (\A i \in 1 .. Whole : Linked(file, i)) /\ file[Whole] = Entry(lastHash, count)
    BY <1>1, <1>2, <1>7 DEF AuditIInv, UnspoiledIsChain
  <2> QED
    BY <2>1, AuditTypes, EntryFields DEF Event
<1>8. UnspoiledIsChain'
  <2> SUFFICES ASSUME changed = NoLine, ~Spoiled
               PROVE  /\ \A i \in 1 .. Whole : Linked(file, i)
                      /\ Digest(lastHash, count) = PrevOf(file, Whole + 1)
    BY <1>1, <1>2, <1>3 DEF UnspoiledIsChain
  <2>1. PrevOf(file, Whole + 1) = file[Whole].hash
    BY <1>2 DEF PrevOf
  <2> QED
    BY <1>7, <2>1
<1>9. UnspoiledIsInOrder'
  <2> SUFFICES ASSUME changed = NoLine, ~Spoiled
               PROVE  /\ \A i, j \in 1 .. Whole : i < j => file[i].event < file[j].event
                      /\ \A i \in 1 .. Whole : file[i].event <= count
                      /\ \A k \in DOMAIN acked' : \E i \in 1 .. Whole : file[i].event = acked'[k]
    BY <1>1, <1>2, <1>3 DEF UnspoiledIsInOrder
  <2>1. /\ \A i, j \in 1 .. Whole : i < j => file[i].event < file[j].event
        /\ \A i \in 1 .. Whole : file[i].event <= count
        /\ \A k \in DOMAIN acked : \E i \in 1 .. Whole : file[i].event = acked[k]
    BY DEF AuditIInv, UnspoiledIsInOrder
  <2>2. /\ DOMAIN acked' = 1 .. Len(acked) + 1
        /\ \A k \in 1 .. Len(acked) : acked'[k] = acked[k]
        /\ acked'[Len(acked) + 1] = count
    BY <1>1, AuditTypes, AppendProperties, LenProperties DEF Event
  <2>3. file[Whole].event = count /\ Whole \in 1 .. Whole
    BY <1>2, <1>7
  <2>4. \A k \in DOMAIN acked' : \E i \in 1 .. Whole : file[i].event = acked'[k]
    <3> TAKE k \in DOMAIN acked'
    <3>1. k \in 1 .. Len(acked) \/ k = Len(acked) + 1
      BY <2>2, AuditTypes
    <3> QED
      BY <2>1, <2>2, <2>3, <3>1, AuditTypes
  <2> QED
    BY <2>1, <2>4
<1> QED
  BY <1>4, <1>5, <1>6, <1>8, <1>9 DEF AuditIInv

LEMMA AppendFailsStep ==
    ASSUME AuditIInv, AuditTypeOK', AckedInOrder', AppendFails
    PROVE  AuditIInv'
<1> AuditTypeOK
  BY DEF AuditIInv
<1>1. /\ writing' = "none" /\ lastHash' = lastHash /\ acked' = acked /\ changed' = changed
      /\ \/ /\ writing = "none" /\ count' = count + 1
            /\ \/ file' = file /\ open' = open /\ torn' = torn
               \/ file' = Written(NextEntry) /\ open' /\ torn'
         \/ writing \in {"part", "glued"} /\ torn' /\ file' = file
  BY DEF AppendFails
<1>2. CASE writing \in {"part", "glued"} /\ torn' /\ file' = file
  BY <1>1, <1>2, GivenUp
<1>3. CASE writing = "none" /\ count' = count + 1 /\ file' = file /\ open' = open /\ torn' = torn
  <2>1. writing' = writing /\ Whole' = Whole
    BY <1>1, <1>3 DEF Whole
  <2>2. Spoiled' <=> Spoiled
    BY <1>3, <2>1 DEF Spoiled
  <2>3. HalfLineGarbled' /\ ChangeLeavesBreak'
    BY <1>1, <1>3, <2>1, <2>2 DEF AuditIInv, HalfLineGarbled, ChangeLeavesBreak
  <2>4. OnlyTornSpoils'
    BY <1>1, <1>3, <2>1, <2>2 DEF AuditIInv, OnlyTornSpoils
  <2>5. UnspoiledIsChain'
    BY <1>1, <1>3, <2>1, <2>2 DEF AuditIInv, UnspoiledIsChain
  <2>6. UnspoiledIsInOrder'
    BY <1>1, <1>3, <2>1, <2>2, LaterEvent
  <2> QED
    BY <2>3, <2>4, <2>5, <2>6 DEF AuditIInv
<1>4. CASE writing = "none" /\ count' = count + 1 /\ file' = Written(NextEntry) /\ open' /\ torn'
  <2>1. CASE open
    BY <1>1, <1>4, <2>1, NextEntryIsLine, WriteBehindOpen
  <2>2. CASE ~open
    <3>1. /\ Whole = Len(file) /\ Whole \in Nat
          /\ Len(file') = Whole + 1
          /\ \A i \in 1 .. Whole : file'[i] = file[i]
          /\ file'[Whole + 1] = NextEntry
          /\ NextEntry # Garbled /\ NextEntry.prev = lastHash
          /\ NextEntry.event = count + 1
          /\ NextEntry.hash = Digest(lastHash, NextEntry.event)
      BY <1>4, <2>2, NextEntryAdded
    <3>2. /\ Whole' = Whole + 1
          /\ HalfLineGarbled'
          /\ changed' = NoLine /\ ~Spoiled' => \A i \in 1 .. Whole' : Linked(file', i)
          /\ UnspoiledIsInOrder'
          /\ ChangeLeavesBreak'
      BY <1>1, <1>4, <2>2, <3>1, LineAdded
    <3>3. UnspoiledIsChain'
      BY <1>1, <1>4, <3>2 DEF UnspoiledIsChain
    <3>4. OnlyTornSpoils'
      BY <1>4 DEF OnlyTornSpoils
    <3> QED
      BY <3>2, <3>3, <3>4 DEF AuditIInv
  <2> QED
    BY <2>1, <2>2
<1> QED
  BY <1>1, <1>2, <1>3, <1>4

\* The scan of a file whose lines all parse finds the hash of the last one.
LEMMA ScanOfWholeFile ==
    ASSUME NEW f \in Seq(Line), \A i \in 1 .. Len(f) : f[i] # Garbled
    PROVE  ScanLastHash(f) = PrevOf(f, Len(f) + 1)
<1> DEFINE parsed == {i \in DOMAIN f : f[i] # Garbled}
<1>1. Len(f) \in Nat /\ parsed = 1 .. Len(f)
  BY LenProperties
<1>2. CASE Len(f) = 0
  BY <1>1, <1>2 DEF ScanLastHash, PrevOf
<1>3. CASE Len(f) # 0
  <2>1. Len(f) \in parsed /\ \A j \in parsed : j <= Len(f)
    BY <1>1, <1>3
  <2>2. \A i \in parsed : (\A j \in parsed : j <= i) => i = Len(f)
    BY <1>1, <2>1
  <2>3. (CHOOSE i \in parsed : \A j \in parsed : j <= i) = Len(f)
    BY <2>1, <2>2
  <2>4. ScanLastHash(f) = f[Len(f)].hash
    BY <2>1, <2>3 DEF ScanLastHash
  <2> QED
    BY <1>1, <1>3, <2>4 DEF PrevOf
<1> QED
  BY <1>2, <1>3

LEMMA RestartStep ==
    ASSUME AuditIInv, AuditTypeOK', AckedInOrder', Restart
    PROVE  AuditIInv'
<1> AuditTypeOK
  BY DEF AuditIInv
<1>1. /\ writing' = "none" /\ lastHash' = ScanLastHash(file) /\ changed' = changed
      /\ torn' = (torn \/ writing \in {"part", "glued"})
      /\ file' = file /\ open' = open /\ acked' = acked /\ count' = count
  BY DEF Restart
<1>2. CASE writing \in {"part", "glued"}
  BY <1>1, <1>2, GivenUp
<1>3. CASE writing \in {"none", "whole"}
  <2>1. writing # "part" /\ writing' # "part" /\ (torn' <=> torn)
    BY <1>1, <1>3
  <2>2. Whole' = Whole /\ Whole = Len(file)
    BY <1>1, <2>1 DEF Whole
  <2>3. Spoiled' <=> Spoiled
    BY <1>1, <2>2 DEF Spoiled
  <2>4. HalfLineGarbled'
    BY <1>1 DEF HalfLineGarbled
  <2>5. ChangeLeavesBreak'
    BY <1>1, <2>1, <2>2, <2>3 DEF AuditIInv, ChangeLeavesBreak
  <2>6. OnlyTornSpoils'
    BY <1>1, <2>1, <2>3 DEF AuditIInv, OnlyTornSpoils
  <2>7. ~Spoiled => lastHash' = PrevOf(file', Whole' + 1)
    BY <1>1, <2>2, AuditTypes, ScanOfWholeFile DEF Spoiled
  <2>8. UnspoiledIsChain'
    BY <1>1, <2>2, <2>3, <2>7 DEF AuditIInv, UnspoiledIsChain
  <2>9. UnspoiledIsInOrder'
    BY <1>1, <2>2, <2>3 DEF AuditIInv, UnspoiledIsInOrder
  <2> QED
    BY <2>4, <2>5, <2>6, <2>8, <2>9 DEF AuditIInv
<1> QED
  BY <1>2, <1>3, AuditTypes DEF Writing

\* An entry that was edited no longer carries its own digest.
LEMMA EditLeavesBreak ==
    ASSUME AuditIInv, changed = NoLine, writing' = writing,
           NEW i \in 1 .. Len(file), file[i] # Garbled,
           NEW e \in Event, e # file[i].event,
           file' = [file EXCEPT ![i].event = e]
    PROVE  /\ HalfLineGarbled'
           /\ Spoiled' \/ \E k \in 1 .. Whole' : ~Linked(file', k)
<1> AuditTypeOK
  BY DEF AuditIInv
<1> DEFINE edited == [file[i] EXCEPT !.event = e]
<1>1. /\ edited # Garbled /\ edited.event = e /\ edited.prev = file[i].prev
      /\ edited.hash = file[i].hash /\ edited \in Line
  BY AuditTypes, EditedLine
<1>2. /\ Len(file') = Len(file) /\ file'[i] = edited
      /\ \A j \in 1 .. Len(file) : j # i => file'[j] = file[j]
  <2>1. file' = [file EXCEPT ![i] = edited] /\ file \in Seq(Line)
    BY AuditTypes
  <2> HIDE DEF edited
  <2>2. /\ Len([file EXCEPT ![i] = edited]) = Len(file)
        /\ \A j \in 1 .. Len(file) :
              [file EXCEPT ![i] = edited][j] = IF j = i THEN edited ELSE file[j]
    BY <1>1, <2>1, ExceptSeq
  <2> QED
    BY <2>1, <2>2
<1> HIDE DEF edited
<1>3. writing \in {"part", "glued"} => i # Len(file)
  BY DEF AuditIInv, HalfLineGarbled
<1>4. Len(file) \in Nat /\ Whole' = Whole /\ i \in 1 .. Whole /\ Whole <= Len(file)
  <2>1. Whole' = Whole
    BY <1>2 DEF Whole
  <2>2. CASE writing = "part"
    BY <1>3, <2>1, <2>2, AuditTypes
  <2>3. CASE writing # "part"
    BY <2>1, <2>3, AuditTypes
  <2> QED
    BY <2>2, <2>3
<1>5. HalfLineGarbled'
  BY <1>2, <1>3, <1>4, AuditTypes DEF AuditIInv, HalfLineGarbled
<1>6. ASSUME Spoiled PROVE Spoiled'
  <2>1. PICK g \in 1 .. Whole : file[g] = Garbled
    BY <1>6 DEF Spoiled
  <2>2. file'[g] = Garbled
    BY <1>2, <1>4, <2>1
  <2> QED
    BY <1>4, <2>2 DEF Spoiled
<1>7. ASSUME ~Spoiled PROVE ~Linked(file', i)
  <2>1. file[i].hash = Digest(file[i].prev, file[i].event)
    BY <1>4, <1>7 DEF AuditIInv, UnspoiledIsChain, Linked
  <2>2. file[i].prev \in Hash /\ file[i].event \in Event
    BY AuditTypes, Lines
  <2>3. Digest(file[i].prev, e) # Digest(file[i].prev, file[i].event)
    BY <2>2, DigestDiffers
  <2> QED
    BY <1>1, <1>2, <2>1, <2>3 DEF Linked
<1> QED
  BY <1>4, <1>5, <1>6, <1>7

\* The successor of a line that was removed names a predecessor that is gone.
LEMMA RemovalLeavesBreak ==
    ASSUME AuditIInv, changed = NoLine, writing' = writing, lastHash' = lastHash,
           NEW i \in 1 .. Len(file), file[i] # Garbled, i < Len(file),
           file' = Without(file, i)
    PROVE  /\ HalfLineGarbled'
           /\ \/ Spoiled'
              \/ \E k \in 1 .. Whole' : ~Linked(file', k)
              \/ writing' = "part" /\ lastHash' # PrevOf(file', Len(file'))
<1> AuditTypeOK
  BY DEF AuditIInv
<1>1. /\ Len(file) \in Nat /\ Len(file') = Len(file) - 1
      /\ \A k \in 1 .. Len(file) - 1 : file'[k] = IF k < i THEN file[k] ELSE file[k + 1]
  BY AuditTypes, WithoutLine
<1>2. /\ Whole' = Whole - 1 /\ i \in 1 .. Whole /\ Whole \in Nat
      /\ \/ Whole = Len(file)
         \/ writing = "part" /\ Whole = Len(file) - 1
  <2>1. CASE writing = "part"
    BY <1>1, <2>1, AuditTypes DEF Whole
  <2>2. CASE writing # "part"
    BY <1>1, <2>2, AuditTypes DEF Whole
  <2> QED
    BY <2>1, <2>2
<1>3. HalfLineGarbled'
  <2> SUFFICES ASSUME writing \in {"part", "glued"}
               PROVE  file'[Len(file) - 1] = Garbled
    BY <1>1 DEF HalfLineGarbled
  <2>1. file[Len(file)] = Garbled
    BY DEF AuditIInv, HalfLineGarbled
  <2>2. Len(file) - 1 \in 1 .. Len(file) - 1 /\ ~(Len(file) - 1 < i) /\ (Len(file) - 1) + 1 = Len(file)
    BY <1>1
  <2> QED
    BY <1>1, <2>1, <2>2
<1>4. ASSUME Spoiled PROVE Spoiled'
  <2>1. PICK g \in 1 .. Whole : file[g] = Garbled
    BY <1>4 DEF Spoiled
  <2>2. CASE g < i
    <3>1. g \in 1 .. Len(file) - 1 /\ g \in 1 .. Whole - 1
      BY <1>1, <1>2, <2>2
    <3> QED
      BY <1>1, <1>2, <2>1, <2>2, <3>1 DEF Spoiled
  <2>3. CASE i < g
    <3>1. /\ g - 1 \in 1 .. Len(file) - 1 /\ g - 1 \in 1 .. Whole - 1
          /\ ~(g - 1 < i) /\ (g - 1) + 1 = g
      BY <1>1, <1>2, <2>3
    <3>2. file'[g - 1] = Garbled
      BY <1>1, <2>1, <3>1
    <3> QED
      BY <1>2, <3>1, <3>2 DEF Spoiled
  <2> QED
    BY <1>2, <2>1, <2>2, <2>3
<1>5. ASSUME ~Spoiled
      PROVE  \/ \E k \in 1 .. Whole' : ~Linked(file', k)
             \/ writing' = "part" /\ lastHash' # PrevOf(file', Len(file'))
  <2>1. /\ \A k \in 1 .. Whole : Linked(file, k)
        /\ writing = "part" => lastHash = PrevOf(file, Whole + 1)
    BY <1>5 DEF AuditIInv, UnspoiledIsChain
  <2>2. file[i].hash # PrevOf(file, i)
    <3>1. file[i].prev \in Hash /\ file[i].event \in Event
      BY AuditTypes, Lines
    <3> QED
      BY <1>2, <2>1, <3>1, DigestDiffers DEF Linked
  <2>3. PrevOf(file', i) = PrevOf(file, i)
    <3>1. i # 1 => i - 1 \in 1 .. Len(file) - 1 /\ i - 1 < i
      BY <1>1
    <3>2. i # 1 => file'[i - 1] = file[i - 1]
      BY <1>1, <3>1
    <3> QED
      BY <3>2 DEF PrevOf
  <2>4. PrevOf(file, i + 1) = file[i].hash
    BY <1>1 DEF PrevOf
  <2>5. CASE i < Whole
    <3>1. i + 1 \in 1 .. Whole /\ i \in 1 .. Whole' /\ i \in 1 .. Len(file) - 1
      BY <1>1, <1>2, <2>5
    <3>2. file'[i] = file[i + 1]
      BY <1>1, <3>1
    <3>3. file'[i].prev = file[i].hash
      BY <2>1, <2>4, <3>1, <3>2 DEF Linked
    <3> QED
      BY <2>2, <2>3, <3>1, <3>3 DEF Linked
  <2>6. CASE i = Whole
    <3>1. writing = "part" /\ Len(file') = i
      BY <1>1, <1>2, <2>6
    <3> QED
      BY <2>1, <2>2, <2>3, <2>4, <2>6, <3>1
  <2> QED
    BY <1>2, <2>5, <2>6
<1> QED
  BY <1>3, <1>4, <1>5

LEMMA TamperStep ==
    ASSUME AuditIInv, AuditTypeOK', AckedInOrder', Tamper
    PROVE  AuditIInv'
<1> AuditTypeOK
  BY DEF AuditIInv
<1>1. /\ changed = NoLine /\ writing' = writing /\ lastHash' = lastHash
      /\ MaxEvents \in Nat /\ DOMAIN file = 1 .. Len(file) /\ Len(file) \in Nat
  BY AuditBounds, AuditTypes, LenProperties DEF Tamper
<1>2. PICK i \in 1 .. Len(file) :
        /\ file[i] # Garbled
        /\ \/ \E e \in (1 .. MaxEvents) \ {file[i].event} : file' = [file EXCEPT ![i].event = e]
           \/ i < Len(file) /\ file' = Without(file, i)
        /\ changed' = i
  BY <1>1 DEF Tamper, Without
<1>3. changed' # NoLine
  <2>1. i \in Nat
    BY <1>1, <1>2
  <2> QED
    BY <1>2, <2>1, AuditMarkers
<1>4. HalfLineGarbled' /\ ChangeLeavesBreak'
  <2>1. ASSUME NEW e \in (1 .. MaxEvents) \ {file[i].event},
               file' = [file EXCEPT ![i].event = e]
        PROVE  HalfLineGarbled' /\ ChangeLeavesBreak'
    <3>1. e \in Event /\ e # file[i].event
      BY <1>1 DEF Event
    <3> QED
      BY <1>1, <1>2, <2>1, <3>1, EditLeavesBreak DEF ChangeLeavesBreak
  <2>2. ASSUME i < Len(file), file' = Without(file, i)
        PROVE  HalfLineGarbled' /\ ChangeLeavesBreak'
    BY <1>1, <1>2, <2>2, RemovalLeavesBreak DEF ChangeLeavesBreak
  <2> QED
    BY <1>2, <2>1, <2>2
<1> QED
  BY <1>3, <1>4 DEF AuditIInv, OnlyTornSpoils, UnspoiledIsChain, UnspoiledIsInOrder

-----------------------------------------------------------------------------
(* The invariant, and what it says of verify. *)

LEMMA AuditInitIInv == AuditInit => AuditIInv
<1> SUFFICES ASSUME AuditInit PROVE AuditIInv
  OBVIOUS
<1>1. /\ file = << >> /\ open = FALSE /\ lastHash = << >> /\ count = 0 /\ writing = "none"
      /\ acked = << >> /\ torn = FALSE /\ changed = NoLine
  BY DEF AuditInit, GenesisHash
<1>2. AuditTypeOK
  <2>1. file \in Seq(Line) /\ lastHash \in Hash /\ acked \in Seq(Event)
    BY <1>1, EmptySeq DEF Hash
  <2>2. open \in BOOLEAN /\ torn \in BOOLEAN /\ ~open
    BY <1>1, Zenon
  <2>3. count \in 0 .. MaxEvents /\ writing = "none"
    BY <1>1, AuditBounds
  <2> QED
    BY <2>1, <2>2, <2>3 DEF AuditTypeOK, Writing
<1>3. Len(file) = 0 /\ Len(acked) = 0 /\ Whole = 0 /\ DOMAIN acked = 1 .. 0
  BY <1>1, EmptySeq DEF Whole
<1> QED
  BY <1>1, <1>2, <1>3 DEF AuditIInv, HalfLineGarbled, OnlyTornSpoils, UnspoiledIsChain,
       UnspoiledIsInOrder, AckedInOrder, ChangeLeavesBreak, Spoiled, PrevOf, GenesisHash

LEMMA AuditStep ==
    ASSUME AuditIInv, [AuditNext]_auditVars
    PROVE  AuditIInv'
<1>1. AuditTypeOK'
  BY AuditTypeStep DEF AuditIInv
<1>2. AckedInOrder'
  BY AckedStep DEF AuditIInv
<1>3. CASE UNCHANGED auditVars
  BY <1>1, <1>2, <1>3 DEF auditVars, AuditIInv, HalfLineGarbled, OnlyTornSpoils,
       UnspoiledIsChain, UnspoiledIsInOrder, ChangeLeavesBreak, Spoiled, Whole
<1> QED
  BY <1>1, <1>2, <1>3, AppendWritesStep, AppendBeginsStep, AppendEndsStep, AppendReturnsStep,
     AppendFailsStep, RestartStep, TamperStep DEF AuditNext

\* verify says "valid" of a file exactly when each of its lines parses and is
\* in order.
LEMMA ValidIsLinked ==
    ASSUME NEW f \in Seq(Line)
    PROVE  Verify(f) = "valid" <=> \A i \in 1 .. Len(f) : f[i] # Garbled /\ Linked(f, i)
<1>1. DOMAIN f = 1 .. Len(f)
  BY LenProperties
<1>2. ChainHolds(f) <=> \A i \in 1 .. Len(f) : Linked(f, i)
  BY <1>1 DEF ChainHolds, Linked
<1>3. CASE \E i \in DOMAIN f : f[i] = Garbled
  BY <1>1, <1>3 DEF Verify
<1>4. CASE ~ \E i \in DOMAIN f : f[i] = Garbled
  BY <1>1, <1>2, <1>4 DEF Verify
<1> QED
  BY <1>3, <1>4

\* The invariant implies the three promises of the log.
LEMMA UntouchedFromIInv == AuditIInv => UntouchedLogVerifies
<1> SUFFICES ASSUME AuditIInv, ~torn, writing \in {"none", "whole"}, changed = NoLine
             PROVE  Verify(file) = "valid"
  BY DEF UntouchedLogVerifies
<1>1. file \in Seq(Line) /\ Whole = Len(file)
  BY AuditTypes DEF AuditIInv
<1>2. ~Spoiled
  BY DEF AuditIInv, OnlyTornSpoils
<1>3. \A i \in 1 .. Len(file) : Linked(file, i)
  BY <1>1, <1>2 DEF AuditIInv, UnspoiledIsChain
<1> QED
  BY <1>1, <1>2, <1>3, ValidIsLinked DEF Spoiled

LEMMA CompleteFromIInv == AuditIInv => ValidLogIsComplete
<1> DEFINE readable == {i \in DOMAIN file : file[i] # Garbled}
<1> SUFFICES ASSUME AuditIInv, Verify(file) = "valid", changed = NoLine
             PROVE  /\ \A i, j \in readable : i < j => file[i].event < file[j].event
                    /\ \A k \in DOMAIN acked : \E i \in readable : file[i].event = acked[k]
  BY DEF ValidLogIsComplete
<1> AuditTypeOK
  BY DEF AuditIInv
<1>1. DOMAIN file = 1 .. Len(file) /\ \A i \in 1 .. Len(file) : file[i] # Garbled
  BY AuditTypes, LenProperties, ValidIsLinked
<1>2. writing # "part"
  BY <1>1, AuditTypes DEF AuditIInv, HalfLineGarbled
<1>3. Whole = Len(file) /\ ~Spoiled
  BY <1>1, <1>2, AuditTypes DEF Spoiled
<1>4. readable = 1 .. Whole
  BY <1>1, <1>3
<1> QED
  BY <1>3, <1>4 DEF AuditIInv, UnspoiledIsInOrder

LEMMA DetectedFromIInv == AuditIInv => TamperingIsDetected
<1> SUFFICES ASSUME AuditIInv, changed # NoLine, Verify(file) = "valid"
             PROVE  FALSE
  BY DEF TamperingIsDetected
<1> AuditTypeOK
  BY DEF AuditIInv
<1>1. \A i \in 1 .. Len(file) : file[i] # Garbled /\ Linked(file, i)
  BY AuditTypes, ValidIsLinked
<1>2. writing # "part"
  BY <1>1, AuditTypes DEF AuditIInv, HalfLineGarbled
<1>3. Spoiled \/ \E k \in 1 .. Whole : ~Linked(file, k)
  BY <1>2 DEF AuditIInv, ChangeLeavesBreak
<1> QED
  BY <1>1, <1>2, <1>3, AuditTypes DEF Spoiled
=============================================================================
