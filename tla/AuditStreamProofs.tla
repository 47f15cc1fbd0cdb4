-------------------------- MODULE AuditStreamProofs --------------------------
(***************************************************************************)
(* The properties of the run audit_stream but its liveness, for every bound *)
(* on the events, every queue size and every set of connections.  First the *)
(* bus by itself: its inductive invariant, and the step of the abstract     *)
(* feed that each of its steps is.  Then the composition: each of its steps *)
(* is a step of the log and a step of the bus, so their invariants hold     *)
(* together, and what ties the two is that an event is published exactly    *)
(* when its append returns.                                                 *)
(***************************************************************************)
EXTENDS AuditStream, AuditLogProofs, SequenceTheorems, FiniteSetTheorems

\* Every step of the bus, with the two that the log and a restart cause.
BusNext == BusStep \/ Publish \/ BusStops

-----------------------------------------------------------------------------
(* The inductive invariant. *)

\* Nobody is subscribed to a bus that has no loop, and never infinitely many.
SubscribersNeedLoop ==
    /\ IsFiniteSet(subscribers)
    /\ ~attached => subscribers = {}

\* Nothing is on its way to a connection that was never accepted.
NewGetsNothing ==
    \A w \in Connections : conn[w] = "new" =>
        /\ w \notin subscribers
        /\ seen[w] = << >> /\ queue[w] = << >>
        /\ PendingFor(w) = {}

\* What connection w got, and then what is scheduled for it, are published
\* events in the order of the log.
InOrder(w) ==
    /\ \A i \in DOMAIN Got(w) : Got(w)[i] \in 1 .. published
    /\ \A i, j \in DOMAIN Got(w) : i < j => Got(w)[i] < Got(w)[j]
    /\ \A i \in DOMAIN Got(w), j \in PendingFor(w) : Got(w)[i] < callbacks[j].event
    /\ \A j \in PendingFor(w) : callbacks[j].event \in 1 .. published
    /\ \A j, k \in PendingFor(w) : j < k => callbacks[j].event < callbacks[k].event

\* A connection subscribed after the events that were published by then.
StartIsPast == \A w \in Connections : start[w] <= published

\* NoGapWithoutDrop, with what makes it inductive: only because the callbacks
\* of a connection are in order is the oldest one the event it is missing.
BusIInv ==
    /\ BusTypeOK
    /\ SubscribersNeedLoop
    /\ NewGetsNothing
    /\ StartIsPast
    /\ \A w \in Connections : InOrder(w)
    /\ NoGapWithoutDrop

-----------------------------------------------------------------------------
(* Queues and callbacks. *)

Callback == [to : Connections, event : Nat]

\* Concatenation, position by position.
LEMMA ConcatPositions ==
    ASSUME NEW s \in Seq(Nat), NEW q \in Seq(Nat)
    PROVE  /\ s \o q \in Seq(Nat) /\ Len(s \o q) = Len(s) + Len(q)
           /\ Len(s) \in Nat /\ DOMAIN s = 1 .. Len(s)
           /\ Len(q) \in Nat /\ DOMAIN q = 1 .. Len(q)
           /\ DOMAIN (s \o q) = 1 .. Len(s) + Len(q)
           /\ \A i \in 1 .. Len(s) : (s \o q)[i] = s[i]
           /\ \A i \in 1 .. Len(q) : (s \o q)[Len(s) + i] = q[i]
<1>1. /\ Len(s) \in Nat /\ DOMAIN s = 1 .. Len(s)
      /\ Len(q) \in Nat /\ DOMAIN q = 1 .. Len(q)
  BY LenProperties
<1>2. /\ s \o q \in Seq(Nat) /\ Len(s \o q) = Len(s) + Len(q)
      /\ \A i \in 1 .. Len(s) + Len(q) :
            (s \o q)[i] = IF i <= Len(s) THEN s[i] ELSE q[i - Len(s)]
  BY ConcatProperties
<1> DEFINE n == Len(s)
           m == Len(q)
           r == s \o q
<1> HIDE DEF n, m, r
<1>3. /\ n \in Nat /\ m \in Nat
      /\ \A i \in 1 .. n + m : r[i] = IF i <= n THEN s[i] ELSE q[i - n]
  BY <1>1, <1>2 DEF n, m, r
<1>4. \A i \in 1 .. n : r[i] = s[i]
  BY <1>3
<1>5. ASSUME NEW i \in 1 .. m PROVE r[n + i] = q[i]
  <2>1. n + i \in 1 .. n + m /\ ~(n + i <= n) /\ (n + i) - n = i
    BY <1>3
  <2> QED
    BY <1>3, <2>1
<1>6. DOMAIN r = 1 .. Len(r)
  BY <1>2, LenProperties DEF r
<1> QED
  BY <1>1, <1>2, <1>4, <1>5, <1>6 DEF n, m, r

LEMMA ConcatAppend ==
    ASSUME NEW s \in Seq(Nat), NEW q \in Seq(Nat), NEW e \in Nat
    PROVE  s \o Append(q, e) = Append(s \o q, e)
<1>1. <<e>> \in Seq(Nat) /\ s \o q \in Seq(Nat)
  BY ConcatProperties
<1>2. Append(q, e) = q \o <<e>> /\ Append(s \o q, e) = (s \o q) \o <<e>>
  BY <1>1, AppendIsConcat
<1> QED
  BY <1>1, <1>2, ConcatAssociative

LEMMA ConcatHeadTail ==
    ASSUME NEW s \in Seq(Nat), NEW q \in Seq(Nat), q # << >>
    PROVE  /\ Head(q) \in Nat /\ Tail(q) \in Seq(Nat) /\ Len(Tail(q)) = Len(q) - 1
           /\ Append(s, Head(q)) \in Seq(Nat)
           /\ Append(s, Head(q)) \o Tail(q) = s \o q
           /\ (s \o q)[Len(s) + 1] = Head(q)
           /\ Len(s) + 1 \in DOMAIN (s \o q)
<1>1. /\ Head(q) \in Nat /\ Tail(q) \in Seq(Nat) /\ Len(Tail(q)) = Len(q) - 1
      /\ Append(s, Head(q)) \in Seq(Nat)
  BY HeadTailProperties, AppendProperties
<1>2. Len(q) \in Nat /\ 1 \in 1 .. Len(q)
  BY LenProperties, EmptySeq
<1>3. /\ q = SubSeq(q, 1, Len(q)) /\ Tail(q) = SubSeq(q, 2, Len(q)) /\ Head(q) = q[1]
      /\ SubSeq(q, 1, Len(q)) = <<q[1]>> \o SubSeq(q, 1 + 1, Len(q))
  BY <1>2, SubSeqFull, TailIsSubSeq, SubSeqRecursiveFirst
<1>4. q = <<Head(q)>> \o Tail(q)
  BY <1>3
<1>5. Append(s, Head(q)) = s \o <<Head(q)>> /\ <<Head(q)>> \in Seq(Nat)
  BY <1>1, AppendIsConcat
<1>6. Append(s, Head(q)) \o Tail(q) = s \o q
  <2>1. (s \o <<Head(q)>>) \o Tail(q) = s \o (<<Head(q)>> \o Tail(q))
    <3>1. PICK h, t : h = <<Head(q)>> /\ t = Tail(q)
      OBVIOUS
    <3>2. h \in Seq(Nat) /\ t \in Seq(Nat)
      BY <1>1, <1>5, <3>1
    <3>3. (s \o h) \o t = s \o (h \o t)
      BY <3>2, ConcatAssociative
    <3> QED
      BY <3>1, <3>3, Zenon
  <2> QED
    BY <1>4, <1>5, <2>1, Zenon
<1>7. (s \o q)[Len(s) + 1] = q[1] /\ Len(s) + 1 \in DOMAIN (s \o q)
  BY <1>2, ConcatPositions
<1> QED
  BY <1>1, <1>3, <1>6, <1>7

\* The types the proofs below start from.
LEMMA CallbackTypes ==
    ASSUME BusTypeOK
    PROVE  /\ callbacks \in Seq(Callback) /\ Len(callbacks) \in Nat
           /\ DOMAIN callbacks = 1 .. Len(callbacks)
           /\ \A j \in 1 .. Len(callbacks) :
                 callbacks[j].to \in Connections /\ callbacks[j].event \in Nat
           /\ published \in Nat
<1>1. callbacks \in Seq(Callback) /\ published \in 0 .. MaxPublished
  BY DEF BusTypeOK, Callback
<1>2. /\ Len(callbacks) \in Nat /\ DOMAIN callbacks = 1 .. Len(callbacks)
      /\ \A j \in 1 .. Len(callbacks) : callbacks[j] \in Callback
  BY <1>1, LenProperties, ElementOfSeq
<1> QED
  BY <1>1, <1>2, BusBounds DEF Callback

LEMMA GotTypes ==
    ASSUME BusTypeOK, NEW w \in Connections
    PROVE  /\ seen[w] \in Seq(Nat) /\ Len(seen[w]) \in Nat /\ DOMAIN seen[w] = 1 .. Len(seen[w])
           /\ queue[w] \in Seq(Nat) /\ Len(queue[w]) \in Nat
           /\ DOMAIN queue[w] = 1 .. Len(queue[w])
           /\ Got(w) \in Seq(Nat) /\ Len(Got(w)) \in Nat /\ DOMAIN Got(w) = 1 .. Len(Got(w))
           /\ Len(Got(w)) = Len(seen[w]) + Len(queue[w])
           /\ \A i \in DOMAIN Got(w) : Got(w)[i] \in Nat
           /\ \A i \in DOMAIN seen[w] : Got(w)[i] = seen[w][i]
           /\ start[w] \in Nat
<1>1. seen[w] \in Seq(Nat) /\ queue[w] \in Seq(Nat) /\ start[w] \in Nat
  BY DEF BusTypeOK
<1>2. Got(w) \in Seq(Nat)
  BY <1>1, ConcatPositions DEF Got
<1>3. /\ DOMAIN Got(w) = 1 .. Len(Got(w)) /\ Len(Got(w)) \in Nat
      /\ \A i \in 1 .. Len(Got(w)) : Got(w)[i] \in Nat
  BY <1>2, LenProperties, ElementOfSeq
<1>4. /\ Len(seen[w]) \in Nat /\ DOMAIN seen[w] = 1 .. Len(seen[w])
      /\ Len(queue[w]) \in Nat /\ DOMAIN queue[w] = 1 .. Len(queue[w])
      /\ Len(Got(w)) = Len(seen[w]) + Len(queue[w])
      /\ \A i \in 1 .. Len(seen[w]) : Got(w)[i] = seen[w][i]
  BY <1>1, ConcatPositions DEF Got
<1> QED
  BY <1>1, <1>2, <1>3, <1>4

\* What is put into the queue comes after everything the connection got, ...
LEMMA GotAppend ==
    ASSUME BusTypeOK, NEW w \in Connections, NEW e \in Nat,
           seen'[w] = seen[w], queue'[w] = Append(queue[w], e)
    PROVE  /\ Len(Got(w)') = Len(Got(w)) + 1 /\ DOMAIN Got(w)' = 1 .. Len(Got(w)) + 1
           /\ \A i \in DOMAIN Got(w) : Got(w)'[i] = Got(w)[i]
           /\ Got(w)'[Len(Got(w)) + 1] = e
<1>1. seen[w] \in Seq(Nat) /\ queue[w] \in Seq(Nat) /\ Got(w) \in Seq(Nat)
  BY GotTypes
<1>2. Got(w)' = Append(Got(w), e)
  <2>1. Got(w)' = seen[w] \o Append(queue[w], e)
    BY DEF Got
  <2>2. seen[w] \o Append(queue[w], e) = Append(seen[w] \o queue[w], e)
    BY <1>1, ConcatAppend
  <2> QED
    BY <2>1, <2>2, Zenon DEF Got
<1> QED
  BY <1>1, <1>2, AppendProperties, LenProperties

\* ... what is sent was got before, ...
LEMMA GotSend ==
    ASSUME BusTypeOK, NEW w \in Connections, queue[w] # << >>,
           seen'[w] = Append(seen[w], Head(queue[w])), queue'[w] = Tail(queue[w])
    PROVE  /\ Got(w)' = Got(w)
           /\ Head(queue[w]) = Got(w)[Len(seen[w]) + 1]
           /\ Len(seen[w]) + 1 \in DOMAIN Got(w)
<1>1. seen[w] \in Seq(Nat) /\ queue[w] \in Seq(Nat)
  BY GotTypes
<1>2. /\ Append(seen[w], Head(queue[w])) \o Tail(queue[w]) = seen[w] \o queue[w]
      /\ (seen[w] \o queue[w])[Len(seen[w]) + 1] = Head(queue[w])
      /\ Len(seen[w]) + 1 \in DOMAIN (seen[w] \o queue[w])
  BY <1>1, ConcatHeadTail
<1> QED
  BY <1>2, Zenon DEF Got

\* The calls that publish schedules: one for each subscriber, of the new event.
LEMMA SchedulesOnePerSubscriber ==
    ASSUME NEW subs, IsFiniteSet(subs), subs \subseteq Connections, NEW e \in Nat,
           NEW s \in Schedules(subs, e)
    PROVE  /\ s \in Seq(Callback) /\ Len(s) \in Nat /\ DOMAIN s = 1 .. Len(s)
           /\ \A i \in 1 .. Len(s) : s[i].to \in subs /\ s[i].event = e
           /\ \A i, j \in 1 .. Len(s) : s[i].to = s[j].to => i = j
           /\ \A w \in subs : \E i \in 1 .. Len(s) : s[i].to = w
<1> DEFINE n == Cardinality(subs)
           f == [i \in 1 .. n |-> s[i].to]
<1>1. n \in Nat
  BY FS_CardinalityType
<1>2. /\ s \in [1 .. n -> [to : subs, event : {e}]]
      /\ \A i, j \in DOMAIN s : s[i].to = s[j].to => i = j
  BY DEF Schedules
<1> HIDE DEF n
<1>3. \A i \in 1 .. n : s[i] \in Callback /\ s[i].to \in subs /\ s[i].event = e
  BY <1>2 DEF Callback
<1>4. s \in Seq(Callback) /\ Len(s) = n /\ DOMAIN s = 1 .. n
  <2>1. DOMAIN s = 1 .. n /\ s \in [1 .. n -> Callback]
    BY <1>2, <1>3
  <2>2. s \in Seq(Callback)
    BY <1>1, <2>1
  <2>3. DOMAIN s = 1 .. Len(s) /\ Len(s) \in Nat
    BY <2>2, LenProperties
  <2> QED
    BY <1>1, <2>1, <2>2, <2>3
<1>5. f \in Injection(1 .. n, subs)
  BY <1>2, <1>3, <1>4 DEF Injection, IsInjective
<1>6. IsFiniteSet(1 .. n) /\ Cardinality(1 .. n) = n
  BY <1>1, FS_Interval
<1>7. f \in Surjection(1 .. n, subs)
  BY <1>5, <1>6, FS_Injection DEF n
<1>8. \A w \in subs : \E i \in 1 .. n : s[i].to = w
  BY <1>7 DEF Surjection
<1> QED
  BY <1>1, <1>2, <1>3, <1>4, <1>8

\* Every subscriber, and nobody else, gets one more callback, behind all others.
LEMMA PublishSchedules ==
    ASSUME BusTypeOK, IsFiniteSet(subscribers),
           NEW s \in Schedules(subscribers, published + 1), callbacks' = callbacks \o s,
           NEW w \in Connections
    PROVE  /\ callbacks' \in Seq(Callback)
           /\ \A j \in PendingFor(w) : j \in PendingFor(w)' /\ callbacks'[j] = callbacks[j]
           /\ \A j \in PendingFor(w)' \ PendingFor(w) :
                 w \in subscribers /\ callbacks'[j].event = published + 1
           /\ \A j \in PendingFor(w), k \in PendingFor(w)' \ PendingFor(w) : j < k
           /\ \A j, k \in PendingFor(w)' \ PendingFor(w) : j = k
           /\ w \in subscribers => PendingFor(w)' \ PendingFor(w) # {}
<1> DEFINE n == Len(callbacks)
           m == Len(s)
<1>1. published + 1 \in Nat /\ subscribers \subseteq Connections
  BY CallbackTypes DEF BusTypeOK
<1>2. /\ s \in Seq(Callback) /\ m \in Nat
      /\ \A i \in 1 .. m : s[i].to \in subscribers /\ s[i].event = published + 1
      /\ \A i, j \in 1 .. m : s[i].to = s[j].to => i = j
      /\ \A v \in subscribers : \E i \in 1 .. m : s[i].to = v
  BY <1>1, SchedulesOnePerSubscriber
<1>3. callbacks \in Seq(Callback) /\ n \in Nat /\ DOMAIN callbacks = 1 .. n
  BY CallbackTypes
<1>4. /\ callbacks' \in Seq(Callback) /\ Len(callbacks') = n + m
      /\ \A i \in 1 .. n + m : callbacks'[i] = IF i <= n THEN callbacks[i] ELSE s[i - n]
  BY <1>2, <1>3, ConcatProperties
<1>5. DOMAIN callbacks' = 1 .. n + m
  BY <1>4, LenProperties
<1> HIDE DEF n, m
<1>6. \A j \in 1 .. n : j \in 1 .. n + m /\ callbacks'[j] = callbacks[j]
  BY <1>2, <1>3, <1>4
<1>7. \A i \in 1 .. m : n + i \in 1 .. n + m /\ callbacks'[n + i] = s[i]
  <2> TAKE i \in 1 .. m
  <2>1. n + i \in 1 .. n + m /\ ~(n + i <= n) /\ (n + i) - n = i
    BY <1>2, <1>3
  <2> QED
    BY <1>4, <2>1
<1>8. \A j \in 1 .. n + m : j \in 1 .. n \/ \E i \in 1 .. m : j = n + i
  <2> TAKE j \in 1 .. n + m
  <2>1. CASE j > n
    <3>1. j - n \in 1 .. m /\ j = n + (j - n)
      BY <1>2, <1>3, <2>1
    <3> QED
      BY <3>1
  <2> QED
    BY <1>3, <2>1
<1>9. PendingFor(w) = {j \in 1 .. n : callbacks[j].to = w}
  BY <1>3 DEF PendingFor
<1>10. PendingFor(w)' = {j \in 1 .. n + m : callbacks'[j].to = w}
  BY <1>5 DEF PendingFor
<1>11. \A j \in PendingFor(w) : j \in PendingFor(w)' /\ callbacks'[j] = callbacks[j]
  BY <1>6, <1>9, <1>10
<1>12. \A j \in PendingFor(w)' \ PendingFor(w) : \E i \in 1 .. m : j = n + i /\ s[i].to = w
  <2> TAKE j \in PendingFor(w)' \ PendingFor(w)
  <2>1. j \in 1 .. n + m /\ callbacks'[j].to = w /\ ~(j \in 1 .. n)
    BY <1>6, <1>9, <1>10
  <2>2. PICK i \in 1 .. m : j = n + i
    BY <1>8, <2>1
  <2> QED
    BY <1>7, <2>1, <2>2
<1>13. \A j \in PendingFor(w)' \ PendingFor(w) :
           w \in subscribers /\ callbacks'[j].event = published + 1
  <2> TAKE j \in PendingFor(w)' \ PendingFor(w)
  <2>1. PICK i \in 1 .. m : j = n + i /\ s[i].to = w
    BY <1>12
  <2>2. callbacks'[j] = s[i] /\ s[i].event = published + 1
    BY <1>2, <1>7, <2>1
  <2> QED
    BY <1>2, <2>1, <2>2
<1>14. \A j \in PendingFor(w), k \in PendingFor(w)' \ PendingFor(w) : j < k
  <2> TAKE j \in PendingFor(w), k \in PendingFor(w)' \ PendingFor(w)
  <2>1. PICK i \in 1 .. m : k = n + i
    BY <1>12
  <2>2. j \in 1 .. n
    BY <1>9
  <2> QED
    BY <1>2, <1>3, <2>1, <2>2
<1>15. \A j, k \in PendingFor(w)' \ PendingFor(w) : j = k
  BY <1>2, <1>12
<1>16. ASSUME w \in subscribers PROVE PendingFor(w)' \ PendingFor(w) # {}
  <2>1. PICK i \in 1 .. m : s[i].to = w
    BY <1>2, <1>16
  <2>2. n + i \in PendingFor(w)'
    BY <1>7, <1>10, <2>1
  <2>3. ~(n + i \in 1 .. n)
    BY <1>2, <1>3, <2>1
  <2> QED
    BY <1>9, <2>2, <2>3
<1> QED
  BY <1>4, <1>11, <1>13, <1>14, <1>15, <1>16

\* What is left to run when the oldest callback has run.
LEMMA RestOfCallbacks ==
    ASSUME BusTypeOK, callbacks # << >>, callbacks' = Tail(callbacks), NEW w \in Connections
    PROVE  /\ callbacks' \in Seq(Callback)
           /\ Head(callbacks) = callbacks[1] /\ 1 \in DOMAIN callbacks
           /\ Head(callbacks).to \in Connections /\ Head(callbacks).event \in Nat
           /\ \A j \in PendingFor(w)' :
                 j + 1 \in PendingFor(w) /\ j \in Nat /\ callbacks'[j] = callbacks[j + 1]
           /\ \A j \in PendingFor(w) : j # 1 =>
                 j - 1 \in PendingFor(w)' /\ callbacks'[j - 1] = callbacks[j]
<1> DEFINE n == Len(callbacks)
<1>1. /\ callbacks \in Seq(Callback) /\ n \in Nat /\ DOMAIN callbacks = 1 .. n /\ n >= 1
      /\ \A j \in 1 .. n : callbacks[j].to \in Connections /\ callbacks[j].event \in Nat
  BY CallbackTypes, EmptySeq
<1>2. /\ callbacks' \in Seq(Callback) /\ Len(callbacks') = n - 1
      /\ \A j \in 1 .. n - 1 : callbacks'[j] = callbacks[j + 1]
  BY <1>1, HeadTailProperties
<1>3. DOMAIN callbacks' = 1 .. n - 1
  BY <1>2, LenProperties
<1>4. Head(callbacks) = callbacks[1] /\ 1 \in 1 .. n
  BY <1>1
<1> HIDE DEF n
<1>5. PendingFor(w) = {j \in 1 .. n : callbacks[j].to = w}
  BY <1>1 DEF PendingFor
<1>6. PendingFor(w)' = {j \in 1 .. n - 1 : callbacks'[j].to = w}
  BY <1>3 DEF PendingFor
<1>7. \A j \in PendingFor(w)' :
          j + 1 \in PendingFor(w) /\ j \in Nat /\ callbacks'[j] = callbacks[j + 1]
  <2> TAKE j \in PendingFor(w)'
  <2>1. j \in 1 .. n - 1 /\ callbacks'[j].to = w
    BY <1>6
  <2>2. callbacks'[j] = callbacks[j + 1] /\ j + 1 \in 1 .. n /\ j \in Nat
    BY <1>1, <1>2, <2>1
  <2> QED
    BY <1>5, <2>1, <2>2
<1>8. \A j \in PendingFor(w) : j # 1 =>
          j - 1 \in PendingFor(w)' /\ callbacks'[j - 1] = callbacks[j]
  <2> TAKE j \in PendingFor(w)
  <2> HAVE j # 1
  <2>1. j \in 1 .. n /\ callbacks[j].to = w
    BY <1>5
  <2>2. j - 1 \in 1 .. n - 1 /\ (j - 1) + 1 = j
    BY <1>1, <2>1
  <2>3. callbacks'[j - 1] = callbacks[j]
    BY <1>2, <2>2
  <2> QED
    BY <1>6, <2>1, <2>2, <2>3
<1> QED
  BY <1>1, <1>2, <1>4, <1>7, <1>8

-----------------------------------------------------------------------------
(* The type. *)

LEMMA BusTypeStep ==
    ASSUME BusTypeOK, SubscribersNeedLoop, [BusNext]_busVars
    PROVE  BusTypeOK'
<1>1. /\ attached \in BOOLEAN /\ subscribers \subseteq Connections
      /\ published \in 0 .. MaxPublished /\ callbacks \in Seq(Callback)
      /\ queue \in [Connections -> Seq(Nat)]
      /\ \A w \in Connections : Len(queue[w]) <= QueueSize
      /\ conn \in [Connections -> ConnState] /\ seen \in [Connections -> Seq(Nat)]
      /\ start \in [Connections -> Nat] /\ dropped \subseteq Connections
      /\ MaxPublished \in Nat /\ QueueSize \in Nat \ {0}
  BY BusBounds DEF BusTypeOK, Callback
<1>2. CASE AttachLoop
  BY <1>1, <1>2 DEF AttachLoop, BusTypeOK, Callback
<1>3. CASE SafePut
  <2> DEFINE c == Head(callbacks)
  <2>1. /\ callbacks' \in Seq(Callback)
        /\ c.to \in Connections /\ c.event \in Nat
    <3>1. callbacks \in Seq(Callback) /\ callbacks # << >> /\ callbacks' = Tail(callbacks)
      BY <1>1, <1>3 DEF SafePut
    <3>2. Head(callbacks) \in Callback /\ Tail(callbacks) \in Seq(Callback)
      BY <3>1, HeadTailProperties
    <3> QED
      BY <3>1, <3>2 DEF Callback
  <2> HIDE DEF c
  <2>2. queue' \in [Connections -> Seq(Nat)] /\ \A w \in Connections : Len(queue'[w]) <= QueueSize
    <3>1. CASE Len(queue[c.to]) < QueueSize
      <4>1. queue' = [queue EXCEPT ![c.to] = Append(queue[c.to], c.event)]
        BY <1>3, <3>1 DEF SafePut, c
      <4>2. /\ Append(queue[c.to], c.event) \in Seq(Nat)
            /\ Len(Append(queue[c.to], c.event)) = Len(queue[c.to]) + 1
            /\ Len(queue[c.to]) \in Nat
        BY <1>1, <2>1, AppendProperties, LenProperties
      <4> QED
        BY <1>1, <2>1, <3>1, <4>1, <4>2
    <3>2. CASE ~(Len(queue[c.to]) < QueueSize)
      BY <1>1, <1>3, <3>2 DEF SafePut, c
    <3> QED
      BY <3>1, <3>2
  <2>3. dropped' \subseteq Connections
    BY <1>1, <1>3, <2>1 DEF SafePut, c
  <2> QED
    BY <1>1, <1>3, <2>1, <2>2, <2>3 DEF SafePut, BusTypeOK, Callback
<1>4. ASSUME NEW w \in Connections, Connect(w) PROVE BusTypeOK'
  <2>1. conn' \in [Connections -> ConnState] /\ start' \in [Connections -> Nat]
    BY <1>1, <1>4 DEF Connect, ConnState
  <2> QED
    BY <1>1, <1>4, <2>1 DEF Connect, BusTypeOK, Callback
<1>5. ASSUME NEW w \in Connections, Hello(w) PROVE BusTypeOK'
  <2>1. conn' \in [Connections -> ConnState]
    BY <1>1, <1>5 DEF Hello, ConnState
  <2> QED
    BY <1>1, <1>5, <2>1 DEF Hello, BusTypeOK, Callback
<1>6. ASSUME NEW w \in Connections, Send(w) PROVE BusTypeOK'
  <2>1. /\ Head(queue[w]) \in Nat /\ Tail(queue[w]) \in Seq(Nat)
        /\ Len(Tail(queue[w])) = Len(queue[w]) - 1 /\ Len(queue[w]) \in Nat
        /\ Append(seen[w], Head(queue[w])) \in Seq(Nat)
    BY <1>1, <1>6, HeadTailProperties, AppendProperties, LenProperties DEF Send
  <2>2. queue' \in [Connections -> Seq(Nat)] /\ seen' \in [Connections -> Seq(Nat)]
    BY <1>1, <1>6, <2>1 DEF Send
  <2>3. \A v \in Connections : Len(queue'[v]) <= QueueSize
    BY <1>1, <1>6, <2>1 DEF Send
  <2> QED
    BY <1>1, <1>6, <2>2, <2>3 DEF Send, BusTypeOK, Callback
<1>7. ASSUME NEW w \in Connections, Disconnect(w) PROVE BusTypeOK'
  <2>1. conn' \in [Connections -> ConnState]
    BY <1>1, <1>7 DEF Disconnect, ConnState
  <2> QED
    BY <1>1, <1>7, <2>1 DEF Disconnect, BusTypeOK, Callback
<1>8. CASE Publish
  <2>1. callbacks' \in Seq(Callback)
    <3>1. CASE attached
      <4>1. PICK s \in Schedules(subscribers, published + 1) : callbacks' = callbacks \o s
        BY <1>8, <3>1 DEF Publish
      <4>2. published + 1 \in Nat
        BY <1>1
      <4>3. s \in Seq(Callback)
        BY <1>1, <4>2, SchedulesOnePerSubscriber DEF SubscribersNeedLoop
      <4> QED
        BY <1>1, <4>1, <4>3, ConcatProperties
    <3>2. CASE ~attached
      BY <1>1, <1>8, <3>2 DEF Publish
    <3> QED
      BY <3>1, <3>2
  <2>2. published' \in 0 .. MaxPublished
    BY <1>1, <1>8 DEF Publish
  <2>3. /\ attached' = attached /\ subscribers' = subscribers /\ queue' = queue /\ conn' = conn
        /\ seen' = seen /\ start' = start /\ dropped' = dropped
    BY <1>8 DEF Publish
  <2> QED
    BY <1>1, <2>1, <2>2, <2>3 DEF BusTypeOK, Callback
<1>9. CASE BusStops
  <2>1. /\ << >> \in Seq(Nat) /\ Len(<< >>) = 0 /\ << >> \in Seq(Callback)
    BY EmptySeq
  <2>2. /\ queue' \in [Connections -> Seq(Nat)]
        /\ \A w \in Connections : Len(queue'[w]) <= QueueSize
    BY <1>1, <1>9, <2>1 DEF BusStops
  <2>3. conn' \in [Connections -> ConnState]
    BY <1>1, <1>9 DEF BusStops, ConnState
  <2>4. /\ attached' \in BOOLEAN /\ subscribers' = {} /\ callbacks' = << >>
        /\ published' = published /\ seen' = seen /\ start' = start /\ dropped' = dropped
    BY <1>9 DEF BusStops
  <2> QED
    BY <1>1, <2>1, <2>2, <2>3, <2>4 DEF BusTypeOK, Callback
<1>10. CASE UNCHANGED busVars
  BY <1>1, <1>10 DEF busVars, BusTypeOK, Callback
<1> QED
  BY <1>2, <1>3, <1>4, <1>5, <1>6, <1>7, <1>8, <1>9, <1>10 DEF BusNext, BusStep

-----------------------------------------------------------------------------
(* Each step of the bus. *)

\* NoGapWithoutDrop, for one connection.
NoGap(w) ==
    /\ \A i \in DOMAIN Got(w) : Got(w)[i] = start[w] + i
    /\ {callbacks[j].event : j \in PendingFor(w)} = start[w] + Len(Got(w)) + 1 .. published
    /\ \A j, k \in PendingFor(w) : j < k => callbacks[j].event < callbacks[k].event

\* A step that neither publishes nor runs a callback leaves what a connection
\* got, and what is scheduled for it, as they are.
LEMMA QuietStep ==
    ASSUME NEW w \in Connections, Got(w)' = Got(w), callbacks' = callbacks,
           published' = published
    PROVE  /\ PendingFor(w)' = PendingFor(w)
           /\ InOrder(w) => InOrder(w)'
           /\ start'[w] = start[w] /\ NoGap(w) => NoGap(w)'
BY DEF PendingFor, InOrder, NoGap

LEMMA QuietNoGap ==
    ASSUME BusIInv, \A w \in Connections : Got(w)' = Got(w), callbacks' = callbacks,
           published' = published, start' = start,
           subscribers' \subseteq subscribers, dropped' = dropped
    PROVE  NoGapWithoutDrop'
<1>1. \A w \in subscribers \ dropped : w \in Connections /\ NoGap(w)
  BY DEF BusIInv, BusTypeOK, NoGapWithoutDrop, NoGap
<1>2. \A w \in subscribers \ dropped : NoGap(w)'
  BY <1>1, QuietStep
<1> QED
  BY <1>2 DEF NoGapWithoutDrop, NoGap

LEMMA AttachLoopStep ==
    ASSUME BusIInv, BusTypeOK', AttachLoop
    PROVE  BusIInv'
<1>1. /\ ~attached /\ attached' = TRUE /\ subscribers' = subscribers /\ published' = published
      /\ callbacks' = callbacks /\ queue' = queue /\ conn' = conn /\ seen' = seen
      /\ start' = start /\ dropped' = dropped
  BY DEF AttachLoop
<1>2. \A w \in Connections : Got(w)' = Got(w)
  BY <1>1 DEF Got
<1>3. SubscribersNeedLoop' /\ \A w \in Connections : InOrder(w)'
  BY <1>1, <1>2, QuietStep DEF BusIInv, SubscribersNeedLoop
<1>4. NewGetsNothing'
  BY <1>1, <1>2, QuietStep DEF BusIInv, NewGetsNothing
<1>5. NoGapWithoutDrop'
  BY <1>1, <1>2, QuietNoGap
<1>6. StartIsPast'
  BY <1>1 DEF BusIInv, StartIsPast
<1> QED
  BY <1>3, <1>4, <1>5, <1>6 DEF BusIInv

LEMMA ConnectStep ==
    ASSUME BusIInv, BusTypeOK', NEW v \in Connections, Connect(v)
    PROVE  BusIInv'
<1>1. /\ attached /\ attached' = attached /\ conn[v] = "new"
      /\ conn' = [conn EXCEPT ![v] = "hello"]
      /\ subscribers' = subscribers \cup {v} /\ start' = [start EXCEPT ![v] = published]
      /\ published' = published /\ callbacks' = callbacks /\ queue' = queue
      /\ seen' = seen /\ dropped' = dropped
  BY DEF Connect
<1>2. \A w \in Connections : Got(w)' = Got(w)
  BY <1>1 DEF Got
<1>3. SubscribersNeedLoop'
  BY <1>1, FS_AddElement DEF BusIInv, SubscribersNeedLoop
<1>4. \A w \in Connections : InOrder(w)' /\ PendingFor(w)' = PendingFor(w)
  BY <1>1, <1>2, QuietStep DEF BusIInv
<1>5. conn \in [Connections -> ConnState] /\ start \in [Connections -> Nat] /\ published \in Nat
  BY CallbackTypes DEF BusIInv, BusTypeOK
<1>6. NewGetsNothing'
  <2>1. \A w \in Connections : conn'[w] = "new" => w # v /\ conn[w] = "new"
    BY <1>1, <1>5
  <2> QED
    BY <1>1, <1>4, <2>1 DEF BusIInv, NewGetsNothing
<1>7. NoGap(v)'
  <2>1. seen[v] = << >> /\ queue[v] = << >> /\ PendingFor(v) = {}
    BY <1>1 DEF BusIInv, NewGetsNothing
  <2>2. Got(v) = << >> /\ Len(Got(v)) = 0 /\ DOMAIN Got(v) = 1 .. 0
    BY <2>1, ConcatEmptySeq, EmptySeq, GotTypes DEF BusIInv, Got
  <2>3. start'[v] + Len(Got(v)) + 1 .. published = {} /\ DOMAIN Got(v) = {}
    BY <1>1, <1>5, <2>2
  <2> QED
    BY <1>1, <1>2, <1>4, <2>1, <2>3 DEF NoGap
<1>8. \A w \in subscribers \ dropped : w # v => NoGap(w)'
  <2> TAKE w \in subscribers \ dropped
  <2> HAVE w # v
  <2>1. w \in Connections /\ NoGap(w)
    BY DEF BusIInv, BusTypeOK, NoGapWithoutDrop, NoGap
  <2>2. start'[w] = start[w]
    BY <1>1, <1>5, <2>1
  <2> QED
    BY <1>1, <1>2, <2>1, <2>2, QuietStep
<1>9. NoGapWithoutDrop'
  BY <1>1, <1>7, <1>8 DEF NoGapWithoutDrop, NoGap
<1>10. StartIsPast'
  BY <1>1, <1>5 DEF BusIInv, StartIsPast
<1> QED
  BY <1>3, <1>4, <1>6, <1>9, <1>10 DEF BusIInv

LEMMA HelloStep ==
    ASSUME BusIInv, BusTypeOK', NEW v \in Connections, Hello(v)
    PROVE  BusIInv'
<1>1. /\ conn[v] = "hello"
      /\ conn' = [conn EXCEPT ![v] = "open"] \/ conn' = [conn EXCEPT ![v] = "closed"]
      /\ attached' = attached /\ subscribers' = subscribers /\ published' = published
      /\ callbacks' = callbacks /\ queue' = queue /\ seen' = seen
      /\ start' = start /\ dropped' = dropped
  BY DEF Hello
<1>2. \A w \in Connections : Got(w)' = Got(w)
  BY <1>1 DEF Got
<1>3. SubscribersNeedLoop' /\ \A w \in Connections : InOrder(w)'
  BY <1>1, <1>2, QuietStep DEF BusIInv, SubscribersNeedLoop
<1>4. NewGetsNothing'
  <2>1. conn \in [Connections -> ConnState]
    BY DEF BusIInv, BusTypeOK
  <2>2. \A w \in Connections : conn'[w] = "new" => conn[w] = "new"
    BY <1>1, <2>1
  <2> QED
    BY <1>1, <1>2, <2>2, QuietStep DEF BusIInv, NewGetsNothing
<1>5. NoGapWithoutDrop'
  BY <1>1, <1>2, QuietNoGap
<1>6. StartIsPast'
  BY <1>1 DEF BusIInv, StartIsPast
<1> QED
  BY <1>3, <1>4, <1>5, <1>6 DEF BusIInv

LEMMA SendStep ==
    ASSUME BusIInv, BusTypeOK', NEW v \in Connections, Send(v)
    PROVE  BusIInv'
<1>1. /\ conn[v] = "open" /\ queue[v] # << >>
      /\ seen' = [seen EXCEPT ![v] = Append(seen[v], Head(queue[v]))]
      /\ queue' = [queue EXCEPT ![v] = Tail(queue[v])]
      /\ attached' = attached /\ subscribers' = subscribers /\ published' = published
      /\ callbacks' = callbacks /\ conn' = conn /\ start' = start /\ dropped' = dropped
  BY DEF Send
<1>2. seen \in [Connections -> Seq(Nat)] /\ queue \in [Connections -> Seq(Nat)]
  BY DEF BusIInv, BusTypeOK
<1>3. \A w \in Connections : Got(w)' = Got(w)
  <2> TAKE w \in Connections
  <2>1. CASE w = v
    BY <1>1, <1>2, <2>1, GotSend DEF BusIInv
  <2>2. CASE w # v
    BY <1>1, <1>2, <2>2 DEF Got
  <2> QED
    BY <2>1, <2>2
<1>4. SubscribersNeedLoop' /\ \A w \in Connections : InOrder(w)' /\ PendingFor(w)' = PendingFor(w)
  BY <1>1, <1>3, QuietStep DEF BusIInv, SubscribersNeedLoop
<1>5. NewGetsNothing'
  <2>1. \A w \in Connections : conn[w] = "new" => seen'[w] = seen[w] /\ queue'[w] = queue[w]
    BY <1>1, <1>2
  <2> QED
    BY <1>1, <1>4, <2>1 DEF BusIInv, NewGetsNothing
<1>6. NoGapWithoutDrop'
  BY <1>1, <1>3, QuietNoGap
<1>7. StartIsPast'
  BY <1>1 DEF BusIInv, StartIsPast
<1> QED
  BY <1>4, <1>5, <1>6, <1>7 DEF BusIInv

LEMMA DisconnectStep ==
    ASSUME BusIInv, BusTypeOK', NEW v \in Connections, Disconnect(v)
    PROVE  BusIInv'
<1>1. /\ conn[v] = "open" /\ conn' = [conn EXCEPT ![v] = "closed"]
      /\ subscribers' = subscribers \ {v}
      /\ attached' = attached /\ published' = published /\ callbacks' = callbacks
      /\ queue' = queue /\ seen' = seen /\ start' = start /\ dropped' = dropped
  BY DEF Disconnect
<1>2. \A w \in Connections : Got(w)' = Got(w)
  BY <1>1 DEF Got
<1>3. SubscribersNeedLoop'
  BY <1>1, FS_RemoveElement DEF BusIInv, SubscribersNeedLoop
<1>4. \A w \in Connections : InOrder(w)' /\ PendingFor(w)' = PendingFor(w)
  BY <1>1, <1>2, QuietStep DEF BusIInv
<1>5. NewGetsNothing'
  <2>1. conn \in [Connections -> ConnState]
    BY DEF BusIInv, BusTypeOK
  <2>2. \A w \in Connections : conn'[w] = "new" => conn[w] = "new"
    BY <1>1, <2>1
  <2> QED
    BY <1>1, <1>4, <2>2 DEF BusIInv, NewGetsNothing
<1>6. NoGapWithoutDrop'
  BY <1>1, <1>2, QuietNoGap
<1>7. StartIsPast'
  BY <1>1 DEF BusIInv, StartIsPast
<1> QED
  BY <1>3, <1>4, <1>5, <1>6, <1>7 DEF BusIInv

LEMMA PublishStep ==
    ASSUME BusIInv, BusTypeOK', Publish
    PROVE  BusIInv'
<1>1. /\ published' = published + 1
      /\ attached => \E s \in Schedules(subscribers, published + 1) : callbacks' = callbacks \o s
      /\ ~attached => callbacks' = callbacks
      /\ attached' = attached /\ subscribers' = subscribers /\ queue' = queue /\ conn' = conn
      /\ seen' = seen /\ start' = start /\ dropped' = dropped
  BY DEF Publish
<1>2. BusTypeOK /\ IsFiniteSet(subscribers) /\ (~attached => subscribers = {})
  BY DEF BusIInv, SubscribersNeedLoop
<1>3. \A w \in Connections : Got(w)' = Got(w)
  BY <1>1 DEF Got
<1>4. published \in Nat
  BY <1>2, CallbackTypes
<1>5. ASSUME NEW w \in Connections
      PROVE  /\ \A j \in PendingFor(w) : j \in PendingFor(w)' /\ callbacks'[j] = callbacks[j]
             /\ \A j \in PendingFor(w)' \ PendingFor(w) :
                   w \in subscribers /\ callbacks'[j].event = published + 1
             /\ \A j \in PendingFor(w), k \in PendingFor(w)' \ PendingFor(w) : j < k
             /\ \A j, k \in PendingFor(w)' \ PendingFor(w) : j = k
             /\ w \in subscribers => PendingFor(w)' \ PendingFor(w) # {}
             /\ \A j \in PendingFor(w) : j \in Nat /\ callbacks[j].event \in Nat
             /\ \A j \in PendingFor(w)' : j \in Nat
  <2>1. \A j \in PendingFor(w) : j \in Nat /\ callbacks[j].event \in Nat
    BY <1>2, CallbackTypes DEF PendingFor
  <2>2. \A j \in PendingFor(w)' : j \in Nat
    <3>1. callbacks' \in Seq(Callback)
      BY DEF BusTypeOK, Callback
    <3> QED
      BY <3>1, LenProperties DEF PendingFor
  <2>3. CASE attached
    <3>1. PICK s \in Schedules(subscribers, published + 1) : callbacks' = callbacks \o s
      BY <1>1, <2>3
    <3> QED
      BY <1>2, <2>1, <2>2, <3>1, PublishSchedules
  <2>4. CASE ~attached
    <3>1. callbacks' = callbacks /\ PendingFor(w)' = PendingFor(w) /\ w \notin subscribers
      BY <1>1, <1>2, <2>4 DEF PendingFor
    <3> QED
      BY <2>1, <2>2, <3>1
  <2> QED
    BY <2>3, <2>4
<1>6. SubscribersNeedLoop'
  BY <1>1 DEF BusIInv, SubscribersNeedLoop
<1>7. NewGetsNothing'
  <2> SUFFICES ASSUME NEW w \in Connections, conn[w] = "new"
               PROVE  w \notin subscribers /\ seen[w] = << >> /\ queue[w] = << >> /\ PendingFor(w)' = {}
    BY <1>1 DEF NewGetsNothing
  <2>1. w \notin subscribers /\ seen[w] = << >> /\ queue[w] = << >> /\ PendingFor(w) = {}
    BY DEF BusIInv, NewGetsNothing
  <2> QED
    BY <1>5, <2>1
<1>8. ASSUME NEW w \in Connections PROVE InOrder(w)'
  <2>1. /\ \A i \in DOMAIN Got(w) : Got(w)[i] \in 1 .. published
        /\ \A i, j \in DOMAIN Got(w) : i < j => Got(w)[i] < Got(w)[j]
        /\ \A i \in DOMAIN Got(w), j \in PendingFor(w) : Got(w)[i] < callbacks[j].event
        /\ \A j \in PendingFor(w) : callbacks[j].event \in 1 .. published
        /\ \A j, k \in PendingFor(w) : j < k => callbacks[j].event < callbacks[k].event
    BY DEF BusIInv, InOrder
  <2>2. \A j \in PendingFor(w)' :
            \/ j \in PendingFor(w) /\ callbacks'[j] = callbacks[j]
            \/ j \notin PendingFor(w) /\ callbacks'[j].event = published + 1
    BY <1>5
  <2>3. \A i \in DOMAIN Got(w) : Got(w)[i] \in 1 .. published + 1
    BY <1>4, <2>1
  <2>4. \A i \in DOMAIN Got(w), j \in PendingFor(w)' : Got(w)[i] < callbacks'[j].event
    BY <1>4, <2>1, <2>2
  <2>5. \A j \in PendingFor(w)' : callbacks'[j].event \in 1 .. published + 1
    BY <1>4, <2>1, <2>2
  <2>6. \A j, k \in PendingFor(w)' : j < k => callbacks'[j].event < callbacks'[k].event
    <3> TAKE j, k \in PendingFor(w)'
    <3> HAVE j < k
    <3>1. CASE j \in PendingFor(w) /\ k \in PendingFor(w)
      BY <2>1, <2>2, <3>1
    <3>2. CASE j \in PendingFor(w) /\ k \notin PendingFor(w)
      BY <1>4, <2>1, <2>2, <3>2
    <3>3. CASE j \notin PendingFor(w) /\ k \in PendingFor(w)
      <4>1. k < j /\ j \in Nat /\ k \in Nat
        BY <1>5, <3>3
      <4> QED
        BY <4>1
    <3>4. CASE j \notin PendingFor(w) /\ k \notin PendingFor(w)
      <4>1. j = k /\ j \in Nat
        BY <1>5, <3>4
      <4> QED
        BY <4>1
    <3> QED
      BY <3>1, <3>2, <3>3, <3>4
  <2>7. Got(w)' = Got(w)
    BY <1>3
  <2> QED
    BY <1>1, <2>1, <2>3, <2>4, <2>5, <2>6, <2>7 DEF InOrder
<1>9. ASSUME NEW w \in subscribers \ dropped PROVE NoGap(w)'
  <2>0. w \in Connections
    BY <1>2 DEF BusTypeOK
  <2>1. /\ \A i \in DOMAIN Got(w) : Got(w)[i] = start[w] + i
        /\ {callbacks[j].event : j \in PendingFor(w)} = start[w] + Len(Got(w)) + 1 .. published
    BY DEF BusIInv, NoGapWithoutDrop
  <2>2. Got(w)' = Got(w) /\ Len(Got(w)) \in Nat /\ start[w] \in Nat
    BY <1>2, <1>3, <2>0, GotTypes
  <2>3. start[w] + Len(Got(w)) <= published
    <3>1. CASE Len(Got(w)) = 0
      BY <1>4, <2>0, <2>2, <3>1 DEF BusIInv, StartIsPast
    <3>2. CASE Len(Got(w)) # 0
      <4>1. Len(Got(w)) \in DOMAIN Got(w)
        BY <1>2, <2>0, <2>2, <3>2, GotTypes
      <4>2. Got(w)[Len(Got(w))] \in 1 .. published
        BY <2>0, <4>1 DEF BusIInv, InOrder
      <4> QED
        BY <1>4, <2>1, <4>1, <4>2
    <3> QED
      BY <3>1, <3>2
  <2>4. ASSUME NEW j \in PendingFor(w)'
        PROVE  callbacks'[j].event \in start[w] + Len(Got(w)) + 1 .. published + 1
    <3>1. CASE j \in PendingFor(w)
      <4>1. callbacks'[j].event \in start[w] + Len(Got(w)) + 1 .. published
        BY <1>5, <2>0, <2>1, <3>1
      <4> QED
        BY <1>4, <2>2, <4>1
    <3>2. CASE j \notin PendingFor(w)
      <4>1. callbacks'[j].event = published + 1
        BY <1>5, <2>0, <3>2
      <4> QED
        BY <1>4, <2>2, <2>3, <4>1
    <3> QED
      BY <3>1, <3>2
  <2>5. ASSUME NEW e \in start[w] + Len(Got(w)) + 1 .. published + 1
        PROVE  \E j \in PendingFor(w)' : callbacks'[j].event = e
    <3>1. CASE e = published + 1
      BY <1>5, <2>0, <3>1
    <3>2. CASE e # published + 1
      <4>1. e \in start[w] + Len(Got(w)) + 1 .. published
        BY <1>4, <2>2, <3>2
      <4>2. PICK j \in PendingFor(w) : callbacks[j].event = e
        BY <2>1, <4>1
      <4> QED
        BY <1>5, <2>0, <4>2
    <3> QED
      BY <3>1, <3>2
  <2>6. {callbacks'[j].event : j \in PendingFor(w)'} = start[w] + Len(Got(w)) + 1 .. published + 1
    BY <2>4, <2>5
  <2>7. \A j, k \in PendingFor(w)' : j < k => callbacks'[j].event < callbacks'[k].event
    BY <1>8, <2>0 DEF InOrder
  <2>8. \A i \in DOMAIN Got(w)' : Got(w)'[i] = start'[w] + i
    BY <1>1, <2>1, <2>2
  <2> QED
    BY <1>1, <2>2, <2>6, <2>7, <2>8 DEF NoGap
<1>10. StartIsPast'
  <2>1. \A w \in Connections : start[w] \in Nat /\ start[w] <= published
    BY <1>2, GotTypes DEF BusIInv, StartIsPast
  <2> QED
    BY <1>1, <1>4, <2>1 DEF StartIsPast
<1> QED
  BY <1>1, <1>6, <1>7, <1>8, <1>9, <1>10 DEF BusIInv, NoGapWithoutDrop, NoGap

\* The oldest callback of a connection without a gap is the event it is missing.
LEMMA OldestIsNext ==
    ASSUME BusTypeOK, NEW w \in Connections, NoGap(w), 1 \in PendingFor(w)
    PROVE  callbacks[1].event = start[w] + Len(Got(w)) + 1
<1> DEFINE lo == start[w] + Len(Got(w)) + 1
           e == callbacks[1].event
<1>1. lo \in Nat /\ published \in Nat
  <2>1. start[w] \in Nat /\ Len(Got(w)) \in Nat /\ published \in Nat
    BY GotTypes, CallbackTypes
  <2> QED
    BY <2>1
<1>2. \A j \in PendingFor(w) : j \in Nat /\ j >= 1 /\ callbacks[j].event \in Nat
  BY CallbackTypes DEF PendingFor
<1>3. {callbacks[j].event : j \in PendingFor(w)} = lo .. published
  BY DEF NoGap
<1>4. e \in lo .. published
  BY <1>3
<1>5. lo \in lo .. published
  BY <1>1, <1>4
<1>6. PICK j \in PendingFor(w) : callbacks[j].event = lo
  BY <1>3, <1>5
<1>7. CASE j = 1
  BY <1>6, <1>7
<1>8. CASE j # 1
  <2>1. 1 < j
    BY <1>2, <1>6, <1>8
  <2>2. e < lo
    BY <1>6, <2>1 DEF NoGap
  <2> QED
    BY <1>1, <1>4, <2>2
<1> QED
  BY <1>7, <1>8

LEMMA SafePutStep ==
    ASSUME BusIInv, BusTypeOK', SafePut
    PROVE  BusIInv'
<1> DEFINE c == Head(callbacks)
           v == c.to
           e == c.event
<1>1. /\ callbacks # << >> /\ callbacks' = Tail(callbacks)
      /\ \/ queue' = [queue EXCEPT ![v] = Append(queue[v], e)] /\ dropped' = dropped
         \/ queue' = queue /\ dropped' = dropped \cup {v}
      /\ attached' = attached /\ subscribers' = subscribers /\ published' = published
      /\ conn' = conn /\ seen' = seen /\ start' = start
  BY DEF SafePut
<1>2. BusTypeOK /\ published \in Nat /\ queue \in [Connections -> Seq(Nat)]
  BY CallbackTypes DEF BusIInv, BusTypeOK
<1>3. /\ v \in Connections /\ e \in Nat /\ c = callbacks[1] /\ 1 \in PendingFor(v)
  <2>1. c = callbacks[1] /\ 1 \in DOMAIN callbacks /\ c.to \in Connections /\ c.event \in Nat
    <3>1. callbacks \in Seq(Callback)
      BY <1>2, CallbackTypes
    <3>2. c = callbacks[1] /\ 1 \in 1 .. Len(callbacks)
      BY <1>1, <3>1, LenProperties, EmptySeq
    <3> QED
      BY <1>2, <3>1, <3>2, CallbackTypes
  <2> QED
    BY <2>1 DEF PendingFor
<1> HIDE DEF c, v, e
<1>4. ASSUME NEW w \in Connections
      PROVE  /\ \A j \in PendingFor(w)' :
                   j + 1 \in PendingFor(w) /\ j \in Nat /\ callbacks'[j] = callbacks[j + 1]
             /\ \A j \in PendingFor(w) : j # 1 =>
                   j - 1 \in PendingFor(w)' /\ callbacks'[j - 1] = callbacks[j]
             /\ \A j \in PendingFor(w) : j \in Nat /\ j >= 1 /\ callbacks[j].event \in Nat
  <2>1. \A j \in PendingFor(w) : j \in Nat /\ j >= 1 /\ callbacks[j].event \in Nat
    BY <1>2, CallbackTypes DEF PendingFor
  <2> QED
    BY <1>1, <1>2, <2>1, RestOfCallbacks
<1>5. callbacks[1].event = e /\ callbacks[1].to = v
  BY <1>3 DEF v, e
<1>6. ASSUME NEW w \in Connections, w # v
      PROVE  Got(w)' = Got(w) /\ 1 \notin PendingFor(w)
  BY <1>1, <1>2, <1>3, <1>5, <1>6 DEF Got, PendingFor
<1>7. SubscribersNeedLoop' /\ StartIsPast'
  BY <1>1 DEF BusIInv, SubscribersNeedLoop, StartIsPast
<1>8. NewGetsNothing'
  <2> SUFFICES ASSUME NEW w \in Connections, conn[w] = "new"
               PROVE  /\ w \notin subscribers
                      /\ seen[w] = << >> /\ queue'[w] = << >>
                      /\ PendingFor(w)' = {}
    BY <1>1 DEF NewGetsNothing
  <2>1. w \notin subscribers /\ seen[w] = << >> /\ queue[w] = << >> /\ PendingFor(w) = {}
    BY DEF BusIInv, NewGetsNothing
  <2>2. w # v
    BY <1>3, <2>1
  <2> QED
    BY <1>1, <1>2, <1>3, <1>4, <2>1, <2>2
\* What is left of the callbacks of w is in order.
<1>9. ASSUME NEW w \in Connections
      PROVE  /\ \A j \in PendingFor(w)' : callbacks'[j].event \in 1 .. published
             /\ \A j, k \in PendingFor(w)' : j < k => callbacks'[j].event < callbacks'[k].event
             /\ \A i \in DOMAIN Got(w), j \in PendingFor(w)' : Got(w)[i] < callbacks'[j].event
  <2>1. InOrder(w)
    BY DEF BusIInv
  <2>2. \A j \in PendingFor(w)' : j + 1 \in PendingFor(w) /\ j \in Nat /\ callbacks'[j] = callbacks[j + 1]
    BY <1>4
  <2>3. \A j, k \in PendingFor(w)' : j < k => j + 1 < k + 1
    BY <2>2
  <2> QED
    BY <2>1, <2>2, <2>3 DEF InOrder
<1>10. ASSUME NEW w \in Connections PROVE InOrder(w)'
  <2>1. InOrder(w)
    BY DEF BusIInv
  <2>2. CASE Got(w)' = Got(w)
    BY <1>1, <1>9, <2>1, <2>2 DEF InOrder
  <2>3. CASE w = v /\ queue' = [queue EXCEPT ![v] = Append(queue[v], e)]
    <3>1. /\ Len(Got(w)) \in Nat /\ DOMAIN Got(w) = 1 .. Len(Got(w))
          /\ \A i \in DOMAIN Got(w) : Got(w)[i] \in Nat
      BY <1>2, GotTypes
    <3>2. /\ DOMAIN Got(w)' = 1 .. Len(Got(w)) + 1
          /\ \A i \in DOMAIN Got(w) : Got(w)'[i] = Got(w)[i]
          /\ Got(w)'[Len(Got(w)) + 1] = e
      BY <1>1, <1>2, <1>3, <2>3, GotAppend
    <3>3. \A i \in DOMAIN Got(w)' :
              \/ i \in DOMAIN Got(w) /\ Got(w)'[i] = Got(w)[i]
              \/ i = Len(Got(w)) + 1 /\ Got(w)'[i] = e
      BY <3>1, <3>2
    <3>4. e \in 1 .. published /\ \A i \in DOMAIN Got(w) : Got(w)[i] < e
      BY <1>3, <1>5, <2>1, <2>3 DEF InOrder
    <3>5. \A j \in PendingFor(w)' : e < callbacks'[j].event
      <4> TAKE j \in PendingFor(w)'
      <4>1. j + 1 \in PendingFor(w) /\ callbacks'[j] = callbacks[j + 1]
        BY <1>4
      <4>2. 1 < j + 1
        <5>1. j \in Nat /\ j \in DOMAIN callbacks'
          BY <1>4 DEF PendingFor
        <5>2. callbacks' \in Seq(Callback)
          BY DEF BusTypeOK, Callback
        <5> QED
          BY <5>1, <5>2, LenProperties
      <4> QED
        BY <1>3, <1>5, <2>1, <2>3, <4>1, <4>2 DEF InOrder
    <3>6. \A i \in DOMAIN Got(w)' : Got(w)'[i] \in 1 .. published
      BY <2>1, <3>3, <3>4 DEF InOrder
    <3>7. \A i, j \in DOMAIN Got(w)' : i < j => Got(w)'[i] < Got(w)'[j]
      <4> TAKE i, j \in DOMAIN Got(w)'
      <4> HAVE i < j
      <4>1. i \in DOMAIN Got(w) /\ Got(w)'[i] = Got(w)[i]
        BY <3>1, <3>2
      <4> QED
        BY <2>1, <3>3, <3>4, <4>1 DEF InOrder
    <3>8. \A i \in DOMAIN Got(w)', j \in PendingFor(w)' : Got(w)'[i] < callbacks'[j].event
      BY <1>9, <3>3, <3>5
    <3> QED
      BY <1>1, <1>9, <3>6, <3>7, <3>8 DEF InOrder
  <2> QED
    BY <1>1, <1>6, <2>2, <2>3 DEF Got
<1>11. ASSUME NEW w \in subscribers \ dropped' PROVE NoGap(w)'
  <2>0. w \in Connections /\ w \notin dropped /\ NoGap(w)
    BY <1>1, <1>2 DEF BusIInv, BusTypeOK, NoGapWithoutDrop, NoGap
  <2>1. \A j, k \in PendingFor(w)' : j < k => callbacks'[j].event < callbacks'[k].event
    BY <1>9, <2>0
  <2>2. start[w] \in Nat /\ Len(Got(w)) \in Nat /\ DOMAIN Got(w) = 1 .. Len(Got(w))
    BY <1>2, <2>0, GotTypes
  <2>3. {callbacks[j].event : j \in PendingFor(w)} = start[w] + Len(Got(w)) + 1 .. published
    BY <2>0 DEF NoGap
  <2>4. CASE w # v
    <3>1. Got(w)' = Got(w) /\ 1 \notin PendingFor(w)
      BY <1>6, <2>0, <2>4
    <3>2. {callbacks'[j].event : j \in PendingFor(w)'} = {callbacks[j].event : j \in PendingFor(w)}
      <4>1. ASSUME NEW j \in PendingFor(w)'
            PROVE  \E k \in PendingFor(w) : callbacks[k].event = callbacks'[j].event
        BY <1>4, <2>0
      <4>2. ASSUME NEW k \in PendingFor(w)
            PROVE  \E j \in PendingFor(w)' : callbacks'[j].event = callbacks[k].event
        BY <1>4, <2>0, <3>1
      <4> QED
        BY <4>1, <4>2
    <3> QED
      BY <1>1, <2>0, <2>1, <2>3, <3>1, <3>2 DEF NoGap
  <2>5. CASE w = v
    <3>1. queue' = [queue EXCEPT ![v] = Append(queue[v], e)]
      BY <1>1, <2>5
    <3>2. /\ Len(Got(w)') = Len(Got(w)) + 1 /\ DOMAIN Got(w)' = 1 .. Len(Got(w)) + 1
          /\ \A i \in DOMAIN Got(w) : Got(w)'[i] = Got(w)[i]
          /\ Got(w)'[Len(Got(w)) + 1] = e
      BY <1>1, <1>2, <1>3, <2>5, <3>1, GotAppend
    <3>3. e = start[w] + Len(Got(w)) + 1
      BY <1>2, <1>3, <1>5, <2>0, <2>5, OldestIsNext
    <3>4. \A i \in DOMAIN Got(w)' : Got(w)'[i] = start[w] + i
      <4> TAKE i \in DOMAIN Got(w)'
      <4>1. CASE i = Len(Got(w)) + 1
        BY <2>2, <3>2, <3>3, <4>1
      <4>2. CASE i # Len(Got(w)) + 1
        <5>1. i \in DOMAIN Got(w)
          BY <2>2, <3>2, <4>2
        <5> QED
          BY <2>0, <3>2, <5>1 DEF NoGap
      <4> QED
        BY <4>1, <4>2
    <3>5. ASSUME NEW j \in PendingFor(w)'
          PROVE  callbacks'[j].event \in start[w] + (Len(Got(w)) + 1) + 1 .. published
      <4>1. /\ j + 1 \in PendingFor(w) /\ callbacks'[j] = callbacks[j + 1]
            /\ callbacks[j + 1].event \in start[w] + Len(Got(w)) + 1 .. published
        BY <1>4, <2>0, <2>3
      <4>2. 1 < j + 1
        <5>1. j \in Nat /\ j \in DOMAIN callbacks'
          BY <1>4, <2>0 DEF PendingFor
        <5>2. callbacks' \in Seq(Callback)
          BY DEF BusTypeOK, Callback
        <5> QED
          BY <5>1, <5>2, LenProperties
      <4>3. e < callbacks[j + 1].event
        BY <1>3, <1>5, <2>0, <2>5, <4>1, <4>2 DEF NoGap
      <4> QED
        BY <1>2, <2>2, <3>3, <4>1, <4>3
    <3>6. ASSUME NEW x \in start[w] + (Len(Got(w)) + 1) + 1 .. published
          PROVE  \E j \in PendingFor(w)' : callbacks'[j].event = x
      <4>1. x \in start[w] + Len(Got(w)) + 1 .. published /\ x # e
        BY <1>2, <2>2, <3>3
      <4>2. PICK k \in PendingFor(w) : callbacks[k].event = x
        BY <2>3, <4>1
      <4>3. k # 1
        BY <1>5, <4>1, <4>2
      <4> QED
        BY <1>4, <2>0, <4>2, <4>3
    <3>7. {callbacks'[j].event : j \in PendingFor(w)'} = start[w] + Len(Got(w)') + 1 .. published
      BY <3>2, <3>5, <3>6
    <3> QED
      BY <1>1, <2>1, <3>4, <3>7 DEF NoGap
  <2> QED
    BY <2>4, <2>5
<1> QED
  BY <1>1, <1>7, <1>8, <1>10, <1>11 DEF BusIInv, NoGapWithoutDrop, NoGap

LEMMA BusStopsStep ==
    ASSUME BusIInv, BusTypeOK', BusStops
    PROVE  BusIInv'
<1>1. /\ attached' = FALSE /\ subscribers' = {} /\ callbacks' = << >>
      /\ queue' = [w \in Connections |-> << >>]
      /\ conn' = [w \in Connections |-> IF conn[w] = "new" THEN "new" ELSE "closed"]
      /\ published' = published /\ seen' = seen /\ start' = start
  BY DEF BusStops
<1>2. \A w \in Connections : PendingFor(w)' = {}
  BY <1>1, EmptySeq DEF PendingFor
<1>3. SubscribersNeedLoop' /\ StartIsPast' /\ NoGapWithoutDrop'
  BY <1>1, FS_EmptySet DEF BusIInv, SubscribersNeedLoop, StartIsPast, NoGapWithoutDrop
<1>4. NewGetsNothing'
  BY <1>1, <1>2 DEF BusIInv, NewGetsNothing
<1>5. ASSUME NEW w \in Connections PROVE InOrder(w)'
  <2>1. /\ seen[w] \in Seq(Nat) /\ DOMAIN seen[w] = 1 .. Len(seen[w]) /\ Len(seen[w]) \in Nat
        /\ Len(queue[w]) \in Nat /\ Len(Got(w)) = Len(seen[w]) + Len(queue[w])
        /\ DOMAIN Got(w) = 1 .. Len(Got(w))
        /\ \A i \in DOMAIN seen[w] : Got(w)[i] = seen[w][i]
    BY GotTypes DEF BusIInv
  <2>2. Got(w)' = seen[w]
    BY <1>1, <2>1, ConcatEmptySeq DEF Got
  <2>3. \A i \in DOMAIN seen[w] : i \in DOMAIN Got(w)
    <3> DEFINE n == Len(seen[w])
               m == Len(queue[w])
    <3>1. n \in Nat /\ m \in Nat /\ DOMAIN seen[w] = 1 .. n /\ DOMAIN Got(w) = 1 .. n + m
      BY <2>1
    <3> HIDE DEF n, m
    <3> QED
      BY <3>1
  <2> QED
    BY <1>1, <1>2, <2>1, <2>2, <2>3 DEF BusIInv, InOrder
<1> QED
  BY <1>3, <1>4, <1>5 DEF BusIInv

LEMMA BusInvariantStep ==
    ASSUME BusIInv, [BusNext]_busVars
    PROVE  BusIInv'
<1>1. BusTypeOK'
  BY BusTypeStep DEF BusIInv
<1>2. CASE UNCHANGED busVars
  <2>1. /\ attached' = attached /\ subscribers' = subscribers /\ published' = published
        /\ callbacks' = callbacks /\ queue' = queue /\ conn' = conn /\ seen' = seen
        /\ start' = start /\ dropped' = dropped
    BY <1>2 DEF busVars
  <2>2. \A w \in Connections : Got(w)' = Got(w)
    BY <2>1 DEF Got
  <2>3. SubscribersNeedLoop' /\ StartIsPast'
    BY <2>1 DEF BusIInv, SubscribersNeedLoop, StartIsPast
  <2>4. \A w \in Connections : InOrder(w)' /\ PendingFor(w)' = PendingFor(w)
    BY <2>1, <2>2, QuietStep DEF BusIInv
  <2>5. NewGetsNothing'
    BY <2>1, <2>4 DEF BusIInv, NewGetsNothing
  <2>6. NoGapWithoutDrop'
    BY <2>1, <2>2, QuietNoGap
  <2> QED
    BY <1>1, <2>3, <2>4, <2>5, <2>6 DEF BusIInv
<1>3. CASE BusNext
  <2>1. ASSUME NEW w \in Connections, Connect(w) \/ Hello(w) \/ Send(w) \/ Disconnect(w)
        PROVE  BusIInv'
    BY <1>1, <2>1, ConnectStep, HelloStep, SendStep, DisconnectStep
  <2>2. ASSUME AttachLoop \/ SafePut \/ Publish \/ BusStops
        PROVE  BusIInv'
    BY <1>1, <2>2, AttachLoopStep, SafePutStep, PublishStep, BusStopsStep
  <2> QED
    BY <1>3, <2>1, <2>2 DEF BusNext, BusStep
<1> QED
  BY <1>2, <1>3

LEMMA BusInitIInv == BusInit => BusIInv
<1> SUFFICES ASSUME BusInit PROVE BusIInv
  OBVIOUS
<1>1. /\ attached = FALSE /\ subscribers = {} /\ published = 0 /\ callbacks = << >>
      /\ queue = [w \in Connections |-> << >>] /\ conn = [w \in Connections |-> "new"]
      /\ seen = [w \in Connections |-> << >>] /\ start = [w \in Connections |-> 0]
      /\ dropped = {}
  BY DEF BusInit
<1>2. << >> \in Seq(Nat) /\ Len(<< >>) = 0 /\ << >> \in Seq(Callback)
  BY EmptySeq
<1>3. BusTypeOK
  <2>1. /\ queue \in [Connections -> Seq(Nat)] /\ seen \in [Connections -> Seq(Nat)]
        /\ \A w \in Connections : Len(queue[w]) <= QueueSize
    BY <1>1, <1>2, BusBounds
  <2>2. conn \in [Connections -> ConnState] /\ start \in [Connections -> Nat]
    BY <1>1 DEF ConnState
  <2>3. published \in 0 .. MaxPublished
    BY <1>1, BusBounds
  <2> QED
    BY <1>1, <1>2, <2>1, <2>2, <2>3 DEF BusTypeOK, Callback
<1>4. \A w \in Connections : PendingFor(w) = {} /\ Got(w) = << >>
  BY <1>1, <1>2, ConcatEmptySeq, EmptySeq DEF PendingFor, Got
<1>5. \A w \in Connections : InOrder(w)
  <2>1. DOMAIN << >> = {}
    OBVIOUS
  <2> QED
    BY <1>4, <2>1 DEF InOrder
<1>6. SubscribersNeedLoop /\ NewGetsNothing /\ StartIsPast /\ NoGapWithoutDrop
  BY <1>1, <1>4, FS_EmptySet DEF SubscribersNeedLoop, NewGetsNothing, StartIsPast, NoGapWithoutDrop
<1> QED
  BY <1>3, <1>5, <1>6 DEF BusIInv

-----------------------------------------------------------------------------
(* The abstract feed. *)

LEMMA FeedInitStep == BusInit => Feed!FeedInit
BY DEF BusInit, Feed!FeedInit

\* The event a connection is sent comes after the last it was sent.
LEMMA SendDelivers ==
    ASSUME BusIInv, NEW w \in Connections, Send(w)
    PROVE  Feed!Deliver(w)
<1> DEFINE n == Len(seen[w])
           e == Head(queue[w])
<1>1. BusTypeOK /\ InOrder(w) /\ published \in Nat
  BY CallbackTypes DEF BusIInv
<1>2. /\ queue[w] # << >> /\ seen' = [seen EXCEPT ![w] = Append(seen[w], e)]
      /\ queue' = [queue EXCEPT ![w] = Tail(queue[w])] /\ published' = published
  BY DEF Send
<1>3. seen \in [Connections -> Seq(Nat)] /\ queue \in [Connections -> Seq(Nat)]
  BY <1>1 DEF BusTypeOK
<1>4. e = Got(w)[n + 1] /\ n + 1 \in DOMAIN Got(w)
  BY <1>1, <1>2, <1>3, GotSend
<1>5. /\ seen[w] \in Seq(Nat) /\ n \in Nat /\ DOMAIN seen[w] = 1 .. n
      /\ DOMAIN Got(w) = 1 .. Len(Got(w)) /\ Len(Got(w)) \in Nat
      /\ \A i \in DOMAIN seen[w] : Got(w)[i] = seen[w][i]
      /\ \A i \in DOMAIN Got(w) : Got(w)[i] \in Nat
  BY <1>1, GotTypes
<1> HIDE DEF n, e
<1>6. e \in 1 .. published
  BY <1>1, <1>4 DEF InOrder
<1>7. seen[w] # << >> => seen[w][n] < e /\ seen[w][n] \in Nat
  <2> HAVE seen[w] # << >>
  <2>1. n # 0
    BY <1>5, EmptySeq DEF n
  <2>2. n \in 1 .. n /\ n < n + 1
    BY <1>5, <2>1
  <2>3. n \in DOMAIN Got(w)
    BY <1>4, <1>5, <2>2
  <2>4. Got(w)[n] < Got(w)[n + 1]
    BY <1>1, <1>4, <2>2, <2>3 DEF InOrder
  <2> QED
    BY <1>4, <1>5, <2>2, <2>3, <2>4
<1>8. e \in Feed!LastSeen(w) + 1 .. published
  <2>1. CASE seen[w] = << >>
    BY <1>6, <2>1 DEF Feed!LastSeen
  <2>2. CASE seen[w] # << >>
    <3>1. Feed!LastSeen(w) = seen[w][n]
      BY <2>2 DEF Feed!LastSeen, n
    <3> QED
      BY <1>1, <1>6, <1>7, <2>2, <3>1
  <2> QED
    BY <2>1, <2>2
<1> QED
  BY <1>2, <1>8 DEF Feed!Deliver

\* Every step of the bus is a step of the feed, or leaves the feed as it is.
LEMMA FeedStep ==
    ASSUME BusIInv, [BusNext]_busVars
    PROVE  [Feed!FeedNext]_<<published, seen>>
<1>1. ASSUME NEW w \in Connections, Send(w)
      PROVE  [Feed!FeedNext]_<<published, seen>>
  BY <1>1, SendDelivers DEF Feed!FeedNext
<1>2. ASSUME Publish
      PROVE  [Feed!FeedNext]_<<published, seen>>
  BY <1>2 DEF Publish, Feed!FeedNext, Feed!PublishOne
<1>3. ASSUME NEW w \in Connections, Connect(w) \/ Hello(w) \/ Disconnect(w)
      PROVE  UNCHANGED <<published, seen>>
  BY <1>3 DEF Connect, Hello, Disconnect
<1>4. ASSUME AttachLoop \/ SafePut \/ BusStops
      PROVE  UNCHANGED <<published, seen>>
  BY <1>4 DEF AttachLoop, SafePut, BusStops
<1>5. ASSUME UNCHANGED busVars
      PROVE  UNCHANGED <<published, seen>>
  BY <1>5 DEF busVars
<1> QED
  BY <1>1, <1>2, <1>3, <1>4, <1>5 DEF BusNext, BusStep

-----------------------------------------------------------------------------
(* The log and the bus together. *)

\* The bus has published as many events as calls of append have returned.
PublishedIsAcked == published = Len(acked)

StreamIInv == AuditIInv /\ BusIInv /\ PublishedIsAcked

-----------------------------------------------------------------------------
(* The two halves of a step. *)

LEMMA StreamIsAuditStep ==
    ASSUME [StreamNext]_streamVars
    PROVE  [AuditNext]_auditVars
BY Zenon DEF StreamNext, Appended, AuditNext, streamVars

LEMMA StreamIsBusStep ==
    ASSUME [StreamNext]_streamVars
    PROVE  [BusNext]_busVars
BY Zenon DEF StreamNext, Appended, BusNext, streamVars

\* What is published and what is acknowledged grow together, by one.
LEMMA StreamCounts ==
    ASSUME [StreamNext]_streamVars, AuditTypeOK, PublishedIsAcked
    PROVE  PublishedIsAcked'
<1>1. acked \in Seq(Nat)
  BY DEF AuditTypeOK, Event
<1>2. CASE Appended
  <2>1. published' = published + 1
    BY <1>2 DEF Appended, Publish
  <2>2. \E e \in Nat : acked' = Append(acked, e)
    BY <1>2, AuditBounds DEF Appended, AppendReturns, AuditTypeOK
  <2>3. Len(acked') = Len(acked) + 1
    BY <1>1, <2>2, AppendProperties
  <2> QED
    BY <2>1, <2>3 DEF PublishedIsAcked
<1>3. ASSUME acked' = acked, published' = published
      PROVE  PublishedIsAcked'
  BY <1>3 DEF PublishedIsAcked
<1>4. CASE (AppendWrites \/ AppendBegins \/ AppendEnds \/ AppendFails \/ Tamper) /\ UNCHANGED busVars
  BY <1>3, <1>4 DEF AppendWrites, AppendBegins, AppendEnds, AppendFails, Tamper, busVars
<1>5. CASE Restart /\ BusStops
  BY <1>3, <1>5 DEF Restart, BusStops
<1>6. CASE BusStep /\ UNCHANGED auditVars
  BY <1>3, <1>6 DEF BusStep, AttachLoop, SafePut, Connect, Hello, Send, Disconnect, auditVars
<1>7. CASE UNCHANGED streamVars
  BY <1>3, <1>7 DEF streamVars, auditVars, busVars
<1> QED
  BY <1>2, <1>4, <1>5, <1>6, <1>7, Zenon DEF StreamNext

LEMMA StreamInvariantStep ==
    ASSUME StreamIInv, [StreamNext]_streamVars
    PROVE  StreamIInv'
<1>1. AuditIInv'
  BY StreamIsAuditStep, AuditStep DEF StreamIInv
<1>2. BusIInv'
  BY StreamIsBusStep, BusInvariantStep DEF StreamIInv
<1>3. PublishedIsAcked'
  BY StreamCounts DEF StreamIInv, AuditIInv
<1> QED
  BY <1>1, <1>2, <1>3 DEF StreamIInv

LEMMA StreamInitIInv == StreamInit => StreamIInv
<1> SUFFICES ASSUME StreamInit PROVE StreamIInv
  OBVIOUS
<1>1. AuditIInv /\ BusIInv
  BY AuditInitIInv, BusInitIInv DEF StreamInit
<1>2. PublishedIsAcked
  BY DEF StreamInit, AuditInit, BusInit, PublishedIsAcked
<1> QED
  BY <1>1, <1>2 DEF StreamIInv

\* The invariant of the log, the bus and their composition: appends that fail,
\* tear, take two writes or never return though their entry is on the disk,
\* restarts, a change from outside and every order of the event loop's
\* callbacks keep it.
THEOREM StreamInvariant == StreamSpec => []StreamIInv
<1>1. StreamInit => StreamIInv
  BY StreamInitIInv
<1>2. StreamIInv /\ [StreamNext]_streamVars => StreamIInv'
  BY StreamInvariantStep
<1> QED
  BY <1>1, <1>2, PTL DEF StreamSpec

-----------------------------------------------------------------------------
(* The properties of the log, of the bus and of the two. *)

\* Log and bus keep their shape; no connection's queue outgrows its bound.
THEOREM StreamTypeCorrect == StreamSpec => []StreamTypeOK
<1>1. StreamIInv => StreamTypeOK
  BY DEF StreamIInv, AuditIInv, BusIInv, StreamTypeOK
<1> QED
  BY <1>1, StreamInvariant, PTL

\* A log no write tore and nobody changed verifies, whatever was appended,
\* failed or restarted, unless a write of two parts is between them.
THEOREM UntouchedLogsVerify == StreamSpec => []UntouchedLogVerifies
<1>1. StreamIInv => UntouchedLogVerifies
  BY UntouchedFromIInv DEF StreamIInv
<1> QED
  BY <1>1, StreamInvariant, PTL

\* When verify says "valid", the lines are in the order of the calls of append
\* and every acknowledged event is in one of them.
THEOREM ValidLogsAreComplete == StreamSpec => []ValidLogIsComplete
<1>1. StreamIInv => ValidLogIsComplete
  BY CompleteFromIInv DEF StreamIInv
<1> QED
  BY <1>1, StreamInvariant, PTL

\* An edited entry or a removed line is never again called "valid".
THEOREM TamperingIsAlwaysDetected == StreamSpec => []TamperingIsDetected
<1>1. StreamIInv => TamperingIsDetected
  BY DetectedFromIInv DEF StreamIInv
<1> QED
  BY <1>1, StreamInvariant, PTL

\* A connection whose queue was never full has got every event since it
\* subscribed, without a gap, and the rest is scheduled for it in order.
THEOREM GapsMeanDrops == StreamSpec => []NoGapWithoutDrop
<1>1. StreamIInv => NoGapWithoutDrop
  BY DEF StreamIInv, BusIInv
<1> QED
  BY <1>1, StreamInvariant, PTL

\* What a connection was sent is published, hence acknowledged, hence in a log
\* that verifies; and it was sent, hence acknowledged, in order.
LEMMA LoggedFromIInv ==
    ASSUME StreamIInv
    PROVE  StreamedEventsAreLogged
<1>1. /\ AuditTypeOK /\ BusTypeOK /\ ValidLogIsComplete /\ PublishedIsAcked /\ AckedInOrder
      /\ \A w \in Connections : InOrder(w)
  BY CompleteFromIInv DEF StreamIInv, AuditIInv, BusIInv
<1>2. Len(acked) \in Nat /\ DOMAIN acked = 1 .. Len(acked)
  BY <1>1, LenProperties DEF AuditTypeOK
<1> SUFFICES ASSUME NEW w \in Connections, NEW i \in DOMAIN seen[w]
             PROVE  /\ seen[w][i] \in DOMAIN acked
                    /\ \A j \in 1 .. i - 1 : acked[seen[w][j]] < acked[seen[w][i]]
                    /\ Verify(file) = "valid" /\ changed = NoLine =>
                           \E l \in DOMAIN file : file[l].event = acked[seen[w][i]]
  BY DEF StreamedEventsAreLogged
<1>3. /\ DOMAIN seen[w] = 1 .. Len(seen[w]) /\ Len(seen[w]) \in Nat
      /\ \A j \in DOMAIN seen[w] : j \in DOMAIN Got(w) /\ Got(w)[j] = seen[w][j]
  <2>1. /\ Len(seen[w]) \in Nat /\ DOMAIN seen[w] = 1 .. Len(seen[w])
        /\ Len(queue[w]) \in Nat /\ DOMAIN Got(w) = 1 .. Len(Got(w))
        /\ Len(Got(w)) = Len(seen[w]) + Len(queue[w])
        /\ \A j \in DOMAIN seen[w] : Got(w)[j] = seen[w][j]
    BY <1>1, GotTypes
  <2>2. PICK n, m : n = Len(seen[w]) /\ m = Len(queue[w])
    OBVIOUS
  <2>3. n \in Nat /\ m \in Nat /\ DOMAIN seen[w] = 1 .. n /\ DOMAIN Got(w) = 1 .. n + m
    BY <2>1, <2>2
  <2>4. \A j \in 1 .. n : j \in 1 .. n + m
    BY <2>3
  <2> QED
    BY <2>1, <2>3, <2>4
<1>4. \A j \in DOMAIN seen[w] : seen[w][j] \in DOMAIN acked
  BY <1>1, <1>2, <1>3 DEF InOrder, PublishedIsAcked
<1>5. ASSUME NEW j \in 1 .. i - 1
      PROVE  acked[seen[w][j]] < acked[seen[w][i]]
  <2>1. j \in DOMAIN seen[w] /\ j < i
    BY <1>3
  <2>2. seen[w][j] < seen[w][i]
    <3>1. Got(w)[j] < Got(w)[i]
      BY <1>1, <1>3, <2>1 DEF InOrder
    <3> QED
      BY <1>3, <2>1, <3>1
  <2> QED
    BY <1>1, <1>4, <2>1, <2>2 DEF AckedInOrder
<1>6. ASSUME Verify(file) = "valid", changed = NoLine
      PROVE  \E l \in DOMAIN file : file[l].event = acked[seen[w][i]]
  BY <1>1, <1>4, <1>6 DEF ValidLogIsComplete
<1> QED
  BY <1>4, <1>5, <1>6

\* The dashboard never shows an event a log that verifies does not have, nor
\* events in another order than that of the calls of append.
THEOREM StreamedEventsAreInTheLog == StreamSpec => []StreamedEventsAreLogged
<1>1. StreamIInv => StreamedEventsAreLogged
  BY LoggedFromIInv
<1> QED
  BY <1>1, StreamInvariant, PTL

\* The bus and the websocket handler implement the abstract feed: every step
\* publishes one event, delivers one later than the last, or changes neither.
THEOREM StreamRefinesFeed == StreamSpec => FeedRefined
<1>1. StreamInit => Feed!FeedInit
  BY FeedInitStep DEF StreamInit
<1>2. StreamIInv /\ [StreamNext]_streamVars => [Feed!FeedNext]_<<published, seen>>
  BY StreamIsBusStep, FeedStep DEF StreamIInv
<1> QED
  BY <1>1, <1>2, StreamInvariant, PTL DEF StreamSpec, FeedRefined, Feed!FeedSpec
=============================================================================
