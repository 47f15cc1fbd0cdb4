--------------------------- MODULE CampaignsProofs ---------------------------
(***************************************************************************)
(* What Campaigns promises, for any number of client threads, scenarios,     *)
(* repeats, requests and runs.                                              *)
(***************************************************************************)
EXTENDS Campaigns, FiniteSetTheorems, SequenceTheorems, TLAPS

Label == {"tick", "requeue", "postpone", "start", "extend", "running", "count",
          "decrement", "insert", "paused", "resumed", "retry", "add", "save",
          "same", "summary", "close"}

\* The lines a thread may have before it.  Those that end what a check began
\* are the very next ones: no thread finds them behind another line.
Todo == {s \in Seq(Label) : \A i \in DOMAIN s : s[i] \in {"decrement", "close"} => i = 1}

Decrementing == {t \in Threads : At(t, "decrement")}

CampShape ==
    /\ camp \in [status : CampaignStatus, at : When, repeat : Int, names : Nat,
                 runIds : Seq(DOMAIN runs)]
    /\ runs \in Seq(RunState)
    /\ mine \in [Threads -> Seq(DOMAIN runs)] /\ scan \in [Threads -> Seq(DOMAIN runs)]
    /\ verdict \in [Threads -> CampaignStatus]
    /\ todo \in [Threads -> Todo]

\* Before the one POST that makes the campaign nothing is at work on it; a
\* status about to be recorded is one; each decrement not yet made was decided
\* on when a repeat was left.
CampControl ==
    /\ camp.status = "none" =>
          camp.runIds = << >> /\ row = NoRow /\ \A t \in Threads : todo[t] = << >>
    /\ \A t \in Threads : At(t, "close") => verdict[t] # "none"
    /\ camp.repeat <= MaxRepeat
    /\ Cardinality(Decrementing) - Cardinality(Threads) <= camp.repeat

\* Every run is in one place, once: in the campaign's list or in that of the
\* thread that started it.
CampAccounts ==
    /\ \A r \in DOMAIN runs : \/ r \in Range(camp.runIds)
                              \/ \E t \in Threads : r \in Range(mine[t])
    /\ \A t \in Threads : Range(camp.runIds) \cap Range(mine[t]) = {}
    /\ \A t, u \in Threads : t # u => Range(mine[t]) \cap Range(mine[u]) = {}
    /\ IsInjective(camp.runIds) /\ \A t \in Threads : IsInjective(mine[t])

RowOK ==
    \/ row = NoRow
    \/ row \in Seq(DOMAIN runs) /\ IsPrefix(row, camp.runIds)

CampIInv == CampShape /\ CampControl /\ CampAccounts /\ RowOK

-----------------------------------------------------------------------------
(* Lines of work. *)

\* Work that ends nothing that a check began.
Fresh == {s \in Seq(Label) : \A i \in DOMAIN s : s[i] \notin {"decrement", "close"}}

\* The lines that requests and checks put before a thread.
LEMMA WorkIsTodo ==
    /\ Fresh \subseteq Todo
    /\ << >> \in Fresh /\ \A l \in Label : << l >> \in Todo
    /\ << "running" >> \in Fresh /\ << "insert" >> \in Fresh /\ << "tick" >> \in Fresh
    /\ << "same" >> \in Fresh
    /\ << "tick", "summary" >> \in Fresh /\ << "requeue", "postpone" >> \in Fresh
    /\ << "paused", "summary" >> \in Fresh /\ << "resumed", "summary" >> \in Fresh
    /\ << "retry", "add", "save", "summary" >> \in Fresh
    /\ Launch \in Fresh /\ Launch \o << "insert" >> \in Fresh
<1>1. << >> \in Fresh /\ \A l \in Label : << l >> \in Todo
  BY DEF Todo, Fresh
<1>2. /\ << "running" >> \in Fresh /\ << "insert" >> \in Fresh /\ << "tick" >> \in Fresh
      /\ << "same" >> \in Fresh
      /\ << "tick", "summary" >> \in Fresh /\ << "requeue", "postpone" >> \in Fresh
      /\ << "paused", "summary" >> \in Fresh /\ << "resumed", "summary" >> \in Fresh
  BY DEF Fresh, Label
<1>3. << "retry", "add", "save", "summary" >> \in Fresh /\ Launch \in Fresh
  BY DEF Fresh, Label, Launch
<1>4. ASSUME NEW s \in Fresh, NEW r \in Fresh PROVE s \o r \in Fresh
  <2>1. s \in Seq(Label) /\ r \in Seq(Label)
    BY DEF Fresh
  <2>2. /\ s \o r \in Seq(Label) /\ Len(s \o r) = Len(s) + Len(r)
        /\ \A i \in 1 .. Len(s) + Len(r) :
              (s \o r)[i] = IF i <= Len(s) THEN s[i] ELSE r[i - Len(s)]
    BY <2>1, ConcatProperties
  <2>3. Len(s) \in Nat /\ Len(r) \in Nat /\ DOMAIN s = 1 .. Len(s) /\ DOMAIN r = 1 .. Len(r)
        /\ DOMAIN (s \o r) = 1 .. Len(s) + Len(r)
    BY <2>1, <2>2, LenProperties
  <2>4. ASSUME NEW i \in DOMAIN (s \o r) PROVE (s \o r)[i] \notin {"decrement", "close"}
    <3>1. CASE i <= Len(s)
      BY <2>2, <2>3, <3>1 DEF Fresh
    <3>2. CASE ~(i <= Len(s))
      <4>1. i - Len(s) \in DOMAIN r /\ (s \o r)[i] = r[i - Len(s)]
        BY <2>2, <2>3, <3>2
      <4> QED
        BY <4>1 DEF Fresh
    <3> QED
      BY <3>1, <3>2
  <2> QED
    BY <2>2, <2>4 DEF Fresh
<1>5. Fresh \subseteq Todo
  BY DEF Fresh, Todo
<1> QED
  BY <1>1, <1>2, <1>3, <1>4, <1>5

\* A thread that goes on with labels has them before it, then the rest: only
\* labels can put a decrement or the recording of a status next.
LEMMA Continuing ==
    ASSUME todo \in [Threads -> Todo], NEW t \in Threads, NEW labels \in Todo,
           todo[t] # << >>, Continue(t, labels)
    PROVE  /\ todo' \in [Threads -> Todo]
           /\ \A u \in Threads : u # t => todo'[u] = todo[u]
           /\ \A l \in {"decrement", "close"} :
                 todo'[t] # << >> /\ Head(todo'[t]) = l <=> labels # << >> /\ Head(labels) = l
<1> DEFINE s == todo[t]
           n == Len(labels)
           rest == Tail(s)
           all == labels \o rest
<1>1. s \in Seq(Label) /\ labels \in Seq(Label) /\ s # << >>
  BY DEF Todo
<1>2. todo' = [todo EXCEPT ![t] = all]
  BY DEF Continue
<1>3. /\ rest \in Seq(Label) /\ Len(rest) = Len(s) - 1
      /\ \A i \in 1 .. Len(rest) : rest[i] = s[i + 1]
  BY <1>1, HeadTailProperties
<1>4. \A i \in 1 .. Len(rest) : rest[i] \notin {"decrement", "close"}
  <2> SUFFICES ASSUME NEW i \in 1 .. Len(rest) PROVE rest[i] \notin {"decrement", "close"}
    OBVIOUS
  <2>1. i + 1 \in DOMAIN s /\ i + 1 # 1
    BY <1>1, <1>3, LenProperties
  <2>2. s[i + 1] \notin {"decrement", "close"}
    BY <2>1 DEF Todo
  <2> QED
    BY <1>3, <2>2
<1> HIDE DEF rest
<1>5. /\ all \in Seq(Label) /\ Len(all) = n + Len(rest)
      /\ \A i \in 1 .. n + Len(rest) : all[i] = IF i <= n THEN labels[i] ELSE rest[i - n]
  BY <1>1, <1>3, ConcatProperties
<1>6. n \in Nat /\ Len(rest) \in Nat /\ DOMAIN labels = 1 .. n /\ DOMAIN all = 1 .. n + Len(rest)
  BY <1>1, <1>3, <1>5, LenProperties
<1> HIDE DEF all, n
<1>7. all \in Todo
  <2> SUFFICES ASSUME NEW i \in DOMAIN all, all[i] \in {"decrement", "close"} PROVE i = 1
    BY <1>5 DEF Todo
  <2>1. CASE i <= n
    <3>1. i \in DOMAIN labels /\ labels[i] \in {"decrement", "close"}
      BY <1>5, <1>6, <2>1
    <3> QED
      BY <3>1 DEF Todo
  <2>2. CASE ~(i <= n)
    <3>1. i - n \in 1 .. Len(rest) /\ rest[i - n] = all[i]
      BY <1>5, <1>6, <2>2
    <3> QED
      BY <1>4, <3>1
  <2> QED
    BY <2>1, <2>2
<1>8. ASSUME NEW l \in {"decrement", "close"}
      PROVE  all # << >> /\ Head(all) = l <=> labels # << >> /\ Head(labels) = l
  <2>1. all # << >> <=> n + Len(rest) # 0
    BY <1>5, <1>6, EmptySeq
  <2>2. labels # << >> <=> n # 0
    BY <1>1, EmptySeq DEF n
  <2>3. CASE n # 0
    <3>1. Head(labels) = labels[1] /\ Head(all) = all[1] /\ all[1] = labels[1]
      BY <1>1, <1>5, <1>6, <2>1, <2>2, <2>3
    <3> QED
      BY <1>6, <2>1, <2>2, <2>3, <3>1
  <2>4. CASE n = 0 /\ Len(rest) # 0
    <3>1. Head(all) = all[1] /\ all[1] = rest[1] /\ 1 \in 1 .. Len(rest)
      BY <1>5, <1>6, <2>1, <2>4
    <3> QED
      BY <1>4, <2>2, <2>4, <3>1
  <2>5. CASE n = 0 /\ Len(rest) = 0
    BY <2>1, <2>2, <2>5
  <2> QED
    BY <1>6, <2>3, <2>4, <2>5
<1> QED
  BY <1>2, <1>7, <1>8

\* A step after which the same threads are about to decrement and to record.
Kept ==
    /\ todo' \in [Threads -> Todo]
    /\ \A u \in Threads : /\ At(u, "decrement")' <=> At(u, "decrement")
                          /\ At(u, "close")' <=> At(u, "close")

LEMMA NotAtWork ==
    ASSUME NEW labels \in Fresh
    PROVE  ~(labels # << >> /\ Head(labels) \in {"decrement", "close"})
<1> SUFFICES ASSUME labels # << >> PROVE Head(labels) \notin {"decrement", "close"}
  OBVIOUS
<1>1. labels \in Seq(Label)
  BY DEF Fresh
<1>2. 1 \in DOMAIN labels /\ Head(labels) = labels[1]
  BY <1>1, LenProperties, EmptySeq
<1> QED
  BY <1>2 DEF Fresh

LEMMA RequestKeeps ==
    ASSUME todo \in [Threads -> Todo], NEW t \in Threads, NEW labels \in Fresh,
           todo[t] = << >>, todo' = [todo EXCEPT ![t] = labels]
    PROVE  Kept
<1>1. labels \in Todo
  BY WorkIsTodo
<1>2. todo' \in [Threads -> Todo]
  BY <1>1
<1>3. todo'[t] = labels /\ \A u \in Threads : u # t => todo'[u] = todo[u]
  OBVIOUS
<1> QED
  BY <1>2, <1>3, NotAtWork DEF Kept, At

LEMMA ContinueKeeps ==
    ASSUME todo \in [Threads -> Todo], NEW t \in Threads, NEW labels \in Fresh,
           NEW l, At(t, l), l \notin {"decrement", "close"}, Continue(t, labels)
    PROVE  Kept
<1>1. labels \in Todo
  BY WorkIsTodo
<1>2. /\ todo' \in [Threads -> Todo]
      /\ \A u \in Threads : u # t => todo'[u] = todo[u]
      /\ \A k \in {"decrement", "close"} :
            todo'[t] # << >> /\ Head(todo'[t]) = k <=> labels # << >> /\ Head(labels) = k
  BY <1>1, Continuing DEF At
<1> QED
  BY <1>2, NotAtWork DEF Kept, At

LEMMA RequestSteps ==
    ASSUME todo \in [Threads -> Todo]
    PROVE  /\ \A c \in Clients :
                 RunCampaign(c) \/ GetCampaign(c) \/ ReportCampaign(c)
                 \/ PauseCampaign(c) \/ ResumeCampaign(c) \/ RetryFailedCampaign(c) => Kept
           /\ WakeUp => Kept
<1>1. ASSUME NEW c \in Clients, NEW labels \in Fresh, Request(c, labels) PROVE Kept
  BY <1>1, RequestKeeps DEF Request, Threads
<1>2. ASSUME NEW c \in Clients, RunCampaign(c) PROVE Kept
  <2>1. \E labels \in Fresh : Request(c, labels)
    BY <1>2, WorkIsTodo DEF RunCampaign
  <2> QED
    BY <1>1, <2>1
<1>3. ASSUME NEW c \in Clients, GetCampaign(c) PROVE Kept
  BY <1>1, <1>3, WorkIsTodo DEF GetCampaign
<1>8. ASSUME NEW c \in Clients, ReportCampaign(c) PROVE Kept
  <2>1. << "summary" >> \in Fresh
    BY DEF Fresh, Label
  <2> QED
    BY <1>1, <1>8, <2>1 DEF ReportCampaign
<1>4. ASSUME NEW c \in Clients, PauseCampaign(c) PROVE Kept
  BY <1>1, <1>4, WorkIsTodo DEF PauseCampaign
<1>5. ASSUME NEW c \in Clients, ResumeCampaign(c) PROVE Kept
  BY <1>1, <1>5, WorkIsTodo DEF ResumeCampaign
<1>6. ASSUME NEW c \in Clients, RetryFailedCampaign(c) PROVE Kept
  BY <1>1, <1>6, WorkIsTodo DEF RetryFailedCampaign
<1>7. ASSUME WakeUp PROVE Kept
  <2>1. Scheduler \in Threads /\ << "tick" >> \in Fresh
    BY WorkIsTodo DEF Threads
  <2> QED
    BY <1>7, <2>1, RequestKeeps DEF WakeUp
<1> QED
  BY <1>2, <1>3, <1>4, <1>5, <1>6, <1>7, <1>8

\* The lines that neither make nor end such a decision.
QuietStep(t) ==
    \/ Tick(t) \/ Requeue(t) \/ Postpone(t) \/ StartRuns(t) \/ RetryRuns(t) \/ Extend(t)
    \/ MarkRunning(t) \/ MarkPaused(t) \/ MarkResumed(t) \/ SaveRetried(t)

LEMMA QuietSteps ==
    ASSUME todo \in [Threads -> Todo], NEW t \in Threads, QuietStep(t) PROVE Kept
<1>1. ASSUME NEW l, At(t, l), l \notin {"decrement", "close"},
             UNCHANGED todo \/ \E labels \in Fresh : Continue(t, labels)
      PROVE  Kept
  <2>1. CASE UNCHANGED todo
    BY <2>1 DEF Kept, At
  <2>2. CASE \E labels \in Fresh : Continue(t, labels)
    BY <1>1, <2>2, ContinueKeeps
  <2> QED
    BY <1>1, <2>1, <2>2
<1> DEFINE Goes == UNCHANGED todo \/ \E labels \in Fresh : Continue(t, labels)
<1>2. CASE Tick(t)
  BY <1>1, <1>2, WorkIsTodo DEF Tick
<1>3. CASE Requeue(t)
  BY <1>1, <1>3, WorkIsTodo DEF Requeue
<1>4. CASE Postpone(t)
  BY <1>1, <1>4, WorkIsTodo DEF Postpone
<1>5. CASE StartRuns(t)
  <2>1. At(t, "start") /\ Goes
    BY <1>5, WorkIsTodo DEF StartRuns
  <2> QED
    BY <1>1, <2>1
<1>6. CASE RetryRuns(t)
  <2>1. At(t, "retry") /\ Goes
    BY <1>6, WorkIsTodo DEF RetryRuns
  <2> QED
    BY <1>1, <2>1
<1>7. CASE Extend(t)
  <2>1. At(t, "extend") \/ At(t, "add")
    BY <1>7 DEF Extend
  <2>2. AfterExtend(t) \in Fresh
    BY <2>1, WorkIsTodo DEF AfterExtend, At
  <2>3. Goes
    BY <1>7, <2>2 DEF Extend
  <2> QED
    BY <1>1, <2>1, <2>3
<1>8. CASE MarkRunning(t)
  BY <1>1, <1>8, WorkIsTodo DEF MarkRunning
<1>9. CASE MarkPaused(t)
  BY <1>1, <1>9, WorkIsTodo DEF MarkPaused
<1>10. CASE MarkResumed(t)
  BY <1>1, <1>10, WorkIsTodo DEF MarkResumed
<1>11. CASE SaveRetried(t)
  BY <1>1, <1>11, WorkIsTodo DEF SaveRetried
<1> QED
  BY <1>2, <1>3, <1>4, <1>5, <1>6, <1>7, <1>8, <1>9, <1>10, <1>11 DEF QuietStep

-----------------------------------------------------------------------------
(* The campaign, the runs and what the threads hold. *)

Camp(ids) == [status : CampaignStatus, at : When, repeat : Int, names : Nat,
              runIds : Seq(ids)]

\* What a run is added to has room for it.
LEMMA RunAdded ==
    ASSUME runs \in Seq(RunState), NEW s \in RunState, runs' = Append(runs, s)
    PROVE  /\ runs' \in Seq(RunState) /\ Len(runs') = Len(runs) + 1
           /\ DOMAIN runs' = DOMAIN runs \cup {Len(runs')}
           /\ Len(runs') \notin DOMAIN runs
<1>1. runs' \in Seq(RunState) /\ Len(runs') = Len(runs) + 1
  BY AppendProperties
<1>2. Len(runs) \in Nat /\ DOMAIN runs = 1 .. Len(runs) /\ DOMAIN runs' = 1 .. Len(runs')
  BY <1>1, LenProperties
<1> QED
  BY <1>1, <1>2

LEMMA SeqOfMore ==
    ASSUME NEW S, NEW T, S \subseteq T, NEW s \in Seq(S) PROVE s \in Seq(T)
  BY SeqDef

\* Every run of the planner keeps its id.
LEMMA RunsStep ==
    ASSUME CampShape, CampNext
    PROVE  runs' \in Seq(RunState) /\ DOMAIN runs \subseteq DOMAIN runs'
<1>0. runs \in Seq(RunState) /\ "running" \in RunState
  BY DEF CampShape, RunState
<1>1. CASE runs' = Append(runs, "running")
  BY <1>0, <1>1, RunAdded
<1>2. CASE UNCHANGED runs
  BY <1>0, <1>2
<1>3. ASSUME DOMAIN runs' = DOMAIN runs, runs' \in [DOMAIN runs -> RunState]
      PROVE  runs' \in Seq(RunState) /\ DOMAIN runs \subseteq DOMAIN runs'
  <2>1. DOMAIN runs = 1 .. Len(runs) /\ Len(runs) \in Nat
    BY <1>0, LenProperties
  <2> QED
    BY <1>3, <2>1, SeqDef
<1>4. \A r \in DOMAIN runs : runs[r] \in RunState
  BY <1>0, LenProperties, ElementOfSeq
<1>5. ASSUME NEW t \in Threads, Run(t) PROVE UNCHANGED runs \/ runs' = Append(runs, "running")
  BY <1>5 DEF Run, Tick, Requeue, Postpone, StartRuns, RetryRuns, Extend, KeepStatus, MarkRunning,
              CountRepeat, DecrementRepeat, MarkPaused, MarkResumed, SaveRetried, Summarise,
              CloseCampaign
<1>6. ASSUME NEW c \in Clients, \/ RunCampaign(c) \/ GetCampaign(c) \/ ReportCampaign(c)
                                \/ RetryFailedCampaign(c)
      PROVE  UNCHANGED runs
  BY <1>6 DEF RunCampaign, GetCampaign, ReportCampaign, RetryFailedCampaign
<1>7. ASSUME NEW c \in Clients, PauseCampaign(c) \/ ResumeCampaign(c)
      PROVE  DOMAIN runs' = DOMAIN runs /\ runs' \in [DOMAIN runs -> RunState]
  BY <1>4, <1>7 DEF PauseCampaign, ResumeCampaign, RunState
<1>8. ASSUME WakeUp \/ TimePasses PROVE UNCHANGED runs
  BY <1>8 DEF WakeUp, TimePasses
<1>9. ASSUME NEW r \in DOMAIN runs, RunMoves(r)
      PROVE  DOMAIN runs' = DOMAIN runs /\ runs' \in [DOMAIN runs -> RunState]
  <2>1. \E s \in RunState : runs' = [runs EXCEPT ![r] = s]
    BY <1>9 DEF RunMoves, RunState
  <2>2. runs = [k \in DOMAIN runs |-> runs[k]]
    BY <1>0, LenProperties, SeqDef
  <2> QED
    BY <1>4, <2>1, <2>2
<1> QED
  BY <1>1, <1>2, <1>3, <1>5, <1>6, <1>7, <1>8, <1>9 DEF CampNext

\* How a step changes the list of runs and those that threads hold: a run is
\* started, a thread's runs join the list, or neither.
Starts(t) ==
    /\ runs' = Append(runs, "running")
    /\ mine' = [mine EXCEPT ![t] = Append(@, Len(runs'))]
    /\ camp'.runIds = camp.runIds

Joins(t) ==
    /\ DOMAIN runs' = DOMAIN runs
    /\ camp'.runIds = camp.runIds \o mine[t]
    /\ mine' = [mine EXCEPT ![t] = << >>]

Holds ==
    /\ DOMAIN runs' = DOMAIN runs
    /\ camp'.runIds = camp.runIds
    /\ mine' = mine

LEMMA AccountsStep ==
    ASSUME CampShape, CampControl, CampNext
    PROVE  Holds \/ \E t \in Threads : Starts(t) \/ Joins(t)
<1>0. camp \in Camp(DOMAIN runs)
  BY DEF CampShape, Camp
<1>1. ASSUME NEW t \in Threads, Run(t) PROVE Holds \/ Starts(t) \/ Joins(t)
  <2>1. CASE StartRuns(t)
    BY <2>1 DEF StartRuns, Starts, Holds
  <2>2. CASE RetryRuns(t)
    <3>1. camp'.runIds = camp.runIds
      BY <1>0, <2>2 DEF RetryRuns, Camp
    <3> QED
      BY <2>2, <3>1 DEF RetryRuns, Starts, Holds
  <2>3. CASE Extend(t)
    BY <1>0, <2>3 DEF Extend, Joins, Camp
  <2>4. CASE \/ Tick(t) \/ CountRepeat(t) \/ SaveRetried(t) \/ Summarise(t)
             \/ KeepStatus(t)
    BY <2>4 DEF Tick, CountRepeat, SaveRetried, Summarise, KeepStatus, Holds
  <2>5. CASE \/ Requeue(t) \/ Postpone(t) \/ MarkRunning(t) \/ MarkPaused(t)
             \/ MarkResumed(t) \/ DecrementRepeat(t) \/ CloseCampaign(t)
    BY <1>0, <2>5 DEF Requeue, Postpone, MarkRunning, MarkPaused, MarkResumed,
                      DecrementRepeat, CloseCampaign, Holds, Camp
  <2> QED
    BY <1>1, <2>1, <2>2, <2>3, <2>4, <2>5 DEF Run
<1>2. ASSUME NEW c \in Clients, RunCampaign(c) PROVE Holds
  BY <1>2 DEF RunCampaign, CampControl, Holds
<1>3. ASSUME NEW c \in Clients, \/ GetCampaign(c) \/ ReportCampaign(c)
                                \/ PauseCampaign(c) \/ ResumeCampaign(c)
                                \/ RetryFailedCampaign(c)
      PROVE  Holds
  BY <1>3 DEF GetCampaign, ReportCampaign, RetryFailedCampaign, PauseCampaign, ResumeCampaign, Holds
<1>4. CASE WakeUp
  BY <1>4 DEF WakeUp, Holds
<1>5. CASE TimePasses
  BY <1>0, <1>5 DEF TimePasses, Holds, Camp
<1>6. ASSUME NEW r \in DOMAIN runs, RunMoves(r) PROVE Holds
  BY <1>6 DEF RunMoves, Holds
<1> QED
  BY <1>1, <1>2, <1>3, <1>4, <1>5, <1>6 DEF CampNext

LEMMA CampStep ==
    ASSUME CampShape, CampControl, CampNext
    PROVE  camp' \in Camp(DOMAIN runs')
<1>0. camp \in Camp(DOMAIN runs) /\ verdict \in [Threads -> CampaignStatus]
      /\ mine \in [Threads -> Seq(DOMAIN runs)]
  BY DEF CampShape, Camp
<1>1. ASSUME camp' \in Camp(DOMAIN runs) PROVE camp' \in Camp(DOMAIN runs')
  <2>1. DOMAIN runs \subseteq DOMAIN runs'
    BY RunsStep
  <2>2. \A s \in Seq(DOMAIN runs) : s \in Seq(DOMAIN runs')
    BY <2>1, SeqOfMore
  <2> QED
    BY <1>1, <2>2 DEF Camp
<1>2. ASSUME UNCHANGED camp PROVE camp' \in Camp(DOMAIN runs)
  BY <1>0, <1>2
<1>3. ASSUME NEW t \in Threads, Run(t) PROVE camp' \in Camp(DOMAIN runs)
  <2>1. CASE \/ Tick(t) \/ StartRuns(t) \/ CountRepeat(t) \/ SaveRetried(t) \/ Summarise(t)
             \/ KeepStatus(t)
    <3>1. UNCHANGED camp
      BY <2>1 DEF Tick, StartRuns, CountRepeat, SaveRetried, Summarise, KeepStatus
    <3> QED
      BY <1>2, <3>1
  <2>2. CASE RetryRuns(t)
    <3>1. UNCHANGED camp \/ camp' = [camp EXCEPT !.names = @ + 1]
      BY <2>2 DEF RetryRuns
    <3>2. camp.names + 1 \in Nat
      BY <1>0 DEF Camp
    <3> QED
      BY <1>0, <3>1, <3>2 DEF Camp
  <2>3. CASE Extend(t)
    <3>1. camp.runIds \in Seq(DOMAIN runs) /\ mine[t] \in Seq(DOMAIN runs)
      BY <1>0 DEF Camp
    <3>2. camp.runIds \o mine[t] \in Seq(DOMAIN runs)
      BY <3>1, ConcatProperties
    <3>3. camp' = [camp EXCEPT !.runIds = camp.runIds \o mine[t]]
      BY <2>3 DEF Extend
    <3> QED
      BY <1>0, <3>2, <3>3 DEF Camp
  <2>4. CASE \/ Requeue(t) \/ Postpone(t) \/ MarkRunning(t) \/ MarkPaused(t)
             \/ MarkResumed(t)
    BY <1>0, <2>4 DEF Requeue, Postpone, MarkRunning, MarkPaused, MarkResumed, Camp,
                      CampaignStatus, When
  <2>5. CASE DecrementRepeat(t)
    <3>1. camp.repeat - 1 \in Int
      BY <1>0 DEF Camp
    <3>2. PICK n \in Int : camp' = [camp EXCEPT !.repeat = n]
      BY <2>5, <3>1 DEF DecrementRepeat
    <3> QED
      BY <1>0, <3>2 DEF Camp
  <2>6. CASE CloseCampaign(t)
    BY <1>0, <2>6 DEF CloseCampaign, Camp
  <2> QED
    BY <1>3, <2>1, <2>2, <2>3, <2>4, <2>5, <2>6 DEF Run
<1>4. ASSUME NEW c \in Clients, RunCampaign(c) PROVE camp' \in Camp(DOMAIN runs)
  <2>1. PICK at \in {"never", "later"}, n \in 1 .. MaxRepeat :
           camp' = [status |-> IF at = "later" THEN "scheduled" ELSE "running",
                    at |-> at, repeat |-> n, names |-> Size, runIds |-> << >>]
    BY <1>4 DEF RunCampaign
  <2>2. Size \in Nat /\ n \in Int /\ << >> \in Seq(DOMAIN runs)
    BY CampaignBounds, EmptySeq
  <2> QED
    BY <2>1, <2>2 DEF Camp, CampaignStatus, When
<1>5. ASSUME NEW c \in Clients, \/ GetCampaign(c) \/ ReportCampaign(c)
                                \/ PauseCampaign(c) \/ ResumeCampaign(c)
                                \/ RetryFailedCampaign(c)
      PROVE  UNCHANGED camp
  BY <1>5 DEF GetCampaign, ReportCampaign, RetryFailedCampaign, PauseCampaign, ResumeCampaign
<1>6. CASE WakeUp
  BY <1>1, <1>2, <1>6 DEF WakeUp
<1>7. CASE TimePasses
  <2>1. camp' \in Camp(DOMAIN runs)
    BY <1>0, <1>7 DEF TimePasses, Camp, When
  <2> QED
    BY <1>1, <2>1
<1>8. ASSUME NEW r \in DOMAIN runs, RunMoves(r) PROVE UNCHANGED camp
  BY <1>8 DEF RunMoves
<1> QED
  BY <1>1, <1>2, <1>3, <1>4, <1>5, <1>6, <1>7, <1>8 DEF CampNext

LEMMA HandsStep ==
    ASSUME CampShape, CampControl, CampNext
    PROVE  /\ mine' \in [Threads -> Seq(DOMAIN runs')]
           /\ scan' \in [Threads -> Seq(DOMAIN runs')]
           /\ verdict' \in [Threads -> CampaignStatus]
<1> DEFINE D == DOMAIN runs
<1>0. /\ mine \in [Threads -> Seq(D)] /\ scan \in [Threads -> Seq(D)]
      /\ verdict \in [Threads -> CampaignStatus] /\ camp.runIds \in Seq(D)
  BY DEF CampShape
<1>1. DOMAIN runs \subseteq DOMAIN runs' /\ runs \in Seq(RunState)
  BY RunsStep DEF CampShape
<1>2. \A s \in Seq(DOMAIN runs) : s \in Seq(DOMAIN runs')
  BY <1>1, SeqOfMore
<1>3. mine' \in [Threads -> Seq(DOMAIN runs')]
  <2>1. CASE Holds
    BY <1>0, <1>2, <2>1 DEF Holds
  <2>2. ASSUME NEW t \in Threads, Starts(t) PROVE mine' \in [Threads -> Seq(DOMAIN runs')]
    <3>1. Len(runs') \in DOMAIN runs'
      BY <1>1, <2>2, RunAdded DEF Starts, RunState
    <3>2. mine[t] \in Seq(DOMAIN runs')
      BY <1>0, <1>2
    <3>3. Append(mine[t], Len(runs')) \in Seq(DOMAIN runs')
      BY <3>1, <3>2, AppendProperties
    <3>4. mine' = [mine EXCEPT ![t] = Append(mine[t], Len(runs'))]
      BY <2>2 DEF Starts
    <3> QED
      BY <1>0, <1>2, <3>3, <3>4
  <2>3. ASSUME NEW t \in Threads, Joins(t) PROVE mine' \in [Threads -> Seq(DOMAIN runs')]
    BY <1>0, <1>2, <2>3, EmptySeq DEF Joins
  <2> QED
    BY <2>1, <2>2, <2>3, AccountsStep
<1>4. scan' \in [Threads -> Seq(DOMAIN runs')]
  <2>1. ASSUME NEW t \in Threads, Run(t) PROVE scan' \in [Threads -> Seq(DOMAIN runs')]
    <3>1. CASE RetryRuns(t)
      <4>1. UNCHANGED scan \/ (scan[t] # << >> /\ scan' = [scan EXCEPT ![t] = Tail(scan[t])])
        BY <3>1 DEF RetryRuns
      <4>2. scan[t] # << >> => Tail(scan[t]) \in Seq(D)
        BY <1>0, HeadTailProperties
      <4> QED
        BY <1>0, <1>2, <4>1, <4>2
    <3>2. CASE ~RetryRuns(t)
      <4>1. UNCHANGED scan
        BY <2>1, <3>2 DEF Run, Tick, Requeue, Postpone, StartRuns, Extend, KeepStatus, MarkRunning,
              CountRepeat, DecrementRepeat, MarkPaused, MarkResumed, SaveRetried, Summarise,
              CloseCampaign
      <4> QED
        BY <1>0, <1>2, <4>1
    <3> QED
      BY <3>1, <3>2
  <2>2. ASSUME NEW c \in Clients, RetryFailedCampaign(c)
        PROVE  scan' \in [Threads -> Seq(DOMAIN runs')]
    BY <1>0, <1>2, <2>2 DEF RetryFailedCampaign
  <2>3. ASSUME NEW c \in Clients, \/ RunCampaign(c) \/ GetCampaign(c) \/ ReportCampaign(c)
                                  \/ PauseCampaign(c) \/ ResumeCampaign(c)
        PROVE  UNCHANGED scan
    BY <2>3 DEF RunCampaign, GetCampaign, ReportCampaign, PauseCampaign, ResumeCampaign
  <2>4. ASSUME \/ WakeUp \/ TimePasses \/ \E r \in DOMAIN runs : RunMoves(r)
        PROVE  UNCHANGED scan
    BY <2>4 DEF WakeUp, TimePasses, RunMoves
  <2>5. ASSUME UNCHANGED scan PROVE scan' \in [Threads -> Seq(DOMAIN runs')]
    BY <1>0, <1>2, <2>5
  <2> QED
    BY <2>1, <2>2, <2>3, <2>4, <2>5 DEF CampNext
<1>5. verdict' \in [Threads -> CampaignStatus]
  <2>1. ASSUME NEW t \in Threads, Summarise(t) \/ CloseCampaign(t)
        PROVE  verdict' \in [Threads -> CampaignStatus]
    BY <1>0, <2>1 DEF Summarise, CloseCampaign, CampaignStatus
  <2>3. ASSUME NEW t \in Threads, KeepStatus(t) PROVE verdict' \in [Threads -> CampaignStatus]
    <3>1. camp.status \in CampaignStatus
      BY DEF CampShape
    <3> QED
      BY <1>0, <2>3, <3>1 DEF KeepStatus
  <2>2. ASSUME ~\E t \in Threads : Summarise(t) \/ CloseCampaign(t) \/ KeepStatus(t)
        PROVE  UNCHANGED verdict
    BY <2>2 DEF CampNext, Run, Tick, Requeue, Postpone, StartRuns, RetryRuns, Extend,
          MarkRunning, CountRepeat, DecrementRepeat, MarkPaused, MarkResumed, SaveRetried,
          RunCampaign, GetCampaign, ReportCampaign, PauseCampaign, ResumeCampaign,
          RetryFailedCampaign, WakeUp, TimePasses, RunMoves
  <2> QED
    BY <1>0, <2>1, <2>2, <2>3
<1> QED
  BY <1>3, <1>4, <1>5

-----------------------------------------------------------------------------
(* Decisions made and not yet carried out. *)

\* Nothing is at work on a campaign that does not exist.
LEMMA NoneStep ==
    ASSUME CampShape, CampControl, CampNext, camp'.status = "none"
    PROVE  camp.status = "none" /\ camp'.runIds = camp.runIds /\ UNCHANGED <<row, todo>>
<1>0. camp \in Camp(DOMAIN runs)
  BY DEF CampShape, Camp
<1>1. ASSUME NEW t \in Threads, Run(t) PROVE FALSE
  <2>1. \E l : At(t, l)
    BY <1>1 DEF Run, Tick, Requeue, Postpone, StartRuns, RetryRuns, Extend, KeepStatus,
          MarkRunning, CountRepeat, DecrementRepeat, MarkPaused, MarkResumed, SaveRetried,
          Summarise, CloseCampaign
  <2>2. camp.status # "none"
    BY <2>1 DEF CampControl, At
  <2>3. CASE \/ Tick(t) \/ StartRuns(t) \/ RetryRuns(t) \/ Extend(t) \/ CountRepeat(t)
             \/ DecrementRepeat(t) \/ SaveRetried(t) \/ Summarise(t) \/ Postpone(t)
             \/ KeepStatus(t)
    <3>1. camp'.status = camp.status
      BY <1>0, <2>3 DEF Tick, StartRuns, RetryRuns, Extend, CountRepeat, DecrementRepeat,
            SaveRetried, Summarise, Postpone, KeepStatus, Camp
    <3> QED
      BY <2>2, <3>1
  <2>4. CASE Requeue(t) \/ MarkRunning(t) \/ MarkPaused(t) \/ MarkResumed(t)
    BY <1>0, <2>4 DEF Requeue, MarkRunning, MarkPaused, MarkResumed, Camp
  <2>5. CASE CloseCampaign(t)
    <3>1. verdict[t] # "none"
      BY <2>5 DEF CloseCampaign, CampControl
    <3> QED
      BY <1>0, <2>5, <3>1 DEF CloseCampaign, Camp
  <2> QED
    BY <1>1, <2>3, <2>4, <2>5 DEF Run
<1>2. ASSUME NEW c \in Clients, RunCampaign(c) PROVE FALSE
  BY <1>2 DEF RunCampaign
<1>3. ASSUME NEW c \in Clients, \/ GetCampaign(c) \/ ReportCampaign(c)
                                \/ PauseCampaign(c) \/ ResumeCampaign(c)
                                \/ RetryFailedCampaign(c)
      PROVE  FALSE
  BY <1>3 DEF GetCampaign, ReportCampaign, RetryFailedCampaign, PauseCampaign, ResumeCampaign
<1>4. ~WakeUp
  BY DEF WakeUp
<1>5. CASE TimePasses
  BY <1>0, <1>5 DEF TimePasses, Camp
<1>6. ASSUME NEW r \in DOMAIN runs, RunMoves(r)
      PROVE  camp.status = "none" /\ camp'.runIds = camp.runIds /\ UNCHANGED <<row, todo>>
  BY <1>6 DEF RunMoves
<1> QED
  BY <1>1, <1>2, <1>3, <1>4, <1>5, <1>6 DEF CampNext

\* Most steps keep every decision: what a thread is about to do, the statuses
\* to be recorded and the repeats left.
LEMMA DecisionsStep ==
    ASSUME CampShape, CampControl, CampNext
    PROVE  \/ Kept /\ UNCHANGED verdict /\ camp'.repeat = camp.repeat
           \/ Kept /\ UNCHANGED verdict /\ \E n \in 1 .. MaxRepeat : camp'.repeat = n
           \/ \E t \in Threads :
                 \/ CountRepeat(t) \/ DecrementRepeat(t) \/ Summarise(t) \/ CloseCampaign(t)
                 \/ KeepStatus(t)
<1>0. camp \in Camp(DOMAIN runs) /\ todo \in [Threads -> Todo]
  BY DEF CampShape, Camp
<1>1. ASSUME NEW t \in Threads, QuietStep(t)
      PROVE  Kept /\ UNCHANGED verdict /\ camp'.repeat = camp.repeat
  <2>1. Kept
    BY <1>0, <1>1, QuietSteps
  <2>2. UNCHANGED verdict /\ camp'.repeat = camp.repeat
    BY <1>0, <1>1 DEF QuietStep, Tick, Requeue, Postpone, StartRuns, RetryRuns, Extend,
          MarkRunning, MarkPaused, MarkResumed, SaveRetried, Camp
  <2> QED
    BY <2>1, <2>2
<1>2. ASSUME NEW c \in Clients, RunCampaign(c)
      PROVE  Kept /\ UNCHANGED verdict /\ \E n \in 1 .. MaxRepeat : camp'.repeat = n
  <2>1. Kept
    BY <1>0, <1>2, RequestSteps
  <2> QED
    BY <1>2, <2>1 DEF RunCampaign
<1>3. ASSUME NEW c \in Clients, \/ GetCampaign(c) \/ ReportCampaign(c)
                                \/ PauseCampaign(c) \/ ResumeCampaign(c)
                                \/ RetryFailedCampaign(c)
      PROVE  Kept /\ UNCHANGED verdict /\ camp'.repeat = camp.repeat
  <2>1. Kept
    BY <1>0, <1>3, RequestSteps
  <2> QED
    BY <1>3, <2>1 DEF GetCampaign, ReportCampaign, RetryFailedCampaign, PauseCampaign,
          ResumeCampaign
<1>4. CASE WakeUp
  <2>1. Kept
    BY <1>0, <1>4, RequestSteps
  <2> QED
    BY <1>4, <2>1 DEF WakeUp
<1>5. ASSUME UNCHANGED todo PROVE Kept
  BY <1>0, <1>5 DEF Kept, At
<1>6. CASE TimePasses
  BY <1>0, <1>5, <1>6 DEF TimePasses, Camp
<1>7. ASSUME NEW r \in DOMAIN runs, RunMoves(r)
      PROVE  Kept /\ UNCHANGED verdict /\ camp'.repeat = camp.repeat
  BY <1>5, <1>7 DEF RunMoves
<1> QED
  BY <1>1, <1>2, <1>3, <1>4, <1>6, <1>7 DEF CampNext, Run, QuietStep

\* The threads are finitely many, so as many as may decrement at once.
LEMMA DecrementingBound ==
    ASSUME NEW S \in SUBSET Threads
    PROVE  /\ IsFiniteSet(S) /\ Cardinality(S) \in Nat /\ Cardinality(Threads) \in Nat
           /\ Cardinality(S) <= Cardinality(Threads)
<1>1. IsFiniteSet(Threads)
  BY CampaignBounds, FS_Singleton, FS_Union DEF Threads
<1>2. IsFiniteSet(S) /\ Cardinality(S) <= Cardinality(Threads)
  BY <1>1, FS_Subset
<1> QED
  BY <1>1, <1>2, FS_CardinalityType

LEMMA ControlStep ==
    ASSUME CampShape, CampControl, CampNext
    PROVE  todo' \in [Threads -> Todo] /\ CampControl'
<1>0. /\ camp \in Camp(DOMAIN runs) /\ todo \in [Threads -> Todo]
      /\ verdict \in [Threads -> CampaignStatus] /\ MaxRepeat \in Nat
  BY CampaignBounds DEF CampShape, Camp
<1>1. /\ camp.repeat \in Int /\ camp.repeat <= MaxRepeat
      /\ Cardinality(Decrementing) - Cardinality(Threads) <= camp.repeat
  BY <1>0 DEF CampControl, Camp
<1>2. Decrementing \in SUBSET Threads /\ Decrementing' \in SUBSET Threads
  BY DEF Decrementing
<1>3. /\ Cardinality(Decrementing) \in Nat /\ Cardinality(Decrementing') \in Nat
      /\ Cardinality(Threads) \in Nat
      /\ Cardinality(Decrementing') <= Cardinality(Threads)
  BY <1>2, DecrementingBound
<1>4. camp'.status = "none" =>
         camp'.runIds = << >> /\ row' = NoRow /\ \A t \in Threads : todo'[t] = << >>
  BY NoneStep DEF CampControl
<1> DEFINE
      Verdicts == \A u \in Threads : At(u, "close")' => verdict'[u] # "none"
      Repeats == /\ camp'.repeat <= MaxRepeat
                 /\ Cardinality(Decrementing') - Cardinality(Threads) <= camp'.repeat
<1> SUFFICES todo' \in [Threads -> Todo] /\ Verdicts /\ Repeats
  BY <1>4 DEF CampControl
<1>5. ASSUME Kept PROVE Decrementing' = Decrementing
  BY <1>5 DEF Kept, Decrementing
<1>6. ASSUME Kept, UNCHANGED verdict PROVE todo' \in [Threads -> Todo] /\ Verdicts
  BY <1>6 DEF Kept, CampControl
<1>7. CASE Kept /\ UNCHANGED verdict /\ camp'.repeat = camp.repeat
  <2>1. Repeats
    BY <1>1, <1>5, <1>7
  <2> QED
    BY <1>6, <1>7, <2>1
<1>8. ASSUME Kept, UNCHANGED verdict, NEW n \in 1 .. MaxRepeat, camp'.repeat = n
      PROVE  todo' \in [Threads -> Todo] /\ Verdicts /\ Repeats
  <2>1. Repeats
    BY <1>0, <1>3, <1>8
  <2> QED
    BY <1>6, <1>8, <2>1
<1>9. << >> \in Todo /\ << "decrement" >> \in Todo /\ << "close" >> \in Todo /\ << >> \in Fresh
  BY WorkIsTodo DEF Label
<1>10. ASSUME NEW t \in Threads, CountRepeat(t)
       PROVE  todo' \in [Threads -> Todo] /\ Verdicts /\ Repeats
  <2>1. At(t, "count") /\ UNCHANGED <<camp, verdict>>
    BY <1>10 DEF CountRepeat
  <2>2. CASE camp.repeat > 0
    <3>1. Continue(t, << "decrement" >>)
      BY <1>10, <2>2 DEF CountRepeat
    <3>2. /\ todo' \in [Threads -> Todo]
          /\ \A u \in Threads : At(u, "close")' => At(u, "close")
      BY <1>0, <1>9, <2>1, <3>1, Continuing DEF At
    <3>3. Verdicts
      BY <2>1, <3>2 DEF CampControl
    <3>4. Repeats
      BY <1>1, <1>3, <2>1, <2>2
    <3> QED
      BY <3>2, <3>3, <3>4
  <2>3. CASE ~(camp.repeat > 0)
    <3>1. Continue(t, << >>)
      BY <1>10, <2>3 DEF CountRepeat
    <3>2. Kept
      BY <1>0, <1>9, <2>1, <3>1, ContinueKeeps
    <3> QED
      BY <1>1, <1>5, <1>6, <2>1, <3>2
  <2> QED
    BY <2>2, <2>3
<1>11. ASSUME NEW t \in Threads, DecrementRepeat(t)
       PROVE  todo' \in [Threads -> Todo] /\ Verdicts /\ Repeats
  <2>1. At(t, "decrement") /\ Continue(t, << >>) /\ UNCHANGED verdict
    BY <1>11 DEF DecrementRepeat
  <2>2. /\ todo' \in [Threads -> Todo]
        /\ \A u \in Threads : At(u, "close")' => At(u, "close")
        /\ \A u \in Threads : u # t => todo'[u] = todo[u]
        /\ ~At(t, "decrement")'
    BY <1>0, <1>9, <2>1, Continuing DEF At
  <2>3. Verdicts
    BY <2>1, <2>2 DEF CampControl
  <2>4. Decrementing' = Decrementing \ {t} /\ t \in Decrementing
    BY <2>1, <2>2 DEF Decrementing, At
  <2>5. Cardinality(Decrementing') = Cardinality(Decrementing) - 1
    BY <1>2, <2>4, DecrementingBound, FS_RemoveElement
  <2>6. camp'.repeat = camp.repeat - 1
    BY <1>0, <1>11 DEF DecrementRepeat, Camp
  <2>7. Repeats
    BY <1>0, <1>1, <1>3, <2>5, <2>6
  <2> QED
    BY <2>2, <2>3, <2>7
<1>14. ASSUME NEW t \in Threads, NEW l, At(t, l), l \notin {"decrement", "close"},
              Continue(t, << "close" >>), UNCHANGED camp,
              NEW v, v # "none", verdict' = [verdict EXCEPT ![t] = v]
       PROVE  todo' \in [Threads -> Todo] /\ Verdicts /\ Repeats
  <2>1. /\ todo' \in [Threads -> Todo]
        /\ \A u \in Threads : u # t => todo'[u] = todo[u]
        /\ ~At(t, "decrement")'
    BY <1>0, <1>9, <1>14, Continuing DEF At
  <2>2. Verdicts
    BY <1>0, <1>14, <2>1 DEF CampControl, At
  <2>3. Decrementing' = Decrementing
    BY <1>14, <2>1 DEF Decrementing, At
  <2>4. Repeats
    BY <1>1, <1>14, <2>3
  <2> QED
    BY <2>1, <2>2, <2>4
<1>12. ASSUME NEW t \in Threads, Summarise(t)
       PROVE  todo' \in [Threads -> Todo] /\ Verdicts /\ Repeats
  <2>1. PICK l \in {"summary", "insert"} : At(t, l)
    BY <1>12 DEF Summarise
  <2>2. UNCHANGED camp
    BY <1>12 DEF Summarise
  <2>3. CASE Continue(t, << >>) /\ UNCHANGED verdict
    <3>1. Kept
      BY <1>0, <1>9, <2>1, <2>3, ContinueKeeps
    <3> QED
      BY <1>1, <1>5, <1>6, <2>2, <2>3, <3>1
  <2>4. CASE \E v \in {"completed", "failed"} : verdict' = [verdict EXCEPT ![t] = v]
             /\ Continue(t, << "close" >>)
    BY <1>14, <2>1, <2>2, <2>4
  <2> QED
    BY <1>12, <2>3, <2>4 DEF Summarise
<1>13. ASSUME NEW t \in Threads, CloseCampaign(t)
       PROVE  todo' \in [Threads -> Todo] /\ Verdicts /\ Repeats
  <2>1. At(t, "close") /\ Continue(t, << >>) /\ verdict' = [verdict EXCEPT ![t] = "none"]
    BY <1>13 DEF CloseCampaign
  <2>2. /\ todo' \in [Threads -> Todo]
        /\ \A u \in Threads : u # t => todo'[u] = todo[u]
        /\ ~At(t, "decrement")' /\ ~At(t, "close")'
    BY <1>0, <1>9, <2>1, Continuing DEF At
  <2>3. Verdicts
    BY <1>0, <2>1, <2>2 DEF CampControl, At
  <2>4. Decrementing' = Decrementing
    BY <2>1, <2>2 DEF Decrementing, At
  <2>5. camp'.repeat = camp.repeat
    BY <1>0, <1>13 DEF CloseCampaign, Camp
  <2>6. Repeats
    BY <1>1, <2>4, <2>5
  <2> QED
    BY <2>2, <2>3, <2>6
<1>15. ASSUME NEW t \in Threads, KeepStatus(t)
       PROVE  todo' \in [Threads -> Todo] /\ Verdicts /\ Repeats
  <2>1. At(t, "same") /\ Continue(t, << "close" >>) /\ UNCHANGED camp
    BY <1>15 DEF KeepStatus
  <2>2. verdict' = [verdict EXCEPT ![t] = camp.status]
    BY <1>15 DEF KeepStatus
  <2>3. camp.status # "none"
    BY <2>1 DEF CampControl, At
  <2> QED
    BY <1>14, <2>1, <2>2, <2>3
<1> QED
  BY <1>7, <1>8, <1>10, <1>11, <1>12, <1>13, <1>15, DecisionsStep

-----------------------------------------------------------------------------
(* Where every run is. *)

LEMMA RangeOfAppend ==
    ASSUME NEW S, NEW s \in Seq(S), NEW x \in S
    PROVE  /\ Range(Append(s, x)) = Range(s) \cup {x}
           /\ IsInjective(s) /\ x \notin Range(s) => IsInjective(Append(s, x))
<1> DEFINE n == Len(s)
           a == Append(s, x)
<1>1. /\ a \in Seq(S) /\ Len(a) = n + 1 /\ a[n + 1] = x
      /\ \A i \in 1 .. n : a[i] = s[i]
  BY AppendProperties
<1>2. n \in Nat /\ DOMAIN s = 1 .. n /\ DOMAIN a = 1 .. n + 1
  BY <1>1, LenProperties
<1> HIDE DEF n, a
<1>3. DOMAIN a = DOMAIN s \cup {n + 1}
  BY <1>2
<1>4. \A i \in DOMAIN s : a[i] = s[i]
  BY <1>1, <1>2
<1>5. Range(a) = Range(s) \cup {x}
  BY <1>1, <1>3, <1>4 DEF Range
<1>6. ASSUME IsInjective(s), x \notin Range(s) PROVE IsInjective(a)
  BY <1>1, <1>3, <1>4, <1>6 DEF IsInjective, Range
<1> QED
  BY <1>5, <1>6 DEF a

LEMMA RangeOfConcat ==
    ASSUME NEW S, NEW s \in Seq(S), NEW r \in Seq(S)
    PROVE  /\ Range(s \o r) = Range(s) \cup Range(r)
           /\ IsInjective(s) /\ IsInjective(r) /\ Range(s) \cap Range(r) = {}
                 => IsInjective(s \o r)
<1> DEFINE n == Len(s)
           m == Len(r)
           c == s \o r
<1>1. /\ c \in Seq(S) /\ Len(c) = n + m
      /\ \A i \in 1 .. n + m : c[i] = IF i <= n THEN s[i] ELSE r[i - n]
  BY ConcatProperties
<1>2. n \in Nat /\ m \in Nat /\ DOMAIN s = 1 .. n /\ DOMAIN r = 1 .. m
      /\ DOMAIN c = 1 .. n + m
  BY <1>1, LenProperties
<1> HIDE DEF n, m, c
<1>3. \A i \in 1 .. n : i \in DOMAIN c /\ c[i] = s[i]
  BY <1>1, <1>2
<1>4. \A i \in 1 .. m : i + n \in DOMAIN c /\ c[i + n] = r[i]
  <2> SUFFICES ASSUME NEW i \in 1 .. m PROVE i + n \in DOMAIN c /\ c[i + n] = r[i]
    OBVIOUS
  <2>1. i + n \in 1 .. n + m /\ ~(i + n <= n) /\ (i + n) - n = i
    BY <1>2
  <2> QED
    BY <1>1, <1>2, <2>1
<1>5. \A k \in DOMAIN c : k \in 1 .. n \/ \E i \in 1 .. m : k = i + n
  <2> SUFFICES ASSUME NEW k \in 1 .. n + m, k \notin 1 .. n
               PROVE  \E i \in 1 .. m : k = i + n
    BY <1>2
  <2>1. k - n \in 1 .. m /\ k = (k - n) + n
    BY <1>2
  <2> QED
    BY <2>1
<1>6. Range(c) = Range(s) \cup Range(r)
  <2>1. ASSUME NEW k \in DOMAIN c PROVE c[k] \in Range(s) \cup Range(r)
    <3>1. CASE k \in 1 .. n
      BY <1>2, <1>3, <3>1 DEF Range
    <3>2. ASSUME NEW i \in 1 .. m, k = i + n PROVE c[k] \in Range(r)
      BY <1>2, <1>4, <3>2 DEF Range
    <3> QED
      BY <1>5, <3>1, <3>2
  <2>2. ASSUME NEW i \in DOMAIN s PROVE s[i] \in Range(c)
    BY <1>2, <1>3, <2>2 DEF Range
  <2>3. ASSUME NEW i \in DOMAIN r PROVE r[i] \in Range(c)
    <3>1. i + n \in DOMAIN c /\ c[i + n] = r[i]
      BY <1>2, <1>4, <2>3
    <3> QED
      BY <3>1 DEF Range
  <2> QED
    BY <2>1, <2>2, <2>3 DEF Range
<1>7. ASSUME IsInjective(s), IsInjective(r), Range(s) \cap Range(r) = {},
             NEW i \in DOMAIN c, NEW j \in DOMAIN c, c[i] = c[j]
      PROVE  i = j
  <2>1. CASE i \in 1 .. n /\ j \in 1 .. n
    BY <1>2, <1>3, <1>7, <2>1 DEF IsInjective
  <2>2. ASSUME NEW k \in 1 .. m, i = k + n, NEW l \in 1 .. m, j = l + n PROVE i = j
    <3>1. r[k] = r[l]
      BY <1>4, <1>7, <2>2
    <3> QED
      BY <1>2, <1>7, <2>2, <3>1 DEF IsInjective
  <2>3. ASSUME NEW a \in 1 .. n, NEW k \in 1 .. m PROVE c[a] # c[k + n]
    <3>1. s[a] \in Range(s) /\ r[k] \in Range(r)
      BY <1>2 DEF Range
    <3> QED
      BY <1>3, <1>4, <1>7, <3>1
  <2> QED
    BY <1>5, <1>7, <2>1, <2>2, <2>3
<1> QED
  BY <1>6, <1>7 DEF IsInjective, c

LEMMA AccountsKept ==
    ASSUME CampShape, CampControl, CampAccounts, CampNext PROVE CampAccounts'
<1>0. /\ runs \in Seq(RunState) /\ camp.runIds \in Seq(DOMAIN runs)
      /\ mine \in [Threads -> Seq(DOMAIN runs)]
  BY DEF CampShape
<1>1. CASE Holds
  BY <1>1 DEF Holds, CampAccounts
<1>2. ASSUME NEW t \in Threads, Starts(t) PROVE CampAccounts'
  <2>1. PICK id : id = Len(runs')
    OBVIOUS
  <2>2. DOMAIN runs' = DOMAIN runs \cup {id} /\ id \notin DOMAIN runs
    BY <1>0, <1>2, <2>1, RunAdded DEF Starts, RunState
  <2>3. mine'[t] = Append(mine[t], id) /\ \A u \in Threads : u # t => mine'[u] = mine[u]
    BY <1>0, <1>2, <2>1 DEF Starts
  <2>4. \A u \in Threads : Range(mine[u]) \subseteq DOMAIN runs
    BY <1>0, RangeOfSeq DEF Range
  <2>5. Range(camp.runIds) \subseteq DOMAIN runs
    BY <1>0, RangeOfSeq DEF Range
  <2>6. mine[t] \in Seq(DOMAIN runs') /\ id \in DOMAIN runs'
    BY <1>0, <2>2, SeqOfMore
  <2>7. Range(mine'[t]) = Range(mine[t]) \cup {id} /\ IsInjective(mine'[t])
    <3>1. id \notin Range(mine[t]) /\ IsInjective(mine[t])
      BY <2>2, <2>4 DEF CampAccounts
    <3> QED
      BY <2>3, <2>6, <3>1, RangeOfAppend
  <2>8. camp'.runIds = camp.runIds
    BY <1>2 DEF Starts
  <2>9. \A r \in DOMAIN runs' : \/ r \in Range(camp'.runIds)
                                \/ \E u \in Threads : r \in Range(mine'[u])
    BY <2>2, <2>3, <2>7, <2>8 DEF CampAccounts
  <2>10. \A u \in Threads : Range(camp'.runIds) \cap Range(mine'[u]) = {}
    <3>1. id \notin Range(camp.runIds)
      BY <2>2, <2>5
    <3>2. \A u \in Threads : Range(camp.runIds) \cap Range(mine[u]) = {}
      BY DEF CampAccounts
    <3> QED
      BY <2>3, <2>7, <2>8, <3>1, <3>2
  <2>11. \A u, v \in Threads : u # v => Range(mine'[u]) \cap Range(mine'[v]) = {}
    <3>1. \A u \in Threads : id \notin Range(mine[u])
      BY <2>2, <2>4
    <3>2. \A u, v \in Threads : u # v => Range(mine[u]) \cap Range(mine[v]) = {}
      BY DEF CampAccounts
    <3>3. \A u \in Threads : u # t => Range(mine'[u]) = Range(mine[u])
      BY <2>3
    <3>4. ASSUME NEW u \in Threads, u # t PROVE Range(mine'[u]) \cap Range(mine'[t]) = {}
      <4>1. Range(mine[u]) \cap Range(mine[t]) = {} /\ id \notin Range(mine[u])
        BY <3>1, <3>2, <3>4
      <4> QED
        BY <2>7, <3>3, <3>4, <4>1
    <3> QED
      BY <3>2, <3>3, <3>4
  <2>12. IsInjective(camp'.runIds) /\ \A u \in Threads : IsInjective(mine'[u])
    BY <2>3, <2>7, <2>8 DEF CampAccounts
  <2> QED
    BY <2>9, <2>10, <2>11, <2>12 DEF CampAccounts
<1>3. ASSUME NEW t \in Threads, Joins(t) PROVE CampAccounts'
  <2>1. mine'[t] = << >> /\ \A u \in Threads : u # t => mine'[u] = mine[u]
    BY <1>0, <1>3 DEF Joins
  <2>2. Range(mine'[t]) = {} /\ IsInjective(mine'[t])
    BY <2>1 DEF Range, IsInjective
  <2>3. /\ Range(camp'.runIds) = Range(camp.runIds) \cup Range(mine[t])
        /\ IsInjective(camp'.runIds)
    BY <1>0, <1>3, RangeOfConcat DEF Joins, CampAccounts
  <2>4. DOMAIN runs' = DOMAIN runs
    BY <1>3 DEF Joins
  <2>5. \A r \in DOMAIN runs' : \/ r \in Range(camp'.runIds)
                                \/ \E u \in Threads : r \in Range(mine'[u])
    BY <2>1, <2>3, <2>4 DEF CampAccounts
  <2>6. \A u \in Threads : Range(camp'.runIds) \cap Range(mine'[u]) = {}
    BY <2>1, <2>2, <2>3 DEF CampAccounts
  <2>7. \A u, v \in Threads : u # v => Range(mine'[u]) \cap Range(mine'[v]) = {}
    BY <2>1, <2>2 DEF CampAccounts
  <2>8. \A u \in Threads : IsInjective(mine'[u])
    BY <2>1, <2>2 DEF CampAccounts
  <2> QED
    BY <2>3, <2>5, <2>6, <2>7, <2>8 DEF CampAccounts
<1> QED
  BY <1>1, <1>2, <1>3, AccountsStep

-----------------------------------------------------------------------------
(* The row in the store. *)

LEMMA PrefixOfConcat ==
    ASSUME NEW S, NEW p \in Seq(S), NEW s \in Seq(S), NEW r \in Seq(S), IsPrefix(p, s)
    PROVE  IsPrefix(p, s \o r)
<1> DEFINE k == Len(p)
           n == Len(s)
           m == Len(r)
           c == s \o r
<1>1. /\ c \in Seq(S) /\ Len(c) = n + m
      /\ \A i \in 1 .. n + m : c[i] = IF i <= n THEN s[i] ELSE r[i - n]
  BY ConcatProperties
<1>2. k \in Nat /\ n \in Nat /\ m \in Nat /\ k <= n /\ SubSeq(p, 1, k) = SubSeq(s, 1, k)
  BY LenProperties DEF IsPrefix
<1>3. SubSeq(s, 1, k) = SubSeq(c, 1, k)
  <2>1. SubSeq(s, 1, k) = [i \in 1 .. k |-> s[i]] /\ SubSeq(c, 1, k) = [i \in 1 .. k |-> c[i]]
    BY <1>2
  <2> HIDE DEF k, n, m, c
  <2>2. \A i \in 1 .. k : c[i] = s[i]
    BY <1>1, <1>2
  <2> QED
    BY <2>1, <2>2
<1> HIDE DEF k, n, m, c
<1> QED
  BY <1>1, <1>2, <1>3 DEF IsPrefix, k, c

LEMMA RowStep ==
    ASSUME CampShape, CampControl, RowOK, CampNext PROVE RowOK'
<1>0. camp \in Camp(DOMAIN runs) /\ camp.runIds \in Seq(DOMAIN runs)
      /\ mine \in [Threads -> Seq(DOMAIN runs)]
  BY DEF CampShape, Camp
<1>1. ASSUME NEW s \in Seq(DOMAIN runs) PROVE s \in Seq(DOMAIN runs')
  <2>1. DOMAIN runs \subseteq DOMAIN runs'
    BY RunsStep
  <2> QED
    BY <2>1, SeqOfMore
<1>2. CASE UNCHANGED row /\ camp'.runIds = camp.runIds
  BY <1>1, <1>2 DEF RowOK
<1>3. ASSUME UNCHANGED row, NEW t \in Threads, camp'.runIds = camp.runIds \o mine[t]
      PROVE  RowOK'
  <2>1. CASE row = NoRow
    BY <1>3, <2>1 DEF RowOK
  <2>2. CASE row \in Seq(DOMAIN runs) /\ IsPrefix(row, camp.runIds)
    <3>1. IsPrefix(row, camp.runIds \o mine[t])
      BY <1>0, <2>2, PrefixOfConcat
    <3>2. row' \in Seq(DOMAIN runs') /\ IsPrefix(row', camp'.runIds)
      BY <1>1, <1>3, <2>2, <3>1
    <3> QED
      BY <3>2 DEF RowOK
  <2> QED
    BY <2>1, <2>2 DEF RowOK
<1>4. ASSUME row' = camp.runIds \/ SaveRow, camp'.runIds = camp.runIds PROVE RowOK'
  <2>1. row' = NoRow \/ row' = camp.runIds
    BY <1>4 DEF SaveRow
  <2>2. IsPrefix(camp.runIds, camp.runIds)
    BY <1>0, LenProperties DEF IsPrefix
  <2>3. camp.runIds \in Seq(DOMAIN runs')
    BY <1>0, <1>1
  <2> QED
    BY <1>4, <2>1, <2>2, <2>3 DEF RowOK
<1>5. ASSUME NEW t \in Threads, Run(t) PROVE RowOK'
  <2>1. CASE \/ Tick(t) \/ StartRuns(t) \/ Requeue(t) \/ Postpone(t) \/ MarkRunning(t)
             \/ MarkPaused(t) \/ MarkResumed(t) \/ CloseCampaign(t) \/ RetryRuns(t)
             \/ KeepStatus(t)
    <3>1. UNCHANGED row /\ camp'.runIds = camp.runIds
      BY <1>0, <2>1 DEF Tick, StartRuns, Requeue, Postpone, MarkRunning, MarkPaused,
            MarkResumed, CloseCampaign, RetryRuns, KeepStatus, Camp
    <3> QED
      BY <1>2, <3>1
  <2>2. CASE Extend(t)
    <3>1. UNCHANGED row /\ camp'.runIds = camp.runIds \o mine[t]
      BY <1>0, <2>2 DEF Extend, Camp
    <3> QED
      BY <1>3, <3>1
  <2>3. CASE SaveRetried(t) \/ CountRepeat(t) \/ DecrementRepeat(t) \/ Summarise(t)
    <3>1. camp'.runIds = camp.runIds
      BY <1>0, <2>3 DEF SaveRetried, CountRepeat, DecrementRepeat, Summarise, Camp
    <3>2. UNCHANGED row \/ SaveRow \/ row' = camp.runIds
      BY <2>3 DEF SaveRetried, CountRepeat, DecrementRepeat, Summarise
    <3> QED
      BY <1>2, <1>4, <3>1, <3>2
  <2> QED
    BY <1>5, <2>1, <2>2, <2>3 DEF Run
<1>6. ASSUME NEW c \in Clients, RunCampaign(c) PROVE RowOK'
  <2>1. row' = NoRow
    BY <1>6 DEF RunCampaign, CampControl
  <2> QED
    BY <2>1 DEF RowOK
<1>7. ASSUME NEW c \in Clients, \/ GetCampaign(c) \/ ReportCampaign(c)
                                \/ PauseCampaign(c) \/ ResumeCampaign(c)
                                \/ RetryFailedCampaign(c)
      PROVE  RowOK'
  BY <1>2, <1>7 DEF GetCampaign, ReportCampaign, RetryFailedCampaign, PauseCampaign, ResumeCampaign
<1>8. CASE WakeUp
  BY <1>2, <1>8 DEF WakeUp
<1>9. CASE TimePasses
  BY <1>0, <1>2, <1>9 DEF TimePasses, Camp
<1>10. ASSUME NEW r \in DOMAIN runs, RunMoves(r) PROVE RowOK'
  BY <1>2, <1>10 DEF RunMoves
<1> QED
  BY <1>5, <1>6, <1>7, <1>8, <1>9, <1>10 DEF CampNext

-----------------------------------------------------------------------------
(* The campaign. *)

LEMMA CampInitially == CampInit => CampIInv
<1> SUFFICES ASSUME CampInit PROVE CampIInv
  OBVIOUS
<1>1. /\ camp = [status |-> "none", at |-> "never", repeat |-> 0, names |-> 0, runIds |-> << >>]
      /\ row = NoRow /\ runs = << >>
      /\ \A t \in Threads : todo[t] = << >> /\ mine[t] = << >>
  BY DEF CampInit
<1>2. CampShape
  BY WorkIsTodo DEF CampInit, CampShape, CampaignStatus, When
<1>3. CampControl
  <2>1. Decrementing = {}
    BY <1>1 DEF Decrementing, At
  <2>2. Decrementing \in SUBSET Threads
    BY <2>1
  <2>3. Cardinality(Decrementing) - Cardinality(Threads) <= 0
    BY <2>2, DecrementingBound
  <2>4. 0 <= MaxRepeat
    BY CampaignBounds
  <2> QED
    BY <1>1, <2>3, <2>4 DEF CampControl, At
<1>4. CampAccounts
  BY <1>1 DEF CampAccounts, Range, IsInjective
<1> QED
  BY <1>1, <1>2, <1>3, <1>4 DEF CampIInv, RowOK

LEMMA CampIInvStep == CampIInv /\ [CampNext]_campVars => CampIInv'
<1> SUFFICES ASSUME CampIInv, [CampNext]_campVars PROVE CampIInv'
  OBVIOUS
<1>1. CASE CampNext
  <2>1. CampShape /\ CampControl /\ CampAccounts /\ RowOK
    BY DEF CampIInv
  <2>2. CampShape'
    BY <1>1, <2>1, CampStep, RunsStep, HandsStep, ControlStep DEF CampShape, Camp
  <2> QED
    BY <1>1, <2>1, <2>2, ControlStep, AccountsKept, RowStep DEF CampIInv
<1>2. CASE UNCHANGED campVars
  BY <1>2 DEF campVars, CampIInv, CampShape, CampControl, CampAccounts, RowOK, Decrementing, At
<1> QED
  BY <1>1, <1>2

\* The inductive invariant.
THEOREM CampaignInvariant == CampSpec => []CampIInv
  BY CampInitially, CampIInvStep, PTL DEF CampSpec

\* The campaign, its row, the runs and the threads' work have their types: the
\* repeats left go below zero only by the decrements decided on at once.
THEOREM CampaignTypeCorrect == CampSpec => []CampTypeOK
<1>1. CampIInv => CampTypeOK
  <2> SUFFICES ASSUME CampIInv PROVE CampTypeOK
    OBVIOUS
  <2>1. Decrementing \in SUBSET Threads
    BY DEF Decrementing
  <2>2. /\ Cardinality(Decrementing) \in Nat /\ Cardinality(Threads) \in Nat
    BY <2>1, DecrementingBound
  <2>3. /\ camp.repeat \in Int /\ MaxRepeat \in Nat /\ camp.repeat <= MaxRepeat
        /\ Cardinality(Decrementing) - Cardinality(Threads) <= camp.repeat
    BY CampaignBounds DEF CampIInv, CampShape, CampControl
  <2>4. camp.repeat \in -Cardinality(Threads) .. MaxRepeat
    BY <2>2, <2>3
  <2> QED
    BY <2>4 DEF CampIInv, CampShape, RowOK, CampTypeOK
<1> QED
  BY <1>1, CampaignInvariant, PTL

\* A list that names no run twice has as many runs as entries.
LEMMA InjectiveCount ==
    ASSUME NEW S, NEW s \in Seq(S), IsInjective(s)
    PROVE  Cardinality(Range(s)) = Len(s)
<1> DEFINE n == Len(s)
<1>1. n \in Nat /\ DOMAIN s = 1 .. n
  BY LenProperties
<1>2. IsFiniteSet(1 .. n) /\ Cardinality(1 .. n) = n
  <2> HIDE DEF n
  <2>1. Cardinality(1 .. n) = IF 1 > n THEN 0 ELSE n - 1 + 1
    <3>1. 1 \in Int /\ n \in Int
      BY <1>1
    <3> QED
      BY <3>1, FS_Interval, Zenon
  <2>2. IsFiniteSet(1 .. n)
    BY <1>1, FS_Interval
  <2> QED
    BY <1>1, <2>1, <2>2
<1>3. s \in Bijection(1 .. n, Range(s))
  <2>1. s \in [1 .. n -> Range(s)]
    BY <1>1, SeqDef DEF Range
  <2> QED
    BY <1>1, <2>1 DEF IsInjective, Range, Bijection, Injection, Surjection
<1>4. ExistsBijection(1 .. n, Range(s))
  BY <1>3 DEF ExistsBijection
<1> QED
  BY <1>2, <1>4, FS_Bijection

\* No run is lost and none is listed twice, however launches and retries
\* overlap.
THEOREM CampaignAccountsForRuns == CampSpec => []EveryRunAccounted
<1>1. CampIInv => EveryRunAccounted
  <2> SUFFICES ASSUME CampIInv PROVE EveryRunAccounted
    OBVIOUS
  <2> DEFINE held == UNION {Range(mine[t]) : t \in Threads}
             L == Range(camp.runIds)
  <2>1. /\ \A r \in DOMAIN runs : r \in L \/ \E t \in Threads : r \in Range(mine[t])
        /\ \A t \in Threads : L \cap Range(mine[t]) = {}
        /\ \A t, u \in Threads : t # u => Range(mine[t]) \cap Range(mine[u]) = {}
        /\ IsInjective(camp.runIds)
    BY DEF CampIInv, CampAccounts
  <2>2. camp.runIds \in Seq(DOMAIN runs) /\ mine \in [Threads -> Seq(DOMAIN runs)]
    BY DEF CampIInv, CampShape
  <2>3. L \subseteq DOMAIN runs /\ \A t \in Threads : Range(mine[t]) \subseteq DOMAIN runs
    BY <2>2, RangeOfSeq DEF Range
  <2>4. Cardinality(L) = Len(camp.runIds)
    BY <2>1, <2>2, InjectiveCount
  <2> HIDE DEF L
  <2>5. DOMAIN runs = L \cup held
    <3>1. ASSUME NEW r \in DOMAIN runs PROVE r \in L \cup held
      BY Zenon, <2>1, <3>1
    <3>2. held \subseteq DOMAIN runs
      BY Zenon, <2>3
    <3> QED
      BY <2>3, <3>1, <3>2
  <2>6. L \cap held = {}
    BY <2>1
  <2> QED
    BY <2>1, <2>4, <2>5, <2>6 DEF EveryRunAccounted, L
<1> QED
  BY <1>1, CampaignInvariant, PTL

\* Whichever thread wrote the row last, it names runs of the campaign, in the
\* order they joined it.
THEOREM CampaignRowIsPrefix == CampSpec => []StoredRunsArePrefix
<1>1. CampIInv => StoredRunsArePrefix
  BY DEF CampIInv, RowOK, StoredRunsArePrefix
<1> QED
  BY <1>1, CampaignInvariant, PTL
=============================================================================
