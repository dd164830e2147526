---------------------------- MODULE RecoveryProofs ----------------------------
(***************************************************************************)
(* The safety of Recovery, for any nodes, pipelines, crashes and gestures: *)
(* the reaper never kills a session whose iteration is at work.  What is    *)
(* condemned stays condemned, because a settled row stays settled, an      *)
(* archived run archived, and a run that can be re-opened has no           *)
(* interrupted node that the projection would forget.                      *)
(***************************************************************************)
EXTENDS Recovery, RunLogProofs

(***************************************************************************)
(* The log                                                                 *)
(***************************************************************************)
\* A node is absent and has no row, or it has one row, of its own status.
PlainNode(node) ==
  \/ node.st = "absent" /\ node.row[Lap] = "none"
  \/ /\ node.st \in {"running", "awaiting", "completed", "interrupted"}
     /\ node.row[Lap] = node.st /\ node.iter = Lap

Untouched(node) == node.st \in {"absent", "completed"}

\* A run that is complete or parked with a reason has no node at work and none
\* interrupted.
Good(r) ==
  /\ r \in Runs /\ r.status \in {"running", "awaiting", "completed", "archived"}
  /\ \A n \in Nodes : PlainNode(r.nodes[n])
  /\ r.status \in {"awaiting", "completed"} => \A n \in Nodes : Untouched(r.nodes[n])
  /\ r.status = "awaiting" => r.reason = "incident"

\* From r to s no node is forgotten, nothing settled is taken back and an
\* archived run stays archived.
Kept(r, s) ==
  /\ \A n \in Nodes : /\ Present(r, n) => Present(s, n)
                      /\ r.nodes[n].row[Lap] = "completed" => s.nodes[n].row[Lap] = "completed"
  /\ r.status = "archived" => s.status = "archived"

\* The only iteration is one.
LEMMA LapType == Lap \in Iters /\ Lap \in Nat /\ Iters = {Lap}
  BY RecoveryAssumption DEF Lap, Iters

\* Nothing happened.
LEMMA KeptSame == ASSUME NEW r PROVE Kept(r, r)
  BY DEF Kept

\* A node's event keeps the log good when it keeps its node plain, present and
\* settled, and a closed run's node untouched.
LEMMA NodeEventGood ==
  ASSUME NEW r, NEW s, NEW n \in Nodes, Good(r), OnlyNode(r, s, n), s.reason = r.reason,
         PlainNode(s.nodes[n]), Present(s, n),
         r.nodes[n].row[Lap] = "completed" => s.nodes[n].row[Lap] = "completed",
         r.status \in {"awaiting", "completed"} => Untouched(s.nodes[n])
  PROVE  Good(s) /\ Kept(r, s) /\ s.status = r.status
<1>1. \A m \in Nodes \ {n} : s.nodes[m] = r.nodes[m]
  BY DEF OnlyNode
<1>2. s \in Runs /\ s.status = r.status
  BY DEF OnlyNode
<1>3. Good(s)
  BY <1>1, <1>2 DEF Good
<1>4. Kept(r, s)
  BY <1>1, <1>2 DEF Kept, Present
<1> QED
  BY <1>2, <1>3, <1>4

\* SetNode leaves the reason of the run alone.
LEMMA SetNodeReason ==
  ASSUME NEW r \in Runs, NEW n, NEW node
  PROVE  SetNode(r, n, node).reason = r.reason
  BY DEF SetNode, Runs

\* A start in a running run of a row that is not settled.
LEMMA StartedGood ==
  ASSUME NEW r, Good(r), NEW n \in Nodes, r.status = "running",
         r.nodes[n].row[Lap] # "completed"
  PROVE  LET s == NodeStarted(r, n, Lap)
         IN  Good(s) /\ Kept(r, s) /\ s.status = "running" /\ Present(s, n)
<1> DEFINE s == NodeStarted(r, n, Lap)
<1>0. r \in Runs
  BY DEF Good
<1>1. /\ OnlyNode(r, s, n) /\ s.nodes[n].st = "running" /\ s.nodes[n].iter = Lap
      /\ s.nodes[n].row[Lap] = "running"
  BY <1>0, LapType, StartedStep
<1>2. s.reason = r.reason
  BY <1>0, SetNodeReason DEF NodeStarted
<1> HIDE DEF s
<1>3. Present(s, n) /\ PlainNode(s.nodes[n])
  BY <1>1 DEF Present, PlainNode
<1>4. Good(s) /\ Kept(r, s) /\ s.status = r.status
  BY <1>1, <1>2, <1>3, NodeEventGood
<1> QED
  BY <1>3, <1>4 DEF s

\* A completion in a running run.
LEMMA CompletedGood ==
  ASSUME NEW r, Good(r), NEW n \in Nodes, r.status = "running", Present(r, n)
  PROVE  LET s == NodeCompleted(r, n, Lap)
         IN  /\ Good(s) /\ Kept(r, s) /\ s.status = "running"
             /\ s.nodes[n].row[Lap] = "completed"
<1> DEFINE s == NodeCompleted(r, n, Lap)
<1>0. r \in Runs /\ PlainNode(r.nodes[n])
  BY DEF Good
<1>1. /\ OnlyNode(r, s, n) /\ s.nodes[n].st = "completed" /\ s.nodes[n].iter = r.nodes[n].iter
      /\ RowSet(s.nodes[n], r.nodes[n], Lap, "completed")
  BY <1>0, LapType, CompletedStep
<1>2. s.reason = r.reason
  BY <1>0, SetNodeReason DEF NodeCompleted
<1> HIDE DEF s
<1>3. Present(s, n) /\ PlainNode(s.nodes[n]) /\ s.nodes[n].row[Lap] = "completed"
  BY <1>0, <1>1 DEF Present, PlainNode, RowSet
<1>4. Good(s) /\ Kept(r, s) /\ s.status = r.status
  BY <1>1, <1>2, <1>3, NodeEventGood
<1> QED
  BY <1>3, <1>4 DEF s

\* A node that starts to wait for its user in a running run.
LEMMA AwaitingGood ==
  ASSUME NEW r, Good(r), NEW n \in Nodes, r.status = "running", Present(r, n),
         r.nodes[n].row[Lap] # "completed", NEW said \in BOOLEAN
  PROVE  LET s == NodeAwaitingUser(r, n, Lap, said)
         IN  Good(s) /\ Kept(r, s) /\ s.status = "running"
<1> DEFINE s == NodeAwaitingUser(r, n, Lap, said)
<1>0. r \in Runs /\ PlainNode(r.nodes[n])
  BY DEF Good
<1>1. /\ OnlyNode(r, s, n) /\ s.nodes[n].st = "awaiting" /\ s.nodes[n].iter = r.nodes[n].iter
      /\ RowSet(s.nodes[n], r.nodes[n], Lap, "awaiting")
  BY <1>0, LapType, AwaitingStep
<1>2. s.reason = r.reason
  BY <1>0, SetNodeReason DEF NodeAwaitingUser
<1> HIDE DEF s
<1>3. Present(s, n) /\ PlainNode(s.nodes[n])
  BY <1>0, <1>1 DEF Present, PlainNode, RowSet
<1>4. Good(s) /\ Kept(r, s) /\ s.status = r.status
  BY <1>1, <1>2, <1>3, NodeEventGood
<1> QED
  BY <1>4 DEF s

\* The wait of a node is lifted.
LEMMA ResumedGood ==
  ASSUME NEW r, Good(r), NEW n \in Nodes, r.nodes[n].st = "awaiting"
  PROVE  LET s == NodeResumed(r, n, Lap)
         IN  Good(s) /\ Kept(r, s) /\ s.status = r.status /\ s.status # "awaiting"
<1> DEFINE s == NodeResumed(r, n, Lap)
<1>0. /\ r \in Runs /\ PlainNode(r.nodes[n]) /\ r.status \notin {"awaiting", "completed"}
      /\ Present(r, n)
  BY DEF Good, Untouched, Present
<1>1. r.nodes[n].iter = Lap /\ r.nodes[n].row[Lap] = "awaiting"
  BY <1>0 DEF PlainNode
<1>2. /\ OnlyNode(r, s, n) /\ s.nodes[n].st = "running" /\ s.nodes[n].iter = Lap
      /\ s.nodes[n].row[Lap] = "running"
  BY <1>0, <1>1, LapType, ResumedStep
<1>3. s.reason = r.reason
  BY <1>0, SetNodeReason DEF NodeResumed
<1> HIDE DEF s
<1>4. Present(s, n) /\ PlainNode(s.nodes[n])
  BY <1>2 DEF Present, PlainNode
<1>5. Good(s) /\ Kept(r, s) /\ s.status = r.status
  BY <1>0, <1>1, <1>2, <1>3, <1>4, NodeEventGood
<1> QED
  BY <1>0, <1>5 DEF s

\* An interruption the guard allows finds a row at work.
LEMMA InterruptGood ==
  ASSUME NEW r, Good(r), NEW n \in Nodes, Present(r, n)
  PROVE  LET s == AppendInterrupted(r, n)
         IN  /\ Good(s) /\ Kept(r, s) /\ s.status = r.status /\ s.reason = r.reason
             /\ \A m \in Nodes \ {n} : s.nodes[m] = r.nodes[m]
<1>0. r \in Runs /\ PlainNode(r.nodes[n]) /\ View(r).nodes[n].row = r.nodes[n].row
  BY ViewKeeps DEF Good
<1>1. CASE ValidateInterrupt(View(r), n, Lap) # "allow"
  BY <1>1, KeptSame DEF AppendInterrupted
<1>2. CASE ValidateInterrupt(View(r), n, Lap) = "allow"
  <2> DEFINE s == NodeInterrupted(r, n, Lap)
  <2>1. r.nodes[n].row[Lap] \in {"running", "awaiting"} /\ r.nodes[n].iter = Lap
    BY <1>0, <1>2 DEF ValidateInterrupt, PlainNode, RowStatuses, Present
  <2>2. r.status \notin {"awaiting", "completed"}
    BY <1>0, <2>1 DEF Good, Untouched, PlainNode
  <2>3. /\ OnlyNode(r, s, n) /\ s.nodes[n].st = "interrupted" /\ s.nodes[n].iter = Lap
        /\ s.nodes[n].row[Lap] = "interrupted"
    BY <1>0, <2>1, LapType, InterruptedStep DEF RowSet
  <2>4. s.reason = r.reason
    BY <1>0, SetNodeReason DEF NodeInterrupted
  <2>5. AppendInterrupted(r, n) = s
    BY <1>2 DEF AppendInterrupted
  <2> HIDE DEF s
  <2>6. Present(s, n) /\ PlainNode(s.nodes[n])
    BY <2>3 DEF Present, PlainNode
  <2>7. Good(s) /\ Kept(r, s) /\ s.status = r.status
    BY <2>1, <2>2, <2>3, <2>4, <2>6, NodeEventGood
  <2> QED
    BY <2>3, <2>4, <2>5, <2>7 DEF OnlyNode
<1> QED
  BY <1>1, <1>2

\* A run that can be re-opened forgets no node.
LEMMA ReopenGood ==
  ASSUME NEW r, Good(r)
  PROVE  LET s == RunReopened(r)
         IN  Good(s) /\ Kept(r, s) /\ s.status # "awaiting"
<1> DEFINE s == RunReopened(r)
<1>0. r \in Runs /\ s \in Runs
  BY ReopenedStep DEF Good
<1>1. CASE r.status \in {"running", "archived"}
  <2>1. s = r
    BY <1>1 DEF RunReopened
  <2> QED
    BY <1>1, <2>1, KeptSame
<1>2. CASE r.status \in {"awaiting", "completed"}
  <2>1. \A n \in Nodes : s.nodes[n] = r.nodes[n]
    BY <1>2 DEF RunReopened, Good, Untouched
  <2>2. s.status = "running"
    BY <1>2 DEF RunReopened
  <2> HIDE DEF s
  <2>3. Good(s)
    BY <1>0, <2>1, <2>2 DEF Good
  <2>4. Kept(r, s)
    BY <1>2, <2>1 DEF Kept, Present
  <2> QED
    BY <2>2, <2>3, <2>4 DEF s
<1> QED
  BY <1>1, <1>2 DEF Good

\* Run events touch no node.
LEMMA RunEventGood ==
  ASSUME NEW r, Good(r), NEW s \in {RunCompleted(r), RunArchived(r), RunInterrupted(r)},
         s.status \in {"awaiting", "completed"} => \A n \in Nodes : Untouched(r.nodes[n]),
         s.status = "awaiting" => s.reason = "incident",
         r.status = "archived" => s.status = "archived"
  PROVE  Good(s) /\ Kept(r, s)
<1>1. s \in Runs /\ s.nodes = r.nodes
  BY RunEventStep DEF Good
<1>2. s.status \in {"running", "awaiting", "completed", "archived"}
  BY DEF Good, Runs, RunCompleted, RunArchived, RunInterrupted
<1> QED
  BY <1>1, <1>2 DEF Good, Kept, Present

\* What a reader of the log may conclude about the raw run.
LEMMA ViewStatusIs ==
  ASSUME NEW r \in Runs
  PROVE  /\ View(r).status \in {"running", "awaiting"} <=> r.status \in {"running", "awaiting"}
         /\ View(r).status = "running" =>
              r.status = "running" /\ \A n \in Nodes : r.nodes[n].st \notin {"awaiting", "interrupted"}
         /\ r.status \notin {"running", "awaiting"} => View(r).status = r.status
         /\ r.status = "awaiting" => View(r).status = "awaiting"
  BY DEF View, ViewStatus, SomeNode, Runs

\* The reconciliation parks a run whose nodes are settled or absent.
LEMMA StallGood ==
  ASSUME NEW r, Good(r)
  PROVE  /\ Good(Stall(r)) /\ Kept(r, Stall(r))
         /\ Stall(r).status = "awaiting" /\ r.status # "awaiting" => Quiet
<1> DEFINE v == View(r)
           stalls == /\ v.status = "running"
                     /\ ~\E n \in Nodes : CanProgress(v.nodes[n].st)
                     /\ Ready(v) # {} /\ Quiet
<1>1. CASE ~stalls
  <2>1. Stall(r) = r
    BY <1>1 DEF Stall
  <2> QED
    BY <2>1, KeptSame
<1>2. CASE stalls
  <2>1. Stall(r) = RunInterrupted(r) /\ Quiet
    BY <1>2 DEF Stall
  <2>2. r \in Runs /\ r.status = "running"
    BY <1>2, ViewStatusIs DEF Good
  <2>3. ASSUME NEW n \in Nodes PROVE Untouched(r.nodes[n])
    <3>1. PlainNode(r.nodes[n]) /\ v.nodes[n].st = r.nodes[n].st
      BY <2>2, ViewKeeps DEF Good
    <3>2. r.nodes[n].st \notin {"awaiting", "interrupted"}
      BY <1>2, <2>2, ViewStatusIs
    <3>3. r.nodes[n].st # "running"
      BY <1>2, <3>1 DEF CanProgress
    <3> QED
      BY <3>1, <3>2, <3>3 DEF PlainNode, Untouched
  <2>4. RunInterrupted(r).status = "awaiting" /\ RunInterrupted(r).reason = "incident"
    BY <2>2 DEF RunInterrupted, IsLive, Runs
  <2>5. Good(RunInterrupted(r)) /\ Kept(r, RunInterrupted(r))
    BY <2>2, <2>3, <2>4, RunEventGood
  <2> QED
    BY <2>1, <2>5
<1> QED
  BY <1>1, <1>2

(***************************************************************************)
(* The inductive invariant                                                 *)
(***************************************************************************)
\* Only nodes of the projection have a session, are started by a task or
\* watched by the sweep.
Known ==
  /\ \A n \in session : Present(log, n)
  /\ \A t \in Tasks : task[t].at \in {"tmux", "resume"} =>
                        task[t].node \in Nodes /\ Present(log, task[t].node)
  /\ \A n \in sweep.names : Present(log, n)

\* A completion's date is of a row that is settled.
Dated == \A n \in Nodes : done[n] # "none" => log.nodes[n].row[Lap] = "completed"

\* What the reaper listed is in the projection, what it condemned is settled.
Condemning ==
  /\ \A n \in reaper.names : Present(log, n)
  /\ reaper.at = "kill" =>
       log.status = "archived" \/ \A n \in reaper.names : log.nodes[n].row[Lap] = "completed"

\* A parked run is at rest: the daemon works on it again only after it was
\* re-opened.
ParkedRests == log.status = "awaiting" => Quiet /\ sweep.names = {}

Inv == TypeOK /\ Good(log) /\ Known /\ Dated /\ Condemning /\ ParkedRests

TaskStates == [at : {"idle", "reap", "advance", "spawn", "tmux", "resume"},
               todo : SUBSET Nodes, node : Nodes \cup {NoNode}]

\* A run that starts has everything before it.
LEMMA InitInv == Init => Inv
<1> SUFFICES ASSUME Init PROVE Inv
  OBVIOUS
<1> USE RecoveryAssumption
<1>1. \A n \in Nodes : log.nodes[n].st = "absent" /\ log.nodes[n].row[Lap] = "none"
  BY LapType DEF Init, FreshRun, AbsentNode
<1>2. log \in Runs /\ log.status = "running"
  BY FreshType DEF Init, FreshRun
<1>3. Good(log)
  BY <1>1, <1>2 DEF Good, PlainNode
<1>4. task \in [Tasks -> TaskStates] /\ \A t \in Tasks : task[t].at \in {"idle", "advance"}
  BY DEF Init, Idle, TaskStates
<1>5. TypeOK
  BY <1>2, <1>4 DEF Init, TypeOK, Resting, TaskStates
<1>6. Known /\ Dated /\ Condemning /\ ParkedRests
  BY <1>2, <1>4 DEF Init, Known, Dated, Condemning, ParkedRests, Resting
<1> QED
  BY <1>3, <1>5, <1>6 DEF Inv

(***************************************************************************)
(* The steps of the daemon's tasks                                         *)
(***************************************************************************)
\* A task that goes on changes itself only.
LEMMA GoesType ==
  ASSUME Inv, NEW t \in Tasks, NEW at \in {"idle", "reap", "advance", "spawn", "tmux", "resume"},
         NEW todo \in SUBSET Nodes, NEW n \in Nodes \cup {NoNode}, Goes(t, at, todo, n)
  PROVE  /\ task' \in [Tasks -> TaskStates]
         /\ task'[t].at = at /\ task'[t].node = n
         /\ \A u \in Tasks \ {t} : task'[u] = task[u]
  BY DEF Goes, Inv, TypeOK, TaskStates

\* So does one that goes back to its spawns.
LEMMA ResumesType ==
  ASSUME Inv, NEW t \in Tasks, Resumes(t)
  PROVE  /\ task' \in [Tasks -> TaskStates]
         /\ task'[t].at \in {"idle", "spawn"}
         /\ \A u \in Tasks \ {t} : task'[u] = task[u]
<1>1. task[t].todo \in SUBSET Nodes
  BY DEF Inv, TypeOK
<1>2. CASE Goes(t, "idle", {}, NoNode)
  BY <1>2, GoesType
<1>3. CASE Goes(t, "spawn", task[t].todo, NoNode)
  BY <1>1, <1>3, GoesType
<1> QED
  BY <1>2, <1>3 DEF Resumes

\* A step of a task at work keeps the invariant when it keeps the log good and
\* the sessions and dates with it.
LEMMA WorkInv ==
  ASSUME Inv, up = "up", NEW t \in Tasks,
         task' \in [Tasks -> TaskStates], \A u \in Tasks \ {t} : task'[u] = task[u],
         task'[t].at \in {"tmux", "resume"} =>
           task'[t].node \in Nodes /\ Present(log', task'[t].node),
         Good(log'), Kept(log, log'), log'.status # "awaiting",
         session' \subseteq Nodes, \A n \in session' : Present(log', n),
         done' \in [Nodes -> {"none", "fresh", "old"}],
         \A n \in Nodes : done'[n] # "none" => log'.nodes[n].row[Lap] = "completed",
         crashes' \in 0..MaxCrashes, gestures' \in 0..MaxGestures,
         UNCHANGED <<wiring, up, reaper, sweep>>
  PROVE  Inv'
<1>1. TypeOK'
  BY DEF Inv, TypeOK, Good, TaskStates
<1>2. Known'
  <2>1. \A n \in sweep'.names : Present(log', n)
    BY DEF Inv, Known, Kept, TypeOK
  <2>2. ASSUME NEW u \in Tasks, task'[u].at \in {"tmux", "resume"}
        PROVE  task'[u].node \in Nodes /\ Present(log', task'[u].node)
    BY <2>2 DEF Inv, Known, Kept
  <2> QED
    BY <2>1, <2>2 DEF Known, Present
<1>3. Dated' /\ ParkedRests'
  BY DEF Dated, ParkedRests
<1>4. Condemning'
  BY DEF Inv, Condemning, Kept, TypeOK, Present
<1> QED
  BY <1>1, <1>2, <1>3, <1>4 DEF Inv

\* A task at work is one of a daemon that serves, on a run that is not parked.
LEMMA AtWork ==
  ASSUME Inv, NEW t \in Tasks, task[t].at # "idle"
  PROVE  up = "up" /\ log.status # "awaiting"
<1>1. task[t] # Idle
  BY DEF Idle
<1> QED
  BY <1>1 DEF Inv, TypeOK, ParkedRests, Quiet

\* What the steps that leave the log alone need of it.
LEMMA LogStays ==
  ASSUME Inv, log' = log
  PROVE  /\ Good(log') /\ Kept(log, log') /\ \A n \in session : Present(log', n)
         /\ \A n \in Nodes : done[n] # "none" => log'.nodes[n].row[Lap] = "completed"
         /\ session \subseteq Nodes /\ done \in [Nodes -> {"none", "fresh", "old"}]
         /\ crashes \in 0..MaxCrashes /\ gestures \in 0..MaxGestures
  BY KeptSame DEF Inv, Known, Dated, Present, TypeOK

\* Neither does a step that keeps the log good lose a session or a date.
LEMMA LogKept ==
  ASSUME Inv, Kept(log, log')
  PROVE  /\ \A n \in session : Present(log', n)
         /\ \A n \in Nodes : done[n] # "none" => log'.nodes[n].row[Lap] = "completed"
         /\ session \subseteq Nodes /\ done \in [Nodes -> {"none", "fresh", "old"}]
         /\ crashes \in 0..MaxCrashes /\ gestures \in 0..MaxGestures
<1>1. session \subseteq Nodes
  BY DEF Inv, TypeOK
<1> QED
  BY <1>1 DEF Inv, Known, Dated, Kept, TypeOK

\* The reap of a tail, and its next step.
LEMMA ReapInv == ASSUME Inv, NEW t \in Tasks, Reap(t) PROVE Inv'
<1>1. /\ task[t].at = "reap" /\ session' \subseteq session /\ Goes(t, "advance", {}, NoNode)
      /\ UNCHANGED <<log, done, up, reaper, sweep, wiring, crashes, gestures>>
  BY DEF Reap, counts
<1>2. up = "up" /\ log'.status # "awaiting"
  BY <1>1, AtWork
<1>3. /\ task' \in [Tasks -> TaskStates] /\ task'[t].at = "advance"
      /\ \A u \in Tasks \ {t} : task'[u] = task[u]
  BY <1>1, GoesType
<1>4. session' \subseteq Nodes /\ \A n \in session' : Present(log', n)
  BY <1>1, LogStays
<1> QED
  BY <1>1, <1>2, <1>3, <1>4, LogStays, WorkInv

\* A run is completed when every node is.
LEMMA AdvanceInv == ASSUME Inv, NEW t \in Tasks, Advance(t) PROVE Inv'
<1> DEFINE ready == IF RunAcceptsLifecycle(View(log)) THEN Ready(View(log)) ELSE {}
<1>1. /\ task[t].at = "advance"
      /\ Goes(t, IF ready = {} THEN "idle" ELSE "spawn", ready, NoNode)
      /\ log' = IF View(log).status = "running" /\ AllCompleted(View(log))
                THEN RunCompleted(log) ELSE log
      /\ UNCHANGED <<session, done, up, reaper, sweep, wiring, crashes, gestures>>
  BY DEF Advance, counts
<1>2. up = "up" /\ log.status # "awaiting"
  BY <1>1, AtWork
<1>3. /\ task' \in [Tasks -> TaskStates] /\ task'[t].at \in {"idle", "spawn"}
      /\ \A u \in Tasks \ {t} : task'[u] = task[u]
  <2>1. ready \in SUBSET Nodes
    BY DEF Ready
  <2> HIDE DEF ready
  <2> QED
    BY <1>1, <2>1, GoesType
<1>4. Good(log') /\ Kept(log, log') /\ log'.status # "awaiting"
  <2>1. CASE log' = log
    BY <1>2, <2>1, LogStays
  <2>2. CASE View(log).status = "running" /\ AllCompleted(View(log)) /\ log' = RunCompleted(log)
    <3>1. log \in Runs /\ log.status = "running"
      BY <2>2, ViewStatusIs DEF Inv, Good
    <3>2. ASSUME NEW n \in Nodes PROVE Untouched(log.nodes[n])
      <4>1. SettledComplete(log.nodes[n].st) /\ PlainNode(log.nodes[n])
        BY <2>2, <3>1, ViewKeeps DEF AllCompleted, Inv, Good
      <4> QED
        BY <4>1 DEF SettledComplete, PlainNode, Untouched
    <3>3. RunCompleted(log).status = "completed"
      BY <3>1 DEF RunCompleted, Runs
    <3>4. Good(log)
      BY DEF Inv
    <3> QED
      BY <2>2, <3>1, <3>2, <3>3, <3>4, RunEventGood
  <2> QED
    BY <1>1, <2>1, <2>2
<1> QED
  BY <1>1, <1>2, <1>3, <1>4, LogKept, WorkInv

\* A spawn reserves in a running run only.
LEMMA ReserveInv == ASSUME Inv, NEW t \in Tasks, Reserve(t) PROVE Inv'
<1>1. /\ task[t].at = "spawn"
      /\ UNCHANGED <<session, up, reaper, sweep, wiring, crashes, gestures>>
  BY DEF Reserve, counts
<1>2. up = "up" /\ log.status # "awaiting" /\ task[t].todo \in SUBSET Nodes
  BY <1>1, AtWork DEF Inv, TypeOK
<1>3. PICK n \in task[t].todo :
        LET left == task[t].todo \ {n}
        IN  \/ /\ Goes(t, IF left = {} THEN "idle" ELSE "spawn", left, NoNode)
               /\ UNCHANGED <<log, done>>
            \/ ValidateStart(View(log), n, Lap) # "reject" /\ Start(n) /\ Goes(t, "tmux", left, n)
  BY DEF Reserve
<1> DEFINE left == task[t].todo \ {n}
<1>4. n \in Nodes /\ left \in SUBSET Nodes
  BY <1>2
<1>5. CASE Goes(t, IF left = {} THEN "idle" ELSE "spawn", left, NoNode) /\ UNCHANGED <<log, done>>
  <2>1. /\ task' \in [Tasks -> TaskStates] /\ task'[t].at \in {"idle", "spawn"}
        /\ \A u \in Tasks \ {t} : task'[u] = task[u]
    <3> HIDE DEF left
    <3> QED
      BY <1>4, <1>5, GoesType
  <2> QED
    BY <1>1, <1>2, <1>5, <2>1, LogStays, WorkInv
<1>6. CASE ValidateStart(View(log), n, Lap) # "reject" /\ Start(n) /\ Goes(t, "tmux", left, n)
  <2>1. /\ task' \in [Tasks -> TaskStates] /\ task'[t].at = "tmux" /\ task'[t].node = n
        /\ \A u \in Tasks \ {t} : task'[u] = task[u]
    <3> HIDE DEF left
    <3> QED
      BY <1>4, <1>6, GoesType
  <2>2. log.status = "running" /\ log.nodes[n].row[Lap] # "completed"
    <3>1. log \in Runs /\ View(log).nodes[n].row = log.nodes[n].row
      BY <1>4, ViewKeeps DEF Inv, Good
    <3>2. RunAcceptsLifecycle(View(log)) /\ ~SettledComplete(log.nodes[n].row[Lap])
      BY <1>6, <3>1 DEF ValidateStart
    <3> QED
      BY <1>2, <3>1, <3>2, ViewStatusIs DEF RunAcceptsLifecycle, SettledComplete
  <2>3. Good(log') /\ Kept(log, log') /\ log'.status = "running" /\ Present(log', n)
    BY <1>4, <1>6, <2>2, StartedGood DEF Start, Inv
  <2>4. done' \in [Nodes -> {"none", "fresh", "old"}] /\ done'[n] = "none"
        /\ \A m \in Nodes \ {n} : done'[m] = done[m]
    BY <1>4, <1>6 DEF Start, Inv, TypeOK
  <2>5. \A m \in Nodes : done'[m] # "none" => log'.nodes[m].row[Lap] = "completed"
    BY <2>3, <2>4, LogKept
  <2> QED
    BY <1>1, <1>2, <1>4, <2>1, <2>3, <2>4, <2>5, LogKept, WorkInv
<1> QED
  BY <1>3, <1>5, <1>6

\* A session is created for a node that was started, or the node is interrupted.
LEMMA SessionInv ==
  ASSUME Inv, NEW t \in Tasks, OpenSession(t) \/ ResumeSession(t) PROVE Inv'
<1> DEFINE n == task[t].node
<1>1. /\ task[t].at \in {"tmux", "resume"} /\ Resumes(t)
      /\ UNCHANGED <<done, up, reaper, sweep, wiring, crashes, gestures>>
  BY DEF OpenSession, ResumeSession, counts
<1>2. up = "up" /\ log.status # "awaiting"
  BY <1>1, AtWork
<1>3. n \in Nodes /\ Present(log, n)
  BY <1>1 DEF Inv, Known
<1>4. /\ task' \in [Tasks -> TaskStates] /\ task'[t].at \in {"idle", "spawn"}
      /\ \A u \in Tasks \ {t} : task'[u] = task[u]
  BY <1>1, ResumesType
<1>5. CASE log' = log /\ session' \in {session, session \cup {n}}
  <2>1. session' \subseteq Nodes /\ \A m \in session' : Present(log', m)
    BY <1>3, <1>5, LogStays DEF Present
  <2> QED
    BY <1>1, <1>2, <1>4, <1>5, <2>1, LogStays, WorkInv
<1>6. CASE log' = AppendInterrupted(log, n) /\ session' = session
  <2>1. Good(log') /\ Kept(log, log') /\ log'.status # "awaiting"
    BY <1>2, <1>3, <1>6, InterruptGood DEF Inv
  <2> QED
    BY <1>1, <1>2, <1>4, <1>6, <2>1, LogKept, WorkInv
<1> QED
  BY <1>5, <1>6 DEF OpenSession, ResumeSession

(***************************************************************************)
(* The agents and the operator                                             *)
(***************************************************************************)
\* A step that leaves the tasks and the sweeps alone keeps the invariant when it
\* keeps the log good and parks nothing.
LEMMA AsideInv ==
  ASSUME Inv, UNCHANGED <<wiring, up, task, reaper, sweep, crashes, gestures>>,
         Good(log'), Kept(log, log'), log'.status = "awaiting" => log.status = "awaiting",
         session' \subseteq Nodes, \A n \in session' : Present(log', n),
         done' \in [Nodes -> {"none", "fresh", "old"}],
         \A n \in Nodes : done'[n] # "none" => log'.nodes[n].row[Lap] = "completed"
  PROVE  Inv'
<1>1. TypeOK'
  BY DEF Inv, TypeOK, Good
<1>2. Known'
  BY DEF Inv, Known, Kept, TypeOK, Present
<1>3. Dated' /\ ParkedRests'
  BY DEF Inv, Dated, ParkedRests, Quiet
<1>4. Condemning'
  BY DEF Inv, Condemning, Kept, TypeOK, Present
<1> QED
  BY <1>1, <1>2, <1>3, <1>4 DEF Inv

\* A row is at work in a run that is neither parked nor complete only.
LEMMA OpenRow ==
  ASSUME Inv, NEW n \in Nodes, log.nodes[n].row[Lap] \notin {"none", "completed"}
  PROVE  log.status \notin {"awaiting", "completed"}
  BY DEF Inv, Good, PlainNode, Untouched

\* An agent, and the passing of time.
LEMMA AgentInv ==
  ASSUME Inv, NEW n \in Nodes, AgentStep(n) \/ TtlPasses(n) PROVE Inv'
<1>0. /\ log \in Runs /\ View(log).nodes[n].row = log.nodes[n].row /\ PlainNode(log.nodes[n])
      /\ Good(log)
  BY ViewKeeps DEF Inv, Good
<1>1. CASE AgentDone(n)
  <2>1. /\ up = "up" /\ n \in session /\ ValidateCompletion(View(log), n, Lap, FALSE) = "allow"
        /\ log' = NodeCompleted(log, n, Lap) /\ done' = [done EXCEPT ![n] = "fresh"]
        /\ Goes(n, "reap", {}, NoNode)
        /\ UNCHANGED <<session, up, reaper, sweep, wiring, crashes, gestures>>
    BY <1>1 DEF AgentDone, counts
  <2>2. RunAcceptsLifecycle(View(log)) /\ log.nodes[n].row[Lap] \in {"running", "awaiting", "failed"}
    BY <1>0, <2>1 DEF ValidateCompletion
  <2>3. log.status = "running"
    BY <1>0, <2>2, OpenRow, ViewStatusIs DEF RunAcceptsLifecycle
  <2>4. Present(log, n)
    BY <2>1 DEF Inv, Known
  <2>5. /\ Good(log') /\ Kept(log, log') /\ log'.status = "running"
        /\ log'.nodes[n].row[Lap] = "completed"
    BY <1>0, <2>1, <2>3, <2>4, CompletedGood
  <2>6. n \in Tasks
    BY DEF Tasks
  <2>7. /\ task' \in [Tasks -> TaskStates] /\ task'[n].at = "reap"
        /\ \A u \in Tasks \ {n} : task'[u] = task[u]
    BY <2>1, <2>6, GoesType
  <2>8. /\ done' \in [Nodes -> {"none", "fresh", "old"}]
        /\ \A m \in Nodes : done'[m] # "none" => log'.nodes[m].row[Lap] = "completed"
    BY <2>1, <2>5, LogKept
  <2> QED
    BY <2>1, <2>5, <2>6, <2>7, <2>8, LogKept, WorkInv
<1>2. CASE AgentWaits(n)
  <2>1. /\ n \in session /\ IsLive(View(log).status) /\ HoldsSession(log.nodes[n].row[Lap])
        /\ log' = NodeAwaitingUser(log, n, Lap, TRUE)
        /\ UNCHANGED <<session, done, up, task, reaper, sweep, wiring, crashes, gestures>>
    BY <1>2 DEF AgentWaits, memory, counts, Row
  <2>2. log.status = "running"
    BY <1>0, <2>1, OpenRow, ViewStatusIs DEF IsLive, HoldsSession, Good
  <2>3. Present(log, n) /\ log.nodes[n].row[Lap] # "completed"
    BY <2>1 DEF Inv, Known, HoldsSession
  <2>4. Good(log') /\ Kept(log, log') /\ log'.status = "running"
    BY <1>0, <2>1, <2>2, <2>3, AwaitingGood
  <2> QED
    BY <2>1, <2>4, LogKept, AsideInv
<1>3. CASE WaitLifted(n)
  <2>1. /\ log.nodes[n].st = "awaiting" /\ log' = NodeResumed(log, n, Lap)
        /\ UNCHANGED <<session, done, up, task, reaper, sweep, wiring, crashes, gestures>>
    BY <1>3 DEF WaitLifted, memory, counts
  <2>2. Good(log') /\ Kept(log, log') /\ log'.status # "awaiting"
    BY <1>0, <2>1, ResumedGood
  <2> QED
    BY <2>1, <2>2, LogKept, AsideInv
<1>4. CASE AgentDies(n)
  <2>1. /\ session' = session \ {n}
        /\ UNCHANGED <<log, done, up, task, reaper, sweep, wiring, crashes, gestures>>
    BY <1>4 DEF AgentDies, memory, counts
  <2>2. session' \subseteq Nodes /\ \A m \in session' : Present(log', m)
    BY <2>1, LogStays
  <2> QED
    BY <2>1, <2>2, LogStays, AsideInv
<1>5. CASE TtlPasses(n)
  <2>1. /\ done[n] = "fresh" /\ done' = [done EXCEPT ![n] = "old"]
        /\ UNCHANGED <<log, session, up, task, reaper, sweep, wiring, crashes, gestures>>
    BY <1>5 DEF TtlPasses, memory, counts
  <2>2. /\ done' \in [Nodes -> {"none", "fresh", "old"}]
        /\ \A m \in Nodes : done'[m] # "none" => log'.nodes[m].row[Lap] = "completed"
    BY <2>1, LogStays
  <2> QED
    BY <2>1, <2>2, LogStays, AsideInv
<1> QED
  BY <1>1, <1>2, <1>3, <1>4, <1>5 DEF AgentStep

\* A re-opening keeps the dates of the nodes it keeps.
LEMMA ForgetType ==
  ASSUME Inv, NEW r, Good(r), Kept(log, r)
  PROVE  /\ Forget(r) \in [Nodes -> {"none", "fresh", "old"}]
         /\ \A n \in Nodes : Forget(r)[n] # "none" => r.nodes[n].row[Lap] = "completed"
  BY LogKept DEF Forget, Inv, Dated, Kept, TypeOK

\* A parked run is re-opened by every gesture that starts a node.
LEMMA EmbedReopens ==
  ASSUME Inv
  PROVE  Good(EmbedReopen(log)) /\ Kept(log, EmbedReopen(log)) /\ EmbedReopen(log).status # "awaiting"
<1>0. Good(log) /\ log \in Runs
  BY DEF Inv, Good
<1>1. CASE EmbedReopen(log) = RunReopened(log)
  BY <1>0, <1>1, ReopenGood
<1>2. CASE EmbedReopen(log) = log /\ ~NeedsReopen(View(log))
  <2>1. log.status # "awaiting"
    <3> SUFFICES ASSUME log.status = "awaiting" PROVE NeedsReopen(View(log))
      BY <1>2
    <3>1. log.reason = "incident" /\ ViewStatus(log) = "awaiting"
      BY <1>0, ViewStatusIs DEF Good, View
    <3>2. View(log).status = "awaiting" /\ View(log).reason = "incident"
      BY <3>1 DEF View, ViewReason
    <3> QED
      BY <3>2 DEF NeedsReopen, IsDeclaredWait
  <2> QED
    BY <1>0, <1>2, <2>1, KeptSame
<1> QED
  BY <1>1, <1>2 DEF EmbedReopen

\* The requests of the operator.
LEMMA OperatorInv == ASSUME Inv, OperatorStep PROVE Inv'
<1>0. Operator \in Tasks /\ Good(log) /\ log \in Runs
  BY DEF Tasks, Inv, Good
<1>a. ASSUME Gesture
      PROVE  /\ up = "up" /\ task[Operator] = Idle
             /\ gestures' \in 0..MaxGestures /\ crashes' \in 0..MaxCrashes
             /\ UNCHANGED <<wiring, up, reaper, sweep, crashes>>
  BY <1>a, RecoveryAssumption DEF Gesture, Inv, TypeOK
<1>1. ASSUME NEW n \in Nodes, RestartNode(n) PROVE Inv'
  <2> DEFINE r == EmbedReopen(log)
  <2>1. /\ Gesture /\ log' = r /\ done' = Forget(r)
        /\ \/ session' = session \ {n} /\ Goes(Operator, "spawn", {n}, NoNode)
           \/ UNCHANGED <<session, task>>
    BY <1>1 DEF RestartNode
  <2>2. Good(log') /\ Kept(log, log') /\ log'.status # "awaiting"
    BY <2>1, EmbedReopens
  <2>3. /\ done' \in [Nodes -> {"none", "fresh", "old"}]
        /\ \A m \in Nodes : done'[m] # "none" => log'.nodes[m].row[Lap] = "completed"
    BY <2>1, <2>2, ForgetType
  <2>4. session' \subseteq Nodes /\ \A m \in session' : Present(log', m)
    BY <2>1, <2>2, LogKept
  <2>5. /\ task' \in [Tasks -> TaskStates] /\ task'[Operator].at \in {"idle", "spawn"}
        /\ \A u \in Tasks \ {Operator} : task'[u] = task[u]
    <3>1. CASE Goes(Operator, "spawn", {n}, NoNode)
      BY <1>0, <3>1, GoesType
    <3>2. CASE task' = task
      BY <1>0, <1>a, <2>1, <3>2 DEF Inv, TypeOK, TaskStates, Idle
    <3> QED
      BY <2>1, <3>1, <3>2
  <2> QED
    BY <1>0, <1>a, <2>1, <2>2, <2>3, <2>4, <2>5, WorkInv
<1>2. ASSUME NEW n \in Nodes, ViewPane(n) PROVE Inv'
  <2>1. /\ Gesture /\ Present(log, n)
        /\ log.nodes[n].row[Lap] \notin {"completed", "skipped", "failed", "stopped"}
        /\ ValidateStart(View(log), n, Lap) = "allow"
        /\ log' = NodeStarted(log, n, Lap) /\ done' = [done EXCEPT ![n] = "none"]
        /\ Goes(Operator, "resume", {}, n)
        /\ session' = session
    BY <1>2 DEF ViewPane, Start, Row
  <2>2. log.status = "running"
    <3>1. RunAcceptsLifecycle(View(log))
      BY <2>1 DEF ValidateStart
    <3>2. log.nodes[n].row[Lap] # "none"
      BY <1>0, <2>1 DEF Good, PlainNode, Present
    <3> QED
      BY <1>0, <2>1, <3>1, <3>2, OpenRow, ViewStatusIs DEF RunAcceptsLifecycle
  <2>3. Good(log') /\ Kept(log, log') /\ log'.status = "running" /\ Present(log', n)
    BY <1>0, <2>1, <2>2, StartedGood
  <2>4. /\ done' \in [Nodes -> {"none", "fresh", "old"}]
        /\ \A m \in Nodes : done'[m] # "none" => log'.nodes[m].row[Lap] = "completed"
    BY <2>1, <2>3, LogKept
  <2>5. /\ task' \in [Tasks -> TaskStates] /\ task'[Operator].node = n
        /\ \A u \in Tasks \ {Operator} : task'[u] = task[u]
    BY <1>0, <2>1, GoesType
  <2> QED
    BY <1>0, <1>a, <2>1, <2>3, <2>4, <2>5, LogKept, WorkInv
<1>3. CASE ReopenRun
  <2>1. /\ Gesture /\ log' = RunReopened(log) /\ done' = Forget(log')
        /\ Goes(Operator, "advance", {}, NoNode) /\ session' = session
    BY <1>3 DEF ReopenRun
  <2>2. Good(log') /\ Kept(log, log') /\ log'.status # "awaiting"
    BY <1>0, <2>1, ReopenGood
  <2>3. /\ done' \in [Nodes -> {"none", "fresh", "old"}]
        /\ \A m \in Nodes : done'[m] # "none" => log'.nodes[m].row[Lap] = "completed"
    BY <2>1, <2>2, ForgetType
  <2>4. /\ task' \in [Tasks -> TaskStates] /\ task'[Operator].at = "advance"
        /\ \A u \in Tasks \ {Operator} : task'[u] = task[u]
    BY <1>0, <2>1, GoesType
  <2> QED
    BY <1>0, <1>a, <2>1, <2>2, <2>3, <2>4, LogKept, WorkInv
<1>4. CASE CleanupRun
  <2>1. /\ Gesture /\ session' \subseteq session /\ log' = RunArchived(log)
        /\ done' = done /\ task' = task
    BY <1>4 DEF CleanupRun
  <2>2. RunArchived(log).status = "archived"
    BY <1>0 DEF RunArchived, Runs
  <2>3. Good(log') /\ Kept(log, log')
    BY <1>0, <2>1, <2>2, RunEventGood
  <2>4. session' \subseteq Nodes /\ \A m \in session' : Present(log', m)
    BY <2>1, <2>3, LogKept
  <2>5. task' \in [Tasks -> TaskStates] /\ task'[Operator].at = "idle"
    BY <1>0, <1>a, <2>1 DEF Inv, TypeOK, TaskStates, Idle
  <2> QED
    BY <1>0, <1>a, <2>1, <2>2, <2>3, <2>4, <2>5, LogKept, WorkInv
<1> QED
  BY <1>1, <1>2, <1>3, <1>4 DEF OperatorStep

(***************************************************************************)
(* The sweeps, crash and boot                                              *)
(***************************************************************************)
\* What is condemned is archived or settled, because what was listed is known.
LEMMA ReaperInv == ASSUME Inv, ReaperStep PROVE Inv'
<1>0. UNCHANGED <<log, done, task, sweep, wiring, crashes, gestures>>
  BY DEF ReaperStep, ListSessions, Judge, KillCondemned, counts
<1>1. session' \subseteq session /\ up \in {"up", "reaping"}
  BY DEF ReaperStep, ListSessions, Judge, KillCondemned, Inv, TypeOK, Resting
<1>2. Good(log') /\ Known' /\ Dated' /\ ParkedRests'
  BY <1>0, <1>1 DEF Inv, Known, Dated, ParkedRests, Quiet, Present
<1>3. CASE ListSessions
  <2>1. reaper' = [at |-> "judge", names |-> session] /\ up' = up
    BY <1>3 DEF ListSessions
  <2>2. TypeOK'
    BY <1>0, <1>1, <2>1 DEF Inv, TypeOK
  <2>3. Condemning'
    BY <1>0, <2>1 DEF Inv, Known, Condemning, Present
  <2> QED
    BY <1>2, <2>2, <2>3 DEF Inv
<1>4. CASE Judge
  <2>1. reaper' = [at |-> "kill", names |-> {n \in reaper.names : Condemned(n)}] /\ up' = up
    BY <1>4 DEF Judge
  <2>2. TypeOK'
    BY <1>0, <1>1, <2>1 DEF Inv, TypeOK
  <2>3. Condemning'
    <3>1. ASSUME NEW n \in reaper.names, Condemned(n), log.status # "archived"
          PROVE  log.nodes[n].row[Lap] = "completed"
      <4>1. n \in Nodes /\ Present(log, n)
        BY DEF Inv, TypeOK, Condemning
      <4> QED
        BY <3>1, <4>1 DEF Condemned, Inv, Dated
    <3> QED
      BY <1>0, <2>1, <3>1 DEF Inv, Condemning, Present
  <2> QED
    BY <1>2, <2>2, <2>3 DEF Inv
<1>5. CASE KillCondemned
  <2>1. reaper' = Resting /\ up' = IF up = "reaping" THEN "reconciling" ELSE up
    BY <1>5 DEF KillCondemned
  <2>2. TypeOK'
    BY <1>0, <1>1, <2>1 DEF Inv, TypeOK, Resting
  <2>3. Condemning'
    BY <2>1 DEF Condemning, Resting
  <2> QED
    BY <1>2, <2>2, <2>3 DEF Inv
<1> QED
  BY <1>3, <1>4, <1>5 DEF ReaperStep

\* What the sweep watches is known; it parks a run at rest only.
LEMMA SweepInv == ASSUME Inv, SweepStep PROVE Inv'
<1>0. UNCHANGED <<session, done, up, task, reaper, wiring, crashes, gestures>> /\ Good(log)
      /\ log \in Runs
  BY DEF SweepStep, Look, Probe, Reconcile, counts, Inv, Good
<1>a. ASSUME Good(log'), Kept(log, log'), sweep' \in [at : {"idle", "probe"}, names : SUBSET Nodes],
             \A n \in sweep'.names : Present(log', n),
             up # "up" => sweep' = Resting,
             log'.status = "awaiting" => Quiet /\ sweep'.names = {}
      PROVE  Inv'
  <2>1. TypeOK'
    BY <1>0, <1>a DEF Inv, TypeOK, Good
  <2>2. Known' /\ Dated'
    BY <1>0, <1>a DEF Inv, Known, Dated, Kept, TypeOK, Present
  <2>3. Condemning'
    BY <1>0, <1>a DEF Inv, Condemning, Kept, TypeOK, Present
  <2>4. ParkedRests'
    BY <1>0, <1>a DEF ParkedRests, Quiet
  <2> QED
    BY <1>a, <2>1, <2>2, <2>3, <2>4 DEF Inv
<1>1. CASE Look
  <2>1. up = "up" /\ log' = log /\ sweep' = [at |-> "probe", names |-> Watched(View(log))]
    BY <1>1 DEF Look
  <2>2. \A n \in Watched(View(log)) : n \in Nodes /\ log.nodes[n].st = "running"
    BY <1>0, ViewKeeps DEF Watched
  <2>3. /\ \A n \in Watched(View(log)) : Present(log, n)
        /\ log.status = "awaiting" => Watched(View(log)) = {}
    BY <1>0, <2>2 DEF Present, Good, Untouched
  <2>4. Watched(View(log)) \in SUBSET Nodes
    BY <2>2
  <2> QED
    BY <1>0, <1>a, <2>1, <2>3, <2>4, KeptSame DEF Inv, ParkedRests, Present
<1>2. ASSUME NEW n \in Nodes, Probe(n) PROVE Inv'
  <2>1. /\ sweep.at = "probe" /\ n \in sweep.names
        /\ log' = IF n \in session THEN log ELSE AppendInterrupted(log, n)
        /\ sweep' = [sweep EXCEPT !.names = @ \ {n}]
    BY <1>2 DEF Probe
  <2>2. Present(log, n) /\ log.status # "awaiting" /\ up = "up"
    BY <2>1 DEF Inv, Known, ParkedRests, TypeOK, Resting
  <2>3. Good(log') /\ Kept(log, log') /\ log'.status = log.status
    BY <1>0, <2>1, <2>2, InterruptGood, KeptSame
  <2>4. sweep' \in [at : {"idle", "probe"}, names : SUBSET Nodes] /\ sweep'.names \subseteq sweep.names
    BY <2>1 DEF Inv, TypeOK
  <2>5. \A m \in sweep'.names : Present(log', m)
    BY <2>3, <2>4 DEF Inv, Known, Kept, TypeOK
  <2> QED
    BY <1>a, <2>2, <2>3, <2>4, <2>5
<1>3. CASE Reconcile
  <2>1. /\ sweep.names = {} /\ sweep.at = "probe" /\ log' = Stall(log) /\ sweep' = Resting
    BY <1>3 DEF Reconcile
  <2>2. /\ Good(log') /\ Kept(log, log')
        /\ log'.status = "awaiting" /\ log.status # "awaiting" => Quiet
    BY <1>0, <2>1, StallGood
  <2>3. log'.status = "awaiting" => Quiet
    BY <2>2 DEF Inv, ParkedRests
  <2> QED
    BY <1>a, <2>1, <2>2, <2>3 DEF Resting
<1> QED
  BY <1>1, <1>2, <1>3 DEF SweepStep

\* The daemon dies; what it knew is gone.
LEMMA CrashInv == ASSUME Inv, Crash \/ Boot PROVE Inv'
<1> USE RecoveryAssumption
<1>1. UNCHANGED <<wiring, log, session, done, gestures>>
  BY DEF Crash, Boot, memory, counts
<1>2. /\ task' \in [Tasks -> TaskStates] /\ \A t \in Tasks : task'[t] = Idle
      /\ reaper' = Resting /\ sweep' = Resting
      /\ up' \in {"down", "reaping"} /\ crashes' \in 0..MaxCrashes
  <2>1. Idle \in TaskStates
    BY DEF Idle, TaskStates
  <2>2. CASE Crash
    BY <2>1, <2>2 DEF Crash, LoseMemory, Inv, TypeOK
  <2>3. CASE Boot
    BY <2>3 DEF Boot, memory, counts, Inv, TypeOK, TaskStates
  <2> QED
    BY <2>2, <2>3
<1>3. TypeOK'
  BY <1>1, <1>2 DEF Inv, TypeOK, Resting, TaskStates
<1>4. Good(log') /\ Known' /\ Dated' /\ Condemning' /\ ParkedRests'
  BY <1>1, <1>2 DEF Inv, Known, Dated, Condemning, ParkedRests, Quiet, Resting, Idle, Present
<1> QED
  BY <1>3, <1>4 DEF Inv

\* Boot interrupts the nodes without a session, each on its own.
LEMMA RecoverGood ==
  ASSUME NEW r, Good(r), NEW gone \in SUBSET {n \in Nodes : Present(r, n)}
  PROVE  LET s == [r EXCEPT !.nodes = [n \in Nodes |-> IF n \in gone
                                                      THEN AppendInterrupted(r, n).nodes[n]
                                                      ELSE @[n]]]
         IN  Good(s) /\ Kept(r, s) /\ s.status = r.status
<1> DEFINE f == [n \in Nodes |-> IF n \in gone THEN AppendInterrupted(r, n).nodes[n]
                                 ELSE r.nodes[n]]
           s == [r EXCEPT !.nodes = f]
<1>1. ASSUME NEW n \in Nodes
      PROVE  /\ f[n] \in NodeStates /\ PlainNode(f[n])
             /\ r.nodes[n].st # "absent" => f[n].st # "absent"
             /\ r.nodes[n].row[Lap] = "completed" => f[n].row[Lap] = "completed"
             /\ r.status \in {"awaiting", "completed"} => Untouched(f[n])
  <2>1. CASE n \in gone
    <3> DEFINE i == AppendInterrupted(r, n)
    <3>1. Good(i) /\ Kept(r, i) /\ i.status = r.status
      BY <2>1, InterruptGood
    <3> HIDE DEF i
    <3>2. i.nodes[n] \in NodeStates
      BY <3>1, NodeType DEF Good
    <3>3. f[n] = i.nodes[n]
      BY <2>1 DEF i
    <3> HIDE DEF f
    <3> QED
      BY <3>1, <3>2, <3>3 DEF Good, Kept, Present
  <2>2. CASE n \notin gone
    BY <2>2, NodeType DEF Good
  <2> QED
    BY <2>1, <2>2
<1>2. f \in [Nodes -> NodeStates]
  BY <1>1
<1> HIDE DEF f
<1>3. s \in Runs /\ s.nodes = f /\ s.status = r.status /\ s.reason = r.reason
  BY <1>2 DEF Good, Runs
<1> HIDE DEF s
<1>4. Good(s) /\ Kept(r, s)
  BY <1>1, <1>3 DEF Good, Kept, Present
<1> QED
  BY <1>3, <1>4 DEF s, f

\* Boot recovery, before anything is served.
LEMMA RecoverInv == ASSUME Inv, RecoverRun PROVE Inv'
<1> DEFINE gone == Dangling(View(log))
           r == [log EXCEPT !.nodes = [n \in Nodes |-> IF n \in gone
                                                       THEN AppendInterrupted(log, n).nodes[n]
                                                       ELSE @[n]]]
<1>1. /\ up = "reconciling" /\ log' \in {r, Stall(r)} /\ up' = "up"
      /\ UNCHANGED <<session, done, task, reaper, sweep, wiring, crashes, gestures>>
  BY DEF RecoverRun, memory, counts
<1>2. Good(log) /\ log \in Runs
  BY DEF Inv, Good
<1>3. gone \in SUBSET {n \in Nodes : Present(log, n)}
  BY <1>2, ViewKeeps DEF Dangling, HoldsSession, Present
<1>4. Good(r) /\ Kept(log, r)
  <2> HIDE DEF gone
  <2> QED
    BY <1>2, <1>3, RecoverGood
<1> HIDE DEF gone, r
<1>5. Good(log') /\ Kept(log, log')
  <2>1. Good(Stall(r)) /\ Kept(r, Stall(r))
    BY <1>4, StallGood
  <2>2. Kept(log, Stall(r))
    BY <1>4, <2>1 DEF Kept
  <2> QED
    BY <1>1, <1>4, <2>1, <2>2
<1>6. Quiet /\ sweep = Resting /\ reaper = Resting
  BY <1>1 DEF Inv, TypeOK, Quiet
<1>7. TypeOK'
  BY <1>1, <1>5 DEF Inv, TypeOK, Good
<1>8. Known' /\ Dated'
  BY <1>1, <1>5 DEF Inv, Known, Dated, Kept, TypeOK, Present
<1>9. Condemning' /\ ParkedRests'
  BY <1>1, <1>6 DEF Condemning, ParkedRests, Quiet, Resting
<1> QED
  BY <1>5, <1>7, <1>8, <1>9 DEF Inv

\* Every step keeps the invariant.
LEMMA StepInv == Inv /\ [Next]_vars => Inv'
<1> SUFFICES ASSUME Inv, [Next]_vars PROVE Inv'
  OBVIOUS
<1>1. CASE UNCHANGED vars
  <2>1. UNCHANGED <<wiring, log, session, done, up, task, reaper, sweep, crashes, gestures>>
    BY <1>1 DEF vars
  <2> QED
    BY <2>1, LogStays, AsideInv
<1>2. ASSUME NEW t \in Tasks, TaskStep(t) PROVE Inv'
  BY <1>2, ReapInv, AdvanceInv, ReserveInv, SessionInv DEF TaskStep
<1>3. ASSUME NEW n \in Nodes, AgentStep(n) \/ TtlPasses(n) PROVE Inv'
  BY <1>3, AgentInv
<1>4. CASE OperatorStep \/ ReaperStep \/ SweepStep
  BY <1>4, OperatorInv, ReaperInv, SweepInv
<1>5. CASE Crash \/ Boot \/ RecoverRun
  BY <1>5, CrashInv, RecoverInv
<1> QED
  BY <1>1, <1>2, <1>3, <1>4, <1>5 DEF Next

\* The invariant holds in every behaviour.
LEMMA Invariant == Spec => []Inv
  BY InitInv, StepInv, PTL DEF Spec

(***************************************************************************)
(* The theorems                                                            *)
(***************************************************************************)
\* Log, sessions, tasks and sweeps keep their types, and a daemon that does not
\* serve has no task at work.
THEOREM RecoveryTypeOK == Spec => []TypeOK
<1>1. Inv => TypeOK
  BY DEF Inv
<1> QED
  BY <1>1, Invariant, PTL

\* The reaper never kills a session whose iteration is at work, whatever was
\* spawned, restarted or re-attached between its list, its look at the log and
\* its kill.
THEOREM ReaperSparesWork == Spec => SparesWork
<1> DEFINE Spares == KillCondemned =>
             \A n \in reaper.names \cap session :
               ~(RunAcceptsLifecycle(View(log)) /\ HoldsSession(Row(n)))
<1>1. ASSUME Inv PROVE Spares
  <2> SUFFICES ASSUME KillCondemned, NEW n \in reaper.names \cap session,
                      RunAcceptsLifecycle(View(log))
               PROVE  ~HoldsSession(Row(n))
    OBVIOUS
  <2>1. log \in Runs /\ reaper.at = "kill"
    BY <1>1 DEF Inv, Good, KillCondemned
  <2>2. log.status # "archived"
    BY <2>1, ViewStatusIs DEF RunAcceptsLifecycle
  <2>3. log.nodes[n].row[Lap] = "completed"
    BY <1>1, <2>1, <2>2 DEF Inv, Condemning
  <2> QED
    BY <2>3 DEF HoldsSession, Row
<1>2. Inv => [Spares]_vars
  BY <1>1
<1>3. [][Spares]_vars => SparesWork
  BY PTL DEF SparesWork
<1> QED
  BY <1>2, <1>3, Invariant, PTL

=============================================================================
