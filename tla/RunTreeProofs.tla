----------------------------- MODULE RunTreeProofs -----------------------------
(***************************************************************************)
(* The safety of RunTree, for any family of runs, any tree they grow into   *)
(* and any number of watchers, gestures and crashes: a forgotten run stays  *)
(* forgotten, a node parked behind its children has a watcher as long as no  *)
(* pause, forced completion, failing parent or crash comes between, no       *)
(* attempt completes a node above a child that holds it, and the cascade     *)
(* goes from the leaves to the root and orphans nobody.                      *)
(***************************************************************************)
EXTENDS RunTreeHistory, RunLogProofs

(***************************************************************************)
(* The log of one run                                                      *)
(***************************************************************************)
\* There is one node, at one iteration.
LEMMA WorkerType ==
  Worker \in Nodes /\ Nodes = {Worker} /\ Lap \in Iters /\ Iters = {Lap} /\ Lap = 1
  BY RunTreeAssumption DEF Lap, Iters

\* No node event leaves the type.
LEMMA NodeEventType ==
  ASSUME NEW x \in Runs
  PROVE  /\ NodeStarted(x, Worker, Lap) \in Runs
         /\ NodeCompleted(x, Worker, Lap) \in Runs
         /\ NodeFailed(x, Worker, Lap) \in Runs
         /\ NodeInterrupted(x, Worker, Lap) \in Runs
         /\ NodeAwaitingUser(x, Worker, Lap, FALSE) \in Runs
<1>1. Worker \in Nodes /\ Lap \in Iters /\ FALSE \in BOOLEAN
  BY WorkerType
<1>2. NodeStarted(x, Worker, Lap) \in Runs /\ NodeInterrupted(x, Worker, Lap) \in Runs
  BY <1>1, StartedStep, InterruptedStep DEF OnlyNode
<1>3. CASE Present(x, Worker)
  <2>1. NodeCompleted(x, Worker, Lap) \in Runs
    BY <1>1, <1>3, CompletedStep DEF OnlyNode
  <2>2. NodeFailed(x, Worker, Lap) \in Runs
    BY <1>1, <1>3, FailedStep DEF OnlyNode
  <2>3. NodeAwaitingUser(x, Worker, Lap, FALSE) \in Runs
    BY <1>1, <1>3, AwaitingStep DEF OnlyNode
  <2> QED
    BY <1>2, <2>1, <2>2, <2>3
<1>4. CASE ~Present(x, Worker)
  BY <1>2, <1>4 DEF NodeCompleted, NodeFailed, NodeAwaitingUser
<1> QED
  BY <1>3, <1>4

\* Nor does an event of the run, a re-opening or a boot.
LEMMA RunEventType ==
  ASSUME NEW x \in Runs
  PROVE  /\ RunCompleted(x) \in Runs /\ RunFailed(x) \in Runs
         /\ RunInterrupted(x) \in Runs /\ RunArchived(x) \in Runs
         /\ RunPaused(x) \in Runs /\ RunResumed(x) \in Runs
         /\ RunReopened(x) \in Runs /\ EmbedReopen(x) \in Runs
<1>1. /\ RunCompleted(x) \in Runs /\ RunFailed(x) \in Runs
      /\ RunInterrupted(x) \in Runs /\ RunArchived(x) \in Runs
      /\ RunPaused(x) \in Runs /\ RunResumed(x) \in Runs
  BY RunEventStep
<1>2. RunReopened(x) \in Runs
  BY ReopenedStep
<1> QED
  BY <1>1, <1>2 DEF EmbedReopen

\* What an append does to the logs and to the set of runs that have one.
LEMMA AppendType ==
  ASSUME TypeOK, NEW r \in Family, NEW new \in Runs, Append(r, new)
  PROVE  log' \in [Family -> Runs] /\ here' \subseteq Family /\ here \subseteq here'
<1>1. log \in [Family -> Runs] /\ here \subseteq Family
  BY DEF TypeOK
<1> QED
  BY <1>1 DEF Append

(***************************************************************************)
(* Type correctness                                                        *)
(***************************************************************************)
Phases == {"free", "asleep", "watch", "gate", "deliver"}
Attempts == [at : Phases, todo : SUBSET Family, some : BOOLEAN, held : BOOLEAN,
             knew : BOOLEAN]

\* The parts of TypeOK; most steps leave two of them alone.
LogType ==
  /\ log \in [Family -> Runs]
  /\ here \subseteq Family /\ forgotten \subseteq Family /\ marked \subseteq here
  /\ parent \in [Family -> Family \cup {NoRun}]

TryType ==
  /\ try \in [Tries -> Attempts]
  /\ \A r \in Family : try[<<r, Agent>>].at \notin {"asleep", "watch"}

RestType ==
  /\ session \subseteq Family
  /\ making \in [Family -> Family \cup {NoRun}]
  /\ tail \in [Family -> SUBSET {"reap", "advance", "fail"}]
  /\ cascade \in [root : Family \cup {NoRun}, todo : SUBSET Family]
  /\ cascade.root = NoRun => cascade.todo = {}
  /\ gestures \in 0..MaxGestures /\ crashes \in 0..MaxCrashes

\* TypeOK is its three parts.
LEMMA TypeParts == TypeOK <=> LogType /\ TryType /\ RestType
  BY DEF TypeOK, LogType, TryType, RestType, Attempts, Phases

\* The same of the state after a step.
LEMMA TypeNext == ASSUME LogType', TryType', RestType' PROVE TypeOK'
  BY DEF TypeOK, LogType, TryType, RestType, Attempts, Phases

\* A step that writes to no log keeps the type of the logs,
LEMMA SameLogType == ASSUME LogType, UNCHANGED events PROVE LogType'
  BY DEF LogType, events

\* one that touches no attempt keeps theirs,
LEMMA SameTryType == ASSUME TryType, UNCHANGED try PROVE TryType'
  BY DEF TryType

\* and one that touches none of the rest keeps that.
LEMMA SameRestType ==
  ASSUME RestType, UNCHANGED <<session, making, tail, cascade, gestures, crashes>>
  PROVE  RestType'
  BY DEF RestType

\* An append and nothing else keeps the type of the log.
LEMMA AppendLogType ==
  ASSUME TypeOK, NEW r \in Family, NEW new \in Runs, Append(r, new),
         UNCHANGED <<forgotten, parent, marked>>
  PROVE  LogType'
<1>1. log' \in [Family -> Runs] /\ here' \subseteq Family /\ here \subseteq here'
  BY AppendType
<1> QED
  BY <1>1 DEF TypeOK, LogType

\* What an attempt that begins to read knows, and that it has read nothing.
LEMMA ReadingMeans ==
  ASSUME NEW r, NEW at, NEW new \in Readings(r, at)
  PROVE  /\ new \in [at : {at}, todo : SUBSET Children(r), some : BOOLEAN, held : BOOLEAN,
                     knew : BOOLEAN]
         /\ new.at = at /\ ~new.held /\ (new.knew <=> r \in marked)
         /\ r \notin Unreadable => new.todo = Children(r)
<1>1. PICK S \in {Children(r)} \cup (IF r \in Unreadable THEN {{}} ELSE {}) :
        new = [at |-> at, todo |-> S, some |-> FALSE, held |-> FALSE, knew |-> r \in marked]
  BY DEF Readings
<1>2. S \subseteq Children(r) /\ (r \notin Unreadable => S = Children(r))
  BY <1>1
<1>3. (r \in marked) \in BOOLEAN
  OBVIOUS
<1> QED
  BY <1>1, <1>2, <1>3

\* An attempt enters to read at the gate, or is over.
LEMMA EntryMeans ==
  ASSUME NEW r, NEW new \in Entries(r)
  PROVE  /\ new = Free \/ (r \in here /\ Verdict(r) = "allow" /\ new \in Readings(r, "gate"))
         /\ r \notin Unreadable /\ r \in here /\ Verdict(r) = "allow" =>
              new \in Readings(r, "gate")
  BY DEF Entries, Lost

\* The attempts a step can leave behind.
LEMMA AttemptTypes ==
  ASSUME TypeOK
  PROVE  /\ Free \in Attempts /\ Asleep \in Attempts
         /\ [Free EXCEPT !.at = "deliver"] \in Attempts
         /\ \A r, at : at \in Phases => Readings(r, at) \subseteq Attempts
         /\ \A r : \A new \in Entries(r) : new \in Attempts /\ new.at \in {"free", "gate"}
<1>1. Free \in Attempts /\ Asleep \in Attempts /\ [Free EXCEPT !.at = "deliver"] \in Attempts
  BY DEF Free, Asleep, Attempts, Phases
<1>2. \A r, at : at \in Phases => Readings(r, at) \subseteq Attempts
  <2>1. \A r : Children(r) \subseteq Family
    BY DEF TypeOK, Children
  <2>2. ASSUME NEW r, NEW at \in Phases, NEW new \in Readings(r, at) PROVE new \in Attempts
    BY <2>1, ReadingMeans DEF Attempts
  <2> QED
    BY <2>2
<1>3. ASSUME NEW r, NEW new \in Entries(r)
      PROVE  new \in Attempts /\ new.at \in {"free", "gate"}
  <2>1. new = Free \/ new \in Readings(r, "gate")
    BY <1>3, EntryMeans
  <2>2. CASE new = Free
    BY <1>1, <2>2 DEF Free
  <2>3. CASE new \in Readings(r, "gate")
    <3>1. new \in Attempts
      BY <1>2, <2>3 DEF Phases
    <3>2. new.at = "gate"
      BY <2>3, ReadingMeans
    <3> QED
      BY <3>1, <3>2
  <2> QED
    BY <2>1, <2>2, <2>3
<1> QED
  BY <1>1, <1>2, <1>3

\* An attempt that has read a child, or passes over one it could not read.
Reads(t, c) == [try[t] EXCEPT !.todo = @ \ {c}, !.some = @ \/ c \in here,
                              !.held = @ \/ (c \in here /\ Holds(c))]
Skips(t, c) == [try[t] EXCEPT !.todo = @ \ {c}]

LEMMA ReadMeans ==
  ASSUME NEW t, NEW c, try[t] \in Attempts
  PROVE  /\ Reads(t, c) \in Attempts /\ Skips(t, c) \in Attempts
         /\ Reads(t, c).at = try[t].at /\ Skips(t, c).at = try[t].at
         /\ Reads(t, c).knew = try[t].knew /\ Skips(t, c).knew = try[t].knew
         /\ Reads(t, c).todo = try[t].todo \ {c} /\ Skips(t, c).todo = try[t].todo \ {c}
         /\ Reads(t, c).held <=> try[t].held \/ (c \in here /\ Holds(c))
         /\ Skips(t, c).held = try[t].held
  BY DEF Reads, Skips, Attempts

\* One attempt replaced by another.
LEMMA GoesTryType ==
  ASSUME TryType, NEW t \in Tries, NEW new \in Attempts, Goes(t, new),
         t[2] = Agent => new.at \notin {"asleep", "watch"}
  PROVE  TryType'
<1>1. try' \in [Tries -> Attempts]
  BY DEF TryType, Goes
<1>2. ASSUME NEW r \in Family PROVE try'[<<r, Agent>>].at \notin {"asleep", "watch"}
  <2>1. CASE t = <<r, Agent>>
    BY <2>1 DEF TryType, Goes
  <2>2. CASE t # <<r, Agent>>
    BY <2>2 DEF TryType, Goes, Tries
  <2> QED
    BY <2>1, <2>2
<1> QED
  BY <1>1, <1>2 DEF TryType

\* The creation of a run, from the claim to RunStarted.
LEMMA CreateType ==
  ASSUME TypeOK, NEW c \in Family, CreateStep(c) PROVE TypeOK'
<1>0. LogType /\ TryType /\ RestType
  BY TypeParts
<1>1. CASE StartRun(c)
  <2>1. FreshRun \in Runs
    BY FreshType
  <2>2. log' \in [Family -> Runs] /\ here' \subseteq Family /\ here \subseteq here'
    BY <1>1, <2>1, AppendType DEF StartRun
  <2>3. LogType'
    BY <1>0, <1>1, <2>2 DEF StartRun, LogType, RestType
  <2>4. TryType' /\ RestType'
    BY <1>0, <1>1 DEF StartRun, TryType, RestType, counts
  <2> QED
    BY <2>3, <2>4, TypeNext
<1>2. CASE CreateFails(c)
  <2>1. LogType' /\ TryType' /\ RestType'
    BY <1>0, <1>2, SameLogType DEF CreateFails, TryType, RestType, counts
  <2> QED
    BY <2>1, TypeNext
<1>3. ASSUME NEW p \in Family, Claim(p, c) PROVE TypeOK'
  <2>1. LogType' /\ TryType' /\ RestType'
    BY <1>0, <1>3, SameLogType DEF Claim, TryType, RestType, counts
  <2> QED
    BY <2>1, TypeNext
<1> QED
  BY <1>1, <1>2, <1>3 DEF CreateStep

\* A step of an attempt, from its first reading to its end.
LEMMA TryStepType ==
  ASSUME TypeOK, NEW t \in Tries, TryStep(t) PROVE TypeOK'
<1>0. LogType /\ TryType /\ RestType
  BY TypeParts
<1>t. t[1] \in Family /\ t[2] \in 0..MaxWatchers /\ try[t] \in Attempts
      /\ (t[2] = Agent => try[t].at \notin {"asleep", "watch"})
  BY <1>0 DEF Tries, TryType
<1>1. CASE ReadChild(t)
  <2>1. PICK c \in try[t].todo : \E new \in {Reads(t, c), Skips(t, c)} : Goes(t, new)
    BY <1>1 DEF ReadChild, Reads, Skips
  <2>2. ASSUME NEW new \in {Reads(t, c), Skips(t, c)} PROVE new \in Attempts /\ new.at = try[t].at
    BY <1>t, <2>2, ReadMeans
  <2>3. TryType'
    BY <1>0, <1>t, <2>1, <2>2, GoesTryType
  <2>4. LogType' /\ RestType'
    BY <1>0, <1>1, SameLogType, SameRestType DEF ReadChild, counts
  <2> QED
    BY <2>3, <2>4, TypeNext
<1>2. CASE Pass(t)
  <2>1. TryType'
    BY <1>0, <1>2, AttemptTypes, GoesTryType DEF Pass, Free
  <2>2. LogType' /\ RestType'
    BY <1>0, <1>2, SameLogType, SameRestType DEF Pass, counts
  <2> QED
    BY <2>1, <2>2, TypeNext
<1>3. CASE DeliveryRefused(t)
  <2>1. TryType'
    BY <1>0, <1>3, AttemptTypes, GoesTryType DEF DeliveryRefused, Free
  <2>2. LogType' /\ RestType'
    BY <1>0, <1>3, SameLogType, SameRestType DEF DeliveryRefused, counts
  <2> QED
    BY <2>1, <2>2, TypeNext
<1>4. CASE Wake(t)
  <2>1. PICK new : Goes(t, new) /\ (new = Free \/ new \in Readings(t[1], "watch"))
    BY <1>4 DEF Wake, Lost
  <2>2. t[2] # Agent /\ new \in Attempts
    BY <1>4, <1>t, <2>1, AttemptTypes DEF Wake, Phases
  <2>3. TryType'
    BY <1>0, <2>1, <2>2, GoesTryType
  <2>4. LogType' /\ RestType'
    BY <1>0, <1>4, SameLogType, SameRestType DEF Wake, counts
  <2> QED
    BY <2>3, <2>4, TypeNext
<1>5. CASE Conclude(t)
  <2>1. PICK new : Goes(t, new) /\ (new = Asleep \/ new \in Entries(t[1]))
    BY <1>5 DEF Conclude
  <2>2. t[2] # Agent /\ new \in Attempts
    BY <1>5, <1>t, <2>1, AttemptTypes DEF Conclude, Read
  <2>3. TryType'
    BY <1>0, <2>1, <2>2, GoesTryType
  <2>4. LogType' /\ RestType'
    BY <1>0, <1>5, SameLogType, SameRestType DEF Conclude, counts
  <2> QED
    BY <2>3, <2>4, TypeNext
<1>6. CASE Refuse(t)
  <2>1. LogType'
    <3>1. CASE try[t].knew
      BY <1>0, <1>6, <3>1 DEF Refuse, LogType
    <3>2. CASE ~try[t].knew
      <4>1. log[t[1]] \in Runs
        BY <1>0, <1>t DEF LogType
      <4>2. NodeAwaitingUser(log[t[1]], Worker, Lap, FALSE) \in Runs
        BY <4>1, NodeEventType
      <4>3. log' \in [Family -> Runs] /\ here' \subseteq Family /\ here \subseteq here'
        BY <1>6, <1>t, <3>2, <4>2, AppendType DEF Refuse
      <4>4. marked' \subseteq here'
        BY <1>0, <1>6, <3>2, <4>3 DEF Refuse, Append, LogType
      <4> QED
        BY <1>0, <1>6, <4>3, <4>4 DEF Refuse, LogType
    <3> QED
      BY <3>1, <3>2
  <2>2. TryType'
    <3>1. CASE t[2] # Agent /\ Goes(t, Asleep)
      BY <1>0, <3>1, AttemptTypes, GoesTryType
    <3>2. ASSUME t[2] = Agent, NEW k \in Places(t[1]),
                 try' = [try EXCEPT ![t] = Free, ![<<t[1], k>>] = Asleep]
          PROVE  TryType'
      <4>1. k \in 1..MaxWatchers
        BY DEF Places
      <4>2. try' \in [Tries -> Attempts]
        BY <1>0, <3>2, AttemptTypes DEF TryType
      <4>3. ASSUME NEW r \in Family PROVE try'[<<r, Agent>>].at \notin {"asleep", "watch"}
        <5>1. <<r, Agent>> \in Tries /\ <<r, Agent>> # <<t[1], k>>
          BY <4>1, RunTreeAssumption DEF Tries, Agent
        <5>2. try'[<<r, Agent>>] = Free \/ try'[<<r, Agent>>] = try[<<r, Agent>>]
          BY <1>0, <3>2, <5>1 DEF TryType
        <5> QED
          BY <1>0, <5>2 DEF TryType, Free
      <4> QED
        BY <4>2, <4>3 DEF TryType
    <3> QED
      BY <1>6, <3>1, <3>2 DEF Refuse, Posts
  <2>3. RestType'
    BY <1>0, <1>6, SameRestType DEF Refuse, counts
  <2> QED
    BY <2>1, <2>2, <2>3, TypeNext
<1>7. CASE Deliver(t)
  <2>1. LogType'
    <3>1. log[t[1]] \in Runs
      BY <1>0, <1>t DEF LogType
    <3>2. NodeCompleted(log[t[1]], Worker, Lap) \in Runs
      BY <3>1, NodeEventType
    <3>3. CASE UNCHANGED <<log, here>>
      BY <1>0, <1>7, <3>3 DEF Deliver, LogType
    <3>4. CASE Append(t[1], NodeCompleted(log[t[1]], Worker, Lap))
      BY <1>7, <1>t, <3>2, <3>4, AppendLogType DEF Deliver
    <3> QED
      BY <1>7, <3>3, <3>4 DEF Deliver
  <2>2. TryType'
    BY <1>0, <1>7, AttemptTypes, GoesTryType DEF Deliver, Free
  <2>3. RestType'
    BY <1>0, <1>7, <1>t DEF Deliver, RestType, counts
  <2> QED
    BY <2>1, <2>2, <2>3, TypeNext
<1> QED
  BY <1>1, <1>2, <1>3, <1>4, <1>5, <1>6, <1>7 DEF TryStep

\* The agent's calls and the end of its request.
LEMMA AgentType ==
  ASSUME TypeOK, NEW r \in Family, AgentStep(r) PROVE TypeOK'
<1>0. LogType /\ TryType /\ RestType
  BY TypeParts
<1>a. <<r, Agent>> \in Tries
  BY RunTreeAssumption DEF Tries, Agent
<1>1. CASE Complete(r)
  <2>1. PICK new \in Entries(r) : Goes(<<r, Agent>>, new)
    BY <1>1 DEF Complete
  <2>4. new \in Attempts /\ new.at \notin {"asleep", "watch"}
    BY AttemptTypes
  <2>2. TryType'
    BY <1>0, <1>a, <2>1, <2>4, GoesTryType
  <2>3. LogType' /\ RestType'
    BY <1>0, <1>1, SameLogType, SameRestType DEF Complete, counts
  <2> QED
    BY <2>2, <2>3, TypeNext
<1>2. CASE Fail(r)
  <2>1. log[r] \in Runs
    BY <1>0 DEF LogType
  <2>2. LogType'
    BY <1>2, <2>1, NodeEventType, AppendLogType DEF Fail
  <2>3. TryType' /\ RestType'
    BY <1>0, <1>2 DEF Fail, TryType, RestType, counts
  <2> QED
    BY <2>2, <2>3, TypeNext
<1>3. CASE Cancelled(r)
  <2>1. Free \in Attempts /\ Free.at \notin {"asleep", "watch"}
    BY AttemptTypes DEF Free
  <2>2. TryType'
    BY <1>0, <1>3, <1>a, <2>1, GoesTryType DEF Cancelled
  <2>3. LogType' /\ RestType'
    BY <1>0, <1>3, SameLogType, SameRestType DEF Cancelled, counts
  <2> QED
    BY <2>2, <2>3, TypeNext
<1> QED
  BY <1>1, <1>2, <1>3 DEF AgentStep

\* The tails and the reconciliation.
LEMMA TailType ==
  ASSUME TypeOK, NEW r \in Family, TailStep(r) \/ ParkStalled(r) PROVE TypeOK'
<1>0. LogType /\ TryType /\ RestType
  BY TypeParts
<1>l. log[r] \in Runs
  BY <1>0 DEF LogType
<1>1. CASE Reap(r)
  <2>1. LogType'
    BY <1>0, <1>1, SameLogType DEF Reap
  <2>2. TryType' /\ RestType'
    BY <1>0, <1>1 DEF Reap, TryType, RestType, counts
  <2> QED
    BY <2>1, <2>2, TypeNext
<1>2. CASE Advance(r)
  <2>1. LogType'
    <3>1. NodeStarted(log[r], Worker, Lap) \in Runs /\ RunCompleted(log[r]) \in Runs
      BY <1>l, NodeEventType, RunEventType
    <3>2. CASE UNCHANGED <<log, here>>
      BY <1>0, <1>2, <3>2 DEF Advance, LogType
    <3>3. CASE Append(r, NodeStarted(log[r], Worker, Lap))
      BY <1>2, <3>1, <3>3, AppendLogType DEF Advance
    <3>4. CASE Append(r, RunCompleted(log[r]))
      BY <1>2, <3>1, <3>4, AppendLogType DEF Advance
    <3> QED
      BY <1>2, <3>2, <3>3, <3>4 DEF Advance
  <2>2. TryType' /\ RestType'
    BY <1>0, <1>2 DEF Advance, TryType, RestType, counts
  <2> QED
    BY <2>1, <2>2, TypeNext
<1>3. CASE FailTail(r)
  <2>1. LogType'
    <3>1. RunFailed(log[r]) \in Runs /\ RunInterrupted(log[r]) \in Runs
      BY <1>l, RunEventType
    <3>2. CASE UNCHANGED <<log, here>>
      BY <1>0, <1>3, <3>2 DEF FailTail, LogType
    <3>3. CASE Append(r, RunFailed(log[r]))
      BY <1>3, <3>1, <3>3, AppendLogType DEF FailTail
    <3>4. CASE Append(r, RunInterrupted(log[r]))
      BY <1>3, <3>1, <3>4, AppendLogType DEF FailTail
    <3> QED
      BY <1>3, <3>2, <3>3, <3>4 DEF FailTail
  <2>2. TryType' /\ RestType'
    BY <1>0, <1>3 DEF FailTail, TryType, RestType, counts
  <2> QED
    BY <2>1, <2>2, TypeNext
<1>4. CASE ParkStalled(r)
  <2>1. LogType'
    BY <1>4, <1>l, RunEventType, AppendLogType DEF ParkStalled
  <2>2. TryType' /\ RestType'
    BY <1>0, <1>4 DEF ParkStalled, TryType, RestType, counts, memory
  <2> QED
    BY <2>1, <2>2, TypeNext
<1> QED
  BY <1>1, <1>2, <1>3, <1>4 DEF TailStep

\* A gesture is counted.
LEMMA GestureType ==
  ASSUME RestType, NEW kind, NEW r, Gesture(kind, r)
  PROVE  gestures' \in 0..MaxGestures /\ crashes' \in 0..MaxCrashes
  BY RunTreeAssumption DEF RestType, Gesture

\* The operator's gestures.
LEMMA OperatorType ==
  ASSUME TypeOK, NEW r \in Family, OperatorStep(r) PROVE TypeOK'
<1>0. LogType /\ TryType /\ RestType
  BY TypeParts
<1>l. log[r] \in Runs /\ EmbedReopen(log[r]) \in Runs
  BY <1>0, RunEventType DEF LogType
<1>1. CASE MarkNodeDone(r)
  <2>1. LogType'
    <3>1. NodeCompleted(EmbedReopen(log[r]), Worker, Lap) \in Runs
      BY <1>l, NodeEventType
    <3>2. CASE Append(r, NodeCompleted(EmbedReopen(log[r]), Worker, Lap))
      BY <1>1, <3>1, <3>2, AppendLogType DEF MarkNodeDone
    <3>3. CASE Append(r, EmbedReopen(log[r]))
      BY <1>1, <1>l, <3>3, AppendLogType DEF MarkNodeDone
    <3> QED
      BY <1>1, <3>2, <3>3 DEF MarkNodeDone
  <2>2. gestures' \in 0..MaxGestures /\ crashes' \in 0..MaxCrashes
    BY <1>0, <1>1, GestureType DEF MarkNodeDone
  <2>3. TryType' /\ RestType'
    BY <1>0, <1>1, <2>2 DEF MarkNodeDone, Gesture, Drives, TryType, RestType
  <2> QED
    BY <2>1, <2>3, TypeNext
<1>2. CASE RestartNode(r)
  <2>1. LogType'
    <3>1. NodeStarted(EmbedReopen(log[r]), Worker, Lap) \in Runs
      BY <1>l, NodeEventType
    <3>2. CASE Append(r, NodeStarted(EmbedReopen(log[r]), Worker, Lap))
      BY <1>2, <3>1, <3>2, AppendLogType DEF RestartNode
    <3>3. CASE Append(r, EmbedReopen(log[r]))
      BY <1>2, <1>l, <3>3, AppendLogType DEF RestartNode
    <3> QED
      BY <1>2, <3>2, <3>3 DEF RestartNode
  <2>2. gestures' \in 0..MaxGestures /\ crashes' \in 0..MaxCrashes
    BY <1>0, <1>2, GestureType DEF RestartNode
  <2>3. RestType'
    BY <1>0, <1>2, <2>2 DEF RestartNode, Gesture, RestType
  <2>4. TryType'
    <3>1. CASE UNCHANGED try
      BY <1>0, <3>1, SameTryType
    <3>2. CASE try' = [try EXCEPT ![<<r, Agent>>] = Free]
      <4>1. <<r, Agent>> \in Tries
        BY RunTreeAssumption DEF Tries, Agent
      <4>2. Free \in Attempts /\ Free.at \notin {"asleep", "watch"}
        BY AttemptTypes DEF Free
      <4> QED
        BY <1>0, <3>2, <4>1, <4>2, GoesTryType DEF Goes
    <3> QED
      BY <1>2, <3>1, <3>2 DEF RestartNode
  <2> QED
    BY <2>1, <2>3, <2>4, TypeNext
<1>3. CASE PauseRun(r)
  <2>1. LogType'
    BY <1>3, <1>l, RunEventType, AppendLogType DEF PauseRun
  <2>2. gestures' \in 0..MaxGestures /\ crashes' \in 0..MaxCrashes
    BY <1>0, <1>3, GestureType DEF PauseRun
  <2>3. TryType' /\ RestType'
    BY <1>0, <1>3, <2>2 DEF PauseRun, Gesture, TryType, RestType
  <2> QED
    BY <2>1, <2>3, TypeNext
<1>4. CASE ResumeRun(r)
  <2>1. LogType'
    <3>1. RunResumed(log[r]) \in Runs /\ RunReopened(log[r]) \in Runs
      BY <1>l, RunEventType
    <3> QED
      BY <1>4, <1>l, <3>1, AppendLogType DEF ResumeRun
  <2>2. gestures' \in 0..MaxGestures /\ crashes' \in 0..MaxCrashes
    BY <1>0, <1>4, GestureType DEF ResumeRun
  <2>3. TryType' /\ RestType'
    BY <1>0, <1>4, <2>2 DEF ResumeRun, Gesture, Drives, TryType, RestType
  <2> QED
    BY <2>1, <2>3, TypeNext
<1>5. CASE ReopenRun(r)
  <2>1. LogType'
    BY <1>5, <1>l, RunEventType, AppendLogType DEF ReopenRun
  <2>2. gestures' \in 0..MaxGestures /\ crashes' \in 0..MaxCrashes
    BY <1>0, <1>5, GestureType DEF ReopenRun
  <2>3. TryType' /\ RestType'
    BY <1>0, <1>5, <2>2 DEF ReopenRun, Gesture, Drives, TryType, RestType
  <2> QED
    BY <2>1, <2>3, TypeNext
<1>6. CASE CleanupRun(r)
  <2>1. gestures' \in 0..MaxGestures /\ crashes' \in 0..MaxCrashes
    BY <1>0, <1>6, GestureType DEF CleanupRun
  <2>2. r # NoRun /\ \A read \in SUBSET here : Below(r, read) \subseteq Family
    BY <1>0, RunTreeAssumption DEF Below, LogType
  <2>3. LogType'
    BY <1>0, <1>6, SameLogType DEF CleanupRun
  <2>4. PICK read \in SUBSET here :
          cascade' = [root |-> r,
                      todo |-> {c \in Below(r, read) : V(c).status # "archived"} \cup {r}]
    BY <1>6 DEF CleanupRun
  <2>5. TryType' /\ RestType'
    BY <1>0, <1>6, <2>1, <2>2, <2>4 DEF CleanupRun, Gesture, TryType, RestType
  <2> QED
    BY <2>3, <2>5, TypeNext
<1>7. CASE ForgetRun(r)
  <2>1. LogType'
    BY <1>0, <1>7, FreshType DEF ForgetRun, LogType
  <2>2. gestures' \in 0..MaxGestures /\ crashes' \in 0..MaxCrashes
    BY <1>0, <1>7, GestureType DEF ForgetRun
  <2>3. TryType' /\ RestType'
    BY <1>0, <1>7, <2>2 DEF ForgetRun, Gesture, TryType, RestType
  <2> QED
    BY <2>1, <2>3, TypeNext
<1> QED
  BY <1>1, <1>2, <1>3, <1>4, <1>5, <1>6, <1>7 DEF OperatorStep

\* The cascade, and a crash with its boot.
LEMMA CascadeType ==
  ASSUME TypeOK, NEW c \in Family, CascadeStep(c) PROVE TypeOK'
<1>0. LogType /\ TryType /\ RestType
  BY TypeParts
<1>r. Resting \in [root : Family \cup {NoRun}, todo : SUBSET Family]
      /\ Resting.todo = {}
  BY DEF Resting
<1>1. CASE ArchiveNext(c)
  <2>1. log[c] \in Runs
    BY <1>0 DEF LogType
  <2>2. LogType'
    BY <1>1, <2>1, RunEventType, AppendLogType DEF ArchiveNext
  <2>3. /\ cascade' \in [root : Family \cup {NoRun}, todo : SUBSET Family]
        /\ cascade'.root = NoRun => cascade'.todo = {}
    <3>1. cascade.root # NoRun
      BY <1>0, <1>1 DEF ArchiveNext, RestType
    <3>2. CASE cascade' = Resting
      BY <1>r, <3>2
    <3>3. CASE cascade' = [cascade EXCEPT !.todo = @ \ {c}]
      BY <1>0, <3>1, <3>3 DEF RestType
    <3> QED
      BY <1>1, <3>2, <3>3 DEF ArchiveNext, Shrinks
  <2>4. TryType' /\ RestType'
    BY <1>0, <1>1, <2>3 DEF ArchiveNext, TryType, RestType, counts
  <2> QED
    BY <2>2, <2>4, TypeNext
<1>2. CASE ArchiveFails(c)
  <2>1. LogType'
    BY <1>0, <1>2, SameLogType DEF ArchiveFails
  <2>2. TryType' /\ RestType'
    BY <1>0, <1>2, <1>r DEF ArchiveFails, TryType, RestType, counts
  <2> QED
    BY <2>1, <2>2, TypeNext
<1> QED
  BY <1>1, <1>2 DEF CascadeStep

\* Boot leaves a typed log, whatever survived the crash.
LEMMA BootType ==
  ASSUME TypeOK, CrashAndBoot PROVE TypeOK'
<1>0. LogType /\ TryType /\ RestType
  BY TypeParts
<1>1. \A r \in Family : Recovered(r, session') \in Runs
  <2> SUFFICES ASSUME NEW r \in Family PROVE Recovered(r, session') \in Runs
    OBVIOUS
  <2>1. log[r] \in Runs
    BY <1>0 DEF LogType
  <2> QED
    BY <2>1, NodeEventType DEF Recovered
<1>2. LogType'
  BY <1>0, <1>1 DEF CrashAndBoot, LogType
<1>3. Free \in Attempts /\ Free.at \notin {"asleep", "watch"}
  BY AttemptTypes DEF Free
<1>4. TryType'
  BY <1>3, RunTreeAssumption DEF CrashAndBoot, TryType, Tries, Agent
<1>5. RestType'
  BY <1>0, RunTreeAssumption DEF CrashAndBoot, RestType, Resting
<1> QED
  BY <1>2, <1>4, <1>5, TypeNext

\* The logs, the sessions, the attempts and the cascade are well typed in every
\* reachable state, whatever the family, the bounds and the gestures.
THEOREM TreeTypeOK == Spec => []TypeOK
<1>1. Init => TypeOK
  <2> SUFFICES ASSUME Init PROVE TypeOK
    OBVIOUS
  <2>1. FreshRun \in Runs
    BY FreshType
  <2>2. Free \in Attempts /\ Free.at = "free"
    BY DEF Free, Attempts, Phases
  <2>3. LogType
    BY <2>1, RunTreeAssumption DEF Init, LogType
  <2>4. TryType
    BY <2>2, RunTreeAssumption DEF Init, TryType, Tries, Agent
  <2>5. RestType
    BY RunTreeAssumption DEF Init, RestType, Resting
  <2> QED
    BY <2>3, <2>4, <2>5, TypeParts
<1>2. TypeOK /\ [Next]_vars => TypeOK'
  <2> SUFFICES ASSUME TypeOK, [Next]_vars PROVE TypeOK'
    OBVIOUS
  <2>1. CASE UNCHANGED vars
    BY <2>1 DEF vars, TypeOK
  <2>2. CASE Next
    BY <2>2, CreateType, TryStepType, AgentType, TailType, OperatorType, CascadeType,
       BootType DEF Next
  <2> QED
    BY <2>1, <2>2
<1> QED
  BY <1>1, <1>2, PTL DEF Spec

(***************************************************************************)
(* The tombstones                                                          *)
(***************************************************************************)
\* Whatever it is, an append adds no forgotten run.
LEMMA AppendHere ==
  ASSUME ForgottenStaysGone, NEW r, NEW new, Append(r, new) \/ UNCHANGED here,
         UNCHANGED forgotten
  PROVE  ForgottenStaysGone'
  BY DEF ForgottenStaysGone, Append

\* A forgotten run stays forgotten, whatever is still at work on it.
THEOREM ForgottenForever == Spec => []ForgottenStaysGone
<1>1. Init => ForgottenStaysGone
  BY DEF Init, ForgottenStaysGone
<1>2. ForgottenStaysGone /\ [Next]_vars => ForgottenStaysGone'
  <2> SUFFICES ASSUME ForgottenStaysGone, [Next]_vars PROVE ForgottenStaysGone'
    OBVIOUS
  <2>1. CASE UNCHANGED vars
    BY <2>1 DEF vars, ForgottenStaysGone
  <2>2. ASSUME NEW c \in Family, CreateStep(c) PROVE ForgottenStaysGone'
    BY <2>2, AppendHere DEF CreateStep, StartRun, CreateFails, Claim, events
  <2>3. ASSUME NEW t \in Tries, TryStep(t) PROVE ForgottenStaysGone'
    <3>1. CASE ReadChild(t) \/ Pass(t) \/ DeliveryRefused(t) \/ Wake(t) \/ Conclude(t)
      BY <3>1, AppendHere DEF ReadChild, Pass, DeliveryRefused, Wake, Conclude, events
    <3>2. CASE Refuse(t)
      BY <3>2, AppendHere DEF Refuse
    <3>3. CASE Deliver(t)
      BY <3>3, AppendHere DEF Deliver
    <3> QED
      BY <2>3, <3>1, <3>2, <3>3 DEF TryStep
  <2>4. ASSUME NEW r \in Family, AgentStep(r) PROVE ForgottenStaysGone'
    BY <2>4, AppendHere DEF AgentStep, Complete, Fail, Cancelled, events
  <2>5. ASSUME NEW r \in Family, TailStep(r) \/ ParkStalled(r) PROVE ForgottenStaysGone'
    BY <2>5, AppendHere DEF TailStep, Reap, Advance, FailTail, ParkStalled, events
  <2>6. ASSUME NEW r \in Family, OperatorStep(r) PROVE ForgottenStaysGone'
    <3>1. CASE ForgetRun(r)
      BY <3>1 DEF ForgetRun, ForgottenStaysGone
    <3>2. CASE MarkNodeDone(r) \/ RestartNode(r)
      BY <3>2, AppendHere DEF MarkNodeDone, RestartNode
    <3>3. CASE PauseRun(r) \/ ResumeRun(r) \/ ReopenRun(r) \/ CleanupRun(r)
      BY <3>3, AppendHere DEF PauseRun, ResumeRun, ReopenRun, CleanupRun, events
    <3> QED
      BY <2>6, <3>1, <3>2, <3>3 DEF OperatorStep
  <2>7. ASSUME NEW c \in Family, CascadeStep(c) PROVE ForgottenStaysGone'
    BY <2>7, AppendHere DEF CascadeStep, ArchiveNext, ArchiveFails, events
  <2>8. CASE CrashAndBoot
    BY <2>8 DEF CrashAndBoot, ForgottenStaysGone
  <2> QED
    BY <2>1, <2>2, <2>3, <2>4, <2>5, <2>6, <2>7, <2>8 DEF Next
<1> QED
  BY <1>1, <1>2, PTL DEF Spec

(***************************************************************************)
(* A parked node has a watcher                                             *)
(***************************************************************************)
\* What the theorem asks of an instance: no agent whose node waits for children
\* fails it, or is in a run that cannot be read, no delivery is refused, the daemon
\* does not crash, and the operator restarts, re-opens and archives.
Undisturbed ==
  /\ Gestures \subseteq {"restart", "reopen", "cleanup"}
  /\ MaxCrashes = 0 /\ Undelivered = {}
  /\ Parents \cap Failing = {} /\ Parents \cap Unreadable = {}

\* The worker is absent and has no row, or its row has its own status.
PlainWorker(node) ==
  \/ node.st = "absent" /\ node.row[Lap] = "none"
  \/ node.st \in {"running", "awaiting", "completed", "failed"} /\ node.row[Lap] = node.st

\* A parent's run ends or is archived only over a node that is done.
OpenStatuses == {"running", "awaiting", "archived"}

LogOK ==
  \A r \in Family :
    /\ PlainWorker(log[r].nodes[Worker])
    /\ State(r) = "awaiting" => r \in marked
    /\ State(r) = "failed" => r \in Failing
    /\ r \in Parents /\ State(r) \in {"running", "awaiting"} => log[r].status \in OpenStatuses

TreeOK ==
  /\ forgotten = {} /\ marked \subseteq Parents /\ cascade.todo \subseteq here
  /\ \A r \in Family :
       /\ parent[r] # NoRun => parent[r] \in Parents
       /\ making[r] # NoRun => making[r] \in Parents /\ r \notin here
       /\ "fail" \in tail[r] => r \in Failing

\* What an attempt knows of its run: until it is through the gate, exactly
\* whether there is a marker.
TryOK ==
  \A t \in Tries :
    /\ try[t].at # "free" => t[1] \in here
    /\ try[t].todo # {} \/ try[t].held => t[1] \in Parents
    /\ try[t].at # "free" /\ t[2] # Agent => t[1] \in marked
    /\ try[t].at \in {"watch", "gate"} => (try[t].knew <=> t[1] \in marked)

\* An agent at the gate of a run without a marker is at work.
GateOK ==
  \A r \in (Family \cap Parents) \ marked :
    try[<<r, Agent>>].at = "gate" => State(r) = "running"

IInv == LogOK /\ TreeOK /\ TryOK /\ GateOK /\ ParkedIsWatched

(***************************************************************************)
(* What an append may do to a run                                          *)
(***************************************************************************)
\* An append that parks no node, and none that its run has left behind, and
\* ends no parent's run over a node that is not done.
Harmless(r, new) ==
  LET st == new.nodes[Worker].st
  IN  /\ new \in Runs /\ PlainWorker(new.nodes[Worker])
      /\ st = "awaiting" => /\ State(r) = "awaiting"
                            /\ new.status \in {"running", "awaiting"} =>
                                 log[r].status \in {"running", "awaiting"}
      /\ st = "failed" => r \in Failing
      /\ r \in Parents /\ st \in {"running", "awaiting"} => new.status \in OpenStatuses

\* What readers see of a run that accepts node events.
LEMMA ViewAccepts ==
  ASSUME NEW x \in Runs
  PROVE  /\ RunAcceptsLifecycle(View(x)) <=> x.status \in {"running", "awaiting"}
         /\ View(x).status = "running" => x.status = "running"
  BY DEF RunAcceptsLifecycle, View, ViewStatus

\* The node that a plain worker's iteration sees is that of the log.
LEMMA ViewWorker ==
  ASSUME NEW x \in Runs
  PROVE  /\ View(x).nodes[Worker].st = x.nodes[Worker].st
         /\ View(x).nodes[Worker].row[Lap] = x.nodes[Worker].row[Lap]
  BY ViewKeeps, WorkerType

\* A re-opening forgets no plain worker, and leaves the run running or as it was.
LEMMA PlainReopened ==
  ASSUME NEW x \in Runs, PlainWorker(x.nodes[Worker]),
         NEW y \in {RunReopened(x), EmbedReopen(x)}
  PROVE  /\ y \in Runs /\ y.nodes[Worker] = x.nodes[Worker]
         /\ \/ y.status = x.status
            \/ y.status = "running" /\ x.status # "archived"
<1>1. x.nodes[Worker].st # "interrupted"
  BY DEF PlainWorker
<1>2. RunReopened(x).nodes[Worker] = x.nodes[Worker]
  BY <1>1, WorkerType DEF RunReopened
<1>3. \/ RunReopened(x).status = x.status
      \/ RunReopened(x).status = "running" /\ x.status # "archived"
  <2>1. CASE x.status \in {"halted", "failed", "completed", "skipped", "awaiting"}
    <3>1. RunReopened(x).status = "running"
      BY <2>1 DEF RunReopened
    <3> QED
      BY <2>1, <3>1
  <2>2. CASE ~(x.status \in {"halted", "failed", "completed", "skipped", "awaiting"})
    BY <2>2 DEF RunReopened
  <2> QED
    BY <2>1, <2>2
<1>4. EmbedReopen(x) = x \/ EmbedReopen(x) = RunReopened(x)
  BY DEF EmbedReopen
<1>5. RunReopened(x) \in Runs
  BY RunEventType
<1>6. y \in {x, RunReopened(x)}
  BY <1>4
<1> QED
  BY <1>2, <1>3, <1>5, <1>6

\* The events of the daemon, one by one.
LEMMA HarmlessFresh == ASSUME NEW r \in Family PROVE Harmless(r, FreshRun)
<1>1. FreshRun.nodes[Worker] = AbsentNode
  BY WorkerType DEF FreshRun
<1>2. PlainWorker(AbsentNode) /\ AbsentNode.st = "absent"
  BY WorkerType DEF PlainWorker, AbsentNode
<1> QED
  BY <1>1, <1>2, FreshType DEF Harmless

\* Starting the worker,
LEMMA HarmlessStart ==
  ASSUME NEW r \in Family, NEW x \in Runs, RunAcceptsLifecycle(View(x))
  PROVE  /\ Harmless(r, NodeStarted(x, Worker, Lap))
         /\ NodeStarted(x, Worker, Lap).nodes[Worker].st = "running"
<1> DEFINE new == NodeStarted(x, Worker, Lap)
<1>1. /\ new \in Runs /\ new.status = x.status
      /\ new.nodes[Worker].st = "running" /\ new.nodes[Worker].row[Lap] = "running"
  BY WorkerType, StartedStep DEF OnlyNode
<1>2. x.status \in {"running", "awaiting"}
  BY ViewAccepts
<1> QED
  BY <1>1, <1>2 DEF Harmless, PlainWorker, OpenStatuses

\* completing it,
LEMMA HarmlessCompletion ==
  ASSUME NEW r \in Family, NEW x \in Runs, PlainWorker(x.nodes[Worker]),
         x.nodes[Worker].st # "absent"
  PROVE  /\ Harmless(r, NodeCompleted(x, Worker, Lap))
         /\ NodeCompleted(x, Worker, Lap).nodes[Worker].st = "completed"
<1> DEFINE new == NodeCompleted(x, Worker, Lap)
<1>1. /\ new \in Runs /\ new.nodes[Worker].st = "completed"
      /\ RowSet(new.nodes[Worker], x.nodes[Worker], Lap, "completed")
  BY WorkerType, CompletedStep DEF Present, OnlyNode
<1>2. new.nodes[Worker].row[Lap] = "completed"
  BY <1>1 DEF RowSet, PlainWorker
<1> QED
  BY <1>1, <1>2 DEF Harmless, PlainWorker

\* failing it,
LEMMA HarmlessFailure ==
  ASSUME NEW r \in Failing, r \in Family, NEW x \in Runs, PlainWorker(x.nodes[Worker]),
         x.nodes[Worker].st # "absent"
  PROVE  /\ Harmless(r, NodeFailed(x, Worker, Lap))
         /\ NodeFailed(x, Worker, Lap).nodes[Worker].st = "failed"
<1> DEFINE new == NodeFailed(x, Worker, Lap)
<1>0. x.nodes[Worker].iter \in 0..1
  BY NodeType, WorkerType, RunTreeAssumption DEF NodeStates
<1>1. /\ new \in Runs /\ new.nodes[Worker].st = "failed"
      /\ RowSet(new.nodes[Worker], x.nodes[Worker], Lap, "failed")
  BY <1>0, WorkerType, FailedStep DEF Present, OnlyNode
<1>2. new.nodes[Worker].row[Lap] = "failed"
  BY <1>1 DEF RowSet, PlainWorker
<1> QED
  BY <1>1, <1>2 DEF Harmless, PlainWorker

\* and an event that leaves it alone and does not revive its run.
LEMMA HarmlessRunEvent ==
  ASSUME TypeOK, LogOK, NEW r \in Family, NEW new \in Runs,
         new.nodes[Worker] = log[r].nodes[Worker],
         new.status \in {"running", "awaiting"} =>
           log[r].status \in {"running", "awaiting"} \/ State(r) # "awaiting",
         r \in Parents /\ State(r) \in {"running", "awaiting"} =>
           new.status \in OpenStatuses
  PROVE  Harmless(r, new)
  BY DEF Harmless, LogOK, State

(***************************************************************************)
(* What such an append does to the invariant                               *)
(***************************************************************************)
\* The logs stay in order.
LEMMA LogOKStep ==
  ASSUME TypeOK, LogOK, NEW r \in Family, NEW new, Harmless(r, new),
         log' = [log EXCEPT ![r] = new], marked \subseteq marked'
  PROVE  LogOK'
<1> SUFFICES ASSUME NEW q \in Family
             PROVE  /\ PlainWorker(log'[q].nodes[Worker])
                    /\ log'[q].nodes[Worker].st = "awaiting" => q \in marked'
                    /\ log'[q].nodes[Worker].st = "failed" => q \in Failing
                    /\ q \in Parents /\ log'[q].nodes[Worker].st \in {"running", "awaiting"}
                         => log'[q].status \in OpenStatuses
  BY DEF LogOK, State
<1>1. CASE q = r
  BY <1>1 DEF TypeOK, LogOK, Harmless, State
<1>2. CASE q # r
  BY <1>2 DEF TypeOK, LogOK, State
<1> QED
  BY <1>1, <1>2

\* An agent at the gate is still at work.
LEMMA GateOKStep ==
  ASSUME TypeOK, GateOK, NEW r \in Family, NEW new, log' = [log EXCEPT ![r] = new],
         marked \subseteq marked',
         \/ State(r) = "running" => new.nodes[Worker].st = "running"
         \/ try'[<<r, Agent>>].at # "gate" \/ r \in marked' \/ r \notin Parents,
         \A q \in Family : try'[<<q, Agent>>].at = "gate" => try[<<q, Agent>>].at = "gate"
  PROVE  GateOK'
<1> SUFFICES ASSUME NEW q \in (Family \cap Parents) \ marked',
                    try'[<<q, Agent>>].at = "gate"
             PROVE  log'[q].nodes[Worker].st = "running"
  BY DEF GateOK, State
<1>1. State(q) = "running"
  BY DEF GateOK
<1>2. CASE q = r
  BY <1>1, <1>2 DEF TypeOK
<1>3. CASE q # r
  BY <1>1, <1>3 DEF TypeOK, State
<1> QED
  BY <1>2, <1>3

\* A run is watched by one of its places.
WatchKept(q) ==
  \A k \in 1..MaxWatchers : try[<<q, k>>].at # "free" => try'[<<q, k>>].at # "free"

\* A run that is parked is watched as before.
LEMMA ParkedStep ==
  ASSUME TypeOK, ParkedIsWatched, NEW r \in Family, NEW new, Harmless(r, new),
         log' = [log EXCEPT ![r] = new], here' = here \cup {r},
         r \in here \/ new.nodes[Worker].st # "awaiting",
         new.nodes[Worker].st # "awaiting" \/ WatchKept(r),
         \A q \in Family \ {r} : WatchKept(q)
  PROVE  ParkedIsWatched'
<1> SUFFICES ASSUME NEW q \in here', RunAcceptsLifecycle(View(log'[q])),
                    log'[q].nodes[Worker].st = "awaiting"
             PROVE  \E k \in 1..MaxWatchers : try'[<<q, k>>].at # "free"
  BY DEF ParkedIsWatched, Watched, State, V
<1>1. q \in here /\ WatchKept(q)
  BY DEF TypeOK
<1>2. RunAcceptsLifecycle(V(q)) /\ State(q) = "awaiting"
  <2>1. CASE q = r
    <3>1. log'[q] = new /\ log[q] \in Runs /\ new \in Runs
      BY <2>1 DEF TypeOK, Harmless
    <3>2. new.status \in {"running", "awaiting"}
      BY <3>1, ViewAccepts
    <3>3. State(q) = "awaiting" /\ log[q].status \in {"running", "awaiting"}
      BY <2>1, <3>1, <3>2 DEF Harmless
    <3> QED
      BY <3>1, <3>3, ViewAccepts DEF V
  <2>2. CASE q # r
    BY <2>2 DEF TypeOK, V, State
  <2> QED
    BY <2>1, <2>2
<1>3. PICK k \in 1..MaxWatchers : try[<<q, k>>].at # "free"
  BY <1>1, <1>2 DEF ParkedIsWatched, Watched
<1> QED
  BY <1>1, <1>3 DEF WatchKept

\* A step that writes to no log and frees no watcher of a parked run.
LEMMA QuietStep ==
  ASSUME IInv, UNCHANGED <<log, here, marked>>,
         \A q \in here : RunAcceptsLifecycle(V(q)) /\ State(q) = "awaiting" =>
           \A k \in 1..MaxWatchers : try[<<q, k>>].at # "free" => try'[<<q, k>>].at # "free",
         \A q \in (Family \cap Parents) \ marked :
           try'[<<q, Agent>>].at = "gate" =>
             try[<<q, Agent>>].at = "gate" \/ State(q) = "running"
  PROVE  LogOK' /\ GateOK' /\ ParkedIsWatched'
<1>1. LogOK'
  BY DEF IInv, LogOK, State
<1>2. GateOK'
  BY DEF IInv, GateOK, State
<1>3. ParkedIsWatched'
  <2> SUFFICES ASSUME NEW q \in here, RunAcceptsLifecycle(V(q)), State(q) = "awaiting"
               PROVE  \E k \in 1..MaxWatchers : try'[<<q, k>>].at # "free"
    BY DEF ParkedIsWatched, Watched, State, V
  <2>1. PICK k \in 1..MaxWatchers : try[<<q, k>>].at # "free"
    BY DEF IInv, ParkedIsWatched, Watched
  <2> QED
    BY <2>1
<1> QED
  BY <1>1, <1>2, <1>3

\* Only a parent has children.
LEMMA OnlyParents ==
  ASSUME TypeOK, TreeOK, NEW r \in Family, Children(r) # {} PROVE r \in Parents
<1>1. PICK c \in here : parent[c] = r
  BY DEF Children
<1> QED
  BY <1>1, RunTreeAssumption DEF TypeOK, TreeOK

\* A parked run that accepts events would accept its completion.
LEMMA ParkedCompletes ==
  ASSUME TypeOK, LogOK, NEW r \in Family, RunAcceptsLifecycle(V(r)), State(r) = "awaiting"
  PROVE  Verdict(r) = "allow"
<1>1. log[r] \in Runs /\ PlainWorker(log[r].nodes[Worker])
  BY DEF TypeOK, LogOK
<1>2. V(r).nodes[Worker].row[Lap] = "awaiting"
  BY <1>1, ViewWorker DEF PlainWorker, State, V
<1> QED
  BY <1>2 DEF Verdict, ValidateCompletion, SettledComplete

\* A run that accepts a completion has a worker that is at work, parked or failed.
LEMMA VerdictMeans ==
  ASSUME TypeOK, LogOK, NEW r \in Family, Verdict(r) = "allow"
  PROVE  State(r) \in {"running", "awaiting", "failed"}
<1>1. log[r] \in Runs /\ PlainWorker(log[r].nodes[Worker])
  BY DEF TypeOK, LogOK
<1>2. V(r).nodes[Worker].row[Lap] = log[r].nodes[Worker].row[Lap]
  BY <1>1, ViewWorker DEF V
<1>3. V(r).nodes[Worker].row[Lap] \in {"running", "awaiting", "failed"}
  BY DEF Verdict, ValidateCompletion
<1> QED
  BY <1>1, <1>2, <1>3 DEF PlainWorker, State

\* What the next phase of an attempt has to know.
Informed(t, new) ==
  /\ new.at # "free" => t[1] \in here
  /\ new.todo # {} \/ new.held => t[1] \in Parents
  /\ new.at # "free" /\ t[2] # Agent => t[1] \in marked
  /\ new.at \in {"watch", "gate"} => (new.knew <=> t[1] \in marked)

\* Then all the attempts are in order.
LEMMA TryOKStep ==
  ASSUME TypeOK, TryOK, NEW t \in Tries, NEW new, Informed(t, new), Goes(t, new),
         here \subseteq here', UNCHANGED marked
  PROVE  TryOK'
<1> SUFFICES ASSUME NEW u \in Tries
             PROVE  /\ try'[u].at # "free" => u[1] \in here'
                    /\ try'[u].todo # {} \/ try'[u].held => u[1] \in Parents
                    /\ try'[u].at # "free" /\ u[2] # Agent => u[1] \in marked
                    /\ try'[u].at \in {"watch", "gate"} => (try'[u].knew <=> u[1] \in marked)
  BY DEF TryOK
<1>1. CASE u = t
  BY <1>1 DEF TypeOK, Goes, Informed
<1>2. CASE u # t
  BY <1>2 DEF TypeOK, TryOK, Goes
<1> QED
  BY <1>1, <1>2

\* An attempt that goes on, frees no watcher of a parked run, and brings no agent
\* to the gate that is not at work.
LEMMA AttemptStep ==
  ASSUME TypeOK, IInv, NEW t \in Tries, NEW new, Informed(t, new), Goes(t, new),
         UNCHANGED <<log, here, marked>>,
         t[2] # Agent /\ new.at = "free" =>
           ~(RunAcceptsLifecycle(V(t[1])) /\ State(t[1]) = "awaiting"),
         t[2] = Agent /\ new.at = "gate" /\ t[1] \in Parents \ marked =>
           try[t].at = "gate" \/ State(t[1]) = "running"
  PROVE  LogOK' /\ GateOK' /\ ParkedIsWatched' /\ TryOK'
<1>1. TryOK'
  BY TryOKStep DEF IInv
<1>2. ASSUME NEW q \in here, RunAcceptsLifecycle(V(q)), State(q) = "awaiting",
             NEW k \in 1..MaxWatchers, try[<<q, k>>].at # "free"
      PROVE  try'[<<q, k>>].at # "free"
  <2>1. <<q, k>> \in Tries /\ k # Agent
    BY RunTreeAssumption DEF TypeOK, Tries, Agent
  <2>2. CASE t = <<q, k>>
    BY <1>2, <2>1, <2>2 DEF TypeOK, Goes
  <2>3. CASE t # <<q, k>>
    BY <1>2, <2>1, <2>3 DEF TypeOK, Goes
  <2> QED
    BY <2>2, <2>3
<1>3. ASSUME NEW q \in (Family \cap Parents) \ marked, try'[<<q, Agent>>].at = "gate"
      PROVE  try[<<q, Agent>>].at = "gate" \/ State(q) = "running"
  <2>1. <<q, Agent>> \in Tries
    BY RunTreeAssumption DEF Tries, Agent
  <2>2. CASE t = <<q, Agent>>
    BY <1>3, <2>1, <2>2 DEF TypeOK, Goes
  <2>3. CASE t # <<q, Agent>>
    BY <1>3, <2>1, <2>3 DEF TypeOK, Goes
  <2> QED
    BY <2>2, <2>3
<1> QED
  BY <1>1, <1>2, <1>3, QuietStep

\* The tree is in order when none of its parts changes.
LEMMA SameTreeOK ==
  ASSUME TreeOK, UNCHANGED <<forgotten, marked, here, cascade, parent, making, tail>>
  PROVE  TreeOK'
  BY DEF TreeOK

\* Nor does it matter which tail a handler leaves, as long as it has not failed.
LEMMA TailTreeOK ==
  ASSUME TypeOK, TreeOK, UNCHANGED <<forgotten, marked, here, cascade, parent, making>>,
         NEW r \in Family, NEW more, tail' = [tail EXCEPT ![r] = more],
         "fail" \in more => "fail" \in tail[r] \/ r \in Failing
  PROVE  TreeOK'
<1>1. \A q \in Family : "fail" \in tail'[q] => q \in Failing
  <2> SUFFICES ASSUME NEW q \in Family, "fail" \in tail'[q] PROVE q \in Failing
    OBVIOUS
  <2>1. CASE q = r
    BY <2>1 DEF TypeOK, TreeOK
  <2>2. CASE q # r
    BY <2>2 DEF TypeOK, TreeOK
  <2> QED
    BY <2>1, <2>2
<1> QED
  BY <1>1 DEF TreeOK

\* A step of an attempt keeps the invariant.
LEMMA TryInv ==
  ASSUME Undisturbed, TypeOK, IInv, NEW t \in Tries, TryStep(t) PROVE IInv'
<1>i. LogOK /\ TreeOK /\ TryOK /\ GateOK /\ ParkedIsWatched
  BY DEF IInv
<1>t. /\ t[1] \in Family /\ t[2] \in 0..MaxWatchers /\ t = <<t[1], t[2]>>
      /\ try[t] \in Attempts
      /\ t[2] = Agent => try[t].at \notin {"asleep", "watch"}
  BY TypeParts DEF Tries, TryType
<1>k. /\ try[t].at # "free" => t[1] \in here
      /\ try[t].todo # {} \/ try[t].held => t[1] \in Parents
      /\ try[t].at # "free" /\ t[2] # Agent => t[1] \in marked
      /\ try[t].at \in {"watch", "gate"} => (try[t].knew <=> t[1] \in marked)
  BY <1>i DEF TryOK
<1>f. Informed(t, Free)
  BY DEF Informed, Free
<1>e. ASSUME NEW at, NEW new \in Readings(t[1], at), t[1] \in here,
             t[2] # Agent => t[1] \in marked
      PROVE  Informed(t, new)
  <2>1. Children(t[1]) # {} => t[1] \in Parents
    BY <1>i, <1>t, OnlyParents
  <2>2. new.todo \subseteq Children(t[1]) /\ ~new.held /\ (new.knew <=> t[1] \in marked)
    BY <1>e, ReadingMeans
  <2> QED
    BY <1>e, <2>1, <2>2 DEF Informed
<1>1. CASE ReadChild(t)
  <2>1. PICK c \in try[t].todo : \E new \in {Reads(t, c), Skips(t, c)} : Goes(t, new)
    BY <1>1 DEF ReadChild, Reads, Skips
  <2>7. PICK new \in {Reads(t, c), Skips(t, c)} : Goes(t, new)
    BY <2>1
  <2>2. /\ new.at = try[t].at /\ new.knew = try[t].knew
        /\ new.todo # {} \/ new.held => t[1] \in Parents
    BY <1>t, <1>k, ReadMeans
  <2>3. try[t].at # "free"
    BY <1>1 DEF ReadChild
  <2>5. Informed(t, new)
    BY <1>k, <2>2 DEF Informed
  <2>6. LogOK' /\ GateOK' /\ ParkedIsWatched' /\ TryOK'
    BY <1>1, <2>2, <2>3, <2>5, <2>7, AttemptStep DEF ReadChild, events
  <2> QED
    BY <1>1, <1>i, <2>6, SameTreeOK DEF ReadChild, events, IInv
<1>2. CASE Pass(t)
  <2> DEFINE new == [Free EXCEPT !.at = "deliver"]
  <2>1. Informed(t, new) /\ new.at = "deliver" /\ Goes(t, new)
    BY <1>2, <1>k DEF Pass, Read, Informed, Free
  <2> HIDE DEF new
  <2>2. LogOK' /\ GateOK' /\ ParkedIsWatched' /\ TryOK'
    BY <1>2, <2>1, AttemptStep DEF Pass, events
  <2> QED
    BY <1>2, <1>i, <2>2, SameTreeOK DEF Pass, events, IInv
<1>3. CASE Wake(t)
  <2>1. t[2] # Agent /\ t[1] \in here /\ t[1] \in marked
    BY <1>3, <1>t, <1>k DEF Wake
  <2>3. PICK new \in Lost(t[1]) \cup IF Watchable(t[1]) THEN Readings(t[1], "watch") ELSE {Free} :
          Goes(t, new)
    BY <1>3 DEF Wake
  <2>2. LogOK' /\ GateOK' /\ ParkedIsWatched' /\ TryOK'
    <3>1. CASE new \in Readings(t[1], "watch")
      <4>1. Informed(t, new) /\ new.at = "watch"
        BY <1>e, <2>1, <3>1, ReadingMeans
      <4> QED
        BY <1>3, <2>1, <2>3, <4>1, AttemptStep DEF Wake, events
    <3>2. CASE new \notin Readings(t[1], "watch")
      <4>1. new = Free /\ (t[1] \in Unreadable \/ ~Watchable(t[1]))
        BY <2>3, <3>2 DEF Lost
      <4>2. State(t[1]) = "awaiting" => Watchable(t[1]) /\ t[1] \notin Unreadable
        BY <1>i, <1>t, <2>1 DEF Watchable, HoldsSession, TreeOK, Undisturbed
      <4> QED
        BY <1>3, <1>f, <2>1, <2>3, <4>1, <4>2, AttemptStep DEF Wake, events
    <3> QED
      BY <3>1, <3>2
  <2> QED
    BY <1>3, <1>i, <2>2, SameTreeOK DEF Wake, events, IInv
<1>4. CASE Conclude(t)
  <2>1. t[2] # Agent /\ t[1] \in here /\ t[1] \in marked
    BY <1>4, <1>t, <1>k DEF Conclude, Read
  <2>2. LogOK' /\ GateOK' /\ ParkedIsWatched' /\ TryOK'
    <3>1. CASE try[t].some /\ ~try[t].held
      <4>1. PICK new \in Entries(t[1]) : Goes(t, new)
        BY <1>4, <3>1 DEF Conclude
      <4>2. new = Free \/ new \in Readings(t[1], "gate")
        BY EntryMeans
      <4>3. Informed(t, new)
        BY <1>e, <1>f, <2>1, <4>2
      <4>4. new.at = "free" => ~(RunAcceptsLifecycle(V(t[1])) /\ State(t[1]) = "awaiting")
        <5>1. new.at = "free" => new \notin Readings(t[1], "gate")
          BY ReadingMeans
        <5>2. t[1] \notin Unreadable
          BY <1>i, <1>t, <2>1 DEF TreeOK, Undisturbed
        <5> QED
          BY <1>i, <1>t, <2>1, <5>1, <5>2, EntryMeans, ParkedCompletes
      <4> QED
        BY <1>4, <2>1, <4>1, <4>3, <4>4, AttemptStep DEF Conclude, events
    <3>2. CASE ~(try[t].some /\ ~try[t].held)
      <4>1. Informed(t, Asleep) /\ Asleep.at = "asleep" /\ Goes(t, Asleep)
        BY <1>4, <2>1, <3>2 DEF Conclude, Informed, Asleep, Free
      <4> QED
        BY <1>4, <4>1, AttemptStep DEF Conclude, events
    <3> QED
      BY <3>1, <3>2
  <2> QED
    BY <1>4, <1>i, <2>2, SameTreeOK DEF Conclude, events, IInv
<1>5. CASE DeliveryRefused(t)
  BY <1>5 DEF DeliveryRefused, Undisturbed
<1>6. CASE Deliver(t)
  <2> DEFINE r == t[1]
  <2>1. r \in here /\ forgotten = {} /\ Goes(t, Free)
    BY <1>6, <1>i, <1>k DEF Deliver, TreeOK
  <2>2. CASE Verdict(r) # "allow"
    <3>1. UNCHANGED <<log, here, marked>>
      BY <1>6, <2>2 DEF Deliver
    <3>2. ~(RunAcceptsLifecycle(V(r)) /\ State(r) = "awaiting")
      BY <1>i, <1>t, <2>2, ParkedCompletes
    <3>3. LogOK' /\ GateOK' /\ ParkedIsWatched' /\ TryOK'
      BY <1>f, <2>1, <3>1, <3>2, AttemptStep DEF Free
    <3>4. TreeOK'
      <4>1. CASE UNCHANGED tail
        BY <1>6, <1>i, <3>1, <4>1, SameTreeOK DEF Deliver
      <4>2. CASE tail' = [tail EXCEPT ![r] = @ \cup {"reap"}]
        BY <1>6, <1>i, <1>t, <3>1, <4>2, TailTreeOK DEF Deliver
      <4> QED
        BY <1>6, <4>1, <4>2 DEF Deliver
    <3> QED
      BY <3>3, <3>4 DEF IInv
  <2>3. CASE Verdict(r) = "allow"
    <3> DEFINE new == NodeCompleted(log[r], Worker, Lap)
    <3>1. log' = [log EXCEPT ![r] = new] /\ here' = here \cup {r} /\ marked' = marked
      BY <1>6, <2>1, <2>3 DEF Deliver, Append
    <3>2. Harmless(r, new) /\ new.nodes[Worker].st = "completed"
      <4>1. log[r].nodes[Worker].st # "absent"
        BY <1>i, <1>t, <2>3, VerdictMeans DEF State
      <4>2. log[r] \in Runs /\ PlainWorker(log[r].nodes[Worker])
        BY <1>i, <1>t DEF TypeOK, LogOK
      <4> QED
        BY <1>t, <4>1, <4>2, HarmlessCompletion
    <3> HIDE DEF new
    <3>3. LogOK'
      BY <1>i, <1>t, <3>1, <3>2, LogOKStep
    <3>4. GateOK'
      <4>1. try'[<<r, Agent>>].at # "gate" \/ r \in marked
        BY <1>6, <1>t, <1>k, <2>1 DEF Deliver, TypeOK, Goes, Free
      <4>2. \A q \in Family : try'[<<q, Agent>>].at = "gate" => try[<<q, Agent>>].at = "gate"
        BY <2>1, RunTreeAssumption DEF TypeOK, Goes, Free, Tries, Agent
      <4> QED
        BY <1>i, <1>t, <3>1, <4>1, <4>2, GateOKStep
    <3>5. ParkedIsWatched'
      <4>1. \A q \in Family \ {r} : WatchKept(q)
        BY <1>t, <2>1 DEF WatchKept, TypeOK, Goes, Tries
      <4> QED
        BY <1>i, <1>t, <2>1, <3>1, <3>2, <4>1, ParkedStep
    <3>6. TryOK'
      BY <1>f, <1>i, <2>1, <3>1, TryOKStep
    <3>7. TreeOK'
      <4>1. tail' = [tail EXCEPT ![r] = @ \cup {"reap"}] /\ here' = here
        BY <1>6, <2>1, <2>3, <3>1 DEF Deliver
      <4> QED
        BY <1>6, <1>i, <1>t, <3>1, <4>1, TailTreeOK DEF Deliver
    <3> QED
      BY <3>3, <3>4, <3>5, <3>6, <3>7 DEF IInv
  <2> QED
    BY <2>2, <2>3
<1>7. CASE Refuse(t)
  <2> DEFINE r == t[1]
  <2>1. /\ r \in here /\ r \in Parents /\ forgotten = {} /\ try[t].at = "gate"
        /\ try[t].knew <=> r \in marked
    BY <1>7, <1>i, <1>k DEF Refuse, Read, TreeOK
  <2>2. CASE t[2] # Agent
    <3>1. r \in marked /\ UNCHANGED <<log, here, marked>> /\ Goes(t, Asleep)
      BY <1>7, <1>k, <2>1, <2>2 DEF Refuse, Posts
    <3>2. Informed(t, Asleep) /\ Asleep.at = "asleep"
      BY <2>1, <3>1 DEF Informed, Asleep, Free
    <3>3. LogOK' /\ GateOK' /\ ParkedIsWatched' /\ TryOK'
      BY <3>1, <3>2, AttemptStep
    <3> QED
      BY <1>7, <1>i, <3>1, <3>3, SameTreeOK DEF Refuse, IInv
  <2>3. CASE t[2] = Agent
    <3>1. PICK k \in Places(r) :
            try' = [try EXCEPT ![t] = Free, ![<<r, k>>] = Asleep]
      BY <1>7, <2>3 DEF Refuse, Posts
    <3>2. /\ k \in 1..MaxWatchers /\ k # Agent /\ <<r, k>> \in Tries
          /\ t = <<r, Agent>>
      BY <1>t, <2>3, RunTreeAssumption DEF Places, Tries, Agent
    <3>3. /\ try'[t] = Free /\ try'[<<r, k>>] = Asleep
          /\ \A u \in Tries \ {t, <<r, k>>} : try'[u] = try[u]
      BY <3>1, <3>2 DEF TypeOK
    <3>4. marked' = marked \cup {r} /\ here' = here
      BY <1>7, <2>1 DEF Refuse, Append
    <3>5. TryOK'
      <4> SUFFICES ASSUME NEW u \in Tries
                   PROVE  /\ try'[u].at # "free" => u[1] \in here'
                          /\ try'[u].todo # {} \/ try'[u].held => u[1] \in Parents
                          /\ try'[u].at # "free" /\ u[2] # Agent => u[1] \in marked'
                          /\ try'[u].at \in {"watch", "gate"} =>
                               (try'[u].knew <=> u[1] \in marked')
        BY DEF TryOK
      <4>1. CASE u = t
        BY <3>3, <4>1 DEF Free
      <4>2. CASE u = <<r, k>>
        BY <2>1, <3>3, <3>4, <4>2 DEF Asleep, Free
      <4>3. CASE u \notin {t, <<r, k>>}
        <5>1. try'[u] = try[u]
          BY <3>3, <4>3
        <5>2. u[1] = r => u[2] # Agent
          BY <3>2, <4>3 DEF Tries
        <5> QED
          BY <1>i, <3>4, <5>1, <5>2 DEF TryOK
      <4> QED
        BY <4>1, <4>2, <4>3
    <3>6. TreeOK'
      BY <1>7, <1>i, <2>1, <3>4 DEF Refuse, TreeOK
    <3>7. /\ \A q \in Family : try'[<<q, Agent>>].at = "gate" =>
               try[<<q, Agent>>].at = "gate" /\ q # r
          /\ \A q \in Family : WatchKept(q)
      <4>1. \A q \in Family : <<q, Agent>> \in Tries /\ <<q, Agent>> # <<r, k>>
        BY <3>2, RunTreeAssumption DEF Tries, Agent
      <4>2. \A q \in Family : try'[<<q, Agent>>].at = "gate" =>
              try[<<q, Agent>>].at = "gate" /\ q # r
        BY <3>2, <3>3, <4>1 DEF Free
      <4>3. ASSUME NEW q \in Family, NEW j \in 1..MaxWatchers, try[<<q, j>>].at # "free"
            PROVE  try'[<<q, j>>].at # "free"
        <5>1. <<q, j>> \in Tries /\ <<q, j>> # t
          BY <3>2, RunTreeAssumption DEF Tries, Agent
        <5> QED
          BY <3>3, <4>3, <5>1 DEF Asleep, Free
      <4> QED
        BY <4>2, <4>3 DEF WatchKept
    <3>8. CASE try[t].knew
      <4>1. UNCHANGED <<log, here, marked>>
        BY <1>7, <3>8 DEF Refuse
      <4>2. LogOK' /\ GateOK' /\ ParkedIsWatched'
        BY <3>7, <4>1, QuietStep DEF WatchKept, TypeOK
      <4> QED
        BY <3>5, <3>6, <4>2 DEF IInv
    <3>9. CASE ~try[t].knew
      <4> DEFINE new == NodeAwaitingUser(log[r], Worker, Lap, FALSE)
      <4>1. log' = [log EXCEPT ![r] = new]
        BY <1>7, <2>1, <3>9 DEF Refuse, Append
      <4>2. State(r) = "running" /\ log[r].status \in OpenStatuses
            /\ log[r] \in Runs /\ PlainWorker(log[r].nodes[Worker])
        BY <1>i, <1>t, <2>1, <3>2, <3>9 DEF GateOK, LogOK, TypeOK
      <4>3. /\ new.nodes[Worker].st = "awaiting" /\ PlainWorker(new.nodes[Worker])
            /\ new.status = log[r].status
        <5>1. /\ OnlyNode(log[r], new, Worker) /\ new.nodes[Worker].st = "awaiting"
              /\ RowSet(new.nodes[Worker], log[r].nodes[Worker], Lap, "awaiting")
          BY <4>2, WorkerType, AwaitingStep DEF Present, State
        <5> QED
          BY <4>2, <5>1 DEF OnlyNode, RowSet, PlainWorker, State
      <4> HIDE DEF new
      <4>4. log'[r] = new /\ \A q \in Family \ {r} : log'[q] = log[q]
        BY <1>t, <4>1 DEF TypeOK
      <4>5. LogOK'
        <5> SUFFICES ASSUME NEW q \in Family
                     PROVE  /\ PlainWorker(log'[q].nodes[Worker])
                            /\ log'[q].nodes[Worker].st = "awaiting" => q \in marked'
                            /\ log'[q].nodes[Worker].st = "failed" => q \in Failing
                            /\ q \in Parents
                                 /\ log'[q].nodes[Worker].st \in {"running", "awaiting"}
                                 => log'[q].status \in OpenStatuses
          BY DEF LogOK, State
        <5>1. CASE q = r
          BY <3>4, <4>2, <4>3, <4>4, <5>1
        <5>2. CASE q # r
          BY <1>i, <3>4, <4>4, <5>2 DEF LogOK, State
        <5> QED
          BY <5>1, <5>2
      <4>6. GateOK'
        BY <1>i, <3>4, <3>7, <4>4 DEF GateOK, State
      <4>7. ParkedIsWatched'
        <5> SUFFICES ASSUME NEW q \in here, RunAcceptsLifecycle(View(log'[q])),
                            log'[q].nodes[Worker].st = "awaiting"
                     PROVE  \E j \in 1..MaxWatchers : try'[<<q, j>>].at # "free"
          BY <3>4 DEF ParkedIsWatched, Watched, State, V
        <5>1. CASE q = r
          BY <3>2, <3>3, <5>1 DEF Asleep, Free
        <5>2. CASE q # r
          <6>1. q \in Family /\ log'[q] = log[q]
            BY <4>4, <5>2 DEF TypeOK
          <6>2. PICK j \in 1..MaxWatchers : try[<<q, j>>].at # "free"
            BY <1>i, <6>1 DEF ParkedIsWatched, Watched, State, V
          <6> QED
            BY <3>7, <6>1, <6>2 DEF WatchKept
        <5> QED
          BY <5>1, <5>2
      <4> QED
        BY <3>5, <3>6, <4>5, <4>6, <4>7 DEF IInv
    <3> QED
      BY <3>8, <3>9
  <2> QED
    BY <2>2, <2>3
<1> QED
  BY <1>1, <1>2, <1>3, <1>4, <1>5, <1>6, <1>7 DEF TryStep

\* An append of a handler that touches no attempt and no marker.
LEMMA AppendStep ==
  ASSUME TypeOK, IInv, NEW r \in Family, NEW new, Harmless(r, new), Append(r, new),
         UNCHANGED <<marked, try>>,
         r \in here \/ new.nodes[Worker].st # "awaiting",
         \/ State(r) = "running" => new.nodes[Worker].st = "running"
         \/ r \notin here \/ r \notin Parents
  PROVE  /\ LogOK' /\ GateOK' /\ ParkedIsWatched' /\ TryOK'
         /\ here' = here \cup {r}
<1>i. LogOK /\ TreeOK /\ TryOK /\ GateOK /\ ParkedIsWatched
  BY DEF IInv
<1>1. log' = [log EXCEPT ![r] = new] /\ here' = here \cup {r}
  BY <1>i DEF Append, TreeOK
<1>2. LogOK'
  BY <1>i, <1>1, LogOKStep
<1>3. GateOK'
  <2>1. r \notin here => try[<<r, Agent>>].at # "gate"
    BY <1>i, RunTreeAssumption DEF TryOK, Tries, Agent
  <2> QED
    BY <1>i, <1>1, <2>1, GateOKStep
<1>4. ParkedIsWatched'
  <2>1. \A q \in Family : WatchKept(q)
    BY DEF WatchKept
  <2> QED
    BY <1>i, <1>1, <2>1, ParkedStep
<1>5. TryOK'
  BY <1>i, <1>1 DEF TryOK
<1> QED
  BY <1>1, <1>2, <1>3, <1>4, <1>5

\* A step that touches neither logs nor attempts.
LEMMA IdleStep ==
  ASSUME IInv, UNCHANGED <<log, here, marked, try>>
  PROVE  LogOK' /\ GateOK' /\ ParkedIsWatched' /\ TryOK'
  BY DEF IInv, LogOK, GateOK, ParkedIsWatched, TryOK, Watched, State, V

\* The creation of a run keeps the invariant.
LEMMA CreateInv ==
  ASSUME TypeOK, IInv, NEW c \in Family, CreateStep(c) PROVE IInv'
<1>i. LogOK /\ TreeOK
  BY DEF IInv
<1>1. CASE StartRun(c)
  <2>1. c \notin here /\ making[c] \in Parents
    BY <1>1, <1>i DEF StartRun, TreeOK
  <2>2. FreshRun.nodes[Worker].st = "absent"
    BY WorkerType DEF FreshRun, AbsentNode
  <2>3. /\ LogOK' /\ GateOK' /\ ParkedIsWatched' /\ TryOK'
        /\ here' = here \cup {c}
    BY <1>1, <2>1, <2>2, HarmlessFresh, AppendStep DEF StartRun
  <2>4. TreeOK'
    <3>1. /\ forgotten' = {} /\ marked' \subseteq Parents /\ cascade'.todo \subseteq here'
      BY <1>1, <1>i, <2>3 DEF StartRun, TreeOK
    <3>2. ASSUME NEW q \in Family
          PROVE  /\ parent'[q] # NoRun => parent'[q] \in Parents
                 /\ making'[q] # NoRun => making'[q] \in Parents /\ q \notin here'
                 /\ "fail" \in tail'[q] => q \in Failing
      <4>1. CASE q = c
        BY <1>1, <1>i, <2>1, <4>1 DEF StartRun, TreeOK, TypeOK
      <4>2. CASE q # c
        BY <1>1, <1>i, <2>3, <4>2 DEF StartRun, TreeOK, TypeOK
      <4> QED
        BY <4>1, <4>2
    <3> QED
      BY <3>1, <3>2 DEF TreeOK
  <2> QED
    BY <2>3, <2>4 DEF IInv
<1>2. CASE CreateFails(c)
  <2>1. LogOK' /\ GateOK' /\ ParkedIsWatched' /\ TryOK'
    BY <1>2, IdleStep DEF CreateFails, events
  <2>2. TreeOK'
    BY <1>2, <1>i DEF CreateFails, events, TreeOK, TypeOK
  <2> QED
    BY <2>1, <2>2 DEF IInv
<1>3. ASSUME NEW p \in Family, Claim(p, c) PROVE IInv'
  <2>1. LogOK' /\ GateOK' /\ ParkedIsWatched' /\ TryOK'
    BY <1>3, IdleStep DEF Claim, events
  <2>2. TreeOK'
    BY <1>3, <1>i DEF Claim, events, TreeOK, TypeOK
  <2> QED
    BY <2>1, <2>2 DEF IInv
<1> QED
  BY <1>1, <1>2, <1>3 DEF CreateStep

\* The agent's calls keep it.
LEMMA AgentInv ==
  ASSUME Undisturbed, TypeOK, IInv, NEW r \in Family, AgentStep(r) PROVE IInv'
<1>i. LogOK /\ TreeOK
  BY DEF IInv
<1>a. <<r, Agent>> \in Tries /\ <<r, Agent>>[1] = r /\ <<r, Agent>>[2] = Agent
  BY RunTreeAssumption DEF Tries, Agent
<1>1. CASE Complete(r)
  <2>0. PICK new \in Entries(r) \ {Free} : Goes(<<r, Agent>>, new)
    BY <1>1 DEF Complete
  <2>1. new \in Readings(r, "gate") /\ r \in here /\ Verdict(r) = "allow"
    BY <2>0, EntryMeans
  <2>2. Informed(<<r, Agent>>, new)
    <3> DEFINE t == <<r, Agent>>
    <3>1. t[1] = r /\ t[2] = Agent
      BY <1>a
    <3>2. Children(r) # {} => r \in Parents
      BY <1>i, OnlyParents
    <3> HIDE DEF t
    <3>3. new.todo \subseteq Children(r) /\ ~new.held /\ (new.knew <=> r \in marked)
      BY <2>1, ReadingMeans
    <3>4. Informed(t, new)
      BY <2>1, <3>1, <3>2, <3>3 DEF Informed
    <3> QED
      BY <3>4 DEF t
  <2>3. r \in Parents \ marked => State(r) = "running"
    BY <1>i, <2>1, VerdictMeans DEF LogOK, Undisturbed
  <2>4. new.at = "gate" /\ Goes(<<r, Agent>>, new)
    BY <2>0, <2>1, ReadingMeans
  <2>5. LogOK' /\ GateOK' /\ ParkedIsWatched' /\ TryOK'
    BY <1>1, <1>a, <2>2, <2>3, <2>4, AttemptStep DEF Complete, events
  <2> QED
    BY <1>1, <1>i, <2>5, SameTreeOK DEF Complete, events, IInv
<1>2. CASE Fail(r)
  <2>1. r \in here /\ r \in Failing /\ r \notin Parents
    BY <1>2 DEF Fail, Undisturbed
  <2>2. log[r] \in Runs /\ PlainWorker(log[r].nodes[Worker])
    BY <1>i DEF TypeOK, LogOK
  <2>3. log[r].nodes[Worker].st # "absent"
    <3>1. V(r).nodes[Worker].row[Lap] # "none"
      BY <1>2 DEF Fail, ValidateFail
    <3> QED
      BY <2>2, <3>1, ViewWorker DEF PlainWorker, V
  <2>4. /\ Harmless(r, NodeFailed(log[r], Worker, Lap))
        /\ NodeFailed(log[r], Worker, Lap).nodes[Worker].st = "failed"
    BY <2>1, <2>2, <2>3, HarmlessFailure
  <2>5. /\ LogOK' /\ GateOK' /\ ParkedIsWatched' /\ TryOK'
        /\ here' = here
    BY <1>2, <2>1, <2>4, AppendStep DEF Fail
  <2>6. TreeOK'
    BY <1>2, <1>i, <2>1, <2>5, TailTreeOK DEF Fail
  <2> QED
    BY <2>5, <2>6 DEF IInv
<1>3. CASE Cancelled(r)
  <2>1. Informed(<<r, Agent>>, Free) /\ Free.at = "free"
    BY DEF Informed, Free
  <2>2. LogOK' /\ GateOK' /\ ParkedIsWatched' /\ TryOK'
    BY <1>3, <1>a, <2>1, AttemptStep DEF Cancelled, events
  <2> QED
    BY <1>3, <1>i, <2>2, SameTreeOK DEF Cancelled, events, IInv
<1> QED
  BY <1>1, <1>2, <1>3 DEF AgentStep

\* A worker that is not a parent's is never parked.
LEMMA OnlyParentsPark ==
  ASSUME LogOK, TreeOK, NEW r \in Family, State(r) = "awaiting" PROVE r \in Parents
  BY DEF LogOK, TreeOK

\* The tails and the reconciliation keep it.
LEMMA TailInv ==
  ASSUME Undisturbed, TypeOK, IInv, NEW r \in Family, TailStep(r) \/ ParkStalled(r)
  PROVE  IInv'
<1>i. LogOK /\ TreeOK
  BY DEF IInv
<1>l. log[r] \in Runs
  BY DEF TypeOK
<1>1. CASE Reap(r)
  <2>1. LogOK' /\ GateOK' /\ ParkedIsWatched' /\ TryOK'
    BY <1>1, IdleStep DEF Reap, events
  <2>2. TreeOK'
    BY <1>1, <1>i, TailTreeOK DEF Reap, events
  <2> QED
    BY <2>1, <2>2 DEF IInv
<1>2. CASE Advance(r)
  <2>1. LogOK' /\ GateOK' /\ ParkedIsWatched' /\ TryOK' /\ here' = here
    <3>1. CASE UNCHANGED <<log, here>>
      BY <1>2, <3>1, IdleStep DEF Advance
    <3>2. CASE /\ r \in here /\ RunAcceptsLifecycle(V(r))
               /\ Append(r, NodeStarted(log[r], Worker, Lap))
      BY <1>2, <1>l, <3>2, HarmlessStart, AppendStep DEF Advance, V
    <3>3. CASE r \in here /\ SettledComplete(State(r)) /\ Append(r, RunCompleted(log[r]))
      <4>1. /\ RunCompleted(log[r]) \in Runs
            /\ RunCompleted(log[r]).nodes = log[r].nodes
        BY <1>l, RunEventStep
      <4>2. RunCompleted(log[r]).status = "completed"
        BY <1>l DEF RunCompleted, Runs
      <4>3. State(r) \notin {"running", "awaiting"}
        BY <3>3 DEF SettledComplete
      <4>4. Harmless(r, RunCompleted(log[r]))
        BY <1>i, <4>1, <4>2, <4>3, HarmlessRunEvent
      <4> QED
        BY <1>2, <3>3, <4>1, <4>4, AppendStep DEF Advance, State
    <3> QED
      BY <1>2, <3>1, <3>2, <3>3 DEF Advance
  <2>2. TreeOK'
    BY <1>2, <1>i, <2>1, TailTreeOK DEF Advance
  <2> QED
    BY <2>1, <2>2 DEF IInv
<1>3. CASE FailTail(r)
  <2>1. r \notin Parents /\ State(r) # "awaiting"
    BY <1>3, <1>i, OnlyParentsPark DEF FailTail, TreeOK, Undisturbed
  <2>2. LogOK' /\ GateOK' /\ ParkedIsWatched' /\ TryOK' /\ here' = here
    <3>1. CASE UNCHANGED <<log, here>>
      BY <1>3, <3>1, IdleStep DEF FailTail
    <3>2. ASSUME r \in here, NEW new \in {RunFailed(log[r]), RunInterrupted(log[r])},
                 Append(r, new)
          PROVE  LogOK' /\ GateOK' /\ ParkedIsWatched' /\ TryOK' /\ here' = here
      <4>1. new \in Runs /\ new.nodes = log[r].nodes
        BY <1>l, <3>2, RunEventStep
      <4>2. Harmless(r, new)
        BY <1>i, <2>1, <4>1, HarmlessRunEvent
      <4> QED
        BY <1>3, <2>1, <3>2, <4>1, <4>2, AppendStep DEF FailTail
    <3> QED
      BY <1>3, <3>1, <3>2 DEF FailTail
  <2>3. TreeOK'
    BY <1>3, <1>i, <2>2, TailTreeOK DEF FailTail
  <2> QED
    BY <2>2, <2>3 DEF IInv
<1>4. CASE ParkStalled(r)
  <2>1. r \in here /\ State(r) = "absent" /\ Append(r, RunInterrupted(log[r]))
    BY <1>4 DEF ParkStalled
  <2>2. RunInterrupted(log[r]) \in Runs /\ RunInterrupted(log[r]).nodes = log[r].nodes
    BY <1>l, RunEventStep
  <2>3. Harmless(r, RunInterrupted(log[r]))
    BY <1>i, <2>1, <2>2, HarmlessRunEvent
  <2>4. LogOK' /\ GateOK' /\ ParkedIsWatched' /\ TryOK' /\ here' = here
    BY <1>4, <2>1, <2>2, <2>3, AppendStep DEF ParkStalled, memory, State
  <2> QED
    BY <1>4, <1>i, <2>4, SameTreeOK DEF ParkStalled, memory, IInv
<1> QED
  BY <1>1, <1>2, <1>3, <1>4 DEF TailStep

\* A re-opening is harmless: it revives no run that is parked and has ended.
LEMMA HarmlessReopen ==
  ASSUME TypeOK, LogOK, TreeOK, NEW r \in Family,
         NEW new \in {RunReopened(log[r]), EmbedReopen(log[r])}
  PROVE  Harmless(r, new) /\ new.nodes[Worker] = log[r].nodes[Worker]
<1>1. log[r] \in Runs /\ PlainWorker(log[r].nodes[Worker])
  BY DEF TypeOK, LogOK
<1>2. /\ new \in Runs /\ new.nodes[Worker] = log[r].nodes[Worker]
      /\ \/ new.status = log[r].status
         \/ new.status = "running" /\ log[r].status # "archived"
  BY <1>1, PlainReopened
<1>3. State(r) = "awaiting" => log[r].status \in OpenStatuses
  BY OnlyParentsPark DEF LogOK
<1>4. r \in Parents /\ State(r) \in {"running", "awaiting"} => log[r].status \in OpenStatuses
  BY DEF LogOK
<1>5. Harmless(r, new)
  BY <1>2, <1>3, <1>4, HarmlessRunEvent DEF OpenStatuses
<1> QED
  BY <1>2, <1>5

\* The operator's gestures keep the invariant.
LEMMA OperatorInv ==
  ASSUME Undisturbed, TypeOK, IInv, NEW r \in Family, OperatorStep(r) PROVE IInv'
<1>i. LogOK /\ TreeOK /\ TryOK /\ GateOK /\ ParkedIsWatched
  BY DEF IInv
<1>l. log[r] \in Runs
  BY DEF TypeOK
<1>1. CASE RestartNode(r)
  <2> DEFINE x == EmbedReopen(log[r])
             new == IF ValidateStart(View(x), Worker, Lap) = "allow"
                    THEN NodeStarted(x, Worker, Lap) ELSE x
  <2>1. r \in here /\ Append(r, new)
    BY <1>1 DEF RestartNode, Gesture
  <2>2. /\ Harmless(r, new)
        /\ State(r) = "running" => new.nodes[Worker].st = "running"
    <3>1. Harmless(r, x) /\ x.nodes[Worker] = log[r].nodes[Worker] /\ x \in Runs
      BY <1>i, <1>l, HarmlessReopen, RunEventType
    <3>2. CASE ValidateStart(View(x), Worker, Lap) = "allow"
      <4>1. RunAcceptsLifecycle(View(x))
        BY <3>2 DEF ValidateStart
      <4> QED
        BY <3>1, <3>2, <4>1, HarmlessStart
    <3>3. CASE ValidateStart(View(x), Worker, Lap) # "allow"
      BY <3>1, <3>3 DEF State
    <3> QED
      BY <3>2, <3>3
  <2> HIDE DEF new
  <2>3. log' = [log EXCEPT ![r] = new] /\ here' = here /\ marked' = marked
    BY <1>1, <1>i, <2>1 DEF Append, TreeOK, RestartNode
  <2>4. /\ \A q \in Family : try'[<<q, Agent>>].at = "gate" => try[<<q, Agent>>].at = "gate"
        /\ \A q \in Family : WatchKept(q)
        /\ TryOK'
    <3>1. CASE UNCHANGED try
      BY <1>i, <2>3, <3>1 DEF WatchKept, TryOK
    <3>2. CASE try' = [try EXCEPT ![<<r, Agent>>] = Free]
      <4>1. <<r, Agent>> \in Tries /\ Agent \notin 1..MaxWatchers
        BY RunTreeAssumption DEF Tries, Agent
      <4>2. \A q \in Family : try'[<<q, Agent>>].at = "gate" => try[<<q, Agent>>].at = "gate"
        BY <3>2, RunTreeAssumption DEF TypeOK, Tries, Agent, Free
      <4>3. \A q \in Family : WatchKept(q)
        BY <3>2, <4>1, RunTreeAssumption DEF WatchKept, TypeOK, Tries
      <4>4. Informed(<<r, Agent>>, Free) /\ Goes(<<r, Agent>>, Free)
        BY <3>2 DEF Informed, Free, Goes
      <4>5. TryOK'
        BY <1>i, <2>3, <4>1, <4>4, TryOKStep
      <4> QED
        BY <4>2, <4>3, <4>5
    <3> QED
      BY <1>1, <3>1, <3>2 DEF RestartNode
  <2>5. LogOK'
    BY <1>i, <2>2, <2>3, LogOKStep
  <2>6. GateOK'
    BY <1>i, <2>2, <2>3, <2>4, GateOKStep
  <2>7. ParkedIsWatched'
    BY <1>i, <2>1, <2>2, <2>3, <2>4, ParkedStep
  <2>8. TreeOK'
    BY <1>1, <1>i, <2>3, SameTreeOK DEF RestartNode, Gesture
  <2> QED
    BY <2>4, <2>5, <2>6, <2>7, <2>8 DEF IInv
<1>2. CASE ReopenRun(r)
  <2>1. r \in here /\ Append(r, RunReopened(log[r]))
    BY <1>2 DEF ReopenRun, Gesture
  <2>2. Harmless(r, RunReopened(log[r]))
        /\ RunReopened(log[r]).nodes[Worker] = log[r].nodes[Worker]
    BY <1>i, HarmlessReopen
  <2>3. LogOK' /\ GateOK' /\ ParkedIsWatched' /\ TryOK' /\ here' = here
    BY <1>2, <2>1, <2>2, AppendStep DEF ReopenRun, State
  <2>4. TreeOK'
    BY <1>2, <1>i, <2>3, TailTreeOK DEF ReopenRun, Gesture, Drives
  <2> QED
    BY <2>3, <2>4 DEF IInv
<1>3. CASE CleanupRun(r)
  <2>1. LogOK' /\ GateOK' /\ ParkedIsWatched' /\ TryOK'
    BY <1>3, IdleStep DEF CleanupRun, events
  <2>2. cascade'.todo \subseteq here
    <3>1. r \in here /\ \A read \in SUBSET here : Below(r, read) \subseteq here
      BY <1>3 DEF CleanupRun, Gesture, Below
    <3> QED
      BY <1>3, <3>1 DEF CleanupRun
  <2>3. TreeOK'
    BY <1>3, <1>i, <2>2 DEF CleanupRun, Gesture, events, TreeOK
  <2> QED
    BY <2>1, <2>3 DEF IInv
<1> QED
  BY <1>1, <1>2, <1>3 DEF OperatorStep, Undisturbed, Gesture, MarkNodeDone, PauseRun,
     ResumeRun, ForgetRun

\* The cascade keeps it.
LEMMA CascadeInv ==
  ASSUME TypeOK, IInv, NEW c \in Family, CascadeStep(c) PROVE IInv'
<1>i. LogOK /\ TreeOK
  BY DEF IInv
<1>1. CASE ArchiveNext(c)
  <2>1. c \in here /\ Append(c, RunArchived(log[c]))
    BY <1>1, <1>i DEF ArchiveNext, TreeOK
  <2>2. /\ RunArchived(log[c]) \in Runs /\ RunArchived(log[c]).nodes = log[c].nodes
        /\ RunArchived(log[c]).status = "archived"
    <3>1. log[c] \in Runs
      BY DEF TypeOK
    <3> QED
      BY <3>1, RunEventStep DEF RunArchived, Runs
  <2>3. Harmless(c, RunArchived(log[c]))
    BY <1>i, <2>2, HarmlessRunEvent DEF OpenStatuses
  <2>4. LogOK' /\ GateOK' /\ ParkedIsWatched' /\ TryOK' /\ here' = here
    BY <1>1, <2>1, <2>2, <2>3, AppendStep DEF ArchiveNext, State
  <2>5. cascade'.todo \subseteq cascade.todo
    BY <1>1 DEF ArchiveNext, Shrinks, Resting, TypeOK
  <2>6. TreeOK'
    BY <1>1, <1>i, <2>4, <2>5 DEF ArchiveNext, TreeOK
  <2> QED
    BY <2>4, <2>6 DEF IInv
<1>2. CASE ArchiveFails(c)
  <2>1. LogOK' /\ GateOK' /\ ParkedIsWatched' /\ TryOK'
    BY <1>2, IdleStep DEF ArchiveFails, events
  <2>2. TreeOK'
    BY <1>2, <1>i DEF ArchiveFails, Resting, events, TreeOK
  <2> QED
    BY <2>1, <2>2 DEF IInv
<1> QED
  BY <1>1, <1>2 DEF CascadeStep

\* A node parked behind its children has a watcher, as long as nothing disturbs
\* the binding: for any family, any tree and any number of watchers.
THEOREM ParkedAlwaysWatched == ASSUME Undisturbed PROVE Spec => []ParkedIsWatched
<1>1. Init => IInv
  <2> SUFFICES ASSUME Init PROVE IInv
    OBVIOUS
  <2>1. \A r \in Family : log[r].nodes[Worker] = AbsentNode /\ State(r) = "absent"
    BY WorkerType DEF Init, FreshRun, AbsentNode, State
  <2>2. PlainWorker(AbsentNode)
    BY WorkerType DEF PlainWorker, AbsentNode
  <2>3. LogOK
    BY <2>1, <2>2 DEF LogOK
  <2>4. TreeOK
    BY DEF Init, TreeOK, Resting
  <2>5. TryOK /\ GateOK
    BY RunTreeAssumption DEF Init, TryOK, GateOK, Free, Tries, Agent
  <2>6. ParkedIsWatched
    BY <2>1, RunTreeAssumption DEF Init, ParkedIsWatched
  <2> QED
    BY <2>3, <2>4, <2>5, <2>6 DEF IInv
<1>2. TypeOK /\ IInv /\ [Next]_vars => IInv'
  <2> SUFFICES ASSUME TypeOK, IInv, [Next]_vars PROVE IInv'
    OBVIOUS
  <2>1. CASE UNCHANGED vars
    <3>1. LogOK' /\ GateOK' /\ ParkedIsWatched' /\ TryOK'
      BY <2>1, IdleStep DEF vars
    <3> QED
      BY <2>1, <3>1, SameTreeOK DEF vars, IInv
  <2>2. CASE CrashAndBoot
    BY <2>2, RunTreeAssumption DEF CrashAndBoot, TypeOK, Undisturbed
  <2> QED
    BY <2>1, <2>2, CreateInv, TryInv, AgentInv, TailInv, OperatorInv, CascadeInv DEF Next
<1>3. IInv => ParkedIsWatched
  BY DEF IInv
<1> QED
  BY <1>1, <1>2, <1>3, TreeTypeOK, PTL DEF Spec

(***************************************************************************)
(* The invariant of the gate and of the cascade                            *)
(***************************************************************************)
\* A run is claimed before it is there, by one that was; so is a parent; an
\* attempt belongs to a run that was; and nobody descends from itself.
FamilyOK ==
  /\ \A r \in Family : making[r] # NoRun =>
       r \notin here \cup forgotten /\ making[r] \in here \cup forgotten
  /\ \A r \in here : parent[r] # NoRun => parent[r] \in here \cup forgotten
  /\ \A t \in Tries : try[t].at # "free" => t[1] \in here \cup forgotten
  /\ \A r \in here : r \notin Descendants(r)

\* What an attempt past its first reading has not seen of its run's children: at
\* the gate what it has yet to read, after it nothing but what rose since; of what
\* can be read.
GateKnows ==
  \A t \in Tries : try[t].at \in {"gate", "deliver"} /\ t[1] \notin Unreadable =>
    \A c \in Children(t[1]) \ Unreadable : LiveOrFailed(c) =>
      \/ c \in rose[t]
      \/ try[t].at = "gate" /\ (c \in try[t].todo \/ try[t].held)

\* What the cascade has yet to archive is there, and below it is nothing that it
\* neither holds nor has archived, but for what rose since and what was hidden.
CascadeKnows ==
  \A c \in cascade.todo :
    /\ c \in here /\ ~Archived(c)
    /\ \A d \in Descendants(c) :
         d \in cascade.todo \/ d \in rose[Cascading] \/ d \in hidden \/ Archived(d)
    /\ c # cascade.root /\ Live(c) => c \in rose[Cascading]

HistoryInv == FamilyOK /\ GateKnows /\ CascadeKnows

(***************************************************************************)
(* The tree                                                                *)
(***************************************************************************)
\* The descendants of a run are there, its children are among them, and they
\* are closed under children.
LEMMA DescendantsClosed ==
  ASSUME NEW r
  PROVE  /\ Descendants(r) \subseteq here /\ Children(r) \subseteq Descendants(r)
         /\ \A d \in Descendants(r) : Children(d) \subseteq Descendants(r)
<1>1. Descendants(r) \subseteq here
  BY DEF Descendants, Below
<1>2. Children(r) \subseteq Descendants(r)
  BY DEF Descendants, Below, Children
<1>3. ASSUME NEW d \in Descendants(r), NEW c \in Children(d) PROVE c \in Descendants(r)
  <2>1. c \in here
    BY DEF Children
  <2>2. ASSUME NEW S \in SUBSET here, Children(r) \subseteq S,
               \A e \in S : Children(e) \subseteq S
        PROVE  c \in S
    <3>1. d \in S
      BY <2>2 DEF Descendants, Below
    <3> QED
      BY <2>2, <3>1
  <2> QED
    BY <2>1, <2>2 DEF Descendants, Below
<1> QED
  BY <1>1, <1>2, <1>3

\* They are the smallest such set.
LEMMA DescendantsLeast ==
  ASSUME NEW r, NEW S, Children(r) \subseteq S,
         \A d \in S \cap here : Children(d) \subseteq S
  PROVE  Descendants(r) \subseteq S
<1>1. S \cap here \in SUBSET here /\ Children(r) \subseteq S \cap here
  BY DEF Children
<1>2. \A d \in S \cap here : Children(d) \subseteq S \cap here
  BY DEF Children
<1> QED
  BY <1>1, <1>2 DEF Descendants, Below

\* What descends from a descendant descends from the run.
LEMMA DescendantsThrough ==
  ASSUME NEW r, NEW d \in Descendants(r) PROVE Descendants(d) \subseteq Descendants(r)
  BY DescendantsClosed, DescendantsLeast

\* What a reading of the tree finds below a run descends from it, and what it does
\* not find could not be read or is below what could not.
LEMMA BelowSeen ==
  ASSUME NEW r, NEW read \in SUBSET here, here \ Unreadable \subseteq read
  PROVE  /\ Below(r, read) \subseteq Descendants(r)
         /\ Descendants(r) \subseteq Below(r, read) \cup Unseen
<1> DEFINE B == Below(r, read)
<1>1. B \subseteq read /\ Children(r) \cap read \subseteq B
  BY DEF Below
<1>2. ASSUME NEW d \in B, NEW c \in Children(d) \cap read PROVE c \in B
  BY <1>2 DEF Below
<1>3. ASSUME NEW b \in B PROVE b \in Descendants(r)
  <2> DEFINE S == Descendants(r) \cap read
  <2>1. S \in SUBSET read /\ Children(r) \cap read \subseteq S
    BY DescendantsClosed
  <2>2. \A d \in S : Children(d) \cap read \subseteq S
    BY DescendantsClosed
  <2> HIDE DEF S
  <2>3. b \in S
    BY <1>3, <2>1, <2>2 DEF Below
  <2> QED
    BY <2>3 DEF S
<1>4. \A c \in here \ read : c \in Unseen
  BY DEF Unseen
<1>5. \A q : Children(q) \subseteq here
  BY DEF Children
<1>6. \A d \in Unseen : Children(d) \subseteq Unseen
  BY DescendantsClosed DEF Unseen
<1>7. Children(r) \subseteq B \cup Unseen
  BY <1>1, <1>4, <1>5
<1>8. \A d \in B \cup Unseen : Children(d) \subseteq B \cup Unseen
  BY <1>2, <1>4, <1>5, <1>6
<1> HIDE DEF B
<1>9. Descendants(r) \subseteq B \cup Unseen
  BY <1>7, <1>8, DescendantsLeast
<1> QED
  BY <1>3, <1>9 DEF B

\* Nobody was born or changed parents, and nobody left but the archived.
Withers ==
  /\ here' \subseteq here /\ \A r \in here' : parent'[r] = parent[r]
  /\ (here \cup forgotten)' = here \cup forgotten
  /\ \A r \in here \ here' : Archived(r)

\* A tree that only loses runs has nobody descend from a run who did not.
LEMMA WithersDescendants ==
  ASSUME Withers, NEW r PROVE Descendants(r)' \subseteq Descendants(r)
<1> DEFINE S == Descendants(r)
<1>1. \A q : Children(q)' \subseteq Children(q)
  BY DEF Withers, Children
<1>2. ASSUME NEW d \in Descendants(r)' PROVE d \in S
  <2>1. S \cap here' \in SUBSET here' /\ Children(r)' \subseteq S \cap here'
    BY <1>1, DescendantsClosed DEF Children
  <2>2. \A e \in S \cap here' : Children(e)' \subseteq S \cap here'
    BY <1>1, DescendantsClosed DEF Children
  <2> HIDE DEF S
  <2> QED
    BY <1>2, <2>1, <2>2 DEF Descendants, Below
<1> QED
  BY <1>2

\* What a birth does: the run was nobody's yet and has no child.
LEMMA BirthStep ==
  ASSUME TypeOK, FamilyOK, NEW x \in Family, StartRun(x)
  PROVE  /\ x \notin here \cup forgotten /\ here' = here \cup {x} /\ forgotten' = forgotten
         /\ log' = [log EXCEPT ![x] = FreshRun]
         /\ parent' = [parent EXCEPT ![x] = making[x]] /\ parent'[x] \in here \cup forgotten
         /\ \A r : Children(r)' \subseteq Children(r) \cup {x}
         /\ Children(x)' = {}
<1>1. x \notin here \cup forgotten /\ making[x] \in here \cup forgotten
  BY DEF FamilyOK, StartRun
<1>2. /\ here' = here \cup {x} /\ forgotten' = forgotten
      /\ log' = [log EXCEPT ![x] = FreshRun]
      /\ parent' = [parent EXCEPT ![x] = making[x]]
  BY <1>1 DEF StartRun, Append
<1>3. parent' [x] = making[x] /\ \A r \in here : parent'[r] = parent[r]
  BY <1>1, <1>2 DEF TypeOK
<1>4. \A r : Children(r)' \subseteq Children(r) \cup {x}
  BY <1>1, <1>2, <1>3 DEF Children
<1>5. \A r \in here : parent[r] # x
  BY <1>1, RunTreeAssumption DEF FamilyOK
<1> QED
  BY <1>1, <1>2, <1>3, <1>4, <1>5 DEF Children

\* Nobody but the run that is born comes to descend from a run.
LEMMA BirthDescendants ==
  ASSUME TypeOK, FamilyOK, NEW x \in Family, StartRun(x)
  PROVE  /\ Descendants(x)' = {}
         /\ \A r \in here : Descendants(r)' \subseteq Descendants(r) \cup {x}
<1>1. /\ here' = here \cup {x} /\ Children(x)' = {}
      /\ \A r : Children(r)' \subseteq Children(r) \cup {x}
  BY BirthStep
<1>2. Descendants(x)' = {}
  BY <1>1 DEF Descendants, Below
<1>3. ASSUME NEW r \in here, NEW d \in Descendants(r)' PROVE d \in Descendants(r) \cup {x}
  <2> DEFINE S == Descendants(r) \cup {x}
  <2>1. S \in SUBSET here' /\ Children(r)' \subseteq S
    BY <1>1, DescendantsClosed
  <2>2. \A e \in S : Children(e)' \subseteq S
    BY <1>1, DescendantsClosed
  <2> HIDE DEF S
  <2>3. d \in S
    BY <1>3, <2>1, <2>2 DEF Descendants, Below
  <2> QED
    BY <2>3 DEF S
<1> QED
  BY <1>2, <1>3

(***************************************************************************)
(* Who archives                                                            *)
(***************************************************************************)
\* Readers see a run archived exactly when its log says so; a new run is live.
LEMMA ViewArchived ==
  /\ \A x \in Runs : View(x).status = "archived" <=> x.status = "archived"
  /\ View(FreshRun).status = "running"
<1>1. \A n \in Nodes : FreshRun.nodes[n].st = "absent"
  BY DEF FreshRun, AbsentNode
<1>2. ViewStatus(FreshRun) = "running"
  BY <1>1 DEF ViewStatus, SomeNode, FreshRun
<1> QED
  BY <1>2 DEF View, ViewStatus

\* No event but RunArchived makes a run archived.
Unarchived(x, y) == y.status = "archived" => x.status = "archived"

LEMMA EventsArchiveNothing ==
  ASSUME NEW x \in Runs
  PROVE  /\ \A y \in {x, RunCompleted(x), RunFailed(x), RunInterrupted(x), RunPaused(x),
                      RunResumed(x), RunReopened(x), EmbedReopen(x)} : Unarchived(x, y)
         /\ NodeStarted(x, Worker, Lap).status = x.status
         /\ NodeCompleted(x, Worker, Lap).status = x.status
         /\ NodeFailed(x, Worker, Lap).status = x.status
         /\ NodeInterrupted(x, Worker, Lap).status = x.status
         /\ NodeAwaitingUser(x, Worker, Lap, FALSE).status = x.status
<1>1. \A y \in {x, RunCompleted(x), RunFailed(x), RunInterrupted(x), RunPaused(x),
                RunResumed(x), RunReopened(x)} : Unarchived(x, y)
  <2>1. /\ Unarchived(x, RunCompleted(x)) /\ Unarchived(x, RunFailed(x))
        /\ Unarchived(x, RunPaused(x)) /\ Unarchived(x, RunResumed(x))
    BY DEF Runs, Unarchived, RunCompleted, RunFailed, RunPaused, RunResumed
  <2>2. Unarchived(x, RunInterrupted(x))
    BY DEF Runs, Unarchived, RunInterrupted
  <2>3. Unarchived(x, RunReopened(x))
    BY DEF Unarchived, RunReopened
  <2> QED
    BY <2>1, <2>2, <2>3 DEF Unarchived
<1>2. Unarchived(x, EmbedReopen(x))
  BY <1>1 DEF EmbedReopen
<1>3. /\ NodeStarted(x, Worker, Lap).status = x.status
      /\ NodeCompleted(x, Worker, Lap).status = x.status
      /\ NodeFailed(x, Worker, Lap).status = x.status
      /\ NodeInterrupted(x, Worker, Lap).status = x.status
      /\ NodeAwaitingUser(x, Worker, Lap, FALSE).status = x.status
  BY DEF Runs, SetNode, NodeStarted, NodeCompleted, NodeFailed, NodeInterrupted,
     NodeAwaitingUser
<1> QED
  BY <1>1, <1>2, <1>3

\* An append that archives nothing archives nobody.
LEMMA AppendArchivesNobody ==
  ASSUME TypeOK, NEW r \in Family, NEW new \in Runs, Unarchived(log[r], new),
         Append(r, new), NEW c \in Family, Archived(c)'
  PROVE  Archived(c)
<1>1. log'[c] = log[c] \/ (c = r /\ log'[c] = new)
  BY DEF Append, TypeOK
<1>2. log[c] \in Runs
  BY DEF TypeOK
<1> QED
  BY <1>1, <1>2, ViewArchived DEF Archived, V, Unarchived

\* Nobody is archived but by the cascade, when his turn has come.
LEMMA ArchivedByCascade ==
  ASSUME TypeOK, Next, NEW c \in Family, ~Archived(c), Archived(c)'
  PROVE  ArchiveNext(c)
<1>0. \A r \in Family : log[r] \in Runs
  BY DEF TypeOK
<1>1. UNCHANGED log => FALSE
  BY DEF Archived, V
<1>e. ASSUME NEW r \in Family,
             NEW new \in {log[r], RunCompleted(log[r]), RunFailed(log[r]),
                          RunInterrupted(log[r]), RunPaused(log[r]), RunResumed(log[r]),
                          RunReopened(log[r]), EmbedReopen(log[r]),
                          NodeStarted(log[r], Worker, Lap), NodeCompleted(log[r], Worker, Lap),
                          NodeFailed(log[r], Worker, Lap),
                          NodeAwaitingUser(log[r], Worker, Lap, FALSE),
                          NodeStarted(EmbedReopen(log[r]), Worker, Lap),
                          NodeCompleted(EmbedReopen(log[r]), Worker, Lap), FreshRun},
             Append(r, new)
      PROVE  FALSE
  <2>1. log[r] \in Runs /\ EmbedReopen(log[r]) \in Runs
    BY <1>0, RunEventType
  <2>2. new \in Runs
    BY <2>1, RunEventType, NodeEventType, FreshType
  <2>3. Unarchived(log[r], EmbedReopen(log[r]))
    BY <2>1, EventsArchiveNothing
  <2>4. /\ Unarchived(log[r], NodeStarted(EmbedReopen(log[r]), Worker, Lap))
        /\ Unarchived(log[r], NodeCompleted(EmbedReopen(log[r]), Worker, Lap))
    BY <2>1, <2>3, EventsArchiveNothing DEF Unarchived
  <2>5. /\ Unarchived(log[r], NodeStarted(log[r], Worker, Lap))
        /\ Unarchived(log[r], NodeCompleted(log[r], Worker, Lap))
        /\ Unarchived(log[r], NodeFailed(log[r], Worker, Lap))
        /\ Unarchived(log[r], NodeAwaitingUser(log[r], Worker, Lap, FALSE))
    BY <2>1, EventsArchiveNothing DEF Unarchived
  <2>6. Unarchived(log[r], FreshRun)
    BY DEF Unarchived, FreshRun
  <2>7. Unarchived(log[r], new)
    BY <2>1, <2>3, <2>4, <2>5, <2>6, EventsArchiveNothing
  <2> QED
    BY <1>e, <2>2, <2>7, AppendArchivesNobody
<1>2. ASSUME NEW r \in Family, CreateStep(r) PROVE FALSE
  BY <1>1, <1>2, <1>e DEF CreateStep, StartRun, CreateFails, Claim, events
<1>3. ASSUME NEW t \in Tries, TryStep(t) PROVE FALSE
  <2>1. t[1] \in Family
    BY DEF Tries
  <2>2. CASE ReadChild(t) \/ Pass(t) \/ DeliveryRefused(t) \/ Wake(t) \/ Conclude(t)
    BY <1>1, <2>2 DEF ReadChild, Pass, DeliveryRefused, Wake, Conclude, events
  <2>3. CASE Refuse(t)
    BY <1>1, <1>e, <2>1, <2>3 DEF Refuse
  <2>4. CASE Deliver(t)
    BY <1>1, <1>e, <2>1, <2>4 DEF Deliver
  <2> QED
    BY <1>3, <2>2, <2>3, <2>4 DEF TryStep
<1>4. ASSUME NEW r \in Family, AgentStep(r) PROVE FALSE
  BY <1>1, <1>4, <1>e DEF AgentStep, Complete, Fail, Cancelled, events
<1>5. ASSUME NEW r \in Family, TailStep(r) \/ ParkStalled(r) PROVE FALSE
  <2>1. CASE Reap(r) \/ Advance(r)
    BY <1>1, <1>e, <2>1 DEF Reap, Advance, events
  <2>2. CASE FailTail(r)
    BY <1>1, <1>e, <2>2 DEF FailTail
  <2>3. CASE ParkStalled(r)
    BY <1>e, <2>3 DEF ParkStalled
  <2> QED
    BY <1>5, <2>1, <2>2, <2>3 DEF TailStep
<1>6. ASSUME NEW r \in Family, OperatorStep(r) PROVE FALSE
  <2>1. CASE MarkNodeDone(r)
    BY <1>e, <2>1 DEF MarkNodeDone
  <2>2. CASE RestartNode(r)
    BY <1>e, <2>2 DEF RestartNode
  <2>3. CASE PauseRun(r) \/ ReopenRun(r)
    BY <1>e, <2>3 DEF PauseRun, ReopenRun
  <2>4. CASE ResumeRun(r)
    BY <1>e, <2>4 DEF ResumeRun
  <2>5. CASE CleanupRun(r)
    BY <1>1, <2>5 DEF CleanupRun, events
  <2>6. CASE ForgetRun(r)
    <3>1. log'[c] = log[c] \/ log'[c] = FreshRun
      BY <2>6 DEF ForgetRun, TypeOK
    <3> QED
      BY <3>1, ViewArchived DEF Archived, V
  <2> QED
    BY <1>6, <2>1, <2>2, <2>3, <2>4, <2>5, <2>6 DEF OperatorStep
<1>7. ASSUME NEW r \in Family, CascadeStep(r) PROVE ArchiveNext(c)
  <2>1. ArchiveNext(r)
    BY <1>1, <1>7 DEF CascadeStep, ArchiveFails, events
  <2>2. c = r
    BY <2>1 DEF ArchiveNext, Append, TypeOK, Archived, V
  <2> QED
    BY <2>1, <2>2
<1>8. CASE CrashAndBoot
  <2>1. log'[c] = Recovered(c, session')
    BY <1>8 DEF CrashAndBoot
  <2>2. Recovered(c, session').status = log[c].status /\ Recovered(c, session') \in Runs
    BY <1>0, EventsArchiveNothing, NodeEventType DEF Recovered
  <2> QED
    BY <1>0, <2>1, <2>2, ViewArchived DEF Archived, V
<1> QED
  BY <1>2, <1>3, <1>4, <1>5, <1>6, <1>7, <1>8 DEF Next

(***************************************************************************)
(* What a step does to the tree, to an attempt and to the cascade          *)
(***************************************************************************)
\* Every step leaves the tree alone but for a birth and for what is forgotten.
LEMMA FamilyStep ==
  ASSUME TypeOK, FamilyOK, CascadeKnows, Next
  PROVE  Withers \/ \E x \in Family : StartRun(x)
<1>a. ASSUME NEW r \in here \cup forgotten, NEW new, UNCHANGED <<forgotten, parent>>,
             Append(r, new) \/ UNCHANGED here
      PROVE  Withers
  BY <1>a DEF Append, Withers
<1>u. UNCHANGED events => Withers
  BY DEF events, Withers
<1>1. ASSUME NEW r \in Family, CreateFails(r) \/ \E p \in Family : Claim(p, r) PROVE Withers
  BY <1>1, <1>u DEF CreateFails, Claim
<1>2. ASSUME NEW t \in Tries, TryStep(t) PROVE Withers
  <2>1. CASE ReadChild(t) \/ Pass(t) \/ DeliveryRefused(t) \/ Wake(t) \/ Conclude(t)
    BY <1>u, <2>1 DEF ReadChild, Pass, DeliveryRefused, Wake, Conclude
  <2>2. CASE Refuse(t)
    <3>1. t[1] \in here \cup forgotten
      BY <2>2 DEF Refuse, Read, FamilyOK
    <3> QED
      BY <1>a, <2>2, <3>1 DEF Refuse
  <2>3. CASE Deliver(t)
    <3>1. t[1] \in here \cup forgotten
      BY <2>3 DEF Deliver, FamilyOK
    <3> QED
      BY <1>a, <2>3, <3>1 DEF Deliver
  <2> QED
    BY <1>2, <2>1, <2>2, <2>3 DEF TryStep
<1>3. ASSUME NEW r \in Family, AgentStep(r) PROVE Withers
  BY <1>3, <1>a, <1>u DEF AgentStep, Complete, Fail, Cancelled
<1>4. ASSUME NEW r \in Family, TailStep(r) \/ ParkStalled(r) PROVE Withers
  <2>1. CASE Reap(r)
    BY <1>u, <2>1 DEF Reap
  <2>2. CASE Advance(r)
    <3>1. CASE r \in here
      BY <1>a, <2>2, <3>1 DEF Advance
    <3>2. CASE r \notin here
      BY <2>2, <3>2 DEF Advance, Withers
    <3> QED
      BY <3>1, <3>2
  <2>3. CASE FailTail(r)
    <3>1. CASE r \in here
      BY <1>a, <2>3, <3>1 DEF FailTail
    <3>2. CASE r \notin here
      BY <2>3, <3>2 DEF FailTail, Withers
    <3> QED
      BY <3>1, <3>2
  <2>4. CASE ParkStalled(r)
    BY <1>a, <2>4 DEF ParkStalled
  <2> QED
    BY <1>4, <2>1, <2>2, <2>3, <2>4 DEF TailStep
<1>5. ASSUME NEW r \in Family, OperatorStep(r) PROVE Withers
  <2>1. r \in here
    BY <1>5 DEF OperatorStep, MarkNodeDone, RestartNode, PauseRun, ResumeRun, ReopenRun,
       CleanupRun, ForgetRun, Gesture
  <2>2. CASE ForgetRun(r)
    BY <2>1, <2>2 DEF ForgetRun, Withers, TypeOK, Archived
  <2>3. CASE MarkNodeDone(r) \/ RestartNode(r)
    BY <1>a, <2>1, <2>3 DEF MarkNodeDone, RestartNode
  <2>4. CASE PauseRun(r) \/ ResumeRun(r) \/ ReopenRun(r) \/ CleanupRun(r)
    BY <1>a, <1>u, <2>1, <2>4 DEF PauseRun, ResumeRun, ReopenRun, CleanupRun
  <2> QED
    BY <1>5, <2>2, <2>3, <2>4 DEF OperatorStep
<1>6. ASSUME NEW c \in Family, CascadeStep(c) PROVE Withers
  <2>1. c \in here
    BY <1>6 DEF CascadeStep, ArchiveNext, ArchiveFails, CascadeKnows
  <2> QED
    BY <1>6, <1>a, <1>u, <2>1 DEF CascadeStep, ArchiveNext, ArchiveFails
<1>7. CASE CrashAndBoot
  BY <1>7 DEF CrashAndBoot, Withers
<1> QED
  BY <1>1, <1>2, <1>3, <1>4, <1>5, <1>6, <1>7 DEF Next, CreateStep

\* An attempt that is at the gate or past it was there, or has begun to read, or
\* has read a child, or was let through; and while it reads no log changes.
GateMove(t) ==
  \/ try'[t] = try[t]
  \/ try'[t].at \in {"free", "asleep", "watch"}
  \/ /\ UNCHANGED events
     /\ \/ try'[t] \in Readings(t[1], "gate")
        \/ /\ try[t].at = "gate"
           /\ \E c \in try[t].todo :
                \/ try'[t] = Reads(t, c)
                \/ c \in Unreadable /\ try'[t] = Skips(t, c)
        \/ /\ Read(t, "gate") /\ ~try[t].held
           /\ try'[t] = [Free EXCEPT !.at = "deliver"]

\* An attempt is somebody's who was there.
Lives(t) == try'[t].at # "free" => t[1] \in here \cup forgotten

LEMMA AttemptMoves ==
  ASSUME TypeOK, FamilyOK, Next, NEW t \in Tries PROVE GateMove(t) /\ Lives(t)
<1>s. try'[t] = try[t] => GateMove(t) /\ Lives(t)
  BY DEF GateMove, Lives, FamilyOK
<1>f. try'[t] = Free => GateMove(t) /\ Lives(t)
  BY DEF GateMove, Lives, Free
<1>e. \A r : \A new \in Entries(r) : new = Free \/ (r \in here /\ new \in Readings(r, "gate"))
  BY EntryMeans
<1>t. try[t] \in Attempts /\ (try[t].at # "free" => t[1] \in here \cup forgotten)
  BY TypeParts DEF TryType, FamilyOK
<1>1. ASSUME NEW q \in Tries, NEW new, Goes(q, new), new = Free PROVE GateMove(t) /\ Lives(t)
  BY <1>1, <1>s, <1>f DEF Goes, TypeOK
<1>2. ASSUME NEW q \in Tries, TryStep(q) PROVE GateMove(t) /\ Lives(t)
  <2>1. q # t /\ (\E new : Goes(q, new)) => GateMove(t) /\ Lives(t)
    BY <1>s DEF Goes, TypeOK
  <2>2. CASE ReadChild(q)
    <3> SUFFICES ASSUME q = t PROVE GateMove(t) /\ Lives(t)
      BY <2>1, <2>2 DEF ReadChild
    <3>1. PICK c \in try[t].todo : \/ try'[t] = Reads(t, c)
                                   \/ c \in Unreadable /\ try'[t] = Skips(t, c)
      BY <2>2 DEF ReadChild, Goes, TypeOK, Reads, Skips
    <3>2. try'[t].at = try[t].at /\ try[t].at \in {"watch", "gate"} /\ UNCHANGED events
      BY <1>t, <2>2, <3>1, ReadMeans DEF ReadChild
    <3> QED
      BY <1>t, <3>1, <3>2 DEF GateMove, Lives
  <2>3. CASE Pass(q)
    <3> SUFFICES ASSUME q = t PROVE GateMove(t) /\ Lives(t)
      BY <2>1, <2>3 DEF Pass
    <3> QED
      BY <1>t, <2>3 DEF Pass, Read, Goes, GateMove, Lives, TypeOK
  <2>4. CASE DeliveryRefused(q) \/ Deliver(q)
    BY <1>1, <2>4 DEF DeliveryRefused, Deliver
  <2>5. CASE Wake(q)
    <3> SUFFICES ASSUME q = t PROVE GateMove(t) /\ Lives(t)
      BY <2>1, <2>5 DEF Wake
    <3>1. try'[t] = Free \/ try'[t] \in Readings(t[1], "watch")
      BY <2>5 DEF Wake, Lost, Goes, TypeOK
    <3>2. try'[t] \in Readings(t[1], "watch") => try'[t].at = "watch"
      BY ReadingMeans
    <3> QED
      BY <1>f, <1>t, <2>5, <3>1, <3>2 DEF Wake, GateMove, Lives
  <2>6. CASE Conclude(q)
    <3> SUFFICES ASSUME q = t PROVE GateMove(t) /\ Lives(t)
      BY <2>1, <2>6 DEF Conclude
    <3>1. \/ try'[t] = Free \/ try'[t] \in Readings(t[1], "gate")
          \/ try'[t] = Asleep
      BY <1>e, <2>6 DEF Conclude, Goes, TypeOK
    <3>2. UNCHANGED events /\ t[1] \in here \cup forgotten
      BY <1>t, <2>6 DEF Conclude, Read
    <3> QED
      BY <1>f, <3>1, <3>2 DEF Asleep, Free, GateMove, Lives
  <2>7. CASE Refuse(q)
    <3>1. q[1] \in here \cup forgotten
      BY <2>7 DEF Refuse, Read, FamilyOK
    <3>2. CASE Goes(q, Asleep)
      <4> SUFFICES ASSUME q = t PROVE GateMove(t) /\ Lives(t)
        BY <2>1, <3>2
      <4>1. try'[t] = Asleep
        BY <3>2 DEF Goes, TypeOK
      <4> QED
        BY <3>1, <4>1 DEF Asleep, Free, GateMove, Lives
    <3>3. ASSUME NEW k \in Places(q[1]),
                 try' = [try EXCEPT ![q] = Free, ![<<q[1], k>>] = Asleep]
          PROVE  GateMove(t) /\ Lives(t)
      <4>1. \/ try'[t] = try[t] \/ try'[t] = Free
            \/ t[1] = q[1] /\ try'[t] = Asleep
        BY <3>3 DEF TypeOK
      <4> QED
        BY <1>s, <1>f, <3>1, <4>1 DEF Asleep, Free, GateMove, Lives
    <3> QED
      BY <2>7, <3>2, <3>3 DEF Refuse, Posts
  <2> QED
    BY <1>2, <2>2, <2>3, <2>4, <2>5, <2>6, <2>7 DEF TryStep
<1>3. ASSUME NEW r \in Family, AgentStep(r) PROVE GateMove(t) /\ Lives(t)
  <2>1. <<r, Agent>> \in Tries /\ <<r, Agent>>[1] = r
    BY RunTreeAssumption DEF Tries, Agent
  <2>2. CASE Complete(r)
    <3>1. CASE t = <<r, Agent>>
      <4>1. try'[t] \in Readings(r, "gate") /\ r \in here /\ UNCHANGED events
        BY <1>e, <2>2, <3>1 DEF Complete, Goes, TypeOK
      <4>2. t[1] = r
        BY <3>1
      <4> HIDE <3>1
      <4> QED
        BY <4>1, <4>2 DEF GateMove, Lives
    <3>2. CASE t # <<r, Agent>>
      BY <1>s, <2>2, <3>2 DEF Complete, Goes, TypeOK
    <3> QED
      BY <3>1, <3>2
  <2>3. CASE Fail(r)
    BY <1>s, <2>3 DEF Fail
  <2>4. CASE Cancelled(r)
    BY <1>1, <2>1, <2>4 DEF Cancelled
  <2> QED
    BY <1>3, <2>2, <2>3, <2>4 DEF AgentStep
<1>4. ASSUME NEW r \in Family,
             CreateStep(r) \/ TailStep(r) \/ ParkStalled(r) \/ CascadeStep(r)
      PROVE  GateMove(t) /\ Lives(t)
  BY <1>4, <1>s DEF CreateStep, StartRun, CreateFails, Claim, TailStep, Reap, Advance,
     FailTail, ParkStalled, memory, CascadeStep, ArchiveNext, ArchiveFails
<1>5. ASSUME NEW r \in Family, OperatorStep(r) PROVE GateMove(t) /\ Lives(t)
  <2>1. <<r, Agent>> \in Tries
    BY RunTreeAssumption DEF Tries, Agent
  <2>2. CASE RestartNode(r)
    BY <1>1, <1>s, <2>1, <2>2 DEF RestartNode, Goes
  <2> QED
    BY <1>5, <1>s, <2>2 DEF OperatorStep, MarkNodeDone, PauseRun, ResumeRun, ReopenRun,
       CleanupRun, ForgetRun
<1>6. CASE CrashAndBoot
  BY <1>6, <1>f DEF CrashAndBoot
<1> QED
  BY <1>2, <1>3, <1>4, <1>5, <1>6 DEF Next

\* The cascade goes on, begins, archives the next, or is over.
LEMMA CascadeMoves ==
  ASSUME Next
  PROVE  \/ UNCHANGED cascade \/ cascade' = Resting
         \/ \E r \in Family : CleanupRun(r)
         \/ \E c \in Family : ArchiveNext(c) /\ Shrinks(c)
<1>1. ASSUME NEW r \in Family, CreateStep(r) \/ AgentStep(r) \/ TailStep(r) \/ ParkStalled(r)
      PROVE  UNCHANGED cascade
  BY <1>1 DEF CreateStep, StartRun, CreateFails, Claim, AgentStep, Complete, Fail, Cancelled,
     TailStep, Reap, Advance, FailTail, ParkStalled, memory
<1>2. ASSUME NEW t \in Tries, TryStep(t) PROVE UNCHANGED cascade
  BY <1>2 DEF TryStep, ReadChild, Pass, Refuse, DeliveryRefused, Deliver, Wake, Conclude
<1>3. ASSUME NEW r \in Family, OperatorStep(r) PROVE UNCHANGED cascade \/ CleanupRun(r)
  BY <1>3 DEF OperatorStep, MarkNodeDone, RestartNode, PauseRun, ResumeRun, ReopenRun,
     ForgetRun
<1>4. ASSUME NEW c \in Family, CascadeStep(c)
      PROVE  cascade' = Resting \/ (ArchiveNext(c) /\ Shrinks(c))
  BY <1>4 DEF CascadeStep, ArchiveNext, ArchiveFails
<1>5. CrashAndBoot => cascade' = Resting
  BY DEF CrashAndBoot
<1> QED
  BY <1>1, <1>2, <1>3, <1>4, <1>5 DEF Next

(***************************************************************************)
(* The history                                                             *)
(***************************************************************************)
HistoryType == rose \in [Tries \cup {Cascading} -> SUBSET Family]

\* The history records, and forbids nothing.
LEMMA HistoryRecords == HistorySpec => Spec
<1>1. HistoryInit => Init
  BY DEF HistoryInit
<1>2. [HistoryNext]_historyVars => [Next]_vars
  BY DEF HistoryNext, historyVars
<1> QED
  BY <1>1, <1>2, PTL DEF HistorySpec, Spec

\* What a step writes down for an attempt, and for the cascade.
LEMMA RoseStep ==
  ASSUME HistoryType, HistoryNext
  PROVE  /\ HistoryType'
         /\ \A t \in Tries : Watches(t) /\ Watches(t)' => rose'[t] = rose[t] \cup Rises(t)
         /\ Watches(Cascading) /\ Watches(Cascading)' =>
              rose'[Cascading] = rose[Cascading] \cup Rises(Cascading)
<1>1. \A k \in Tries \cup {Cascading} : Rises(k) \subseteq Family
  BY DEF Rises
<1>2. \A k \in Tries \cup {Cascading} : rose[k] \subseteq Family
  BY DEF HistoryType
<1>3. rose' = [k \in Tries \cup {Cascading} |->
                 IF Watches(k)' /\ Watches(k) THEN rose[k] \cup Rises(k) ELSE {}]
  BY DEF HistoryNext
<1> QED
  BY <1>1, <1>2, <1>3 DEF HistoryType

\* The family stays in order.
LEMMA FamilyInv ==
  ASSUME TypeOK, FamilyOK, CascadeKnows, Next PROVE FamilyOK'
<1>1. \A t \in Tries : try'[t].at # "free" => t[1] \in here \cup forgotten
  BY AttemptMoves DEF Lives
<1>2. here \cup forgotten \subseteq (here \cup forgotten)'
  BY FamilyStep, BirthStep DEF Withers
<1>3. ASSUME NEW x \in Family, StartRun(x) PROVE FamilyOK'
  <2>1. /\ x \notin here \cup forgotten /\ here' = here \cup {x} /\ forgotten' = forgotten
        /\ parent' = [parent EXCEPT ![x] = making[x]] /\ parent'[x] \in here \cup forgotten
    BY <1>3, BirthStep
  <2>2. ASSUME NEW r \in Family, making'[r] # NoRun
        PROVE  r \notin here' \cup forgotten' /\ making'[r] \in here' \cup forgotten'
    <3>1. r # x /\ making'[r] = making[r]
      BY <1>3, <2>2 DEF StartRun, TypeOK
    <3> QED
      BY <2>1, <2>2, <3>1 DEF FamilyOK
  <2>3. \A r \in here' : parent'[r] # NoRun => parent'[r] \in here' \cup forgotten'
    BY <2>1 DEF FamilyOK, TypeOK
  <2>4. \A r \in here' : r \notin Descendants(r)'
    BY <1>3, <2>1, BirthDescendants DEF FamilyOK
  <2> QED
    BY <1>1, <1>2, <2>2, <2>3, <2>4 DEF FamilyOK
<1>4. CASE Withers
  <2>1. ASSUME NEW r \in Family, making'[r] # NoRun
        PROVE  r \notin here \cup forgotten /\ making'[r] \in here \cup forgotten
    <3>1. CASE making'[r] = making[r]
      BY <2>1, <3>1 DEF FamilyOK
    <3>2. ASSUME NEW p \in Family, NEW c \in Family, Claim(p, c)
          PROVE  r \notin here \cup forgotten /\ making'[r] \in here \cup forgotten
      BY <2>1, <3>2 DEF Claim, TypeOK, FamilyOK
    <3>3. ASSUME NEW c \in Family, CreateStep(c)
          PROVE  making'[r] = making[r] \/ \E p \in Family : Claim(p, c)
      BY <2>1, <3>3 DEF CreateStep, StartRun, CreateFails, TypeOK
    <3>4. ASSUME NEW q \in Family,
                 AgentStep(q) \/ TailStep(q) \/ ParkStalled(q) \/ CascadeStep(q)
          PROVE  making'[r] = making[r]
      BY <3>4 DEF AgentStep, Complete, Fail, Cancelled, TailStep, Reap, Advance, FailTail,
         ParkStalled, memory, CascadeStep, ArchiveNext, ArchiveFails
    <3>5. ASSUME NEW q \in Family, OperatorStep(q) PROVE making'[r] = making[r]
      BY <3>5 DEF OperatorStep, MarkNodeDone, RestartNode, PauseRun, ResumeRun, ReopenRun,
         CleanupRun, ForgetRun, Gesture
    <3>6. ASSUME NEW t \in Tries, TryStep(t) PROVE making'[r] = making[r]
      BY <3>6 DEF TryStep, ReadChild, Pass, Refuse, DeliveryRefused, Deliver, Wake, Conclude
    <3>7. ~CrashAndBoot
      BY <2>1 DEF CrashAndBoot
    <3> QED
      BY <3>1, <3>2, <3>3, <3>4, <3>5, <3>6, <3>7 DEF Next
  <2>2. \A r \in here' : parent'[r] # NoRun => parent'[r] \in here \cup forgotten
    BY <1>4 DEF Withers, FamilyOK
  <2>3. \A r \in here' : r \notin Descendants(r)'
    BY <1>4, WithersDescendants DEF FamilyOK, Withers
  <2> QED
    BY <1>1, <1>4, <2>1, <2>2, <2>3 DEF Withers, FamilyOK
<1> QED
  BY <1>3, <1>4, FamilyStep

\* What holds a parent's node is a child that is live or failed.
LEMMA HoldsMeans == ASSUME NEW c PROVE Holds(c) <=> LiveOrFailed(c)
  BY DEF Holds, IsLive, LiveOrFailed

\* A child that holds its parent and did not before has risen.
LEMMA ChildRises ==
  ASSUME TypeOK, FamilyOK, CascadeKnows, Next, NEW t \in Tries,
         NEW c \in Children(t[1])', LiveOrFailed(c)'
  PROVE  c \in Rises(t) \/ (c \in Children(t[1]) /\ LiveOrFailed(c))
<1>1. c \in here' /\ here' \subseteq Family /\ parent'[c] = t[1]
  <2>1. TypeOK'
    BY CreateType, TryStepType, AgentType, TailType, OperatorType, CascadeType, BootType
       DEF Next
  <2> QED
    BY <2>1 DEF Children, TypeOK
<1>2. t # Cascading
  BY RunTreeAssumption DEF Cascading, Tries
<1>3. c \in here => parent'[c] = parent[c]
  BY <1>1, FamilyStep, BirthStep DEF Withers, TypeOK
<1>4. CASE c \in here /\ LiveOrFailed(c)
  BY <1>1, <1>3, <1>4 DEF Children
<1>5. CASE ~(c \in here /\ LiveOrFailed(c))
  BY <1>1, <1>2, <1>5 DEF Rises
<1> QED
  BY <1>4, <1>5

\* The gate goes on knowing what it has not read.
LEMMA GateInv ==
  ASSUME TypeOK, FamilyOK, CascadeKnows, HistoryType, GateKnows, HistoryNext
  PROVE  GateKnows'
<1>n. Next
  BY DEF HistoryNext
<1> SUFFICES ASSUME NEW t \in Tries, try'[t].at \in {"gate", "deliver"}, t[1] \notin Unreadable,
                    NEW c \in Children(t[1])', c \notin Unreadable, LiveOrFailed(c)'
             PROVE  \/ c \in rose'[t]
                    \/ try'[t].at = "gate" /\ (c \in try'[t].todo \/ try'[t].held)
  BY DEF GateKnows
<1>w. t # Cascading /\ Watches(t)'
      /\ (try[t].at \in {"gate", "deliver"} => Watches(t))
  BY RunTreeAssumption DEF Cascading, Tries, Watches
<1>r. try[t].at \in {"gate", "deliver"} => rose'[t] = rose[t] \cup Rises(t)
  BY <1>w, RoseStep
<1>k. /\ try[t].at \in {"gate", "deliver"}
      /\ ~(try[t].at = "gate" /\ (c \in try[t].todo \/ try[t].held))
      => c \in rose'[t]
  BY <1>n, <1>r, ChildRises DEF GateKnows
<1>m. GateMove(t)
  BY <1>n, AttemptMoves
<1>t. try[t] \in Attempts
  BY TypeParts DEF TryType
<1>1. CASE try'[t] = try[t]
  BY <1>1, <1>k
<1>2. ASSUME UNCHANGED events, try'[t] \in Readings(t[1], "gate")
      PROVE  try'[t].at = "gate" /\ c \in try'[t].todo
  <2>1. c \in Children(t[1])
    BY <1>2 DEF Children, events
  <2> QED
    BY <1>2, <2>1, ReadingMeans
<1>3. ASSUME UNCHANGED events, try[t].at = "gate", NEW d \in try[t].todo,
             try'[t] = Reads(t, d) \/ (d \in Unreadable /\ try'[t] = Skips(t, d))
      PROVE  c \in rose'[t] \/ (try'[t].at = "gate" /\ (c \in try'[t].todo \/ try'[t].held))
  <2>1. /\ try'[t].at = "gate" /\ try'[t].todo = try[t].todo \ {d}
        /\ d \notin Unreadable => (try'[t].held <=> try[t].held \/ (d \in here /\ Holds(d)))
        /\ try[t].held => try'[t].held
    BY <1>3, <1>t, ReadMeans
  <2>2. c \in here /\ LiveOrFailed(c)
    BY <1>3 DEF Children, LiveOrFailed, V, events
  <2> QED
    BY <1>3, <1>k, <2>1, <2>2, HoldsMeans
<1>4. ASSUME Read(t, "gate"), ~try[t].held PROVE c \in rose'[t]
  BY <1>4, <1>k DEF Read
<1>5. try'[t].at \notin {"free", "asleep", "watch"}
  OBVIOUS
<1> QED
  BY <1>m, <1>1, <1>2, <1>3, <1>4, <1>5 DEF GateMove

\* A run that lives, or is archived no more, has risen for the cascade.
LEMMA RunRises ==
  ASSUME NEW c \in Family
  PROVE  /\ Live(c)' /\ ~Live(c) => c \in Rises(Cascading)
         /\ Archived(c) /\ ~Archived(c)' => c \in Rises(Cascading)
  BY DEF Rises

\* A run that is born is live.
LEMMA BornLive ==
  ASSUME TypeOK, FamilyOK, NEW x \in Family, StartRun(x) PROVE Live(x)' /\ ~Live(x)
<1>1. x \notin here /\ x \in here' /\ log'[x] = FreshRun
  BY BirthStep DEF TypeOK
<1> QED
  BY <1>1, ViewArchived DEF Live, V, IsLive

\* The descendants of a run after a step were its descendants, or have risen.
LEMMA DescendantsRise ==
  ASSUME TypeOK, FamilyOK, CascadeKnows, Next, NEW r \in here, NEW d \in Descendants(r)'
  PROVE  d \in Rises(Cascading) \/ d \in Descendants(r)
<1>1. CASE Withers
  BY <1>1, WithersDescendants
<1>2. ASSUME NEW x \in Family, StartRun(x)
      PROVE  d \in Rises(Cascading) \/ d \in Descendants(r)
  BY <1>2, BirthDescendants, BornLive, RunRises
<1> QED
  BY <1>1, <1>2, FamilyStep

\* The cascade goes on knowing what is below what it has yet to archive.
LEMMA CascadeKeepsKnowing ==
  ASSUME TypeOK, FamilyOK, HistoryType, CascadeKnows, HistoryNext PROVE CascadeKnows'
<1>n. Next
  BY DEF HistoryNext
<1>t. TypeOK'
  BY <1>n, CreateType, TryStepType, AgentType, TailType, OperatorType, CascadeType, BootType
     DEF Next
<1>1. CASE cascade' = Resting
  BY <1>1 DEF Resting, CascadeKnows
<1>2. ASSUME NEW r \in Family, CleanupRun(r) PROVE CascadeKnows'
  <2>1. PICK read \in SUBSET here :
          /\ r \in here /\ ~Archived(r) /\ here \ Unreadable \subseteq read
          /\ \A d \in Below(r, read) : ~IsLive(V(d).status)
          /\ cascade'.root = r
          /\ cascade'.todo = {d \in Below(r, read) : ~Archived(d)} \cup {r}
    BY <1>2 DEF CleanupRun, Gesture, RefusesCascade, Archived
  <2>2. here' = here /\ log' = log /\ parent' = parent
    BY <1>2 DEF CleanupRun, events
  <2>3. /\ \A c : Archived(c)' = Archived(c) /\ Live(c)' = Live(c)
        /\ \A c : Descendants(c)' = Descendants(c)
    BY <2>2 DEF Archived, Live, V, Descendants, Below, Children
  <2>5. hidden' = Unseen
    <3>1. Watches(Cascading)' /\ ~Watches(Cascading)
      BY <1>2, <2>1, RunTreeAssumption DEF Watches, CleanupRun, Resting
    <3> QED
      BY <3>1 DEF HistoryNext
  <2>6. Below(r, read) \subseteq Descendants(r) /\ Descendants(r) \subseteq Below(r, read) \cup Unseen
    BY <2>1, BelowSeen
  <2>4. ASSUME NEW c \in cascade'.todo
        PROVE  /\ c \in here' /\ ~Archived(c)'
               /\ \A d \in Descendants(c)' :
                    d \in cascade'.todo \/ d \in hidden' \/ Archived(d)'
               /\ ~(c # cascade'.root /\ Live(c)')
    <3>1. c = r \/ c \in Below(r, read)
      BY <2>1, <2>4
    <3>2. Descendants(c) \subseteq Descendants(r)
      BY <2>6, <3>1, DescendantsThrough
    <3>3. c \in here
      BY <2>1, <3>1 DEF Below
    <3> QED
      BY <2>1, <2>2, <2>3, <2>4, <2>5, <2>6, <3>1, <3>2, <3>3 DEF Live
  <2> QED
    BY <2>4 DEF CascadeKnows
<1>3. ASSUME cascade' = cascade \/ (\E a \in Family : ArchiveNext(a) /\ Shrinks(a)),
             NEW c \in cascade'.todo
      PROVE  /\ c \in here' /\ ~Archived(c)'
             /\ \A d \in Descendants(c)' :
                  \/ d \in cascade'.todo \/ d \in rose'[Cascading]
                  \/ d \in hidden' \/ Archived(d)'
             /\ c # cascade'.root /\ Live(c)' => c \in rose'[Cascading]
  <2>1. /\ c \in cascade.todo /\ c \in here /\ c \in Family /\ ~Archived(c)
        /\ cascade.root # NoRun /\ cascade'.root = cascade.root
        /\ \A d \in cascade.todo : d \in cascade'.todo \/ Archived(d)'
        /\ ArchiveNext(c) => c \notin cascade'.todo
    <3>1. c \in cascade.todo /\ cascade'.root = cascade.root
      BY <1>3 DEF Shrinks, Resting, TypeOK
    <3>2. ASSUME NEW a \in Family, ArchiveNext(a), Shrinks(a)
          PROVE  Archived(a)' /\ \A d \in cascade.todo : d = a \/ d \in cascade'.todo
      <4>1. a \notin forgotten
        BY <1>3, <3>2 DEF ArchiveNext, Resting
      <4>2. log'[a] = RunArchived(log[a]) /\ log[a] \in Runs
        BY <3>2, <4>1 DEF ArchiveNext, Append, TypeOK
      <4>3. RunArchived(log[a]) \in Runs /\ RunArchived(log[a]).status = "archived"
        BY <4>2, RunEventType DEF RunArchived, Runs
      <4>4. Archived(a)'
        BY <4>2, <4>3, ViewArchived DEF Archived, V
      <4> QED
        BY <1>3, <3>2, <4>4 DEF Shrinks, Resting, TypeOK
    <3>3. ArchiveNext(c) => c \notin cascade'.todo
      BY DEF ArchiveNext, Shrinks, Resting, TypeOK
    <3>4. c \in here /\ c \in Family /\ ~Archived(c) /\ cascade.root # NoRun
      BY <3>1 DEF CascadeKnows, TypeOK
    <3> QED
      BY <1>3, <3>1, <3>2, <3>3, <3>4
  <2>2. rose'[Cascading] = rose[Cascading] \cup Rises(Cascading) /\ hidden' = hidden
    BY <2>1, RoseStep DEF Watches, HistoryNext
  <2>3. ~Archived(c)'
    BY <1>3, <1>n, <2>1, ArchivedByCascade
  <2>4. c \in here'
    BY <1>n, <2>1, FamilyStep, BirthStep DEF Withers
  <2>5. ASSUME NEW d \in Descendants(c)'
        PROVE  d \in cascade'.todo \/ d \in rose'[Cascading] \/ d \in hidden' \/ Archived(d)'
    <3>1. CASE d \in Rises(Cascading)
      BY <2>2, <3>1
    <3>2. CASE d \in Descendants(c)
      <4>1. d \in Family
        BY <3>2 DEF Descendants, Below, TypeOK
      <4>2. d \in cascade.todo \/ d \in rose[Cascading] \/ d \in hidden \/ Archived(d)
        BY <2>1, <3>2 DEF CascadeKnows
      <4> QED
        BY <2>1, <2>2, <4>1, <4>2, RunRises
    <3> QED
      BY <1>n, <2>1, <2>5, <3>1, <3>2, DescendantsRise
  <2>6. c # cascade'.root /\ Live(c)' => c \in rose'[Cascading]
    BY <2>1, <2>2, RunRises DEF CascadeKnows
  <2> QED
    BY <2>3, <2>4, <2>5, <2>6
<1> QED
  BY <1>n, <1>1, <1>2, <1>3, CascadeMoves DEF CascadeKnows

\* The three parts together, with the types, are an invariant.
LEMMA HistoryInvariant == HistorySpec => [](TypeOK /\ HistoryType /\ HistoryInv)
<1>1. HistoryInit => HistoryType /\ HistoryInv
  <2> SUFFICES ASSUME HistoryInit PROVE HistoryType /\ HistoryInv
    OBVIOUS
  <2>1. HistoryType
    BY DEF HistoryInit, HistoryType
  <2>2. Init
    BY DEF HistoryInit
  <2>3. \A r : Children(r) \subseteq {Root} /\ (r # NoRun => Children(r) = {})
    BY <2>2, RunTreeAssumption DEF Init, Children
  <2>4. Root \notin Descendants(Root)
    <3>1. Children(Root) = {} /\ {} \in SUBSET here
      BY <2>3, RunTreeAssumption
    <3> QED
      BY <3>1 DEF Descendants, Below
  <2>5. FamilyOK
    <3>1. /\ here = {Root} /\ \A r \in Family : making[r] = NoRun /\ parent[r] = NoRun
          /\ \A t \in Tries : try[t].at = "free"
      BY <2>2 DEF Init, Free
    <3> QED
      BY <2>4, <3>1, RunTreeAssumption DEF FamilyOK
  <2>6. GateKnows
    BY <2>2 DEF Init, GateKnows, Free
  <2>7. CascadeKnows
    BY <2>2 DEF Init, CascadeKnows, Resting
  <2> QED
    BY <2>1, <2>5, <2>6, <2>7 DEF HistoryInv
<1>2. TypeOK /\ HistoryType /\ HistoryInv /\ [HistoryNext]_historyVars
        => HistoryType' /\ HistoryInv'
  <2> SUFFICES ASSUME TypeOK, HistoryType, HistoryInv, [HistoryNext]_historyVars
               PROVE  HistoryType' /\ HistoryInv'
    OBVIOUS
  <2>1. CASE HistoryNext
    BY <2>1, RoseStep, FamilyInv, GateInv, CascadeKeepsKnowing DEF HistoryInv, HistoryNext
  <2>2. CASE UNCHANGED historyVars
    <3>1. UNCHANGED <<log, here, forgotten, parent, making, try, cascade, rose, hidden>>
      BY <2>2 DEF historyVars, vars
    <3>2. HistoryType' /\ FamilyOK'
      BY <3>1 DEF HistoryType, HistoryInv, FamilyOK, Descendants, Below, Children
    <3>3. GateKnows'
      BY <3>1 DEF HistoryInv, GateKnows, Children, LiveOrFailed, V
    <3>4. CascadeKnows'
      <4>1. \A c : Descendants(c)' = Descendants(c) /\ Archived(c)' = Archived(c)
                  /\ Live(c)' = Live(c)
        BY <3>1 DEF Descendants, Below, Children, Archived, Live, V
      <4> QED
        BY <3>1, <4>1 DEF HistoryInv, CascadeKnows
    <3> QED
      BY <3>2, <3>3, <3>4 DEF HistoryInv
  <2> QED
    BY <2>1, <2>2
<1> QED
  BY <1>1, <1>2, TreeTypeOK, HistoryRecords, PTL DEF HistorySpec

\* No attempt completes a node above a child that is live or failed, unless that
\* child came to life while the attempt was past the reading of its children, or
\* it or the list could not be read: for any family, any gestures and any crashes.
THEOREM TheGateHolds == HistorySpec => GateHolds
<1> DEFINE Step == \A t \in Tries : Completes(t) /\ t[1] \notin Unreadable =>
                     {c \in Children(t[1]) \ Unreadable : LiveOrFailed(c)} \subseteq rose[t]
<1>1. HistoryInv => [Step]_historyVars
  BY DEF HistoryInv, GateKnows, Completes
<1>2. HistorySpec => [][Step]_historyVars
  <2> HIDE DEF Step
  <2> QED
    BY <1>1, HistoryInvariant, PTL
<1> QED
  BY <1>2 DEF GateHolds

\* When the cascade archives a run, nothing is left of its turn below it.
LEMMA NothingLeftBelow ==
  ASSUME TypeOK, HistoryInv, Next, NEW c \in cascade.todo, V(c).status' = "archived"
  PROVE  {d \in Descendants(c) \ hidden : ~Archived(d)} \subseteq rose[Cascading]
<1>1. c \in here /\ c \in Family /\ ~Archived(c) /\ c \notin Descendants(c)
  BY DEF HistoryInv, CascadeKnows, FamilyOK, TypeOK
<1>2. ArchiveNext(c)
  BY <1>1, ArchivedByCascade DEF Archived
<1>3. \A d \in Descendants(c) : d \notin cascade.todo
  BY <1>1, <1>2 DEF ArchiveNext, IsNext
<1> QED
  BY <1>3 DEF HistoryInv, CascadeKnows

\* The cascade goes from the leaves to the root, whatever runs beside it: what it
\* leaves unarchived below an archived run came to life behind its back or was
\* hidden from it.
THEOREM LeavesFirst == HistorySpec => SubtreeFirst
<1> DEFINE Step == \A c \in cascade.todo : V(c).status' = "archived" =>
                     {d \in Descendants(c) \ hidden : V(d).status # "archived"}
                       \subseteq rose[Cascading]
<1>1. TypeOK /\ HistoryInv /\ [HistoryNext]_historyVars => [Step]_historyVars
  BY NothingLeftBelow DEF HistoryNext, Archived
<1>2. HistorySpec => [][Step]_historyVars
  <2> HIDE DEF Step
  <2> QED
    BY <1>1, HistoryInvariant, PTL DEF HistorySpec
<1> QED
  BY <1>2 DEF SubtreeFirst

\* And it archives no live run but its root, and no run above a live one, unless
\* that one came to life behind its back or was hidden from it.
THEOREM NobodyOrphaned == HistorySpec => NoOrphan
<1> DEFINE Step == \A c \in cascade.todo : V(c).status' = "archived" =>
                     {d \in (Descendants(c) \ hidden) \cup ({c} \ {cascade.root}) :
                        IsLive(V(d).status)}
                       \subseteq rose[Cascading]
<1>1. TypeOK /\ HistoryInv /\ [HistoryNext]_historyVars => [Step]_historyVars
  <2> SUFFICES ASSUME TypeOK, HistoryInv, Next, NEW c \in cascade.todo,
                      V(c).status' = "archived",
                      NEW d \in (Descendants(c) \ hidden) \cup ({c} \ {cascade.root}),
                      IsLive(V(d).status)
               PROVE  d \in rose[Cascading]
    BY DEF HistoryNext
  <2>1. CASE d \in Descendants(c) \ hidden
    BY <2>1, NothingLeftBelow DEF Archived, IsLive
  <2>2. CASE d = c /\ c # cascade.root
    BY <2>2 DEF HistoryInv, CascadeKnows, Live
  <2> QED
    BY <2>1, <2>2
<1>2. HistorySpec => [][Step]_historyVars
  <2> HIDE DEF Step
  <2> QED
    BY <1>1, HistoryInvariant, PTL DEF HistorySpec
<1> QED
  BY <1>2 DEF NoOrphan
=============================================================================
