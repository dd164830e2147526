-------------------------------- MODULE RunTree --------------------------------
(***************************************************************************)
(* Runs that start runs.  A node's session may create child runs; the       *)
(* daemon records whose they are (ADR-0064), does not let the node complete *)
(* while one of them is alive or failed, and parks it instead behind a      *)
(* marker and a watcher that completes it later.  Archiving a run archives  *)
(* its whole subtree; forgetting an archived one erases its log.            *)
(*                                                                         *)
(* Every run has one node, Worker, at one iteration, Lap.  What happens      *)
(* inside a run is NodeLifecycle's and RunAdvance's; what a crash leaves is *)
(* Recovery's.  Here handlers of several runs interleave at their awaits.    *)
(***************************************************************************)
EXTENDS TransitionGuard

CONSTANTS
  Family,       \* the run ids
  Root, NoRun, Worker,
  Parents,      \* the runs whose agent creates runs
  Failing,      \* the runs whose agent may call `pdo fail'
  AutoFail,     \* the runs a failed node ends instead of parking them
  Undelivered,  \* the runs whose delivery or outputs may be refused
  Unreadable,   \* the runs whose log, or list of children, may fail to be read
  Gestures,     \* what the operator does in this instance
  MaxGestures,  \* bound on how often
  MaxWatchers,  \* bound on the watchers of one run that live at a time
  MaxCrashes    \* bound on the crashes of the daemon

ASSUME RunTreeAssumption ==
  /\ Nodes = {Worker} /\ MaxIter = 1 /\ Interactive = {} /\ LapNodes = {}
  /\ Root \in Family /\ NoRun \notin Family /\ Unreadable \subseteq Family
  /\ MaxGestures \in Nat /\ MaxWatchers \in Nat /\ MaxCrashes \in Nat

Lap == 1
Agent == 0
Tries == Family \X (0..MaxWatchers)

VARIABLES
  log,        \* the raw run of each run
  here,       \* the runs that have events
  forgotten,  \* the tombstones
  parent,     \* what RunStarted says of who created the run
  marked,     \* the runs whose log holds the children_pending marker
  session,    \* the runs whose worker's tmux session is alive
  making,     \* the creations under way: run -> the run it was claimed for
  try,        \* the attempts to complete a worker: its agent's, its watchers'
  tail,       \* the detached ends of handlers, by run
  cascade,    \* the archiving under way, one at a time (page_mount_lock)
  gestures, crashes

vars == <<log, here, forgotten, parent, marked, session, making, try, tail,
          cascade, gestures, crashes>>
events == <<log, here, forgotten, parent, marked>>
memory == <<making, try, tail, cascade>>
counts == <<gestures, crashes>>

Free == [at |-> "free", todo |-> {}, some |-> FALSE, held |-> FALSE, knew |-> FALSE]
Asleep == [Free EXCEPT !.at = "asleep"]
Resting == [root |-> NoRun, todo |-> {}]

TypeOK ==
  /\ log \in [Family -> Runs]
  /\ here \subseteq Family /\ forgotten \subseteq Family
  /\ parent \in [Family -> Family \cup {NoRun}]
  /\ marked \subseteq here /\ session \subseteq Family
  /\ making \in [Family -> Family \cup {NoRun}]
  /\ try \in [Tries -> [at : {"free", "asleep", "watch", "gate", "deliver"},
                        todo : SUBSET Family, some : BOOLEAN, held : BOOLEAN,
                        knew : BOOLEAN]]
  /\ tail \in [Family -> SUBSET {"reap", "advance", "fail"}]
  /\ cascade \in [root : Family \cup {NoRun}, todo : SUBSET Family]
  /\ gestures \in 0..MaxGestures /\ crashes \in 0..MaxCrashes
  \* An agent does not sleep, and a cascade is somebody's.
  /\ \A r \in Family : try[<<r, Agent>>].at \notin {"asleep", "watch"}
  /\ cascade.root = NoRun => cascade.todo = {}

Init ==
  /\ log = [r \in Family |-> FreshRun]
  /\ here = {Root} /\ forgotten = {} /\ marked = {} /\ session = {}
  /\ parent = [r \in Family |-> NoRun]
  /\ making = [r \in Family |-> NoRun]
  /\ try = [t \in Tries |-> Free]
  /\ tail = [r \in Family |-> IF r = Root THEN {"advance"} ELSE {}]
  /\ cascade = Resting /\ gestures = 0 /\ crashes = 0

(***************************************************************************)
(* The log                                                                 *)
(***************************************************************************)
V(r) == View(log[r])
State(r) == log[r].nodes[Worker].st

\* Mutated form: the insert does not look for a tombstone.
AppendAnyway(r, new) == log' = [log EXCEPT ![r] = new] /\ here' = here \cup {r}

\* The insert of append_event_with: nothing is added to a forgotten run.
Append(r, new) ==
  IF r \in forgotten THEN UNCHANGED <<log, here>>
  ELSE log' = [log EXCEPT ![r] = new] /\ here' = here \cup {r}

Children(r) == {c \in here : parent[c] = r}

\* The descendants of r among the runs that were read: what is in every set that
\* holds the children of r and, with a run, its children.
Below(r, read) ==
  {c \in read : \A S \in SUBSET read :
     /\ Children(r) \cap read \subseteq S
     /\ \A d \in S : Children(d) \cap read \subseteq S
     => c \in S}

Descendants(r) == Below(r, here)

\* Mutated form: a failed child does not hold its parent.
HoldsAlive(c) == IsLive(V(c).status)

\* What a child must not be for its parent's node to complete.
Holds(c) == IsLive(V(c).status) \/ V(c).status = "failed"

(***************************************************************************)
(* Creation: the claim is verified first, RunStarted comes after the        *)
(* worktree, the snapshots and the skills.                                 *)
(***************************************************************************)
Claim(p, c) ==
  /\ p \in session \cap Parents /\ p \in here
  /\ c \in Family \ (here \cup forgotten) /\ making[c] = NoRun
  /\ IsLive(V(p).status) /\ HoldsSession(State(p))
  /\ making' = [making EXCEPT ![c] = p]
  /\ UNCHANGED <<events, session, try, tail, cascade, counts>>

StartRun(c) ==
  /\ making[c] # NoRun
  /\ Append(c, FreshRun)
  /\ parent' = [parent EXCEPT ![c] = making[c]]
  /\ making' = [making EXCEPT ![c] = NoRun]
  /\ tail' = [tail EXCEPT ![c] = @ \cup {"advance"}]
  /\ UNCHANGED <<forgotten, marked, session, try, cascade, counts>>

CreateFails(c) ==
  /\ making[c] # NoRun
  /\ making' = [making EXCEPT ![c] = NoRun]
  /\ UNCHANGED <<events, session, try, tail, cascade, counts>>

(***************************************************************************)
(* complete_node_iteration, whoever calls it                               *)
(***************************************************************************)
Verdict(r) == ValidateCompletion(V(r), Worker, Lap, FALSE)

Goes(t, new) == try' = [try EXCEPT ![t] = new]

\* The log as it is when the attempt begins, and the candidates for children: none
\* when they cannot be listed.
Readings(r, at) ==
  {[at |-> at, todo |-> S, some |-> FALSE, held |-> FALSE, knew |-> r \in marked] :
     S \in {Children(r)} \cup (IF r \in Unreadable THEN {{}} ELSE {})}

\* Its own log cannot be read: an attempt and a watcher are over.
Lost(r) == IF r \in Unreadable THEN {Free} ELSE {}

\* Up to the binding: a forgotten run and a settled or unknown iteration end it.
Entries(r) ==
  Lost(r) \cup IF r \in here /\ Verdict(r) = "allow" THEN Readings(r, "gate") ELSE {Free}

Complete(r) ==
  /\ r \in session /\ try[<<r, Agent>>] = Free
  /\ \E new \in Entries(r) \ {Free} : Goes(<<r, Agent>>, new)
  /\ UNCHANGED <<events, session, making, tail, cascade, counts>>

\* children_snapshot: one child at a time; one that was erased counts for none,
\* nor does one that cannot be read.
ReadChild(t) ==
  /\ try[t].at \in {"watch", "gate"}
  /\ \E c \in try[t].todo :
       \/ Goes(t, [try[t] EXCEPT !.todo = @ \ {c}, !.some = @ \/ c \in here,
                                 !.held = @ \/ (c \in here /\ Holds(c))])
       \/ c \in Unreadable /\ Goes(t, [try[t] EXCEPT !.todo = @ \ {c}])
  /\ UNCHANGED <<events, session, making, tail, cascade, counts>>

Read(t, at) == try[t].at = at /\ try[t].todo = {}

\* The gate lets it through: no child, or none that is alive or failed.
Pass(t) ==
  /\ Read(t, "gate") /\ ~try[t].held
  /\ Goes(t, [Free EXCEPT !.at = "deliver"])
  /\ UNCHANGED <<events, session, making, tail, cascade, counts>>

\* The first free place for a watcher of r, if there is one.
Places(r) ==
  {k \in 1..MaxWatchers : /\ try[<<r, k>>] = Free
                          /\ \A j \in 1..(k - 1) : try[<<r, j>>] # Free}

\* A new watcher: in a free place, or in that of the watcher that ends here.
Posts(t) ==
  \/ t[2] # Agent /\ Goes(t, Asleep)
  \/ /\ t[2] = Agent
     /\ \E k \in Places(t[1]) :
          try' = [try EXCEPT ![t] = Free, ![<<t[1], k>>] = Asleep]

\* parent_node_binding_refusal.  The marker is no guarded event: it is appended
\* whatever has become of the node, unless the attempt saw one when it began.
Refuse(t) ==
  LET r == t[1]
  IN  /\ Read(t, "gate") /\ try[t].held
      /\ IF try[t].knew THEN UNCHANGED <<log, here, marked>>
         ELSE /\ Append(r, NodeAwaitingUser(log[r], Worker, Lap, FALSE))
              /\ marked' = IF r \in forgotten THEN marked ELSE marked \cup {r}
      /\ Posts(t)
      /\ UNCHANGED <<forgotten, parent, session, making, tail, cascade, counts>>

\* The delivery or the output check turns the attempt away.
DeliveryRefused(t) ==
  /\ try[t].at = "deliver" /\ t[1] \in Undelivered
  /\ Goes(t, Free)
  /\ UNCHANGED <<events, session, making, tail, cascade, counts>>

\* The append looks at the log again; a duplicate is a success and has a tail.
Deliver(t) ==
  LET r == t[1]
  IN  /\ try[t].at = "deliver"
      /\ Goes(t, Free)
      /\ IF r \in forgotten \/ Verdict(r) = "reject"
         THEN UNCHANGED <<log, here, tail>>
         ELSE /\ IF Verdict(r) = "allow" THEN Append(r, NodeCompleted(log[r], Worker, Lap))
                 ELSE UNCHANGED <<log, here>>
              /\ tail' = [tail EXCEPT ![r] = @ \cup {"reap"}]
      /\ UNCHANGED <<forgotten, parent, marked, session, making, cascade, counts>>

\* The session is dead and its request with it: the handler is dropped.
Cancelled(r) ==
  /\ r \notin session /\ try[<<r, Agent>>] # Free
  /\ Goes(<<r, Agent>>, Free)
  /\ UNCHANGED <<events, session, making, tail, cascade, counts>>

(***************************************************************************)
(* The watcher                                                             *)
(***************************************************************************)
\* Mutated form: the watcher stays only while the node counts as running.
WatchableRunning(r) == r \in here /\ State(r) = "running" /\ r \in marked

Watchable(r) == r \in here /\ HoldsSession(State(r)) /\ r \in marked

Wake(t) ==
  /\ try[t].at = "asleep"
  /\ \E new \in Lost(t[1]) \cup IF Watchable(t[1]) THEN Readings(t[1], "watch") ELSE {Free} :
       Goes(t, new)
  /\ UNCHANGED <<events, session, making, tail, cascade, counts>>

\* Mutated form: a verdict that says wait ends the watcher.
ConcludeOnce(t) ==
  /\ Read(t, "watch")
  /\ \E new \in (IF try[t].some /\ ~try[t].held THEN Entries(t[1]) ELSE {Free}) : Goes(t, new)
  /\ UNCHANGED <<events, session, making, tail, cascade, counts>>

\* All settled: it completes the node and is gone, whatever comes of it.  Anything
\* else, no child left included, sends it back to sleep.
Conclude(t) ==
  /\ Read(t, "watch")
  /\ \E new \in (IF try[t].some /\ ~try[t].held THEN Entries(t[1]) ELSE {Asleep}) : Goes(t, new)
  /\ UNCHANGED <<events, session, making, tail, cascade, counts>>

(***************************************************************************)
(* The tails, and the agent that fails                                     *)
(***************************************************************************)
\* The session first, the rest of complete_node after it.
Reap(r) ==
  /\ "reap" \in tail[r]
  /\ session' = session \ {r}
  /\ tail' = [tail EXCEPT ![r] = (@ \ {"reap"}) \cup {"advance"}]
  /\ UNCHANGED <<events, making, try, cascade, counts>>

\* advance_run: start the worker if it is ready, end the run if it is done.
Advance(r) ==
  /\ "advance" \in tail[r]
  /\ tail' = [tail EXCEPT ![r] = @ \ {"advance"}]
  /\ IF r \notin here THEN UNCHANGED <<log, here, session>>
     ELSE IF RunAcceptsLifecycle(V(r)) /\ State(r) = "absent"
     THEN Append(r, NodeStarted(log[r], Worker, Lap)) /\ session' = session \cup {r}
     ELSE /\ IF V(r).status = "running" /\ SettledComplete(State(r))
             THEN Append(r, RunCompleted(log[r])) ELSE UNCHANGED <<log, here>>
          /\ UNCHANGED session
  /\ UNCHANGED <<forgotten, parent, marked, making, try, cascade, counts>>

\* node_fail asks for no child: the binding holds completions only.
Fail(r) ==
  /\ r \in session \cap Failing \cap here
  /\ ValidateFail(V(r), Worker, Lap) = "allow"
  /\ Append(r, NodeFailed(log[r], Worker, Lap))
  /\ tail' = [tail EXCEPT ![r] = @ \cup {"fail"}]
  /\ UNCHANGED <<forgotten, parent, marked, session, making, try, cascade, counts>>

FailTail(r) ==
  /\ "fail" \in tail[r]
  /\ session' = session \ {r}
  /\ IF r \in here
     THEN Append(r, IF r \in AutoFail THEN RunFailed(log[r]) ELSE RunInterrupted(log[r]))
     ELSE UNCHANGED <<log, here>>
  /\ tail' = [tail EXCEPT ![r] = @ \ {"fail"}]
  /\ UNCHANGED <<forgotten, parent, marked, making, try, cascade, counts>>

\* The reconciliation: a running run that nothing drives is parked.
ParkStalled(r) ==
  /\ r \in here /\ tail[r] = {}
  /\ V(r).status = "running" /\ State(r) = "absent"
  /\ Append(r, RunInterrupted(log[r]))
  /\ UNCHANGED <<forgotten, parent, marked, session, memory, counts>>

(***************************************************************************)
(* The operator                                                            *)
(***************************************************************************)
Gesture(kind, r) ==
  /\ kind \in Gestures /\ r \in here
  /\ gestures < MaxGestures /\ gestures' = gestures + 1
  /\ UNCHANGED <<making, crashes>>

NeedsReopen(v) ==
  \/ IsTerminal(v.status) /\ v.status # "archived"
  \/ v.status = "awaiting" /\ v.reason # "none" /\ ~IsDeclaredWait(v)

EmbedReopen(x) == IF NeedsReopen(View(x)) THEN RunReopened(x) ELSE x

Drives(r) == tail' = [tail EXCEPT ![r] = @ \cup {"advance"}]

\* The forced completion: no gate and no reap.
MarkNodeDone(r) ==
  LET x == EmbedReopen(log[r])
      verdict == ValidateCompletion(View(x), Worker, Lap, FALSE)
  IN  /\ Gesture("done", r)
      /\ \/ verdict = "allow" /\ Append(r, NodeCompleted(x, Worker, Lap)) /\ Drives(r)
         \/ /\ verdict # "allow" \/ r \in Undelivered
            /\ Append(r, x) /\ UNCHANGED tail
      /\ UNCHANGED <<forgotten, parent, marked, session, try, cascade>>

\* The same iteration anew: the old marker and the old watchers stay.
RestartNode(r) ==
  LET x == EmbedReopen(log[r])
      allowed == ValidateStart(View(x), Worker, Lap) = "allow"
  IN  /\ Gesture("restart", r)
      /\ Append(r, IF allowed THEN NodeStarted(x, Worker, Lap) ELSE x)
      /\ session' = IF allowed THEN session \cup {r} ELSE session
      \* The request of the killed session may die with it.
      /\ \/ UNCHANGED try
         \/ allowed /\ try' = [try EXCEPT ![<<r, Agent>>] = Free]
      /\ UNCHANGED <<forgotten, parent, marked, tail, cascade>>

PauseRun(r) ==
  /\ Gesture("pause", r)
  /\ RunAcceptsLifecycle(V(r))
  /\ Append(r, RunPaused(log[r]))
  /\ UNCHANGED <<forgotten, parent, marked, session, try, tail, cascade>>

ResumeRun(r) ==
  LET s == V(r).status
  IN  /\ Gesture("resume", r)
      /\ Append(r, IF s = "paused" THEN RunResumed(log[r])
                   ELSE IF s \in {"halted", "failed"} THEN RunReopened(log[r]) ELSE log[r])
      /\ Drives(r)
      /\ UNCHANGED <<forgotten, parent, marked, session, try, cascade>>

ReopenRun(r) ==
  LET v == V(r)
  IN  /\ Gesture("reopen", r)
      /\ \/ IsTerminal(v.status) /\ v.status # "archived"
         \/ v.status = "awaiting" /\ v.reason # "none"
      /\ Append(r, RunReopened(log[r]))
      /\ Drives(r)
      /\ UNCHANGED <<forgotten, parent, marked, session, try, cascade>>

\* Mutated form: only the children are looked at, not what is below them.
RefusesChildren(r, read) == \E c \in Children(r) \cap read : IsLive(V(c).status)

RefusesCascade(r, read) == \E c \in Below(r, read) : IsLive(V(c).status)

\* cleanup_run: the tree as it is now, without the runs that cannot be read and
\* what hangs below them, decides and is what will be archived.
CleanupRun(r) ==
  /\ Gesture("cleanup", r)
  /\ cascade = Resting /\ V(r).status # "archived"
  /\ \E read \in SUBSET here :
       /\ here \ Unreadable \subseteq read /\ ~RefusesCascade(r, read)
       /\ cascade' = [root |-> r,
                      todo |-> {c \in Below(r, read) : V(c).status # "archived"} \cup {r}]
  /\ UNCHANGED <<events, session, try, tail>>

\* Mutated form: the root first.
RootIsNext(c) == c = cascade.root \/ cascade.root \notin cascade.todo

\* Post-order: nothing below it is left, and the root comes last.
IsNext(c) ==
  /\ c = cascade.root => cascade.todo = {c}
  /\ \A d \in cascade.todo \ {c} : d \notin Descendants(c)

Shrinks(c) ==
  cascade' = IF cascade.todo = {c} THEN Resting ELSE [cascade EXCEPT !.todo = @ \ {c}]

\* archive_single_run asks nothing: what the snapshot held goes.  Sessions are
\* killed first, RunArchived is last; a log that takes no event ends the cascade.
ArchiveNext(c) ==
  /\ c \in cascade.todo /\ IsNext(c)
  /\ session' = session \ {c}
  /\ Append(c, RunArchived(log[c]))
  /\ IF c \in forgotten THEN cascade' = Resting ELSE Shrinks(c)
  /\ UNCHANGED <<forgotten, parent, marked, making, try, tail, counts>>

\* A teardown that fails midway: what is left stays as it is.
ArchiveFails(c) ==
  /\ c \in cascade.todo /\ IsNext(c)
  /\ cascade' = Resting
  /\ session' \in {session, session \ {c}}
  /\ UNCHANGED <<events, making, try, tail, counts>>

\* The tombstone and the purge are one transaction.
ForgetRun(r) ==
  /\ Gesture("forget", r)
  /\ V(r).status = "archived"
  /\ forgotten' = forgotten \cup {r} /\ here' = here \ {r}
  /\ log' = [log EXCEPT ![r] = FreshRun]
  /\ parent' = [parent EXCEPT ![r] = NoRun]
  /\ marked' = marked \ {r}
  /\ UNCHANGED <<session, try, tail, cascade>>

(***************************************************************************)
(* A crash of the daemon and its boot                                      *)
(***************************************************************************)
\* Boot interrupts what claims a session it has not; a live run that is paused
\* is left alone, and no watcher is posted again.
Recovered(r, alive) ==
  LET v == V(r)
      gone == /\ HoldsSession(v.nodes[Worker].st)
              /\ \/ v.status \in {"completed", "failed", "halted", "archived"}
                 \/ RunAcceptsLifecycle(v) /\ r \notin alive
  IN  IF r \in here /\ gone /\ ValidateInterrupt(v, Worker, Lap) = "allow"
      THEN NodeInterrupted(log[r], Worker, Lap) ELSE log[r]

CrashAndBoot ==
  /\ crashes < MaxCrashes /\ crashes' = crashes + 1
  /\ session' \in {session, {}}
  /\ log' = [r \in Family |-> Recovered(r, session')]
  /\ making' = [r \in Family |-> NoRun]
  /\ try' = [t \in Tries |-> Free]
  /\ tail' = [r \in Family |-> {}]
  /\ cascade' = Resting
  /\ UNCHANGED <<here, forgotten, parent, marked, gestures>>

(***************************************************************************)
CreateStep(c) == StartRun(c) \/ CreateFails(c) \/ \E p \in Family : Claim(p, c)
TryStep(t) ==
  \/ ReadChild(t) \/ Pass(t) \/ Refuse(t) \/ DeliveryRefused(t) \/ Deliver(t)
  \/ Wake(t) \/ Conclude(t)
AgentStep(r) == Complete(r) \/ Fail(r) \/ Cancelled(r)
TailStep(r) == Reap(r) \/ Advance(r) \/ FailTail(r)
CascadeStep(c) == ArchiveNext(c) \/ ArchiveFails(c)
OperatorStep(r) ==
  \/ MarkNodeDone(r) \/ RestartNode(r) \/ PauseRun(r) \/ ResumeRun(r)
  \/ ReopenRun(r) \/ CleanupRun(r) \/ ForgetRun(r)

Next ==
  \/ \E r \in Family : \/ CreateStep(r) \/ AgentStep(r) \/ TailStep(r)
                       \/ ParkStalled(r) \/ OperatorStep(r) \/ CascadeStep(r)
  \/ \E t \in Tries : TryStep(t)
  \/ CrashAndBoot

Spec == Init /\ [][Next]_vars

\* What the daemon has begun it goes on with: watchers wake, handlers and tails
\* run on.  No agent has to complete, no operator to come.
Fairness ==
  /\ \A t \in Tries : WF_vars(TryStep(t))
  /\ \A r \in Family : WF_vars(TailStep(r))

FairSpec == Spec /\ Fairness

(***************************************************************************)
(* Safety                                                                  *)
(***************************************************************************)
\* A forgotten run stays forgotten (ADR-0024): whichever handler, watcher, tail
\* or cascade is still at work on it, it adds no event to its log.
ForgottenStaysGone == here \cap forgotten = {}

\* A node parked behind its children has a watcher: a completion that is refused
\* never leaves a parked node that nothing will complete (ADR-0064).  It needs
\* a log that only the binding, re-openings and the archive touch: the README
\* says what a pause, a forced completion, a failing parent or a crash does.
Watched(r) == \E k \in 1..MaxWatchers : try[<<r, k>>].at # "free"

ParkedIsWatched ==
  \A r \in here :
    RunAcceptsLifecycle(V(r)) /\ State(r) = "awaiting" => Watched(r)
=============================================================================
