-------------------------- MODULE SharedResourceProofs --------------------------
(***************************************************************************)
(* The theorems about what runs and browsers share: the session slots of   *)
(* Admission, for every set of runs and nodes, and the terminal of         *)
(* SharedTerminal, for any sockets, browsers and grids.  The two components *)
(* have no state in common.                                                *)
(***************************************************************************)
EXTENDS Admission, SharedTerminal, FiniteSetTheorems, WellFoundedInduction, TLAPS

(***************************************************************************)
(* Session slots.                                                          *)
(*                                                                         *)
(* The cap holds for every set of runs and nodes, every cap and every      *)
(* interleaving, as long as no run is reopened (a reopening counts the     *)
(* nodes left running in an ended run again, past any check of the cap);   *)
(* and admission implements the slot pool.  A slot that is freed within    *)
(* reach of a waiting node is offered to it.                               *)
(*                                                                         *)
(* The cap is not inductive: that a reservation keeps it depends on what   *)
(* the count found some steps earlier, and that on nobody else having been *)
(* admitted in between.  CapInv says both.                                 *)
(***************************************************************************)
\* A spawn past the guard knows its node; one that is to be admitted still
\* finds a free slot besides the one it takes.
NodeKnown == \A t \in Tasks : task[t].step \notin {"idle", "next"} => task[t].node \in Nodes
AdmittedFits ==
  \A t \in Tasks : task[t].step = "admit" => Cardinality(Holders \ {task[t].node}) < Cap

\* The completion tail of a node is one of the tasks.
LEMMA TailIsTask == \A n \in Nodes : Tail(n) \in Tasks
  BY DEF Tail, Tasks

\* A task that moves to another step is still a task of its type.
LEMMA GoToType ==
  ASSUME task \in [Tasks -> TaskStates], NEW t \in Tasks, NEW s \in Steps, GoTo(t, s)
  PROVE  /\ task' \in [Tasks -> TaskStates]
         /\ task'[t].step = s /\ task'[t].node = task[t].node
         /\ \A u \in Tasks \ {t} : task'[u] = task[u]
<1>1. [task[t] EXCEPT !.step = s] \in TaskStates
  BY DEF TaskStates
<1>2. task' = [task EXCEPT ![t] = [task[t] EXCEPT !.step = s]]
  BY DEF GoTo
<1> QED
  BY <1>1, <1>2 DEF TaskStates

TypeInv == TypeOK /\ NodeKnown

CapInv ==
  /\ TypeInv
  /\ CountToReserveIsExclusive
  /\ AdmittedFits
  /\ SlotsWithinCap

\* Every step keeps the type invariant.
LEMMA TypeInvStep == TypeInv /\ [Next]_vars => TypeInv'
<1> SUFFICES ASSUME TypeInv, [Next]_vars PROVE TypeInv'
  OBVIOUS
<1> USE AdmissionAssumption DEF TypeInv, TypeOK, NodeKnown, RunStatuses, NodeStatuses
<1>1. ASSUME NEW t \in Tasks, NEW r \in Runs, VisitRun(t, r) PROVE TypeInv'
  <2>1. PICK q \in SUBSET Nodes : task' = [task EXCEPT ![t].runs = @ \ {r}, ![t].queue = q]
    BY <1>1 DEF VisitRun
  <2>2. [task[t] EXCEPT !.runs = @ \ {r}, !.queue = q] \in TaskStates
    BY ZenonT(40) DEF TaskStates, Steps
  <2>3. task' \in [Tasks -> TaskStates]
    BY <2>1, <2>2
  <2>4. task'[t].step = task[t].step /\ \A u \in Tasks \ {t} : task'[u] = task[u]
    BY <2>1, <2>2
  <2>5. NodeKnown'
    BY <1>1, <2>4 DEF VisitRun
  <2> QED
    BY <1>1, <2>3, <2>5 DEF VisitRun
<1>2. ASSUME NEW t \in Tasks, Finish(t) PROVE TypeInv'
  BY <1>2 DEF Finish, Idle, TaskStates, Steps
<1>3. ASSUME NEW t \in Tasks, NEW n \in Nodes, Probe(t, n) PROVE TypeInv'
  <2>1. PICK s \in {"lock", "next"} :
          task' = [task EXCEPT ![t].queue = @ \ {n}, ![t].node = n, ![t].step = s]
    BY <1>3 DEF Probe
  <2>2. [task[t] EXCEPT !.queue = @ \ {n}, !.node = n, !.step = s] \in TaskStates
    BY ZenonT(40) DEF TaskStates, Steps
  <2>3. task' \in [Tasks -> TaskStates]
    BY <2>1, <2>2
  <2>4. NodeKnown'
    BY <2>1, <2>3 DEF TaskStates
  <2> QED
    BY <1>3, <2>3, <2>4 DEF Probe
<1>4. ASSUME NEW t \in Tasks, TakeLock(t) PROVE TypeInv'
  BY <1>4, GoToType DEF TakeLock, Steps
<1>5. ASSUME NEW t \in Tasks, Count(t) PROVE TypeInv'
  BY <1>5, GoToType DEF Count, Steps
<1>6. ASSUME NEW t \in Tasks, Reserve(t) PROVE TypeInv'
  BY <1>6, GoToType DEF Reserve, Interrupted, Steps
<1>7. ASSUME NEW t \in Tasks, Throttle(t) PROVE TypeInv'
  BY <1>7, GoToType DEF Throttle, Steps
<1>8. ASSUME NEW t \in Tasks, SpawnSession(t) PROVE TypeInv'
  <2>1. task' \in [Tasks -> TaskStates] /\ NodeKnown'
    BY <1>8, GoToType DEF SpawnSession, Steps
  <2>2. task[t].node \in Nodes
    BY <1>8 DEF SpawnSession
  <2>3. Interrupted(task[t].node) \in [Nodes -> NodeStatuses]
    BY DEF Interrupted
  <2> QED
    BY <1>8, <2>1, <2>2, <2>3 DEF SpawnSession
<1>9. ASSUME NEW n \in Nodes, NEW how \in {"done", "failed"}, NEW ends \in BOOLEAN,
             NEW last \in BOOLEAN, EndNode(n, how, ends, last)
      PROVE  TypeInv'
  BY <1>9, TailIsTask DEF EndNode, Redrive, Idle, TaskStates, Steps
<1>10. ASSUME NEW n \in Nodes, EndRun(n) \/ EndRunLast(n) PROVE TypeInv'
  BY <1>10 DEF EndRun, EndRunLast, Ends
<1>11. ASSUME NEW r \in Runs, Pause(r) \/ Resume(r) \/ Cleanup(r) PROVE TypeInv'
  BY <1>11 DEF Pause, Resume, Cleanup
<1>12. CASE UNCHANGED vars
  BY <1>12 DEF vars
<1> QED
  BY <1>1, <1>2, <1>3, <1>4, <1>5, <1>6, <1>7, <1>8, <1>9, <1>10, <1>11, <1>12
  DEF Next, TaskStep

\* At first every task is idle or on its way to its first node.
LEMMA FirstTasks ==
  ASSUME Init
  PROVE  /\ task \in [Tasks -> TaskStates]
         /\ \A t \in Tasks : task[t].step \in {"idle", "next"}
<1>1. ASSUME NEW t \in Tasks
      PROVE  task[t] \in TaskStates /\ task[t].step \in {"idle", "next"}
  <2>1. CASE t[1] = "launch"
    <3>1. t[2] \in Nodes
      BY <2>1 DEF Tasks
    <3>2. task[t] = [Idle EXCEPT !.step = "next", !.queue = {t[2]}]
      BY <2>1 DEF Init
    <3>3. task[t] = [step |-> "next", runs |-> {}, queue |-> {t[2]}, node |-> NoNode,
                     last |-> FALSE]
      BY <3>2 DEF Idle
    <3> QED
      BY <3>1, <3>3 DEF TaskStates, Steps
  <2>2. CASE t[1] # "launch"
    <3>1. task[t] = Idle
      BY <2>2 DEF Init
    <3> QED
      BY <3>1 DEF Idle, TaskStates, Steps
  <2> QED
    BY <2>1, <2>2
<1> QED
  BY <1>1 DEF Init

\* The initial state is well typed.
LEMMA TypeInvInit == Init => TypeInv
<1> SUFFICES ASSUME Init PROVE TypeInv
  OBVIOUS
<1>1. /\ run \in [Runs -> RunStatuses] /\ node \in [Nodes -> NodeStatuses]
      /\ session \subseteq Nodes /\ lock \in Tasks \cup {NoTask}
  BY DEF Init, RunStatuses, NodeStatuses
<1> QED
  BY <1>1, FirstTasks DEF TypeInv, TypeOK, NodeKnown

\* Every state the daemon can be in has the type the module gives it; a spawn
\* that passed the guard has a node.
THEOREM AdmissionTypeOK == Spec => []TypeOK
<1>1. TypeInv => TypeOK
  BY DEF TypeInv
<1> QED
  BY <1>1, TypeInvInit, TypeInvStep, PTL DEF Spec

(***************************************************************************)
(* The lock                                                                *)
(***************************************************************************)
LEMMA ExclusiveStep ==
  TypeInv /\ CountToReserveIsExclusive /\ [Next]_vars => CountToReserveIsExclusive'
<1> SUFFICES ASSUME TypeInv, CountToReserveIsExclusive, [Next]_vars
             PROVE  CountToReserveIsExclusive'
  OBVIOUS
<1> USE NoTaskAssumption DEF TypeInv, TypeOK, CountToReserveIsExclusive, LockedSteps
<1>1. ASSUME NEW t \in Tasks, NEW r \in Runs, VisitRun(t, r)
      PROVE  CountToReserveIsExclusive'
  <2>1. lock' = lock /\ \A u \in Tasks : task'[u].step = task[u].step
    BY <1>1 DEF VisitRun, TaskStates
  <2> QED
    BY <2>1
<1>2. ASSUME NEW t \in Tasks, Finish(t) PROVE CountToReserveIsExclusive'
  BY <1>2 DEF Finish, Idle
<1>3. ASSUME NEW t \in Tasks, NEW n \in Nodes, Probe(t, n)
      PROVE  CountToReserveIsExclusive'
  <2>1. /\ lock' = lock
        /\ task'[t].step \in {"lock", "next"}
        /\ \A u \in Tasks \ {t} : task'[u] = task[u]
    BY <1>3 DEF Probe, TaskStates
  <2> QED
    BY <1>3, <2>1 DEF Probe
<1>4. ASSUME NEW t \in Tasks, TakeLock(t) PROVE CountToReserveIsExclusive'
  BY <1>4, GoToType DEF TakeLock, Steps
<1>5. ASSUME NEW t \in Tasks, Count(t) PROVE CountToReserveIsExclusive'
  BY <1>5, GoToType DEF Count, Steps
<1>6. ASSUME NEW t \in Tasks, Reserve(t) PROVE CountToReserveIsExclusive'
  BY <1>6, GoToType DEF Reserve, Steps
<1>7. ASSUME NEW t \in Tasks, Throttle(t) PROVE CountToReserveIsExclusive'
  BY <1>7, GoToType DEF Throttle, Steps
<1>8. ASSUME NEW t \in Tasks, SpawnSession(t) PROVE CountToReserveIsExclusive'
  BY <1>8, GoToType DEF SpawnSession, Steps
<1>9. ASSUME NEW n \in Nodes, NEW how \in {"done", "failed"}, NEW ends \in BOOLEAN,
             NEW last \in BOOLEAN, EndNode(n, how, ends, last)
      PROVE  CountToReserveIsExclusive'
  BY <1>9, TailIsTask DEF EndNode, Redrive, Idle
<1>10. ASSUME NEW n \in Nodes, EndRun(n) \/ EndRunLast(n) PROVE CountToReserveIsExclusive'
  BY <1>10 DEF EndRun, EndRunLast, Ends
<1>11. ASSUME NEW r \in Runs, Pause(r) \/ Resume(r) \/ Cleanup(r)
       PROVE  CountToReserveIsExclusive'
  BY <1>11 DEF Pause, Resume, Cleanup
<1>12. CASE UNCHANGED vars
  BY <1>12 DEF vars
<1> QED
  BY <1>1, <1>2, <1>3, <1>4, <1>5, <1>6, <1>7, <1>8, <1>9, <1>10, <1>11, <1>12
  DEF Next, TaskStep

\* The count of a spawn and its reservation are never interleaved with those
\* of another one: admission_lock does its work, whatever is reopened.
THEOREM ReservationIsExclusive == Spec => []CountToReserveIsExclusive
<1>1. Init => CountToReserveIsExclusive
  BY NoTaskAssumption, FirstTasks DEF Init, CountToReserveIsExclusive, LockedSteps
<1> QED
  BY <1>1, TypeInvInit, TypeInvStep, ExclusiveStep, PTL DEF Spec

(***************************************************************************)
(* The cap                                                                 *)
(***************************************************************************)
LEMMA HoldersFinite ==
  /\ IsFiniteSet(Holders) /\ Cardinality(Holders) \in Nat
  /\ \A n : IsFiniteSet(Holders \ {n}) /\ Cardinality(Holders \ {n}) \in Nat
<1>1. Holders \subseteq Nodes
  BY DEF Holders
<1> QED
  BY <1>1, AdmissionAssumption, FS_Subset, FS_CardinalityType

\* A step that gives slots back, and admits nobody, keeps the cap.
LEMMA GivingBackFits ==
  ASSUME CapInv, Holders' \subseteq Holders,
         \A t \in Tasks : task'[t].step = "admit" =>
           task[t].step = "admit" /\ task'[t].node = task[t].node
  PROVE  AdmittedFits' /\ SlotsWithinCap'
<1>1. Cap \in Nat
  BY AdmissionAssumption
<1>2. Cardinality(Holders') \in Nat /\ Cardinality(Holders') <= Cardinality(Holders)
  BY HoldersFinite, FS_Subset, FS_CardinalityType
<1>3. ASSUME NEW t \in Tasks, task'[t].step = "admit"
      PROVE  Cardinality(Holders' \ {task'[t].node}) < Cap
  <2>1. Holders' \ {task'[t].node} \subseteq Holders \ {task[t].node}
    BY <1>3
  <2>2. /\ Cardinality(Holders' \ {task'[t].node}) \in Nat
        /\ Cardinality(Holders' \ {task'[t].node}) <= Cardinality(Holders \ {task[t].node})
    BY <2>1, HoldersFinite, FS_Subset, FS_CardinalityType
  <2>3. Cardinality(Holders \ {task[t].node}) < Cap
    BY <1>3 DEF CapInv, AdmittedFits
  <2>4. Cardinality(Holders \ {task[t].node}) \in Nat
    BY HoldersFinite
  <2> QED
    BY <1>1, <2>2, <2>3, <2>4
<1> QED
  BY <1>1, <1>2, <1>3, HoldersFinite DEF CapInv, AdmittedFits, SlotsWithinCap

\* Starting its node, the admitted spawn takes at most the one slot it found.
LEMMA ReservingFits ==
  ASSUME CapInv, NEW t \in Tasks, Reserve(t), task[t].node \in Nodes,
         node' = [node EXCEPT ![task[t].node] = "running"]
  PROVE  /\ Holders' \subseteq (Holders \ {task[t].node}) \cup {task[t].node}
         /\ task[t].node \notin Holders => Cardinality(Holders) < Cap
         /\ AdmittedFits' /\ SlotsWithinCap'
<1> DEFINE n == task[t].node
<1> USE DEF CapInv, TypeInv, TypeOK
<1>1. task[t].step = "admit" /\ run' = run
  BY DEF Reserve
<1>2. Holders' \subseteq (Holders \ {n}) \cup {n}
  BY <1>1 DEF Holders, LiveRun
<1>3. Cardinality(Holders \ {n}) < Cap
  BY <1>1 DEF AdmittedFits
<1>4. Cardinality((Holders \ {n}) \cup {n}) <= Cap
  <2> DEFINE others == Holders \ {n}
  <2>1. IsFiniteSet(others) /\ Cardinality(others) \in Nat
    BY HoldersFinite
  <2>2. n \notin others
    OBVIOUS
  <2>3. Cardinality(others \cup {n}) = Cardinality(others) + 1
    BY <2>1, <2>2, FS_AddElement
  <2> QED
    BY <1>3, <2>1, <2>3, AdmissionAssumption
<1>5. Cardinality(Holders') <= Cap
  <2>1. IsFiniteSet((Holders \ {n}) \cup {n})
    BY HoldersFinite, FS_AddElement
  <2> QED
    BY <1>2, <1>4, <2>1, FS_Subset, FS_CardinalityType, AdmissionAssumption
<1>6. \A u \in Tasks : task'[u].step # "admit"
  <2>1. task'[t].step # "admit" /\ \A u \in Tasks \ {t} : task'[u] = task[u]
    BY GoToType DEF Reserve, Steps
  <2>2. \A u \in Tasks \ {t} : task[u].step # "admit"
    BY <1>1 DEF CountToReserveIsExclusive, LockedSteps
  <2> QED
    BY <2>1, <2>2
<1>7. n \notin Holders => Cardinality(Holders) < Cap
  <2>1. n \notin Holders => Holders \ {n} = Holders
    OBVIOUS
  <2> QED
    BY <1>3, <2>1
<1> QED
  BY <1>2, <1>5, <1>6, <1>7 DEF AdmittedFits, SlotsWithinCap

\* Every step keeps the slots, and the spawn being admitted, within the cap.
LEMMA CapStep ==
  ASSUME Reopens = {}, CapInv, [Next]_vars
  PROVE  AdmittedFits' /\ SlotsWithinCap'
<1> DEFINE Fits == AdmittedFits' /\ SlotsWithinCap'
<1> USE DEF CapInv, TypeInv, TypeOK, Holders, LiveRun
<1>1. ASSUME NEW t \in Tasks, NEW r \in Runs, VisitRun(t, r) PROVE Fits
  <2>1. \A u \in Tasks : task'[u].step = task[u].step /\ task'[u].node = task[u].node
    BY <1>1 DEF VisitRun, TaskStates
  <2>2. Holders' = Holders
    BY <1>1 DEF VisitRun
  <2> QED
    BY <2>1, <2>2, GivingBackFits
<1>2. ASSUME NEW t \in Tasks, Finish(t) PROVE Fits
  <2>1. Holders' = Holders
    BY <1>2 DEF Finish
  <2>2. \A u \in Tasks : task'[u].step = "admit" => task'[u] = task[u]
    BY <1>2 DEF Finish, Idle
  <2> QED
    BY <2>1, <2>2, GivingBackFits
<1>3. ASSUME NEW t \in Tasks, NEW n \in Nodes, Probe(t, n) PROVE Fits
  <2>1. Holders' = Holders
    BY <1>3 DEF Probe
  <2>2. \A u \in Tasks : task'[u].step = "admit" => task'[u] = task[u]
    BY <1>3 DEF Probe, TaskStates
  <2> QED
    BY <2>1, <2>2, GivingBackFits
<1>4. ASSUME NEW t \in Tasks, TakeLock(t) PROVE Fits
  <2>1. Holders' = Holders
    BY <1>4 DEF TakeLock
  <2>2. \A u \in Tasks : task'[u].step = "admit" => task'[u] = task[u]
    BY <1>4, GoToType DEF TakeLock, Steps
  <2> QED
    BY <2>1, <2>2, GivingBackFits
<1>5. ASSUME NEW t \in Tasks, Count(t) PROVE Fits
  <2>1. Holders' = Holders
    BY <1>5 DEF Count
  <2>2. \A u \in Tasks \ {t} : task'[u] = task[u]
    BY <1>5, GoToType DEF Count, Steps
  <2>3. /\ task'[t].node = task[t].node
        /\ task'[t].step = "admit" => Cardinality(Holders \ {task[t].node}) < Cap
    BY <1>5, GoToType DEF Count, Steps
  <2>4. SlotsWithinCap'
    BY <2>1 DEF SlotsWithinCap
  <2>5. AdmittedFits'
    BY <2>1, <2>2, <2>3 DEF AdmittedFits
  <2> QED
    BY <2>4, <2>5
<1>6. ASSUME NEW t \in Tasks, Reserve(t) PROVE Fits
  <2>1. task[t].node \in Nodes
    BY <1>6 DEF Reserve, NodeKnown
  <2>2. CASE node' = [node EXCEPT ![task[t].node] = "running"]
    BY <1>6, <2>1, <2>2, ReservingFits
  <2>3. CASE node' = Interrupted(task[t].node) /\ task[t].step = "admit"
    <3>1. Holders' \subseteq Holders
      BY <1>6, <2>3 DEF Reserve, Interrupted
    <3>2. \A u \in Tasks : task'[u].step = "admit" => task'[u] = task[u]
      BY <1>6, GoToType DEF Reserve, Steps
    <3> QED
      BY <3>1, <3>2, GivingBackFits
  <2> QED
    BY <1>6, <2>2, <2>3 DEF Reserve
<1>7. ASSUME NEW t \in Tasks, Throttle(t) PROVE Fits
  <2>1. Holders' \subseteq Holders
    BY <1>7 DEF Throttle
  <2>2. \A u \in Tasks : task'[u].step = "admit" => task'[u] = task[u]
    BY <1>7, GoToType DEF Throttle, Steps
  <2> QED
    BY <2>1, <2>2, GivingBackFits
<1>8. ASSUME NEW t \in Tasks, SpawnSession(t) PROVE Fits
  <2>1. Holders' \subseteq Holders
    BY <1>8 DEF SpawnSession, Interrupted
  <2>2. \A u \in Tasks : task'[u].step = "admit" => task'[u] = task[u]
    BY <1>8, GoToType DEF SpawnSession, Steps
  <2> QED
    BY <2>1, <2>2, GivingBackFits
<1>9. ASSUME NEW n \in Nodes, NEW how \in {"done", "failed"}, NEW ends \in BOOLEAN,
             NEW last \in BOOLEAN, EndNode(n, how, ends, last)
      PROVE  Fits
  <2>1. Holders' \subseteq Holders
    BY <1>9, AdmissionAssumption DEF EndNode
  <2>2. \A u \in Tasks : task'[u].step = "admit" => task'[u] = task[u]
    BY <1>9, TailIsTask DEF EndNode, Redrive, Idle
  <2> QED
    BY <2>1, <2>2, GivingBackFits
<1>10. ASSUME NEW n \in Nodes, EndRun(n) \/ EndRunLast(n) PROVE Fits
  <2>1. Holders' \subseteq Holders /\ task' = task
    BY <1>10, AdmissionAssumption DEF EndRun, EndRunLast, Ends
  <2> QED
    BY <2>1, GivingBackFits
<1>11. ASSUME NEW r \in Runs, Pause(r) \/ Resume(r) \/ Cleanup(r) PROVE Fits
  <2>1. Holders' \subseteq Holders /\ task' = task
    BY <1>11, AdmissionAssumption DEF Pause, Resume, Cleanup
  <2> QED
    BY <2>1, GivingBackFits
<1>12. CASE UNCHANGED vars
  <2>1. Holders' = Holders /\ task' = task
    BY <1>12 DEF vars
  <2> QED
    BY <2>1, GivingBackFits
<1> QED
  BY <1>1, <1>2, <1>3, <1>4, <1>5, <1>6, <1>7, <1>8, <1>9, <1>10, <1>11, <1>12
  DEF Next, TaskStep

\* The invariant holds initially.
LEMMA CapInvInit == Init => CapInv
<1> SUFFICES ASSUME Init PROVE CapInv
  OBVIOUS
<1>1. Holders = {}
  BY DEF Init, Holders
<1>2. SlotsWithinCap
  BY <1>1, FS_EmptySet, AdmissionAssumption DEF SlotsWithinCap
<1>3. AdmittedFits /\ CountToReserveIsExclusive
  BY NoTaskAssumption, FirstTasks
  DEF Init, AdmittedFits, CountToReserveIsExclusive, LockedSteps
<1> QED
  BY <1>2, <1>3, TypeInvInit DEF CapInv

\* The cap: no interleaving of spawns, completions, failures, pauses, resumes,
\* cleanups and re-drives lets more nodes hold a slot than the cap allows.
THEOREM SlotsNeverExceedCap == ASSUME Reopens = {} PROVE Spec => []SlotsWithinCap
<1>1. CapInv /\ [Next]_vars => CapInv'
  BY CapStep, TypeInvStep, ExclusiveStep DEF CapInv
<1>2. CapInv => SlotsWithinCap
  BY DEF CapInv
<1> QED
  BY <1>1, <1>2, CapInvInit, PTL DEF Spec

(***************************************************************************)
(* The refinement                                                          *)
(***************************************************************************)
LEMMA PoolStep ==
  ASSUME Reopens = {}, CapInv, [Next]_vars
  PROVE  [Pool!Next]_Holders
<1> USE AdmissionAssumption DEF CapInv, TypeInv, TypeOK, Holders, LiveRun
<1>1. ASSUME NEW t \in Tasks, Reserve(t) PROVE Pool!Next
  <2> DEFINE n == task[t].node
  <2>1. n \in Nodes
    BY <1>1 DEF Reserve, NodeKnown
  <2>2. CASE node' = Interrupted(n)
    <3>1. Holders' \subseteq Holders
      BY <1>1, <2>2 DEF Reserve, Interrupted
    <3> QED
      BY <3>1 DEF Pool!Next, Pool!GiveBack
  <2>3. CASE node' = [node EXCEPT ![n] = "running"] /\ Startable(n)
    <3>1. Holders' = Holders \cup {n}
      BY <1>1, <2>1, <2>3 DEF Reserve, Startable
    <3>2. CASE n \in Holders
      BY <3>1, <3>2 DEF Pool!Next, Pool!GiveBack
    <3>3. CASE n \notin Holders
      <4>1. Cardinality(Holders) < Cap
        BY <1>1, <2>1, <2>3, <3>3, ReservingFits
      <4>2. Pool!Cardinality(Holders) = Cardinality(Holders)
        BY DEF Cardinality, Pool!Cardinality
      <4> QED
        BY <2>1, <3>1, <3>3, <4>1, <4>2, ZenonT(40) DEF Pool!Next, Pool!Acquire
    <3> QED
      BY <3>2, <3>3
  <2> QED
    BY <1>1, <2>2, <2>3 DEF Reserve
<1>2. ASSUME NEW t \in Tasks, TaskStep(t), ~Reserve(t) PROVE Holders' \subseteq Holders
  BY <1>2 DEF TaskStep, VisitRun, Finish, Probe, TakeLock, Count, Throttle, SpawnSession,
     Interrupted
<1>3. ASSUME NEW n \in Nodes, NEW how \in {"done", "failed"}, NEW ends \in BOOLEAN,
             NEW last \in BOOLEAN, EndNode(n, how, ends, last)
      PROVE  Holders' \subseteq Holders
  BY <1>3 DEF EndNode
<1>4. ASSUME NEW n \in Nodes, EndRun(n) \/ EndRunLast(n) PROVE Holders' \subseteq Holders
  BY <1>4 DEF EndRun, EndRunLast, Ends
<1>5. ASSUME NEW r \in Runs, Pause(r) \/ Resume(r) \/ Cleanup(r)
      PROVE  Holders' \subseteq Holders
  BY <1>5 DEF Pause, Resume, Cleanup
<1>6. CASE UNCHANGED vars
  BY <1>6 DEF vars
<1>7. Holders' \subseteq Holders => Pool!Next
  BY DEF Pool!Next, Pool!GiveBack
<1> QED
  BY <1>1, <1>2, <1>3, <1>4, <1>5, <1>6, <1>7 DEF Next

\* Admission does what it promises and nothing else: slots are taken one at a
\* time, only below the cap, and otherwise only given back.
THEOREM AdmissionImplementsPool == ASSUME Reopens = {} PROVE Spec => PoolSpec
<1>1. Init => Pool!Init
  BY DEF Init, Pool!Init, Holders
<1>2. CapInv /\ [Next]_vars => CapInv'
  BY CapStep, TypeInvStep, ExclusiveStep DEF CapInv
<1>3. CapInv /\ [Next]_vars => [Pool!Next]_Holders
  BY PoolStep
<1> QED
  BY <1>1, <1>2, <1>3, CapInvInit, PTL DEF Spec, PoolSpec, Pool!Spec

(***************************************************************************)
(* Freed slots                                                             *)
(*                                                                         *)
(* A spawn that was throttled takes no slot of its own away by it: found    *)
(* full, the count did not leave out its node, and nobody started it since. *)
(***************************************************************************)
ThrottledHoldsNone == \A t \in Tasks : task[t].step = "throttle" => task[t].node \notin Holders

OfferInv == CapInv /\ ThrottledHoldsNone

\* A step that adds no holder and throttles nobody anew keeps it.
LEMMA ThrottledKept ==
  ASSUME ThrottledHoldsNone, Holders' \subseteq Holders,
         \A t \in Tasks : task'[t].step = "throttle" =>
           task[t].step = "throttle" /\ task'[t].node = task[t].node
  PROVE  ThrottledHoldsNone'
  BY DEF ThrottledHoldsNone

\* A count that finds no slot left had its node hold none.
LEMMA FullWithoutIt ==
  ASSUME CapInv, NEW n, ~(Cardinality(Holders \ {n}) < Cap)
  PROVE  n \notin Holders
<1>1. ASSUME n \in Holders PROVE FALSE
  <2>1. Cardinality(Holders \ {n}) = Cardinality(Holders) - 1
    BY <1>1, HoldersFinite, FS_RemoveElement
  <2>2. Cardinality(Holders) <= Cap
    BY DEF CapInv, SlotsWithinCap
  <2> QED
    BY <2>1, <2>2, HoldersFinite, AdmissionAssumption
<1> QED
  BY <1>1

\* The steps of tasks: only a reservation adds a holder, and it has the lock.
LEMMA ThrottledStep ==
  ASSUME Reopens = {}, OfferInv, [Next]_vars
  PROVE  ThrottledHoldsNone'
<1> USE DEF OfferInv, CapInv, TypeInv, TypeOK, Holders, LiveRun
<1>1. ASSUME NEW t \in Tasks, NEW r \in Runs, VisitRun(t, r) PROVE ThrottledHoldsNone'
  <2>1. \A u \in Tasks : task'[u].step = task[u].step /\ task'[u].node = task[u].node
    BY <1>1 DEF VisitRun, TaskStates
  <2>2. Holders' = Holders
    BY <1>1 DEF VisitRun
  <2> QED
    BY <2>1, <2>2, ThrottledKept
<1>2. ASSUME NEW t \in Tasks, Finish(t) PROVE ThrottledHoldsNone'
  <2>1. Holders' = Holders
    BY <1>2 DEF Finish
  <2>2. \A u \in Tasks : task'[u].step = "throttle" => task'[u] = task[u]
    BY <1>2 DEF Finish, Idle
  <2> QED
    BY <2>1, <2>2, ThrottledKept
<1>3. ASSUME NEW t \in Tasks, NEW n \in Nodes, Probe(t, n) PROVE ThrottledHoldsNone'
  <2>1. Holders' = Holders
    BY <1>3 DEF Probe
  <2>2. \A u \in Tasks : task'[u].step = "throttle" => task'[u] = task[u]
    BY <1>3 DEF Probe, TaskStates
  <2> QED
    BY <2>1, <2>2, ThrottledKept
<1>4. ASSUME NEW t \in Tasks, TakeLock(t) PROVE ThrottledHoldsNone'
  <2>1. Holders' = Holders
    BY <1>4 DEF TakeLock
  <2>2. \A u \in Tasks : task'[u].step = "throttle" => task'[u] = task[u]
    BY <1>4, GoToType DEF TakeLock, Steps
  <2> QED
    BY <2>1, <2>2, ThrottledKept
<1>5. ASSUME NEW t \in Tasks, Count(t) PROVE ThrottledHoldsNone'
  <2>1. Holders' = Holders
    BY <1>5 DEF Count
  <2>2. \A u \in Tasks \ {t} : task'[u] = task[u]
    BY <1>5, GoToType DEF Count, Steps
  <2>3. /\ task'[t].node = task[t].node
        /\ task'[t].step = "throttle" => ~(Cardinality(Holders \ {task[t].node}) < Cap)
    BY <1>5, GoToType DEF Count, Steps
  <2>4. task'[t].step = "throttle" => task[t].node \notin Holders
    BY <2>3, FullWithoutIt
  <2> HIDE DEF Holders
  <2> QED
    BY <2>1, <2>2, <2>3, <2>4 DEF ThrottledHoldsNone
<1>6. ASSUME NEW t \in Tasks, Reserve(t) PROVE ThrottledHoldsNone'
  <2>1. task'[t].step # "throttle" /\ \A u \in Tasks \ {t} : task'[u] = task[u]
    BY <1>6, GoToType DEF Reserve, Steps
  <2>2. \A u \in Tasks \ {t} : task[u].step # "throttle"
    BY <1>6 DEF Reserve, CountToReserveIsExclusive, LockedSteps
  <2> QED
    BY <2>1, <2>2 DEF ThrottledHoldsNone
<1>7. ASSUME NEW t \in Tasks, Throttle(t) PROVE ThrottledHoldsNone'
  <2>1. Holders' \subseteq Holders
    BY <1>7 DEF Throttle
  <2>2. \A u \in Tasks : task'[u].step = "throttle" => task'[u] = task[u]
    BY <1>7, GoToType DEF Throttle, Steps
  <2> QED
    BY <2>1, <2>2, ThrottledKept
<1>8. ASSUME NEW t \in Tasks, SpawnSession(t) PROVE ThrottledHoldsNone'
  <2>1. Holders' \subseteq Holders
    BY <1>8 DEF SpawnSession, Interrupted
  <2>2. \A u \in Tasks : task'[u].step = "throttle" => task'[u] = task[u]
    BY <1>8, GoToType DEF SpawnSession, Steps
  <2> QED
    BY <2>1, <2>2, ThrottledKept
<1>9. ASSUME NEW n \in Nodes, NEW how \in {"done", "failed"}, NEW ends \in BOOLEAN,
             NEW last \in BOOLEAN, EndNode(n, how, ends, last)
      PROVE  ThrottledHoldsNone'
  <2>1. Holders' \subseteq Holders
    BY <1>9, AdmissionAssumption DEF EndNode
  <2>2. \A u \in Tasks : task'[u].step = "throttle" => task'[u] = task[u]
    BY <1>9, TailIsTask DEF EndNode, Redrive, Idle
  <2> QED
    BY <2>1, <2>2, ThrottledKept
<1>10. ASSUME NEW n \in Nodes, EndRun(n) \/ EndRunLast(n) PROVE ThrottledHoldsNone'
  <2>1. Holders' \subseteq Holders /\ task' = task
    BY <1>10, AdmissionAssumption DEF EndRun, EndRunLast, Ends
  <2> QED
    BY <2>1, ThrottledKept
<1>11. ASSUME NEW r \in Runs, Pause(r) \/ Resume(r) \/ Cleanup(r) PROVE ThrottledHoldsNone'
  <2>1. Holders' \subseteq Holders /\ task' = task
    BY <1>11, AdmissionAssumption DEF Pause, Resume, Cleanup
  <2> QED
    BY <2>1, ThrottledKept
<1>12. CASE UNCHANGED vars
  <2>1. Holders' = Holders /\ task' = task
    BY <1>12 DEF vars
  <2> QED
    BY <2>1, ThrottledKept
<1> QED
  BY <1>1, <1>2, <1>3, <1>4, <1>5, <1>6, <1>7, <1>8, <1>9, <1>10, <1>11, <1>12
  DEF Next, TaskStep

\* A step that takes no holder away puts no slot within reach of anybody.
LEMMA NoneFreed ==
  ASSUME CapInv, Holders \subseteq Holders', NEW n \in Nodes,
         node[n] = "waiting", run[RunOf[n]] = "open", ~Starves(n)
  PROVE  ~Starves(n)'
<1>1. IsFiniteSet(Holders') /\ Cardinality(Holders') \in Nat
  <2>1. Holders' \subseteq Nodes
    BY DEF Holders
  <2> QED
    BY <2>1, AdmissionAssumption, FS_Subset, FS_CardinalityType
<1>2. Cardinality(Holders) <= Cardinality(Holders')
  BY <1>1, FS_Subset
<1>3. ~(Cardinality(Holders) < Cap)
  BY DEF Starves
<1>4. ~(Cardinality(Holders') < Cap)
  BY <1>1, <1>2, <1>3, HoldersFinite, AdmissionAssumption
<1> QED
  BY <1>4 DEF Starves

\* Whoever takes a holder away, re-drives the queue.
LEMMA FreedStep ==
  ASSUME Reopens = {}, OfferInv, [Next]_vars, NEW n \in Nodes,
         ~SpawnFails, ~LiveRunArchived, ~(\E m \in Nodes : EndRunLast(m))
  PROVE  Holders \subseteq Holders' \/ Offered(n)'
<1> USE DEF OfferInv, CapInv, TypeInv, TypeOK
<1>0. RunOf[n] \in Runs
  BY AdmissionAssumption
<1>1. ASSUME NEW t \in Tasks,
             \/ \E r \in Runs : VisitRun(t, r)
             \/ Finish(t) \/ (\E m \in Nodes : Probe(t, m)) \/ TakeLock(t) \/ Count(t)
      PROVE  Holders' = Holders
  BY <1>1 DEF VisitRun, Finish, Probe, TakeLock, Count, Holders, LiveRun
<1>2. ASSUME NEW t \in Tasks, Reserve(t) PROVE Holders \subseteq Holders'
  <2> DEFINE m == task[t].node
  <2>1. m \in Nodes /\ task[t].step = "admit"
    BY <1>2 DEF Reserve, NodeKnown
  <2>2. CASE node' = [node EXCEPT ![m] = "running"]
    BY <1>2, <2>2 DEF Reserve, Holders, LiveRun
  <2>3. CASE node' = Interrupted(m)
    <3>1. node'[m] # "failed"
      BY <2>1 DEF SpawnFails
    <3>2. node' = node
      BY <2>1, <2>3, <3>1 DEF Interrupted
    <3> QED
      BY <1>2, <3>2 DEF Reserve, Holders, LiveRun
  <2> QED
    BY <1>2, <2>2, <2>3 DEF Reserve
<1>3. ASSUME NEW t \in Tasks, Throttle(t) PROVE Holders \subseteq Holders'
  <2>1. task[t].node \notin Holders
    BY <1>3 DEF Throttle, ThrottledHoldsNone
  <2> QED
    BY <1>3, <2>1 DEF Throttle, Holders, LiveRun
<1>4. ASSUME NEW t \in Tasks, SpawnSession(t) PROVE Holders \subseteq Holders'
  <2> DEFINE m == task[t].node
  <2>1. m \in Nodes /\ task[t].step = "tmux"
    BY <1>4 DEF SpawnSession, NodeKnown
  <2>2. node' = node
    BY <1>4, <2>1 DEF SpawnSession, SpawnFails, Interrupted
  <2> QED
    BY <1>4, <2>2 DEF SpawnSession, Holders, LiveRun
<1>5. ASSUME NEW m \in Nodes, NEW how \in {"done", "failed"}, NEW ends \in BOOLEAN,
             NEW last \in BOOLEAN, EndNode(m, how, ends, last)
      PROVE  Offered(n)'
  <2>1. task' = [task EXCEPT
                  ![Tail(m)] = [Idle EXCEPT !.step = "next", !.runs = Runs, !.last = last]]
    BY <1>5 DEF EndNode, Redrive
  <2>2. task'[Tail(m)].runs = Runs
    BY <2>1, TailIsTask DEF Idle
  <2> QED
    BY <1>0, <2>2, TailIsTask DEF Offered
<1>6. ASSUME NEW m \in Nodes, EndRun(m) PROVE Offered(n)'
  BY <1>0, <1>6, TailIsTask DEF EndRun, EndRunLast, Ends, Offered
<1>7. ASSUME NEW r \in Runs, Pause(r) \/ Resume(r) PROVE Holders \subseteq Holders'
  <2>1. node' = node /\ \A q \in Runs : LiveRun(q) => LiveRun(q)'
    BY <1>7 DEF Pause, Resume, LiveRun
  <2>2. \A m \in Nodes : RunOf[m] \in Runs
    BY AdmissionAssumption
  <2> QED
    BY <2>1, <2>2 DEF Holders, LiveRun
<1>8. ASSUME NEW r \in Runs, Cleanup(r) PROVE Holders \subseteq Holders'
  <2>1. ~LiveRun(r)
    BY <1>8 DEF Cleanup, LiveRunArchived
  <2> QED
    BY <1>8, <2>1 DEF Cleanup, Holders, LiveRun
<1>9. CASE UNCHANGED vars
  BY <1>9 DEF vars, Holders, LiveRun
<1> QED
  BY <1>1, <1>2, <1>3, <1>4, <1>5, <1>6, <1>7, <1>8, <1>9 DEF Next, TaskStep

\* However spawns, ends and pauses interleave, the step that frees a slot a
\* waiting node could have leaves a task that will offer it one: while no run is
\* reopened, and but for a failing spawn, the archiving of a live run and an end
\* by edges that come last.
THEOREM FreedSlotsOffered == ASSUME Reopens = {} PROVE Spec => FreedSlotIsOffered
<1> DEFINE Fair(n) ==
      FreesFor(n) /\ ~SpawnFails /\ ~LiveRunArchived /\ ~(\E m \in Nodes : EndRunLast(m))
        => Offered(n)'
<1>1. Init => OfferInv
  BY CapInvInit, FirstTasks DEF OfferInv, ThrottledHoldsNone
<1>2. OfferInv /\ [Next]_vars => OfferInv'
  BY CapStep, TypeInvStep, ExclusiveStep, ThrottledStep DEF OfferInv, CapInv
<1>3. OfferInv /\ [Next]_vars => \A n \in Nodes : Fair(n)
  BY FreedStep, NoneFreed DEF OfferInv, FreesFor
<1>4. OfferInv /\ [Next]_vars => [\A n \in Nodes : Fair(n)]_vars
  BY <1>3
<1> QED
  BY <1>1, <1>2, <1>4, PTL DEF Spec, FreedSlotIsOffered

(***************************************************************************)
(* The shared terminal.                                                    *)
(*                                                                         *)
(* Its safety: the roles every socket was told agree, the hand is only     *)
(* taken, and an idle follower has left its client with the flag of its role. *)
(***************************************************************************)
(***************************************************************************)
(* Orders kept as the set of the earlier (or the later) elements           *)
(***************************************************************************)
\* A finite set ordered by f, each element being mapped to those before it,
\* has an element with none before it.
LEMMA HasFirst ==
  ASSUME NEW S, IsFiniteSet(S), S # {}, NEW f,
         \A c \in S : c \notin f[c] /\ \A d \in f[c] \cap S : f[d] \cap S \subseteq f[c]
  PROVE  \E c \in S : f[c] \cap S = {}
<1> DEFINE U == {f[c] \cap S : c \in S}
           R == StrictSubsetOrdering(S)
           F == FiniteSubsetsOf(S)
<1>1. U \subseteq F /\ U # {}
  <2>1. \A c \in S : IsFiniteSet(f[c] \cap S)
    BY FS_Subset
  <2>2. \A c \in S : f[c] \cap S \in F
    BY <2>1 DEF FiniteSubsetsOf
  <2>3. U # {}
    <3>1. PICK c \in S : TRUE
      OBVIOUS
    <3>2. f[c] \cap S \in U
      BY <3>1
    <3> QED
      BY <3>2
  <2>4. U \subseteq F
    BY <2>2
  <2> QED
    BY <2>3, <2>4
<1>2. IsWellFoundedOn(R, F)
  BY FS_StrictSubsetOrderingWellFounded
<1>3. \E x \in U : \A y \in U : ~(<<y, x>> \in R)
  <2> HIDE DEF U, R, F
  <2> QED
    BY <1>1, <1>2, WFMin
<1>4. PICK c \in S : \A y \in U : ~(<<y, f[c] \cap S>> \in R)
  BY <1>3
<1>5. ASSUME NEW d \in f[c] \cap S PROVE FALSE
  <2>1. f[d] \cap S \in U
    OBVIOUS
  <2>2. f[d] \cap S \subseteq f[c] \cap S /\ d \notin f[d]
    OBVIOUS
  <2>3. <<f[d] \cap S, f[c] \cap S>> \in R
    BY <2>2 DEF StrictSubsetOrdering
  <2> QED
    BY <1>4, <2>1, <2>3
<1> QED
  BY <1>5

(***************************************************************************)
(* The inductive invariant                                                 *)
(***************************************************************************)
\* The order of f on the present connections.
Ordered(f) ==
  \A c \in conns : /\ f[c] \subseteq conns \ {c}
                   /\ \A d \in f[c] : f[d] \subseteq f[c]

\* A connection is of the presence from its join to its leave, and a follower
\* runs beside a live bridge only.
Attached ==
  \A c \in Conns : /\ c \in conns <=> phase[c] # "out"
                   /\ phase[c] # "live" => follower[c] = "off"

\* There is a pilot, a present one, exactly when there are several postes.
Handed ==
  /\ pilot = NoPoste <=> AtMostOne(Present)
  /\ pilot # NoPoste => pilot \in Present

\* What settle has gone over has been told its role.
Told ==
  \A c \in conns \ todo : /\ spectator[c] <=> RoleOf(c).role = "spectator"
                          /\ sent[c] = RoleOf(c)

\* A follower or an attachment with nothing unseen holds the flag of the role.
Followed ==
  \A c \in Conns \ Slow :
    ~unseen[c] =>
      /\ phase[c] = "flagged" => ignores[c] = spectator[c]
      /\ phase[c] = "live" /\ follower[c] = "idle" => ignores[c] = spectator[c]
      /\ phase[c] = "live" /\ follower[c] = "busy" => flag[c] = spectator[c]

Inv ==
  /\ TerminalTypeOK
  /\ IsFiniteSet(conns)
  /\ Ordered(before) /\ Ordered(newer)
  /\ \A c \in conns : newer[c] \subseteq resized
  /\ Attached /\ Handed /\ Told /\ Followed

\* The invariant holds before the first socket.
LEMMA InitInv == TerminalInit => Inv
<1> SUFFICES ASSUME TerminalInit PROVE Inv
  OBVIOUS
<1> USE SharedTerminalAssumption
<1>1. TerminalTypeOK
  BY DEF TerminalInit, TerminalTypeOK, NoFrame, Frame, RoleMsg, Phases
<1>2. IsFiniteSet(conns)
  BY FS_EmptySet DEF TerminalInit
<1>3. Ordered(before) /\ Ordered(newer) /\ \A c \in conns : newer[c] \subseteq resized
  BY DEF TerminalInit, Ordered
<1>4. Attached /\ Handed /\ Told /\ Followed
  BY DEF TerminalInit, Attached, Handed, Told, Followed, AtMostOne, Present
<1> QED
  BY <1>1, <1>2, <1>3, <1>4 DEF Inv

(***************************************************************************)
(* The registry                                                            *)
(***************************************************************************)
\* The connections of a pilot have one that no other of them was resized after.
LEMMA LastResized ==
  ASSUME Inv, NEW p, \E c \in conns : posteOf[c] = p
  PROVE  LET tabs == {c \in conns : posteOf[c] = p}
         IN  \E d \in tabs : newer[d] \cap tabs = {}
<1> DEFINE tabs == {c \in conns : posteOf[c] = p}
<1>1. IsFiniteSet(tabs) /\ tabs # {}
  BY FS_Subset DEF Inv
<1>2. \A c \in tabs : c \notin newer[c] /\ \A d \in newer[c] \cap tabs : newer[d] \cap tabs \subseteq newer[c]
  BY DEF Inv, Ordered
<1>3. \E d \in tabs : newer[d] \cap tabs = {}
  <2> HIDE DEF tabs
  <2> QED
    BY <1>1, <1>2, HasFirst
<1> QED
  BY <1>3

\* A role frame is a role frame.
LEMMA RoleType ==
  ASSUME Inv, NEW c \in conns
  PROVE  RoleOf(c) \in RoleMsg
<1> DEFINE tabs == {d \in conns : posteOf[d] = pilot}
<1> USE SharedTerminalAssumption
<1>1. CASE pilot = NoPoste
  BY <1>1 DEF RoleOf, Solo, Frame, RoleMsg
<1>2. CASE pilot # NoPoste /\ posteOf[c] = pilot
  <2>1. Present \ {pilot} \subseteq Postes
    BY DEF Present, Inv, TerminalTypeOK
  <2>2. Cardinality(Present \ {pilot}) \in Nat
    BY <2>1, FS_Subset, FS_CardinalityType
  <2> QED
    BY <1>2, <2>2 DEF RoleOf, Pilot, Frame, RoleMsg
<1>3. CASE pilot # NoPoste /\ posteOf[c] # pilot
  <2>1. \E d \in conns : posteOf[d] = pilot
    BY <1>3 DEF Inv, Handed, Present
  <2>2. \E d \in tabs : newer[d] \cap tabs = {}
    BY <2>1, LastResized
  <2>3. PilotSize \in Sizes
    BY <2>2 DEF PilotSize, Inv, TerminalTypeOK
  <2> QED
    BY <1>3, <2>3 DEF RoleOf, Spectator, Frame, RoleMsg
<1> QED
  BY <1>1, <1>2, <1>3

\* The roles depend on the registry's presence only.
LEMMA RoleStays ==
  ASSUME UNCHANGED presence, NEW c
  PROVE  RoleOf(c)' = RoleOf(c) /\ Present' = Present
<1>1. Present' = Present
  BY DEF presence, Present
<1>2. PilotSize' = PilotSize
  BY DEF presence, PilotSize
<1> QED
  BY <1>1, <1>2 DEF RoleOf, presence

\* The head of settle elects a present pilot exactly when there are several
\* postes.
LEMMA SettleHands ==
  ASSUME NEW p, Settle(p), Ordered(before)', IsFiniteSet(conns)', Present' \subseteq Postes
  PROVE  /\ Handed' /\ pilot' \in Postes \cup {NoPoste}
         /\ p \in Present' => pilot' \in {p, NoPoste}
         /\ ~AtMostOne(Present') =>
              \/ pilot' = p
              \/ \E c \in conns' : before'[c] \cap conns' = {} /\ pilot' = posteOf'[c]
<1> USE SharedTerminalAssumption
<1>1. CASE AtMostOne(Present')
  BY <1>1 DEF Settle, Handed
<1>2. CASE ~AtMostOne(Present') /\ p \in Present'
  BY <1>2 DEF Settle, Handed
<1>3. CASE ~AtMostOne(Present') /\ p \notin Present'
  <2>1. conns' # {}
    BY <1>3 DEF AtMostOne, Present
  <2>2. \A c \in conns' : c \notin before'[c] /\ \A d \in before'[c] \cap conns' : before'[d] \cap conns' \subseteq before'[c]
    BY DEF Ordered
  <2>3. \E c \in conns' : before'[c] \cap conns' = {}
    BY <2>1, <2>2, HasFirst
  <2>4. \E c \in conns' : before'[c] \cap conns' = {} /\ FirstArrived' = posteOf'[c]
    BY <2>3 DEF FirstArrived
  <2>5. pilot' = FirstArrived'
    BY <1>3 DEF Settle
  <2>6. pilot' \in Present'
    BY <2>4, <2>5 DEF Present
  <2> QED
    BY <1>3, <2>4, <2>5, <2>6 DEF Handed
<1> QED
  BY <1>1, <1>2, <1>3

(***************************************************************************)
(* Each action keeps the invariant                                         *)
(***************************************************************************)
\* A request that ends in settle keeps the invariant when it keeps the orders
\* and what concerns each connection alone.
LEMMA SettleInv ==
  ASSUME Inv, NEW p, Settle(p), posteOf' = posteOf,
         conns' \subseteq Conns, IsFiniteSet(conns'), resized' \subseteq conns',
         before' \in [Conns -> SUBSET Conns], newer' \in [Conns -> SUBSET Conns],
         size' \in [Conns -> Sizes], sent' \in [Conns -> RoleMsg],
         spectator' \in [Conns -> BOOLEAN], unseen' \in [Conns -> BOOLEAN],
         phase' \in [Conns -> Phases],
         client' \in [Conns -> {"none", "starting", "listed"}],
         ignores' \in [Conns -> BOOLEAN], flag' \in [Conns -> BOOLEAN],
         follower' \in [Conns -> {"off", "idle", "busy"}],
         Ordered(before)', Ordered(newer)',
         \A c \in conns' : newer'[c] \subseteq resized',
         Attached', Followed'
  PROVE  Inv'
<1>1. Present' \subseteq Postes
  BY SharedTerminalAssumption DEF Present, Inv, TerminalTypeOK
<1>2. Handed' /\ pilot' \in Postes \cup {NoPoste}
  BY <1>1, SettleHands
<1>3. todo' = conns'
  BY DEF Settle
<1>4. TerminalTypeOK'
  BY <1>2, <1>3 DEF TerminalTypeOK, Inv
<1>5. Told'
  BY <1>3 DEF Told
<1> QED
  BY <1>2, <1>4, <1>5 DEF Inv

\* A socket is the last of the arrived and finds every resize before its own.
LEMMA JoinInv == ASSUME Inv, NEW c \in Conns, Join(c) PROVE Inv'
<1> USE DEF Inv, TerminalTypeOK
<1>1. c \notin conns
  BY DEF Join, Attached
<1>2. conns' \subseteq Conns /\ IsFiniteSet(conns') /\ resized' \subseteq conns'
  <2>1. IsFiniteSet(conns \cup {c})
    BY FS_AddElement
  <2> QED
    BY <2>1 DEF Join
<1>3. before' \in [Conns -> SUBSET Conns] /\ newer' \in [Conns -> SUBSET Conns]
  BY DEF Join
<1>4. Ordered(before)'
  BY <1>1 DEF Join, Ordered
<1>5. Ordered(newer)' /\ \A d \in conns' : newer'[d] \subseteq resized'
  BY <1>1 DEF Join, Ordered
<1>6. phase' \in [Conns -> Phases] /\ Attached' /\ Followed'
  BY DEF Join, Phases, Attached, Followed, bridge
<1>7. Settle(pilot)
  BY DEF Join
<1>8. /\ posteOf' = posteOf /\ size' = size /\ sent' = sent
      /\ spectator' = spectator /\ unseen' = unseen
      /\ client' = client /\ ignores' = ignores /\ flag' = flag /\ follower' = follower
  BY DEF Join, bridge
<1> QED
  BY <1>2, <1>3, <1>4, <1>5, <1>6, <1>7, <1>8, SettleInv

\* A resize is the latest of the resizes.
LEMMA ResizeInv ==
  ASSUME Inv, NEW c \in Conns, NEW s \in Sizes, Resize(c, s) PROVE Inv'
<1> USE DEF Inv, TerminalTypeOK
<1>1. /\ conns' = conns /\ before' = before /\ posteOf' = posteOf /\ sent' = sent
      /\ spectator' = spectator /\ unseen' = unseen /\ phase' = phase
      /\ client' = client /\ ignores' = ignores /\ flag' = flag /\ follower' = follower
      /\ Settle(pilot)
  BY DEF Resize, bridge
<1>2. /\ size' \in [Conns -> Sizes] /\ resized' \subseteq conns'
      /\ newer' \in [Conns -> SUBSET Conns]
  BY DEF Resize
<1>3. Ordered(before)' /\ Attached' /\ Followed'
  BY <1>1 DEF Ordered, Attached, Followed
<1>4. \A d \in conns : newer'[d] = IF d = c THEN {} ELSE newer[d] \cup {c}
  BY DEF Resize
<1>5. Ordered(newer)' /\ \A d \in conns' : newer'[d] \subseteq resized'
  <2>1. c \in conns /\ resized' = resized \cup {c}
    BY DEF Resize
  <2>0. /\ \A d \in conns : newer[d] \subseteq conns \ {d} /\ newer[d] \subseteq resized
        /\ \A d \in conns : \A e \in newer[d] : newer[e] \subseteq newer[d]
    BY DEF Ordered
  <2> USE <2>0
  <2> HIDE DEF Inv, TerminalTypeOK
  <2>2. ASSUME NEW d \in conns PROVE newer'[d] \subseteq conns \ {d} /\ newer'[d] \subseteq resized'
    <3>1. newer'[d] = IF d = c THEN {} ELSE newer[d] \cup {c}
      BY <1>4
    <3> QED
      BY <2>1, <3>1
  <2>3. ASSUME NEW d \in conns, NEW e \in newer'[d] PROVE newer'[e] \subseteq newer'[d]
    <3>1. CASE e = c
      BY <1>4, <2>1, <3>1
    <3>2. CASE e # c
      <4>0. newer'[d] = IF d = c THEN {} ELSE newer[d] \cup {c}
        BY <1>4
      <4>1. d # c /\ e \in newer[d] /\ e \in conns
        BY <3>2, <4>0
      <4>2. newer[e] \subseteq newer[d]
        BY <4>1
      <4> QED
        BY <1>4, <3>2, <4>1, <4>2
    <3> QED
      BY <3>1, <3>2
  <2> QED
    BY <1>1, <2>2, <2>3 DEF Ordered
<1>6. conns' \subseteq Conns /\ IsFiniteSet(conns')
  BY <1>1
<1> QED
  BY <1>1, <1>2, <1>3, <1>5, <1>6, SettleInv

\* Taking the hand changes the pilot only.
LEMMA TakeControlInv == ASSUME Inv, NEW c \in Conns, TakeControl(c) PROVE Inv'
<1> USE DEF Inv, TerminalTypeOK
<1>1. /\ conns' = conns /\ before' = before /\ newer' = newer /\ resized' = resized
      /\ size' = size /\ posteOf' = posteOf /\ sent' = sent
      /\ spectator' = spectator /\ unseen' = unseen /\ phase' = phase
      /\ client' = client /\ ignores' = ignores /\ flag' = flag /\ follower' = follower
      /\ Settle(posteOf[c])
  BY DEF TakeControl, bridge
<1>2. Ordered(before)' /\ Ordered(newer)' /\ Attached' /\ Followed'
  BY <1>1 DEF Ordered, Attached, Followed
<1>3. \A d \in conns' : newer'[d] \subseteq resized'
  BY <1>1
<1>4. conns' \subseteq Conns /\ IsFiniteSet(conns') /\ resized' \subseteq conns'
  BY <1>1
<1> QED
  BY <1>1, <1>2, <1>3, <1>4, SettleInv

\* A connection that leaves is taken out of both orders.
LEMMA LeaveInv == ASSUME Inv, NEW c \in Conns, Leave(c) PROVE Inv'
<1> USE DEF Inv, TerminalTypeOK
<1>1. conns' \subseteq Conns /\ IsFiniteSet(conns') /\ resized' \subseteq conns'
  <2>1. IsFiniteSet(conns \ {c})
    BY FS_Subset
  <2> QED
    BY <2>1 DEF Leave
<1>2. before' \in [Conns -> SUBSET Conns] /\ newer' \in [Conns -> SUBSET Conns]
  BY DEF Leave
<1>3. Ordered(before)'
  BY DEF Leave, Ordered
<1>4. Ordered(newer)' /\ \A d \in conns' : newer'[d] \subseteq resized'
  BY DEF Leave, Ordered
<1>5. size' \in [Conns -> Sizes] /\ sent' \in [Conns -> RoleMsg]
  BY SharedTerminalAssumption DEF Leave, NoFrame, Frame, RoleMsg
<1>6. /\ spectator' \in [Conns -> BOOLEAN] /\ unseen' \in [Conns -> BOOLEAN]
      /\ phase' \in [Conns -> Phases]
      /\ client' \in [Conns -> {"none", "starting", "listed"}]
      /\ ignores' \in [Conns -> BOOLEAN] /\ flag' \in [Conns -> BOOLEAN]
      /\ follower' \in [Conns -> {"off", "idle", "busy"}]
  BY DEF Leave, Phases
<1>7. Attached' /\ Followed'
  BY DEF Leave, Attached, Followed
<1>8. Settle(pilot) /\ posteOf' = posteOf
  BY DEF Leave
<1> QED
  BY <1>1, <1>2, <1>3, <1>4, <1>5, <1>6, <1>7, <1>8, SettleInv

\* What the registry's presence settles alone stays when it is unchanged.
LEMMA PresenceStays ==
  ASSUME Inv, UNCHANGED presence
  PROVE  /\ IsFiniteSet(conns)' /\ Ordered(before)' /\ Ordered(newer)' /\ Handed'
         /\ \A c \in conns' : newer'[c] \subseteq resized'
<1>1. Present' = Present
  BY RoleStays
<1> QED
  BY <1>1 DEF Inv, presence, Ordered, Handed

\* A pushed role is the one the registry holds, and a role that turned is
\* unseen.
LEMMA PushInv == ASSUME Inv, NEW c \in Conns, Push(c) PROVE Inv'
<1> USE DEF Inv
<1>1. UNCHANGED presence /\ UNCHANGED bridge
  BY DEF Push
<1>2. c \in conns /\ RoleOf(c) \in RoleMsg
  BY RoleType DEF Push, TerminalTypeOK
<1>3. TerminalTypeOK'
  <2>1. todo' \subseteq conns' /\ sent' \in [Conns -> RoleMsg]
    BY <1>1, <1>2 DEF Push, TerminalTypeOK, presence
  <2>2. spectator' \in [Conns -> BOOLEAN] /\ unseen' \in [Conns -> BOOLEAN]
    BY DEF Push, TerminalTypeOK
  <2>3. phase' \in [Conns -> Phases]
    BY DEF Push, TerminalTypeOK, Phases
  <2> QED
    BY <1>1, <2>1, <2>2, <2>3 DEF TerminalTypeOK, presence, bridge
<1>4. Attached'
  BY <1>1 DEF Push, Attached, presence, bridge, TerminalTypeOK
<1>5. Told'
  <2>1. ASSUME NEW d \in conns' \ todo'
        PROVE  (spectator'[d] <=> RoleOf(d).role = "spectator") /\ sent'[d] = RoleOf(d)
    <3>1. CASE d = c
      BY <1>2, <3>1 DEF Push, TerminalTypeOK
    <3>2. CASE d # c
      BY <1>1, <3>2 DEF Push, Told, presence, TerminalTypeOK
    <3> QED
      BY <3>1, <3>2
  <2>2. \A d : RoleOf(d)' = RoleOf(d)
    BY <1>1, RoleStays
  <2> QED
    BY <2>1, <2>2 DEF Told
<1>6. Followed'
  <2> SUFFICES ASSUME NEW d \in Conns \ Slow, ~unseen'[d]
               PROVE  /\ phase'[d] = "flagged" => ignores'[d] = spectator'[d]
                      /\ phase'[d] = "live" /\ follower'[d] = "idle" => ignores'[d] = spectator'[d]
                      /\ phase'[d] = "live" /\ follower'[d] = "busy" => flag'[d] = spectator'[d]
    BY DEF Followed
  <2>1. ~unseen[d] /\ spectator'[d] = spectator[d]
    BY <1>2 DEF Push, TerminalTypeOK
  <2>2. phase'[d] \in {"flagged", "live"} => phase'[d] = phase[d]
    BY DEF Push
  <2> QED
    BY <1>1, <2>1, <2>2 DEF Followed, bridge
<1> QED
  BY <1>1, <1>3, <1>4, <1>5, <1>6, PresenceStays

\* A step that leaves the registry and the roles alone keeps the invariant when
\* it keeps the types and what concerns each connection alone.
LEMMA OutsideInv ==
  ASSUME Inv, UNCHANGED <<presence, todo, spectator, sent>>, TerminalTypeOK', Attached', Followed'
  PROVE  Inv'
<1>1. \A d : RoleOf(d)' = RoleOf(d)
  BY RoleStays
<1>2. Told'
  BY <1>1 DEF Inv, Told, presence
<1> QED
  BY <1>2, PresenceStays DEF Inv

\* A client is born with the role its bridge read, and what changed since is
\* unseen.
LEMMA BridgeInv == ASSUME Inv, NEW c \in Conns, BridgeStep(c) \/ ClientListed(c) PROVE Inv'
<1>1. CASE ReadFlag(c)
  <2>1. TerminalTypeOK'
    BY <1>1 DEF ReadFlag, Inv, TerminalTypeOK, presence, Phases
  <2>2. Attached' /\ Followed'
    BY <1>1 DEF ReadFlag, Inv, TerminalTypeOK, presence, Attached, Followed
  <2>3. UNCHANGED <<presence, todo, spectator, sent>>
    BY <1>1 DEF ReadFlag
  <2> QED
    BY <2>1, <2>2, <2>3, OutsideInv
<1>2. CASE Attach(c)
  <2>1. TerminalTypeOK'
    BY <1>2 DEF Attach, Inv, TerminalTypeOK, presence, Phases
  <2>2. Attached' /\ Followed'
    BY <1>2 DEF Attach, Inv, TerminalTypeOK, presence, Attached, Followed
  <2>3. UNCHANGED <<presence, todo, spectator, sent>>
    BY <1>2 DEF Attach
  <2> QED
    BY <2>1, <2>2, <2>3, OutsideInv
<1>3. CASE ClientListed(c)
  <2>1. TerminalTypeOK'
    BY <1>3 DEF ClientListed, Inv, TerminalTypeOK, presence
  <2>2. Attached' /\ Followed'
    BY <1>3 DEF ClientListed, Inv, presence, Attached, Followed
  <2>3. UNCHANGED <<presence, todo, spectator, sent>>
    BY <1>3 DEF ClientListed
  <2> QED
    BY <2>1, <2>2, <2>3, OutsideInv
<1> QED
  BY <1>1, <1>2, <1>3 DEF BridgeStep

\* A follower reads the role when it marks it seen, and applies what it read.
LEMMA FollowerInv == ASSUME Inv, NEW c \in Conns, FollowerStep(c) PROVE Inv'
<1>1. CASE Follow(c)
  <2>1. TerminalTypeOK'
    BY <1>1 DEF Follow, Inv, TerminalTypeOK, presence
  <2>2. Attached' /\ Followed'
    BY <1>1 DEF Follow, Inv, TerminalTypeOK, presence, Attached, Followed
  <2>3. UNCHANGED <<presence, todo, spectator, sent>>
    BY <1>1 DEF Follow
  <2> QED
    BY <2>1, <2>2, <2>3, OutsideInv
<1>2. CASE Apply(c)
  <2>1. TerminalTypeOK'
    BY <1>2 DEF Apply, Inv, TerminalTypeOK, presence
  <2>2. Attached' /\ Followed'
    BY <1>2 DEF Apply, Inv, TerminalTypeOK, presence, Attached, Followed
  <2>3. UNCHANGED <<presence, todo, spectator, sent>>
    BY <1>2 DEF Apply
  <2> QED
    BY <2>1, <2>2, <2>3, OutsideInv
<1>3. CASE GiveUp(c)
  <2>1. TerminalTypeOK'
    BY <1>3 DEF GiveUp, Inv, TerminalTypeOK, presence, bridge
  <2>2. Attached' /\ Followed'
    BY <1>3 DEF GiveUp, Inv, TerminalTypeOK, presence, bridge, Attached, Followed
  <2>3. UNCHANGED <<presence, todo, spectator, sent>>
    BY <1>3 DEF GiveUp
  <2> QED
    BY <2>1, <2>2, <2>3, OutsideInv
<1> QED
  BY <1>1, <1>2, <1>3 DEF FollowerStep

\* Every step keeps the invariant.
LEMMA StepInv == Inv /\ [TerminalNext]_terminalVars => Inv'
<1> SUFFICES ASSUME Inv, [TerminalNext]_terminalVars PROVE Inv'
  OBVIOUS
<1>1. CASE UNCHANGED terminalVars
  <2>1. UNCHANGED <<presence, todo, spectator, sent, phase, unseen, bridge>>
    BY <1>1 DEF terminalVars
  <2>2. TerminalTypeOK' /\ Attached' /\ Followed'
    BY <2>1 DEF presence, bridge, Inv, TerminalTypeOK, Attached, Followed
  <2> QED
    BY <2>1, <2>2, OutsideInv
<1>2. ASSUME NEW c \in Conns, UserStep(c) PROVE Inv'
  BY <1>2, JoinInv, ResizeInv, TakeControlInv, LeaveInv DEF UserStep
<1>3. ASSUME NEW c \in Conns, Push(c) PROVE Inv'
  BY <1>3, PushInv
<1>4. ASSUME NEW c \in Conns, BridgeStep(c) \/ ClientListed(c) PROVE Inv'
  BY <1>4, BridgeInv
<1>5. ASSUME NEW c \in Conns, FollowerStep(c) PROVE Inv'
  BY <1>5, FollowerInv
<1> QED
  BY <1>1, <1>2, <1>3, <1>4, <1>5 DEF TerminalNext

\* The invariant holds in every behaviour.
LEMMA Invariant == TerminalSpec => []Inv
  BY InitInv, StepInv, PTL DEF TerminalSpec

(***************************************************************************)
(* The theorems                                                            *)
(***************************************************************************)
\* The variables of the terminal keep their types: a frame pushed to a socket
\* carries a count of spectators and a grid a browser has asked for.
THEOREM TerminalTypes == TerminalSpec => []TerminalTypeOK
<1>1. Inv => TerminalTypeOK
  BY DEF Inv
<1> QED
  BY <1>1, Invariant, PTL

\* Outside settle every socket was told the same story: who is the pilot, how
\* many watch, and the grid of the tab the pilot resized last.
THEOREM RolesAlwaysAgree == TerminalSpec => []RolesAgree
<1>1. ASSUME Inv PROVE RolesAgree
  <2> SUFFICES ASSUME todo = {}, NEW c \in conns
               PROVE  /\ spectator[c] <=> pilot # NoPoste /\ posteOf[c] # pilot
                      /\ sent[c].role = "solo" <=> AtMostOne(Present)
                      /\ sent[c].role = "pilot" <=> pilot = posteOf[c]
                      /\ spectator[c] =>
                           \E d \in conns :
                             /\ posteOf[d] = pilot /\ sent[c] = Spectator(size[d])
                             /\ \A e \in newer[d] \cap conns : posteOf[e] # pilot
    BY <1>1 DEF RolesAgree, Inv, Handed
  <2>1. (spectator[c] <=> RoleOf(c).role = "spectator") /\ sent[c] = RoleOf(c)
    BY <1>1 DEF Inv, Told
  <2>2. posteOf[c] # NoPoste
    BY <1>1, SharedTerminalAssumption DEF Inv, TerminalTypeOK
  <2>3. CASE pilot = NoPoste
    BY <1>1, <2>1, <2>2, <2>3 DEF RoleOf, Solo, Frame, Inv, Handed
  <2>4. CASE pilot # NoPoste /\ posteOf[c] = pilot
    BY <1>1, <2>1, <2>4 DEF RoleOf, Pilot, Frame, Inv, Handed
  <2>5. CASE pilot # NoPoste /\ posteOf[c] # pilot
    <3>1. RoleOf(c) = Spectator(PilotSize)
      BY <2>5 DEF RoleOf
    <3>2. RoleOf(c).role = "spectator"
      BY <3>1 DEF Spectator, Frame
    <3> DEFINE tabs == {d \in conns : posteOf[d] = pilot}
    <3>3. \E d \in tabs : newer[d] \cap tabs = {}
      <4>1. \E d \in conns : posteOf[d] = pilot
        BY <1>1, <2>5 DEF Inv, Handed, Present
      <4> QED
        BY <1>1, <4>1, LastResized
    <3>4. \E d \in tabs : newer[d] \cap tabs = {} /\ PilotSize = size[d]
      BY <3>3 DEF PilotSize
    <3> QED
      BY <1>1, <2>1, <2>5, <3>1, <3>2, <3>4 DEF Inv, Handed
  <2> QED
    BY <2>3, <2>4, <2>5
<1> QED
  BY <1>1, Invariant, PTL

\* A follower with nothing left to do has left its client with the flag of its
\* role.
THEOREM FlagsInSync == TerminalSpec => []FlagInSync
<1>1. Inv => FlagInSync
  BY DEF Inv, Followed, FlagInSync
<1> QED
  BY <1>1, Invariant, PTL

\* The hand is only ever taken: settle keeps the pilot as long as one of its
\* connections is there, and a poste that is joined by another becomes pilot.
THEOREM HandIsOnlyTaken == TerminalSpec => HandIsTaken
<1> DEFINE Taken ==
      /\ pilot # NoPoste /\ pilot \in Present' /\ pilot' # pilot /\ pilot' # NoPoste
           => \E c \in conns' : posteOf[c] = pilot' /\ sent[c].role = "spectator"
                                /\ conns' = conns
      /\ pilot = NoPoste /\ pilot' # NoPoste => pilot' \in Present
<1>1. ASSUME Inv, Inv', [TerminalNext]_terminalVars PROVE Taken \/ UNCHANGED terminalVars
  <2> USE SharedTerminalAssumption
  <2>1. CASE UNCHANGED presence
    BY <2>1 DEF presence
  <2>2. Present' \subseteq Postes /\ Ordered(before)' /\ IsFiniteSet(conns)' /\ Handed
    BY <1>1 DEF Inv, TerminalTypeOK, Present
  <2>3. ASSUME NEW c \in Conns, Join(c) PROVE Taken
    <3>1. Settle(pilot)
      BY <2>3 DEF Join
    <3>2. CASE pilot # NoPoste
      BY <2>2, <3>1, <3>2, SettleHands
    <3>3. CASE pilot = NoPoste /\ pilot' # NoPoste
      <4>1. ~AtMostOne(Present') /\ posteOf' = posteOf /\ conns' = conns \cup {c}
        BY <2>3, <3>1, <3>3 DEF Settle, Join
      <4>2. PICK d \in conns' : before'[d] \cap conns' = {} /\ pilot' = posteOf'[d]
        BY <2>2, <3>1, <3>3, <4>1, SettleHands
      <4>3. conns # {}
        BY <4>1 DEF AtMostOne, Present
      <4>4. before'[c] = conns
        BY <1>1, <2>3 DEF Join, Inv, TerminalTypeOK
      <4>5. d \in conns
        BY <4>1, <4>2, <4>3, <4>4
      <4> QED
        BY <3>3, <4>1, <4>2, <4>5 DEF Present
    <3> QED
      BY <3>2, <3>3
  <2>4. ASSUME NEW c \in Conns, (\E s \in Sizes : Resize(c, s)) \/ Leave(c) PROVE Taken
    <3>1. Settle(pilot) /\ conns' \subseteq conns /\ posteOf' = posteOf
      BY <2>4 DEF Resize, Leave
    <3>2. CASE pilot # NoPoste
      BY <2>2, <3>1, <3>2, SettleHands
    <3>3. CASE pilot = NoPoste
      <4>1. Present' \subseteq Present
        BY <3>1 DEF Present
      <4>2. AtMostOne(Present')
        BY <2>2, <3>3, <4>1 DEF Handed, AtMostOne
      <4>3. pilot' = NoPoste
        BY <3>1, <4>2 DEF Settle
      <4> QED
        BY <3>3, <4>3
    <3> QED
      BY <3>2, <3>3
  <2>5. ASSUME NEW c \in Conns, TakeControl(c) PROVE Taken
    <3>1. /\ Settle(posteOf[c]) /\ conns' = conns /\ posteOf' = posteOf
          /\ c \in conns /\ todo = {} /\ pilot # NoPoste /\ pilot # posteOf[c]
      BY <2>5 DEF TakeControl
    <3>2. posteOf[c] \in Present'
      BY <3>1 DEF Present
    <3>3. pilot' \in {posteOf[c], NoPoste}
      BY <2>2, <3>1, <3>2, SettleHands
    <3>4. sent[c].role = "spectator"
      BY <1>1, <3>1 DEF Inv, Told, RoleOf, Spectator, Frame
    <3> QED
      BY <3>1, <3>3, <3>4
  <2>6. ASSUME NEW c \in Conns, Push(c) \/ BridgeStep(c) \/ ClientListed(c) \/ FollowerStep(c)
        PROVE  UNCHANGED presence
    BY <2>6 DEF Push, BridgeStep, ReadFlag, Attach, ClientListed, FollowerStep, Follow, Apply, GiveUp
  <2> QED
    BY <1>1, <2>1, <2>3, <2>4, <2>5, <2>6 DEF TerminalNext, UserStep
<1>2. Inv /\ Inv' /\ [TerminalNext]_terminalVars => [Taken]_terminalVars
  BY <1>1
<1>3. [][Taken]_terminalVars => HandIsTaken
  BY PTL DEF HandIsTaken
<1> QED
  BY <1>2, <1>3, Invariant, PTL DEF TerminalSpec
=============================================================================
