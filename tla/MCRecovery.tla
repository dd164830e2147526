------------------------------ MODULE MCRecovery ------------------------------
(***************************************************************************)
(* A small instance of Recovery, and its liveness.                         *)
(***************************************************************************)
EXTENDS Recovery

CONSTANTS a, b

\* One node behind the other, and the two side by side.
MCWirings == {{<<a, b>>}, {}}

(***************************************************************************)
(* Liveness                                                                *)
(***************************************************************************)
\* A node that counts as running behind a dead session, in a run that accepts
\* node events, is noticed: whoever killed the session, and whichever spawn,
\* crash or re-attachment left it so.
Ghost(n) ==
  /\ RunAcceptsLifecycle(View(log)) /\ log.nodes[n].st = "running" /\ n \notin session

NoGhost == \A n \in Nodes : []<>~Ghost(n)

\* A session whose node is settled or out of the projection, or whose run is
\* archived, does not outlive it for ever: the tail reaps it, or the reaper
\* when a crash took the tail.
Leaked(n) ==
  /\ n \in session
  /\ ~Present(log, n) \/ SettledComplete(Row(n)) \/ log.status = "archived"

NoLeak == \A n \in Nodes : []<>~Leaked(n)

\* A running run that nothing drives and that is not whole is parked for the
\* operator.  A whole one whose last tail died is left as it is: neither sweep
\* nor boot completes a run.
Stuck ==
  /\ View(log).status = "running" /\ ~AllCompleted(View(log))
  /\ ~\E n \in Nodes : CanProgress(log.nodes[n].st)

NoSilentStall == []<>~Stuck

(***************************************************************************)
(* What the documentation says and the code does not do.                   *)
(***************************************************************************)
\* Re-opening a run parked by an interrupted node drops that node from the
\* projection, so that the scheduler starts it again: "without this, finalize
\* would re-derive AwaitingUser" (the comment in apply_command_event).
ReopenRedrives ==
  [][ReopenRun => \A n \in Nodes : log'.nodes[n].st # "interrupted"]_vars
=============================================================================
