--------------------------- MODULE RunTreeHistory ---------------------------
(***************************************************************************)
(* RunTree with two history variables: for an attempt at the gate and for  *)
(* the cascade the runs that came to life since it began, and for the      *)
(* cascade those it may not have seen when it did.                         *)
(***************************************************************************)
EXTENDS RunTree

VARIABLES rose, hidden

historyVars == <<vars, rose, hidden>>

Cascading == <<NoRun, Agent>>

\* A live or failed run holds its parent's node; a live one, and one that is not
\* archived, counts for the cascade.
LiveOrFailed(c) == V(c).status \in {"running", "awaiting", "paused", "failed"}
Live(c) == c \in here /\ IsLive(V(c).status)
Archived(c) == V(c).status = "archived"
Rises(k) ==
  {c \in Family : IF k = Cascading
                  THEN (Live(c)' /\ ~Live(c)) \/ (Archived(c) /\ ~Archived(c)')
                  ELSE /\ c \in here' /\ LiveOrFailed(c)'
                       /\ ~(c \in here /\ LiveOrFailed(c))}

Watches(k) == IF k = Cascading THEN cascade.root # NoRun
              ELSE try[k].at \in {"gate", "deliver"}

\* Runs that cannot be read are hidden, and what is below them.
Unseen == Unreadable \cup UNION {Descendants(u) : u \in Unreadable}

HistoryInit ==
  /\ Init
  /\ rose = [k \in Tries \cup {Cascading} |-> {}] /\ hidden = {}

HistoryNext ==
  /\ Next
  /\ rose' = [k \in Tries \cup {Cascading} |->
                IF Watches(k)' /\ Watches(k) THEN rose[k] \cup Rises(k) ELSE {}]
  /\ hidden' = CASE ~Watches(Cascading)' -> {}
                 [] Watches(Cascading)' /\ Watches(Cascading) -> hidden
                 [] Watches(Cascading)' /\ ~Watches(Cascading) -> Unseen

HistorySpec == HistoryInit /\ [][HistoryNext]_historyVars
HistoryFairSpec == HistorySpec /\ Fairness

\* The attempt completes its node.
Completes(t) ==
  /\ try[t].at = "deliver" /\ try'[t] = Free
  /\ State(t[1]) # "completed" /\ State(t[1])' = "completed"

\* The binding holds (ADR-0064): no attempt, its watcher's included, completes
\* a node above a child that is live or failed, unless that child came to life
\* while the attempt was past the reading of its children, or could not be read.
GateHolds ==
  [][\A t \in Tries : Completes(t) /\ t[1] \notin Unreadable =>
       {c \in Children(t[1]) \ Unreadable : LiveOrFailed(c)} \subseteq rose[t]]_historyVars

\* "Slower, never wrong": the same of every child.  One that cannot be read breaks
\* it (README, "Not kept").
GateNeverWrong ==
  [][\A t \in Tries : Completes(t) =>
       {c \in Children(t[1]) : LiveOrFailed(c)} \subseteq rose[t]]_historyVars

\* The cascade (#815) archives no live run, and no run above a live one, unless
\* it came to life behind the back of the cascade or was hidden from it; a
\* failure midway included.
NoOrphan ==
  [][\A c \in cascade.todo : V(c).status' = "archived" =>
       {d \in (Descendants(c) \ hidden) \cup ({c} \ {cascade.root}) : IsLive(V(d).status)}
         \subseteq rose[Cascading]]_historyVars

\* The cascade goes from the leaves to the root: a failure midway never leaves
\* an archived run above one that is not, unless that one is younger or hidden.
SubtreeFirst ==
  [][\A c \in cascade.todo : V(c).status' = "archived" =>
       {d \in Descendants(c) \ hidden : V(d).status # "archived"}
         \subseteq rose[Cascading]]_historyVars
=============================================================================
