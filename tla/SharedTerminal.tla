---------------------------- MODULE SharedTerminal ----------------------------
(***************************************************************************)
(* One tmux session shown by several browsers ("postes"): the presence     *)
(* registry that names the pilot (shared_terminal.rs), the PTY bridge of   *)
(* each connection, and the task that keeps the `ignore-size' flag of the  *)
(* connection's tmux client in line with its role.                         *)
(*                                                                         *)
(* The registry is under a mutex, but what it writes is read outside it:   *)
(* settle updates the connections one after the other, and the bridges and *)
(* followers read their flag whenever they run.  The arrival clock is kept *)
(* as the two orders it is used for, so it needs no bound.                 *)
(***************************************************************************)
EXTENDS Naturals, FiniteSets

CONSTANTS
  Conns,        \* sockets; one that ended may be opened again
  Postes,       \* browsers
  Assignments,  \* connection -> its browser (an anonymous socket is one of its own)
  Resizers,     \* the connections whose browser changes its grid
  Sizes,        \* grids a browser may ask for
  InitialSize,  \* the grid of a fresh PTY
  Slow,         \* connections whose tmux client never answers refresh-client
  NoPoste       \* no pilot: the terminal is solo

ASSUME SharedTerminalAssumption ==
  /\ IsFiniteSet(Postes)
  /\ NoPoste \notin Postes
  /\ Assignments \subseteq [Conns -> Postes]
  /\ Resizers \subseteq Conns
  /\ InitialSize \in Sizes
  /\ Slow \subseteq Conns

VARIABLES
  conns,      \* the connections of the session's presence
  before,     \* connection -> the present ones that arrived before it
  newer,      \* connection -> the present ones resized since its last resize
  resized,    \* the present connections that were resized at all
  size,
  posteOf,    \* never changes
  pilot,
  todo,       \* the connections settle has yet to update; the mutex is held
              \* as long as there is one
  spectator,  \* the role flag: the bridge's input filter and the watch channel
  sent,       \* connection -> the last role frame pushed to it
  phase,      \* connection -> where its bridge is
  unseen,     \* the watch channel holds a value its reader has not seen
  client,     \* the tmux client of the connection
  ignores,    \* the `ignore-size' flag that client has
  follower,   \* follow_ignore_size: waiting for a change or applying one
  flag        \* the value it is applying

presence == <<conns, before, newer, resized, size, pilot, posteOf>>
bridge == <<client, ignores, follower, flag>>
terminalVars == <<presence, todo, spectator, sent, phase, unseen, bridge>>

\* "joining": inside join's critical section; "flagged": the flag the client
\* is to be born with is read.
Phases == {"out", "joining", "joined", "flagged", "live"}

\* A frame carries the number of spectators to the pilot and the pilot's grid
\* to a spectator.
Frame(r, n, s) == [role |-> r, spectators |-> n, pilot |-> s]
RoleMsg == [role : {"none", "solo", "pilot", "spectator"}, spectators : Nat, pilot : Sizes]
Solo == Frame("solo", 0, InitialSize)
Pilot(n) == Frame("pilot", n, InitialSize)
Spectator(s) == Frame("spectator", 0, s)
NoFrame == Frame("none", 0, InitialSize)

TerminalTypeOK ==
  /\ posteOf \in Assignments
  /\ conns \subseteq Conns /\ resized \subseteq conns /\ todo \subseteq conns
  /\ before \in [Conns -> SUBSET Conns] /\ newer \in [Conns -> SUBSET Conns]
  /\ size \in [Conns -> Sizes]
  /\ pilot \in Postes \cup {NoPoste}
  /\ spectator \in [Conns -> BOOLEAN] /\ unseen \in [Conns -> BOOLEAN]
  /\ sent \in [Conns -> RoleMsg]
  /\ phase \in [Conns -> Phases]
  /\ client \in [Conns -> {"none", "starting", "listed"}]
  /\ ignores \in [Conns -> BOOLEAN] /\ flag \in [Conns -> BOOLEAN]
  /\ follower \in [Conns -> {"off", "idle", "busy"}]

TerminalInit ==
  /\ posteOf \in Assignments
  /\ conns = {} /\ resized = {} /\ todo = {} /\ pilot = NoPoste
  /\ before = [c \in Conns |-> {}] /\ newer = [c \in Conns |-> {}]
  /\ size = [c \in Conns |-> InitialSize]
  /\ spectator = [c \in Conns |-> FALSE] /\ unseen = [c \in Conns |-> FALSE]
  /\ sent = [c \in Conns |-> NoFrame]
  /\ phase = [c \in Conns |-> "out"]
  /\ client = [c \in Conns |-> "none"] /\ ignores = [c \in Conns |-> FALSE]
  /\ follower = [c \in Conns |-> "off"] /\ flag = [c \in Conns |-> FALSE]

-----------------------------------------------------------------------------
\* The registry.

Present == {posteOf[c] : c \in conns}
AtMostOne(S) == \A p, q \in S : p = q

\* Mutated form: the hand goes to the last arrived.
LastArrived == posteOf[CHOOSE c \in conns : conns \ {c} \subseteq before[c]]

\* The poste whose oldest live connection is the oldest.
FirstArrived == posteOf[CHOOSE c \in conns : before[c] \cap conns = {}]

\* The grid of the pilot's connection that was resized last.
PilotSize ==
  LET tabs == {c \in conns : posteOf[c] = pilot}
  IN  size[CHOOSE c \in tabs : newer[c] \cap tabs = {}]

\* The head of settle: the pilot stays as long as one of its connections does.
Settle(p) ==
  /\ pilot' = IF AtMostOne(Present') THEN NoPoste
              ELSE IF p \in Present' THEN p ELSE FirstArrived'
  /\ todo' = conns'

RoleOf(c) ==
  IF pilot = NoPoste THEN Solo
  ELSE IF posteOf[c] = pilot THEN Pilot(Cardinality(Present \ {pilot}))
  ELSE Spectator(PilotSize)

\* The loop of settle, over the connections in the order they arrived; after
\* the last one the mutex is released and a join in progress returns.
Push(c) ==
  LET turned == spectator[c] # (RoleOf(c).role = "spectator")
  IN  /\ c \in todo /\ before[c] \cap todo = {}
      /\ todo' = todo \ {c}
      /\ spectator' = [spectator EXCEPT ![c] = RoleOf(c).role = "spectator"]
      /\ unseen' = [unseen EXCEPT ![c] = @ \/ turned]
      /\ sent' = [sent EXCEPT ![c] = RoleOf(c)]
      /\ phase' = [d \in Conns |-> IF phase[d] = "joining" /\ todo = {c}
                                   THEN "joined" ELSE phase[d]]
      /\ UNCHANGED <<presence, bridge>>

Join(c) ==
  /\ phase[c] = "out" /\ todo = {}
  /\ conns' = conns \cup {c}
  /\ before' = [before EXCEPT ![c] = conns]
  /\ newer' = [newer EXCEPT ![c] = resized]
  /\ phase' = [phase EXCEPT ![c] = "joining"]
  /\ UNCHANGED <<resized, size, posteOf, spectator, unseen, sent, bridge>>
  /\ Settle(pilot)

\* A resize or a request for the hand of a connection that left is ignored.
Resize(c, s) ==
  /\ c \in Resizers /\ phase[c] = "live" /\ c \in conns /\ todo = {}
  /\ size' = [size EXCEPT ![c] = s]
  /\ resized' = resized \cup {c}
  /\ newer' = [d \in Conns |-> IF d = c THEN {}
                         ELSE IF d \in conns THEN newer[d] \cup {c} ELSE newer[d]]
  /\ UNCHANGED <<conns, before, posteOf, spectator, unseen, sent, phase, bridge>>
  /\ Settle(pilot)

\* Mutated form: only the poste that takes the hand is told.
TakeControlQuietly(c) ==
  /\ phase[c] = "live" /\ c \in conns /\ todo = {}
  /\ pilot # NoPoste /\ pilot # posteOf[c]
  /\ pilot' = posteOf[c] /\ todo' = {c}
  /\ UNCHANGED <<conns, before, newer, resized, size, posteOf,
                 spectator, unseen, sent, phase, bridge>>

\* The pilot's own request and one in a solo terminal change nothing.
TakeControl(c) ==
  /\ phase[c] = "live" /\ c \in conns /\ todo = {}
  /\ pilot # NoPoste /\ pilot # posteOf[c]
  /\ UNCHANGED <<conns, before, newer, resized, size, posteOf,
                 spectator, unseen, sent, phase, bridge>>
  /\ Settle(posteOf[c])

\* The bridge ends: its setup failed, or one of its three tasks is over.  What
\* follows the hand-over, the end of the follower and of the client, concerns
\* this connection only.
Leave(c) ==
  /\ phase[c] \in {"flagged", "live"} /\ todo = {}
  /\ conns' = conns \ {c}
  /\ before' = [d \in Conns |-> IF d = c THEN {} ELSE before[d] \ {c}]
  /\ newer' = [d \in Conns |-> IF d = c THEN {} ELSE newer[d] \ {c}]
  /\ resized' = resized \ {c}
  /\ size' = [size EXCEPT ![c] = InitialSize]
  /\ sent' = [sent EXCEPT ![c] = NoFrame]
  /\ spectator' = [spectator EXCEPT ![c] = FALSE]
  /\ unseen' = [unseen EXCEPT ![c] = FALSE]
  /\ phase' = [phase EXCEPT ![c] = "out"]
  /\ client' = [client EXCEPT ![c] = "none"]
  /\ ignores' = [ignores EXCEPT ![c] = FALSE]
  /\ follower' = [follower EXCEPT ![c] = "off"]
  /\ flag' = [flag EXCEPT ![c] = FALSE]
  /\ UNCHANGED posteOf
  /\ Settle(pilot)

-----------------------------------------------------------------------------
\* The bridge of a connection and its follower.

\* borrow_and_update: the client will be started with the flag as it is now.
ReadFlag(c) ==
  /\ phase[c] = "joined"
  /\ phase' = [phase EXCEPT ![c] = "flagged"]
  /\ ignores' = [ignores EXCEPT ![c] = spectator[c]]
  /\ unseen' = [unseen EXCEPT ![c] = FALSE]
  /\ UNCHANGED <<presence, todo, spectator, sent, client, follower, flag>>

\* Mutated form: the follower subscribes when it starts: what changed before is seen.
AttachSubscribesLate(c) ==
  /\ phase[c] = "flagged"
  /\ phase' = [phase EXCEPT ![c] = "live"]
  /\ client' = [client EXCEPT ![c] = "starting"]
  /\ follower' = [follower EXCEPT ![c] = "idle"]
  /\ unseen' = [unseen EXCEPT ![c] = FALSE]
  /\ UNCHANGED <<presence, todo, spectator, sent, ignores, flag>>

\* tmux attach is spawned, and a follower on a clone of the receiver, which has
\* seen what the bridge saw.
Attach(c) ==
  /\ phase[c] = "flagged"
  /\ phase' = [phase EXCEPT ![c] = "live"]
  /\ client' = [client EXCEPT ![c] = "starting"]
  /\ follower' = [follower EXCEPT ![c] = "idle"]
  /\ UNCHANGED <<presence, todo, spectator, sent, unseen, ignores, flag>>

\* tmux lists the client: refresh-client finds it from now on.
ClientListed(c) ==
  /\ client[c] = "starting" /\ c \notin Slow
  /\ client' = [client EXCEPT ![c] = "listed"]
  /\ UNCHANGED <<presence, todo, spectator, sent, phase, unseen, ignores, follower, flag>>

Follow(c) ==
  /\ follower[c] = "idle" /\ unseen[c] /\ c \notin Slow
  /\ follower' = [follower EXCEPT ![c] = "busy"]
  /\ flag' = [flag EXCEPT ![c] = spectator[c]]
  /\ unseen' = [unseen EXCEPT ![c] = FALSE]
  /\ UNCHANGED <<presence, todo, spectator, sent, phase, client, ignores>>

\* Mutated form: the change is marked seen once it is applied, not when its value is read.
ApplyMarksSeen(c) ==
  /\ follower[c] = "busy" /\ client[c] = "listed"
  /\ ignores' = [ignores EXCEPT ![c] = flag[c]]
  /\ follower' = [follower EXCEPT ![c] = "idle"]
  /\ unseen' = [unseen EXCEPT ![c] = FALSE]
  /\ UNCHANGED <<presence, todo, spectator, sent, phase, client, flag>>

Apply(c) ==
  /\ follower[c] = "busy" /\ client[c] = "listed"
  /\ ignores' = [ignores EXCEPT ![c] = flag[c]]
  /\ follower' = [follower EXCEPT ![c] = "idle"]
  /\ UNCHANGED <<presence, todo, spectator, sent, phase, unseen, client, flag>>

\* All the attempts found no client: the change is dropped with a warning.
GiveUp(c) ==
  /\ follower[c] = "idle" /\ unseen[c] /\ c \in Slow
  /\ unseen' = [unseen EXCEPT ![c] = FALSE]
  /\ UNCHANGED <<presence, todo, spectator, sent, phase, bridge>>

BridgeStep(c) == ReadFlag(c) \/ Attach(c)
FollowerStep(c) == Follow(c) \/ Apply(c) \/ GiveUp(c)
UserStep(c) ==
  \/ Join(c)
  \/ \E s \in Sizes : Resize(c, s)
  \/ TakeControl(c)
  \/ Leave(c)

TerminalNext ==
  \E c \in Conns : \/ UserStep(c) \/ Push(c) \/ BridgeStep(c)
                   \/ ClientListed(c) \/ FollowerStep(c)

\* The daemon's tasks and tmux run; nothing is asked of the browsers.
Fairness ==
  \A c \in Conns : /\ WF_terminalVars(Push(c)) /\ WF_terminalVars(BridgeStep(c))
                   /\ WF_terminalVars(ClientListed(c)) /\ WF_terminalVars(FollowerStep(c))

TerminalSpec == TerminalInit /\ [][TerminalNext]_terminalVars /\ Fairness

-----------------------------------------------------------------------------
\* Outside settle every socket was told the same story: with one poste it is
\* solo and types; with several there is one pilot among those present, its
\* tabs type, everybody else's input is dropped, and every spectator renders
\* the grid of a tab of the pilot's that no other of its tabs was resized after.
RolesAgree ==
  todo = {} =>
    /\ pilot = NoPoste <=> AtMostOne(Present)
    /\ pilot # NoPoste => pilot \in Present
    /\ \A c \in conns :
         /\ spectator[c] <=> pilot # NoPoste /\ posteOf[c] # pilot
         /\ sent[c].role = "solo" <=> AtMostOne(Present)
         /\ sent[c].role = "pilot" <=> pilot = posteOf[c]
         /\ spectator[c] =>
              \E d \in conns : /\ posteOf[d] = pilot /\ sent[c] = Spectator(size[d])
                               /\ \A e \in newer[d] \cap conns : posteOf[e] # pilot

\* The hand is only ever taken: while the pilot has a connection left and
\* another poste is there, it stays pilot unless a spectator, told that it was
\* one, becomes the pilot.  A poste joined by a second one starts as the pilot.
HandIsTaken ==
  [][/\ pilot # NoPoste /\ pilot \in Present' /\ pilot' # pilot /\ pilot' # NoPoste
          => \E c \in conns' : posteOf[c] = pilot' /\ sent[c].role = "spectator"
                               /\ conns' = conns
     /\ pilot = NoPoste /\ pilot' # NoPoste => pilot' \in Present]_terminalVars

\* A follower with nothing left to do has left its client with the flag of its
\* role, whatever changed while the client was starting or the previous change
\* was being applied.
FlagInSync ==
  \A c \in Conns \ Slow :
    phase[c] = "live" /\ follower[c] = "idle" /\ ~unseen[c] => ignores[c] = spectator[c]

\* The window obeys the pilot: once the role of a connection no longer changes,
\* its client ends up listed with the matching ignore-size flag.
FlagCatchesUp ==
  \A c \in Conns \ Slow : \A v \in BOOLEAN :
    <>[](phase[c] = "live" /\ spectator[c] = v)
      => <>[](client[c] = "listed" /\ ignores[c] = v)

=============================================================================
