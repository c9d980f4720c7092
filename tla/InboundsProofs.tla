--------------------------- MODULE InboundsProofs ---------------------------
(***************************************************************************)
(* Proofs about Inbounds, for any inbounds and ports and any number of     *)
(* listeners, coroutines and edits.                                        *)
(***************************************************************************)
EXTENDS Inbounds, TLAPS

\* The fillers of absent rows and idle tasks are of the types they fill.
LEMMA Fillers == AnyPort \in Ports /\ Idle \in Task /\ Idle.pc = "idle" /\ Idle.on = None
  BY NonEmptyAssumption DEF AnyPort, Idle, Task

LEMMA RequestType ==
  ASSUME TypeOK, NEW pc \in {"asked", "stop"}, NEW restart \in BOOLEAN,
         NEW i \in Inbounds, Request(pc, restart, i)
  PROVE  /\ tasks' \in [Tasks -> Task] /\ raced' \subseteq Inbounds
         /\ \A s \in Tasks : tasks'[s].pc \in {"wait", "bind"} <=> tasks'[s].on # None
  <1>1. PICK s \in Tasks :
             tasks' = [tasks EXCEPT ![s] = [Idle EXCEPT !.pc = pc, !.restart = restart, !.tag = i]]
    BY DEF Request
  <1>2. /\ [Idle EXCEPT !.pc = pc, !.restart = restart, !.tag = i] \in Task
        /\ [Idle EXCEPT !.pc = pc, !.restart = restart, !.tag = i].pc = pc
        /\ [Idle EXCEPT !.pc = pc, !.restart = restart, !.tag = i].on = None
    BY Fillers DEF Task
  <1>3. raced' \subseteq Inbounds
    BY DEF TypeOK, Request
  <1> QED
    BY <1>1, <1>2, <1>3 DEF TypeOK

LEMMA RowUpdates ==
  ASSUME NEW r \in Row
  PROVE  /\ [r EXCEPT !.state = "leaving"] \in Row
         /\ [r EXCEPT !.state = "gone"] \in Row
         /\ [r EXCEPT !.enabled = ~@] \in Row
         /\ \A v \in BOOLEAN, p \in Ports : [r EXCEPT !.enabled = v, !.port = p] \in Row
  BY DEF Row

LEMMA PhaseUpdate ==
  ASSUME NEW f \in [Listeners -> Listener], NEW l \in Listeners, NEW ph \in Phase
  PROVE  [f EXCEPT ![l].phase = ph] \in [Listeners -> Listener]
  <1>1. [f[l] EXCEPT !.phase = ph] \in Listener
    BY DEF Listener
  <1> QED
    BY <1>1

LEMMA PathsUpdate ==
  ASSUME NEW f \in [Listeners -> Listener], NEW l \in Listeners, NEW ps \in SUBSET Paths
  PROVE  [f EXCEPT ![l].paths = ps] \in [Listeners -> Listener]
  <1>1. [f[l] EXCEPT !.paths = ps] \in Listener
    BY DEF Listener
  <1> QED
    BY <1>1

LEMMA InitType == Init => TypeOK
  BY Fillers, BoundsAssumption
     DEF Init, TypeOK, Row, Listener, Phase, None, Listeners, Tasks

LEMMA PanelType ==
  ASSUME TypeOK, NEW i \in Inbounds, PanelStep(i)
  PROVE  TypeOK'
  <1> USE Fillers, BoundsAssumption DEF TypeOK, manager, stops, None
  <1>1. CASE CreateInbound(i)
    <2>1. PICK p \in Ports :
             rows' = [rows EXCEPT ![i] = [state |-> "live", enabled |-> TRUE, port |-> p]]
      BY <1>1 DEF CreateInbound
    <2>2. rows' \in [Inbounds -> Row]
      BY <2>1 DEF Row
    <2> QED
      BY <1>1, <2>2, RequestType DEF CreateInbound
  <1>2. CASE UpdateInbound(i)
    <2>1. PICK v \in BOOLEAN, p \in Ports :
             rows' = [rows EXCEPT ![i] = [rows[i] EXCEPT !.enabled = v, !.port = p]]
      BY <1>2 DEF UpdateInbound
    <2>2. rows' \in [Inbounds -> Row]
      BY <2>1, RowUpdates
    <2>3. edits' \in 0 .. MaxEdits
      BY <1>2 DEF UpdateInbound
    <2> QED
      BY <1>2, <2>2, <2>3, RequestType DEF UpdateInbound
  <1>3. CASE DeleteInbound(i)
    BY <1>3, RequestType, RowUpdates DEF DeleteInbound
  <1>4. CASE DeleteRow(i)
    BY <1>4, RowUpdates DEF DeleteRow
  <1>5. CASE BulkToggle(i)
    <2>1. edits' \in 0 .. MaxEdits
      BY <1>5 DEF BulkToggle
    <2>2. [rows[i] EXCEPT !.enabled = ~@] \in Row
      BY DEF Row
    <2> QED
      BY <1>5, <2>1, <2>2 DEF BulkToggle
  <1> QED
    BY <1>1, <1>2, <1>3, <1>4, <1>5 DEF PanelStep

LEMMA TaskType ==
  ASSUME TypeOK, NEW s \in Tasks, TaskStep(s)
  PROVE  TypeOK'
  <1> USE Fillers DEF TypeOK, manager, stops, None
  <1>9. CASE FindRow(s)
    <2>1. tasks[s] \in Task /\ rows[tasks[s].tag] \in Row
      BY DEF Task
    <2>2. [tasks[s] EXCEPT !.pc = "found", !.port = rows[tasks[s].tag].port] \in Task
      BY <2>1 DEF Task, Row
    <2> QED
      BY <1>9, <2>1, <2>2 DEF FindRow, Task
  <1>10. CASE HandOver(s)
    BY <1>10 DEF HandOver, Task
  <1>1. CASE StopNothing(s)
    BY <1>1 DEF StopNothing, Stopped, Task
  <1>2. CASE StopServer(s)
    <2> DEFINE i == tasks[s].tag  l == servers[i]
    <2>1. i \in Inbounds /\ l \in Listeners
      BY <1>2 DEF StopServer, Popped, Task
    <2>2. listeners' \in [Listeners -> Listener]
      <3>1. listeners[l].paths \ {Path[i]} \in SUBSET Paths /\ "closed" \in Phase
        BY <2>1 DEF Listener, Phase
      <3> HIDE DEF TypeOK
      <3>2. listeners \in [Listeners -> Listener]
        BY DEF TypeOK
      <3>3. \/ listeners' = [listeners EXCEPT ![l].paths = listeners[l].paths \ {Path[i]}]
            \/ listeners' = [listeners EXCEPT ![l].phase = "closed"]
        BY <1>2 DEF StopServer
      <3> HIDE DEF l, i
      <3> QED
        BY <2>1, <3>1, <3>2, <3>3, PhaseUpdate, PathsUpdate
    <2>3. called' \in [Listeners -> Nat]
      BY <1>2, <2>1 DEF StopServer
    <2>4. tasks' = [tasks EXCEPT ![s] = [@ EXCEPT !.pc = "wait", !.on = l]]
      BY <1>2 DEF StopServer
    <2>5. [tasks[s] EXCEPT !.pc = "wait", !.on = l] \in Task
      BY <2>1 DEF Task
    <2>6. l # 0
      BY <1>2 DEF StopServer, Popped
    <2>7. \A t \in Tasks : tasks'[t].pc \in {"wait", "bind"} <=> tasks'[t].on # None
      BY <2>4, <2>6 DEF Task
    <2> QED
      BY <1>2, <2>1, <2>2, <2>3, <2>4, <2>5, <2>7 DEF StopServer, Popped
  <1>3. CASE Waited(s)
    BY <1>3 DEF Waited, Stopped, Task
  <1>4. CASE ReadRows(s)
    BY <1>4 DEF ReadRows, Task, Row
  <1>5. CASE JoinMux(s)
    <2> DEFINE t == tasks[s]  l == muxes[t.port]
    <2>1. t \in Task /\ l \in Listeners /\ l = muxes[tasks[s].port]
      BY <1>5 DEF JoinMux, Task
    <2>2. listeners[l].paths \cup {Path[t.tag]} \in SUBSET Paths
      BY <2>1 DEF Listener, Paths, Task
    <2>3. listeners' \in [Listeners -> Listener]
      <3>1. listeners' = [listeners EXCEPT ![l].paths = listeners[l].paths \cup {Path[t.tag]}]
        BY <1>5 DEF JoinMux
      <3> HIDE DEF t, l
      <3> QED
        BY <2>1, <2>2, <3>1, PathsUpdate
    <2> QED
      BY <1>5, <2>1, <2>3 DEF JoinMux, Task
  <1>6. CASE NewListener(s)
    <2> PICK l \in Listeners :
             /\ listeners' = [listeners EXCEPT ![l] = [mux |-> tasks[s].tag \notin Plain,
                               paths |-> {}, port |-> tasks[s].port, phase |-> "binding"]]
             /\ tasks' = [tasks EXCEPT ![s] = [@ EXCEPT !.pc = "bind", !.on = l]]
      BY <1>6 DEF NewListener
    <2>1. listeners' \in [Listeners -> Listener]
      BY DEF Listener, Phase, Task
    <2>2. l # 0
      BY DEF Listeners
    <2>3. tasks[s] \in Task
      OBVIOUS
    <2>4. [tasks[s] EXCEPT !.pc = "bind", !.on = l] \in Task
      BY <2>2, <2>3 DEF Task
    <2>5. \A t \in Tasks : tasks'[t].pc \in {"wait", "bind"} <=> tasks'[t].on # None
      BY <2>2, <2>4 DEF Task
    <2> QED
      BY <1>6, <2>1, <2>4, <2>5 DEF NewListener
  <1>7. CASE Bind(s)
    <2>1. tasks[s].on \in Listeners /\ tasks[s].tag \in Inbounds /\ tasks[s].port \in Ports
      BY <1>7 DEF Bind, Task
    <2>2. listeners' \in [Listeners -> Listener]
      <3> DEFINE l == tasks[s].on
      <3>1. [listeners[l] EXCEPT !.phase = "open", !.paths = {Path[tasks[s].tag]}] \in Listener
        BY <2>1 DEF Listener, Paths, Phase
      <3> QED
        BY <1>7, <2>1, <3>1 DEF Bind
    <2> QED
      BY <1>7, <2>1, <2>2 DEF Bind, Task
  <1>8. CASE BindFail(s)
    <2>1. tasks[s].on \in Listeners
      BY <1>8 DEF BindFail, Task
    <2>2. listeners' \in [Listeners -> Listener]
      BY <1>8, <2>1, PhaseUpdate DEF BindFail, Phase
    <2>3. tasks' = [tasks EXCEPT ![s] = Idle]
      BY <1>8 DEF BindFail
    <2> QED
      BY <1>8, <2>2, <2>3 DEF BindFail
  <1> QED
    BY <1>1, <1>2, <1>3, <1>4, <1>5, <1>6, <1>7, <1>8, <1>9, <1>10 DEF TaskStep

LEMMA ListenerType ==
  ASSUME TypeOK, NEW l \in Listeners, ListenerStep(l)
  PROVE  TypeOK'
  <1> USE DEF TypeOK, stops, None
  <1>1. CASE StopMux(l)
    <2>1. listeners' \in [Listeners -> Listener]
      BY <1>1, PhaseUpdate DEF StopMux, Phase
    <2> QED
      BY <1>1, <2>1 DEF StopMux
  <1>2. CASE StopAgain(l)
    BY <1>2 DEF StopAgain, Listener
  <1>3. CASE CleanupDone(l)
    <2>1. listeners' \in [Listeners -> Listener]
      BY <1>3, PhaseUpdate DEF CleanupDone, Phase
    <2>2. listeners[l].port \in Ports
      BY DEF Listener
    <2>3. muxes' \in [Ports -> Listeners \cup {None}]
      BY <1>3, <2>2 DEF CleanupDone
    <2> QED
      BY <1>3, <2>1, <2>3 DEF CleanupDone
  <1>4. CASE ClientComes(l) \/ ClientGoes(l)
    BY <1>4 DEF ClientComes, ClientGoes
  <1> QED
    BY <1>1, <1>2, <1>3, <1>4 DEF ListenerStep

\* Every variable of the manager keeps its type, and a coroutine holds a
\* listener exactly while it waits for one or binds one (manager.py 54-121).
THEOREM TypeCorrect == Spec => []TypeOK
  <1>1. TypeOK /\ [Next]_vars => TypeOK'
    <2> SUFFICES ASSUME TypeOK, [Next]_vars PROVE TypeOK'
      OBVIOUS
    <2>1. CASE UNCHANGED vars
      BY <2>1 DEF TypeOK, vars, stops
    <2> QED
      BY <2>1, PanelType, TaskType, ListenerType DEF Next
  <1> QED
    BY InitType, <1>1, PTL DEF Spec
-----------------------------------------------------------------------------
(* No PortMux listens in vain *)

LEMMA TaskKeepsListeners ==
  ASSUME TypeOK, NoIdleListener, NEW s \in Tasks, TaskStep(s)
  PROVE  NoIdleListener'
  <1> USE DEF TypeOK, NoIdleListener, stops, None
  <1>1. CASE FindRow(s) \/ HandOver(s) \/ StopNothing(s) \/ Waited(s) \/ ReadRows(s)
    BY <1>1 DEF FindRow, HandOver, StopNothing, Waited, ReadRows, manager
  <1>2. CASE StopServer(s)
    <2> DEFINE l == servers[tasks[s].tag]
    <2>1. l \in Listeners
      BY <1>2 DEF StopServer, Popped, Task
    <2>2. CASE listeners[l].mux
      <3>1. \A m \in Listeners \ {l} :
               listeners'[m] = listeners[m] /\ called'[m] = called[m]
        BY <1>2, <2>1, <2>2 DEF StopServer
      <3>2. listeners'[l].paths = {} => called'[l] = called[l] + 1
        BY <1>2, <2>1, <2>2 DEF StopServer, Listener
      <3> QED
        BY <2>1, <3>1, <3>2
    <2>3. CASE ~listeners[l].mux
      BY <1>2, <2>1, <2>3 DEF StopServer, Listener
    <2> QED
      BY <2>2, <2>3
  <1>3. CASE JoinMux(s)
    BY <1>3 DEF JoinMux, Task, Listener
  <1>4. CASE NewListener(s)
    BY <1>4 DEF NewListener, Listener
  <1>5. CASE Bind(s)
    <2>1. tasks[s].on \in Listeners
      BY <1>5 DEF Bind, Task
    <2> QED
      BY <1>5, <2>1 DEF Bind, Listener
  <1>6. CASE BindFail(s)
    BY <1>6 DEF BindFail, Task, Listener
  <1> QED
    BY <1>1, <1>2, <1>3, <1>4, <1>5, <1>6 DEF TaskStep

LEMMA ListenerKeepsListeners ==
  ASSUME TypeOK, NoIdleListener, NEW l \in Listeners, ListenerStep(l)
  PROVE  NoIdleListener'
  <1> USE DEF TypeOK, NoIdleListener, stops
  <1>1. CASE StopMux(l)
    BY <1>1 DEF StopMux, Listener
  <1>2. CASE StopAgain(l)
    BY <1>2 DEF StopAgain, Listener
  <1>3. CASE CleanupDone(l)
    BY <1>3 DEF CleanupDone, Listener
  <1>4. CASE ClientComes(l) \/ ClientGoes(l)
    BY <1>4 DEF ClientComes, ClientGoes
  <1> QED
    BY <1>1, <1>2, <1>3, <1>4 DEF ListenerStep

\* A PortMux that listens with no path left is about to be stopped, however
\* many starts, stops and restarts overlap (manager.py 16-23, 65-92).
THEOREM NoMuxListensInVain == Spec => []NoIdleListener
  <1>1. Init => NoIdleListener
    BY DEF Init, NoIdleListener
  <1>2. ASSUME TypeOK, NoIdleListener, [Next]_vars PROVE NoIdleListener'
    <2>1. CASE UNCHANGED vars
      BY <1>2, <2>1 DEF NoIdleListener, vars
    <2>2. ASSUME NEW i \in Inbounds, PanelStep(i) PROVE NoIdleListener'
      BY <1>2, <2>2 DEF PanelStep, CreateInbound, UpdateInbound, DeleteInbound, DeleteRow,
         BulkToggle, manager, stops, NoIdleListener
    <2> QED
      BY <1>2, <2>1, <2>2, TaskKeepsListeners, ListenerKeepsListeners DEF Next
  <1> QED
    BY TypeCorrect, <1>1, <1>2, PTL DEF Spec
-----------------------------------------------------------------------------
(* Requests for other inbounds may overlap: no path outlives its server *)

\* An inbound that was never created has no server, and none works on it.
Absent ==
    \A i \in Inbounds : rows[i].state = "none" => servers[i] = None /\ NoTask(i) /\ i \notin raced

\* Unless its requests raced, one coroutine at a time works on an inbound.
Single ==
    \A s, t \in Tasks :
        tasks[s].pc # "idle" /\ tasks[t].pc # "idle" /\ tasks[s].tag = tasks[t].tag =>
            s = t \/ tasks[s].tag \in raced

\* Nor has the inbound a server where the coroutine has stopped it or is to start it.
Loose(t) ==
    \/ t.pc \in {"wait", "rows", "start", "bind"}
    \/ t.pc \in {"asked", "found"} /\ ~t.restart
Untied == \A s \in Tasks : Loose(tasks[s]) => servers[tasks[s].tag] = None \/ tasks[s].tag \in raced

\* And one that is deleted is only stopped, and has no server after that.
Stopping ==
    \A i \in Inbounds \ raced : rows[i].state \in {"leaving", "gone"} =>
        /\ NoTask(i) => servers[i] = None
        /\ \A s \in Tasks : tasks[s].tag = i /\ tasks[s].pc # "idle" =>
               ~tasks[s].restart /\ tasks[s].pc \in {"stop", "wait"}

Ordered == Absent /\ Single /\ Untied /\ Stopping
Tidy == TypeOK /\ Ordered /\ NoOrphanPath

\* What a request of the panel does to the coroutines.
LEMMA RequestTask ==
  ASSUME TypeOK, NEW pc \in {"asked", "stop"}, NEW restart \in BOOLEAN,
         NEW i \in Inbounds, Request(pc, restart, i)
  PROVE  /\ \E s \in Tasks : /\ tasks[s].pc = "idle" /\ tasks'[s].pc = pc
                             /\ tasks'[s].tag = i /\ tasks'[s].restart = restart
                             /\ \A t \in Tasks \ {s} : tasks'[t] = tasks[t]
         /\ raced \subseteq raced' /\ raced' \subseteq raced \cup {i}
         /\ i \notin raced' => NoTask(i) /\ rows[i].state # "leaving"
  <1>1. PICK s \in Tasks :
             /\ tasks[s].pc = "idle"
             /\ tasks' = [tasks EXCEPT ![s] = [Idle EXCEPT !.pc = pc, !.restart = restart, !.tag = i]]
    BY DEF Request
  <1>2. /\ [Idle EXCEPT !.pc = pc, !.restart = restart, !.tag = i].pc = pc
        /\ [Idle EXCEPT !.pc = pc, !.restart = restart, !.tag = i].tag = i
        /\ [Idle EXCEPT !.pc = pc, !.restart = restart, !.tag = i].restart = restart
    BY Fillers DEF Task
  <1>3. /\ tasks[s].pc = "idle" /\ tasks'[s].pc = pc /\ tasks'[s].tag = i
        /\ tasks'[s].restart = restart /\ \A t \in Tasks \ {s} : tasks'[t] = tasks[t]
    BY <1>1, <1>2 DEF TypeOK
  <1>4. /\ raced \subseteq raced' /\ raced' \subseteq raced \cup {i}
        /\ i \notin raced' => NoTask(i) /\ rows[i].state # "leaving"
    BY DEF Request
  <1> QED
    BY <1>3, <1>4

\* A request for i that finds it in order leaves it so, and so the others.
LEMMA RequestOrdered ==
  ASSUME TypeOK, Ordered, NEW pc \in {"asked", "stop"}, NEW restart \in BOOLEAN,
         NEW i \in Inbounds, Request(pc, restart, i), servers' = servers,
         \A j \in Inbounds \ {i} : rows'[j] = rows[j],
         rows'[i].state # "none",
         pc = "asked" /\ ~restart => rows[i].state = "none",
         rows[i].state = "none" => pc = "asked" /\ ~restart,
         i \notin raced' => (rows'[i].state \in {"leaving", "gone"} => pc = "stop" /\ ~restart)
  PROVE  Ordered'
  <1>1. PICK s \in Tasks : /\ tasks[s].pc = "idle" /\ tasks'[s].pc = pc
                           /\ tasks'[s].tag = i /\ tasks'[s].restart = restart
                           /\ \A t \in Tasks \ {s} : tasks'[t] = tasks[t]
    BY RequestTask
  <1>2. /\ raced \subseteq raced' /\ raced' \subseteq raced \cup {i}
        /\ i \notin raced' => NoTask(i) /\ rows[i].state # "leaving"
    BY RequestTask
  <1>3. Absent'
    BY <1>1, <1>2 DEF Ordered, Absent, NoTask
  <1>4. Single'
    BY <1>1, <1>2 DEF Ordered, Single, NoTask
  <1>5. Untied'
    BY <1>1, <1>2 DEF Ordered, Absent, Untied, Loose
  <1>6. Stopping'
    BY <1>1, <1>2 DEF Ordered, Stopping, NoTask
  <1> QED
    BY <1>3, <1>4, <1>5, <1>6 DEF Ordered

LEMMA PanelTidy ==
  ASSUME Tidy, NEW i \in Inbounds, PanelStep(i), TypeOK'
  PROVE  Tidy'
  <1>1. TypeOK /\ Ordered /\ NoOrphanPath
    BY DEF Tidy
  <1>2. rows[i] \in Row /\ rows \in [Inbounds -> Row]
    BY <1>1 DEF TypeOK
  <1>3. servers' = servers /\ listeners' = listeners /\ raced \subseteq raced'
    BY <1>1, RequestTask
       DEF PanelStep, CreateInbound, UpdateInbound, DeleteInbound, DeleteRow, BulkToggle, manager
  <1>4. NoOrphanPath'
    BY <1>1, <1>3 DEF NoOrphanPath
  <1>5. CASE CreateInbound(i)
    <2>1. PICK p \in Ports :
             rows' = [rows EXCEPT ![i] = [state |-> "live", enabled |-> TRUE, port |-> p]]
      BY <1>5 DEF CreateInbound
    <2>2. rows[i].state = "none" /\ Request("asked", FALSE, i)
      BY <1>5 DEF CreateInbound
    <2>3. /\ rows'[i].state = "live" /\ \A j \in Inbounds \ {i} : rows'[j] = rows[j]
      BY <1>2, <2>1
    <2>4. Ordered'
      BY <1>1, <1>3, <2>2, <2>3, RequestOrdered
    <2> QED
      BY <1>4, <2>4 DEF Tidy
  <1>6. CASE UpdateInbound(i)
    <2>1. PICK v \in BOOLEAN, p \in Ports :
             rows' = [rows EXCEPT ![i] = [rows[i] EXCEPT !.enabled = v, !.port = p]]
      BY <1>6 DEF UpdateInbound
    <2>2. rows[i].state \in {"live", "leaving"} /\ Request("asked", TRUE, i)
      BY <1>6 DEF UpdateInbound, Known
    <2>3. /\ rows'[i].state = rows[i].state /\ \A j \in Inbounds \ {i} : rows'[j] = rows[j]
      BY <1>2, <2>1 DEF Row
    <2>4. i \notin raced' => rows[i].state # "leaving"
      BY <2>2 DEF Request
    <2>5. Ordered'
      BY <1>1, <1>3, <2>2, <2>3, <2>4, RequestOrdered
    <2> QED
      BY <1>4, <2>5 DEF Tidy
  <1>7. CASE DeleteInbound(i)
    <2>1. /\ rows[i].state \in {"live", "leaving"} /\ Request("stop", FALSE, i)
          /\ rows' = [rows EXCEPT ![i].state = "leaving"]
      BY <1>7 DEF DeleteInbound, Known
    <2>2. /\ rows'[i].state = "leaving" /\ \A j \in Inbounds \ {i} : rows'[j] = rows[j]
      BY <1>2, <2>1 DEF Row
    <2>3. Ordered'
      BY <1>1, <1>3, <2>1, <2>2, RequestOrdered
    <2> QED
      BY <1>4, <2>3 DEF Tidy
  <1>8. CASE DeleteRow(i) \/ BulkToggle(i)
    <2>1. /\ tasks' = tasks /\ raced' = raced /\ \A j \in Inbounds \ {i} : rows'[j] = rows[j]
          /\ rows'[i].state = "none" => rows[i].state = "none"
          /\ rows'[i].state \in {"leaving", "gone"} => rows[i].state \in {"leaving", "gone"}
      <3>1. CASE DeleteRow(i)
        BY <1>2, <3>1 DEF DeleteRow
      <3>2. CASE BulkToggle(i)
        BY <1>2, <3>2 DEF BulkToggle, Row
      <3> QED
        BY <1>8, <3>1, <3>2
    <2>2. Ordered'
      BY <1>1, <1>3, <2>1 DEF Ordered, Absent, Single, Untied, Loose, Stopping, NoTask
    <2> QED
      BY <1>4, <2>2 DEF Tidy
  <1> QED
    BY <1>5, <1>6, <1>7, <1>8 DEF PanelStep

\* What a step of a coroutine has to keep so that all stays in order.
LEMMA StepOrdered ==
  ASSUME TypeOK, Ordered, NEW s \in Tasks, NEW i \in Inbounds,
         tasks[s].tag = i, tasks[s].pc # "idle",
         rows' = rows, raced' = raced,
         \A t \in Tasks \ {s} : tasks'[t] = tasks[t],
         \A j \in Inbounds \ {i} : servers'[j] = servers[j],
         \/ tasks'[s].pc = "idle"
         \/ tasks'[s].tag = i /\ tasks'[s].restart = tasks[s].restart,
         i \notin raced =>
             /\ Loose(tasks'[s]) => servers'[i] = None
             /\ rows[i].state \in {"leaving", "gone"} =>
                   /\ tasks'[s].pc \in {"idle", "stop", "wait"}
                   /\ tasks'[s].pc = "idle" => servers'[i] = None
  PROVE  Ordered'
  <1>1. Absent'
    BY DEF Ordered, Absent, NoTask
  <1>2. Single'
    BY DEF Ordered, Single
  <1>3. \A t \in Tasks \ {s} : Loose(tasks[t]) => tasks[t].tag # i \/ i \in raced
    BY DEF Ordered, Single, Loose
  <1>4. Untied'
    <2> SUFFICES ASSUME NEW t \in Tasks, Loose(tasks'[t]), tasks'[t].tag \notin raced
                 PROVE  servers'[tasks'[t].tag] = None
      BY DEF Untied
    <2>1. CASE t = s
      BY <2>1 DEF Loose
    <2>2. CASE t # s
      <3>1. tasks[t].tag \in Inbounds
        BY DEF TypeOK, Task
      <3> QED
        BY <1>3, <2>2, <3>1 DEF Ordered, Untied
    <2> QED
      BY <2>1, <2>2
  <1>5. Stopping'
    BY DEF Ordered, Stopping, Single, NoTask
  <1> QED
    BY <1>1, <1>2, <1>4, <1>5 DEF Ordered

\* Where a stop leaves the coroutine.
LEMMA StoppedTask ==
  ASSUME TypeOK, NEW s \in Tasks, Stopped(s)
  PROVE  /\ \A t \in Tasks \ {s} : tasks'[t] = tasks[t]
         /\ \/ /\ tasks[s].restart /\ tasks'[s].pc = "rows" /\ tasks'[s].tag = tasks[s].tag
               /\ tasks'[s].restart = tasks[s].restart
            \/ ~tasks[s].restart /\ tasks'[s].pc = "idle"
  BY Fillers DEF TypeOK, Stopped, Task

LEMMA TaskTidy ==
  ASSUME Tidy, NEW s \in Tasks, TaskStep(s), TypeOK'
  PROVE  Tidy'
  <1>1. /\ TypeOK /\ Ordered /\ NoOrphanPath
        /\ rows' = rows /\ raced' = raced /\ tasks[s].pc # "idle"
    BY DEF Tidy, TaskStep, FindRow, HandOver, StopNothing, StopServer, Popped, Waited, ReadRows,
       JoinMux, NewListener, Bind, BindFail
  <1>2. PICK i \in Inbounds : i = tasks[s].tag
    BY <1>1 DEF TypeOK, Task
  <1>3. /\ tasks \in [Tasks -> Task] /\ tasks[s] \in Task
        /\ servers \in [Inbounds -> Listeners \cup {None}]
        /\ listeners \in [Listeners -> Listener]
    BY <1>1 DEF TypeOK
  <1>4. Loose(tasks[s]) => servers[i] = None \/ i \in raced
    BY <1>1, <1>2 DEF Ordered, Untied
  <1>5. /\ i \notin raced /\ rows[i].state \in {"leaving", "gone"} =>
              ~tasks[s].restart /\ tasks[s].pc \in {"stop", "wait"}
    BY <1>1, <1>2 DEF Ordered, Stopping
  <1>6. CASE FindRow(s) \/ HandOver(s) \/ ReadRows(s)
    <2>1. /\ servers' = servers /\ listeners' = listeners
          /\ \A t \in Tasks \ {s} : tasks'[t] = tasks[t]
          /\ tasks[s].pc \in {"asked", "found", "rows"}
      BY <1>3, <1>6 DEF FindRow, HandOver, ReadRows, manager
    <2>2. /\ \/ tasks'[s].pc = "idle"
             \/ tasks'[s].tag = i /\ tasks'[s].restart = tasks[s].restart
          /\ Loose(tasks'[s]) => Loose(tasks[s])
      <3>1. CASE FindRow(s)
        BY <1>2, <1>3, <3>1, Fillers DEF FindRow, Loose, Task
      <3>2. CASE HandOver(s)
        BY <1>2, <1>3, <3>2, Fillers DEF HandOver, Loose, Task
      <3>3. CASE ReadRows(s)
        BY <1>2, <1>3, <3>3, Fillers DEF ReadRows, Loose, Task
      <3> QED
        BY <1>6, <3>1, <3>2, <3>3
    <2>3. Ordered'
      BY <1>1, <1>2, <1>4, <1>5, <2>1, <2>2, StepOrdered
    <2>4. NoOrphanPath'
      BY <1>1, <2>1 DEF NoOrphanPath
    <2> QED
      BY <2>3, <2>4 DEF Tidy
  <1>7. CASE StopNothing(s) \/ Waited(s)
    <2>1. /\ servers' = servers /\ listeners' = listeners /\ Stopped(s)
          /\ tasks[s].pc \in {"stop", "wait"}
          /\ servers[i] = None \/ i \in raced
      BY <1>2, <1>4, <1>7 DEF StopNothing, Waited, manager, Loose
    <2>2. /\ \A t \in Tasks \ {s} : tasks'[t] = tasks[t]
          /\ \/ /\ tasks[s].restart /\ tasks'[s].pc = "rows" /\ tasks'[s].tag = i
                /\ tasks'[s].restart = tasks[s].restart
             \/ ~tasks[s].restart /\ tasks'[s].pc = "idle"
      BY <1>1, <1>2, <2>1, StoppedTask
    <2>3. Ordered'
      BY <1>1, <1>2, <1>5, <2>1, <2>2, StepOrdered
    <2>4. NoOrphanPath'
      BY <1>1, <2>1 DEF NoOrphanPath
    <2> QED
      BY <2>3, <2>4 DEF Tidy
  <1>8. CASE StopServer(s)
    <2>1. PICK l \in Listeners : l = servers[i]
      BY <1>2, <1>3, <1>8 DEF StopServer, Popped
    <2>2. /\ servers' = [servers EXCEPT ![i] = None] /\ tasks[s].pc = "stop"
          /\ tasks' = [tasks EXCEPT ![s] = [@ EXCEPT !.pc = "wait", !.on = l]]
      BY <1>2, <1>8, <2>1 DEF StopServer, Popped
    <2>3. /\ servers'[i] = None /\ \A j \in Inbounds \ {i} : servers'[j] = servers[j]
          /\ tasks'[s].pc = "wait" /\ tasks'[s].tag = i /\ tasks'[s].restart = tasks[s].restart
          /\ \A t \in Tasks \ {s} : tasks'[t] = tasks[t]
      BY <1>2, <1>3, <2>2 DEF Task
    <2>4. Ordered'
      BY <1>1, <1>2, <2>3, StepOrdered
    <2>5. \/ listeners' = [listeners EXCEPT ![l].paths = listeners[l].paths \ {Path[i]}]
          \/ listeners' = [listeners EXCEPT ![l].phase = "closed"]
      BY <1>2, <1>8, <2>1 DEF StopServer
    <2>6. /\ \A m \in Listeners \ {l} : listeners'[m] = listeners[m]
          /\ listeners'[l].phase = "open" =>
                listeners[l].phase = "open" /\ listeners'[l].paths = listeners[l].paths \ {Path[i]}
      BY <1>3, <2>5 DEF Listener
    <2>7. NoOrphanPath'
      <3> SUFFICES ASSUME NEW m \in Listeners, listeners'[m].phase = "open",
                          NEW p \in listeners'[m].paths
                   PROVE  \E j \in Inbounds : Path[j] = p /\ (servers'[j] = m \/ j \in raced')
        BY DEF NoOrphanPath
      <3>1. /\ listeners[m].phase = "open" /\ p \in listeners[m].paths
            /\ m = l => p # Path[i]
        BY <2>6
      <3>2. PICK j \in Inbounds : Path[j] = p /\ (servers[j] = m \/ j \in raced)
        BY <1>1, <3>1 DEF NoOrphanPath
      <3>3. CASE j \in raced
        BY <1>1, <3>2, <3>3
      <3>4. CASE servers[j] = m
        <4>1. j # i
          BY <2>1, <3>1, <3>2, <3>4
        <4> QED
          BY <2>3, <3>2, <3>4, <4>1
      <3> QED
        BY <3>2, <3>3, <3>4
    <2> QED
      BY <2>4, <2>7 DEF Tidy
  <1>9. CASE JoinMux(s) \/ Bind(s)
    <2>1. tasks[s].pc \in {"start", "bind"} /\ (servers[i] = None \/ i \in raced)
      BY <1>4, <1>9 DEF JoinMux, Bind, Loose
    <2>2. PICK l \in Listeners :
             /\ servers' = [servers EXCEPT ![i] = l] /\ tasks' = [tasks EXCEPT ![s] = Idle]
             /\ \/ listeners' = [listeners EXCEPT ![l].paths = listeners[l].paths \cup {Path[i]}]
                \/ listeners' = [listeners EXCEPT ![l] = [listeners[l] EXCEPT
                                     !.phase = "open", !.paths = {Path[i]}]]
      <3>1. CASE JoinMux(s)
        <4>1. PICK l \in Listeners : l = muxes[tasks[s].port]
          BY <1>1, <1>3, <3>1 DEF JoinMux, TypeOK, Task
        <4> QED
          BY <1>2, <3>1, <4>1 DEF JoinMux
      <3>2. CASE Bind(s)
        <4>1. PICK l \in Listeners : l = tasks[s].on
          BY <1>1, <1>3, <3>2 DEF Bind, TypeOK, Task
        <4> QED
          BY <1>2, <3>2, <4>1 DEF Bind
      <3> QED
        BY <1>9, <3>1, <3>2
    <2>3. /\ servers'[i] = l /\ \A j \in Inbounds \ {i} : servers'[j] = servers[j]
          /\ tasks'[s].pc = "idle" /\ \A t \in Tasks \ {s} : tasks'[t] = tasks[t]
      BY <1>3, <2>2, Fillers
    <2>4. ~Loose(tasks'[s])
      BY <2>3 DEF Loose
    <2>5. i \notin raced => rows[i].state \notin {"leaving", "gone"}
      BY <1>5, <2>1
    <2>6. Ordered'
      BY <1>1, <1>2, <2>3, <2>4, <2>5, StepOrdered
    <2>7. /\ \A m \in Listeners \ {l} : listeners'[m] = listeners[m]
          /\ \A p \in listeners'[l].paths : p = Path[i] \/ p \in listeners[l].paths
          /\ \/ listeners'[l].phase = listeners[l].phase
             \/ listeners'[l].paths = {Path[i]}
      <3>1. CASE listeners' = [listeners EXCEPT ![l].paths = listeners[l].paths \cup {Path[i]}]
        BY <1>3, <3>1 DEF Listener
      <3>2. CASE listeners' = [listeners EXCEPT ![l] = [listeners[l] EXCEPT
                                  !.phase = "open", !.paths = {Path[i]}]]
        BY <1>3, <3>2 DEF Listener
      <3> QED
        BY <2>2, <3>1, <3>2
    <2>8. NoOrphanPath'
      <3> SUFFICES ASSUME NEW m \in Listeners, listeners'[m].phase = "open",
                          NEW p \in listeners'[m].paths
                   PROVE  \E j \in Inbounds : Path[j] = p /\ (servers'[j] = m \/ j \in raced')
        BY DEF NoOrphanPath
      <3>1. CASE m = l /\ p = Path[i]
        BY <2>3, <3>1
      <3>2. CASE ~(m = l /\ p = Path[i])
        <4>1. listeners[m].phase = "open" /\ p \in listeners[m].paths
          BY <2>7, <3>2
        <4>2. PICK j \in Inbounds : Path[j] = p /\ (servers[j] = m \/ j \in raced)
          BY <1>1, <4>1 DEF NoOrphanPath
        <4>3. j # i \/ j \in raced
          BY <2>1, <4>2 DEF None, Listeners
        <4> QED
          BY <1>1, <2>3, <4>2, <4>3
      <3> QED
        BY <3>1, <3>2
    <2> QED
      BY <2>6, <2>8 DEF Tidy
  <1>10. CASE NewListener(s) \/ BindFail(s)
    <2>1. /\ servers' = servers /\ tasks[s].pc \in {"start", "bind"}
          /\ \A t \in Tasks \ {s} : tasks'[t] = tasks[t]
          /\ \/ tasks'[s].pc = "bind" /\ tasks'[s].tag = i /\ tasks'[s].restart = tasks[s].restart
             \/ tasks'[s].pc = "idle"
          /\ \A m \in Listeners : listeners'[m].phase = "open" => listeners'[m] = listeners[m]
      <3>1. CASE NewListener(s)
        BY <1>2, <1>3, <3>1 DEF NewListener, Task, Listener
      <3>2. CASE BindFail(s)
        BY <1>2, <1>3, <3>2, Fillers DEF BindFail, Task, Listener
      <3> QED
        BY <1>10, <3>1, <3>2
    <2>2. servers[i] = None \/ i \in raced
      BY <1>4, <2>1 DEF Loose
    <2>3. i \notin raced => rows[i].state \notin {"leaving", "gone"}
      BY <1>5, <2>1
    <2>4. Ordered'
      BY <1>1, <1>2, <2>1, <2>2, <2>3, StepOrdered
    <2>5. NoOrphanPath'
      BY <1>1, <2>1 DEF NoOrphanPath
    <2> QED
      BY <2>4, <2>5 DEF Tidy
  <1> QED
    BY <1>6, <1>7, <1>8, <1>9, <1>10 DEF TaskStep

LEMMA ListenerTidy ==
  ASSUME Tidy, NEW l \in Listeners, ListenerStep(l), TypeOK'
  PROVE  Tidy'
  <1>1. /\ UNCHANGED <<rows, servers, tasks, raced>>
        /\ \A m \in Listeners : listeners'[m].phase = "open" => listeners'[m] = listeners[m]
    BY DEF Tidy, TypeOK, ListenerStep, StopMux, StopAgain, CleanupDone, ClientComes,
       ClientGoes, Listener
  <1> QED
    BY <1>1 DEF Tidy, Ordered, Absent, Single, Untied, Loose, Stopping, NoTask, NoOrphanPath

LEMMA TidyHolds == Spec => []Tidy
  <1>1. Init => Tidy
    BY InitType, Fillers
       DEF Init, Tidy, Ordered, Absent, Single, Untied, Loose, Stopping, NoTask, NoOrphanPath
  <1>2. ASSUME Tidy, [Next]_vars, TypeOK' PROVE Tidy'
    <2>1. CASE UNCHANGED vars
      BY <1>2, <2>1 DEF vars, Tidy, Ordered, Absent, Single, Untied, Loose, Stopping, NoTask,
         NoOrphanPath
    <2> QED
      BY <1>2, <2>1, PanelTidy, TaskTidy, ListenerTidy DEF Next
  <1> QED
    BY TypeCorrect, <1>1, <1>2, PTL DEF Spec

\* Every path an open listener answers is that of an inbound whose server it is, or
\* for which two requests raced, however the requests for different inbounds overlap
\* on a port (manager.py 54-92, 113-121).
THEOREM PathsHaveServers == Spec => []NoOrphanPath
  <1>1. Tidy => NoOrphanPath
    BY DEF Tidy
  <1> QED
    BY TidyHolds, <1>1, PTL

\* An inbound that was deleted is served by nobody, whatever requests for others ran
\* at the same time, if its own followed one another and its path is its own
\* (docs/api.md 119, api.py 193-225).
THEOREM DeletedIsStopped == Spec => []DeletedIsNotServed
  <1>1. Tidy => DeletedIsNotServed
    <2> SUFFICES ASSUME Tidy, NEW i \in Inbounds \ raced, rows[i].state = "gone", NoTask(i),
                        Owns(i)
                 PROVE  servers[i] = None /\ \A l \in Listeners : ~Serves(l, i)
      BY DEF DeletedIsNotServed
    <2>1. servers[i] = None
      BY DEF Tidy, Ordered, Stopping
    <2>2. ASSUME NEW l \in Listeners, Serves(l, i) PROVE FALSE
      <3>1. PICK j \in Inbounds : Path[j] = Path[i] /\ (servers[j] = l \/ j \in raced)
        BY <2>2 DEF Serves, Tidy, NoOrphanPath
      <3> QED
        BY <2>1, <3>1 DEF None, Listeners, Owns
    <2> QED
      BY <2>1, <2>2
  <1> QED
    BY TidyHolds, <1>1, PTL
=============================================================================
