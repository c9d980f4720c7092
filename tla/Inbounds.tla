------------------------------ MODULE Inbounds ------------------------------
(***************************************************************************)
(* Start, stop and restart of inbounds: inbound/manager.py with the port   *)
(* multiplexer of inbound/port_mux.py, and the inbound endpoints of        *)
(* panel/api.py, which hand each of these to the loop as a coroutine.      *)
(*                                                                         *)
(* Inbounds of an HTTP transport that listen on the same port share one    *)
(* PortMux; the others (mixed, http2, grpc, plain TCP) have a server of    *)
(* their own.  A listener is either.  A step is a stretch of code between  *)
(* two awaits.                                                             *)
(***************************************************************************)
EXTENDS Naturals, FiniteSets

CONSTANTS
    Inbounds,      \* tags of rows of the inbounds table
    Plain,         \* those of a transport that is not HTTP
    Path,          \* the path of each inbound
    Ports,         \* ports: with listen_ip and the certificate, the key of a mux
    MaxListeners,  \* bound: listeners ever made
    MaxTasks,      \* bound: requests and manager coroutines under way at a time
    MaxEdits,      \* bound: updates and bulk toggles
    Bulk           \* the panel also uses its bulk endpoint

ASSUME PlainAssumption == Plain \subseteq Inbounds
ASSUME NonEmptyAssumption == Inbounds # {} /\ Ports # {}
ASSUME BoundsAssumption ==
    MaxListeners \in Nat /\ MaxTasks \in Nat /\ MaxEdits \in Nat /\ Bulk \in BOOLEAN

Listeners == 1 .. MaxListeners
Tasks == 1 .. MaxTasks
None == 0

VARIABLES
    rows,       \* the inbounds table
    servers,    \* _servers: the listener of each tag
    muxes,      \* _port_muxes: the listener of each port
    listeners,  \* the sockets and, of a PortMux, the paths in _handlers
    called,     \* _stop_mux coroutines that have not run yet
    cleaning,   \* _stop_mux coroutines that await the runner's cleanup
    busy,       \* connections of a listener are being handled
    tasks,      \* coroutines of _start_inbound, _stop_inbound, restart_inbound, with
                \* what the request that hands them over does before
    edits,      \* updates so far
    raced       \* history: inbounds for which two requests were under way at a time

stops == <<called, cleaning>>
vars == <<rows, servers, muxes, listeners, called, cleaning, busy, tasks, edits,
          raced>>

Paths == {Path[i] : i \in Inbounds}
Row == [state : {"none", "live", "leaving", "gone"}, enabled : BOOLEAN, port : Ports]
Phase == {"new", "binding", "open", "closing", "closed", "failed"}
Listener == [mux : BOOLEAN, port : Ports, phase : Phase, paths : SUBSET Paths]
Task == [pc : {"idle", "asked", "found", "stop", "wait", "rows", "start", "bind"},
         restart : BOOLEAN, tag : Inbounds, port : Ports, on : Listeners \cup {None}]

\* Fillers of a row that is not there and of a task that does not run.
AnyPort == CHOOSE p \in Ports : TRUE
Idle == [pc |-> "idle", restart |-> FALSE, tag |-> CHOOSE i \in Inbounds : TRUE,
         port |-> AnyPort, on |-> None]

TypeOK ==
    /\ rows \in [Inbounds -> Row]
    /\ servers \in [Inbounds -> Listeners \cup {None}]
    /\ muxes \in [Ports -> Listeners \cup {None}]
    /\ listeners \in [Listeners -> Listener]
    /\ called \in [Listeners -> Nat] /\ cleaning \in [Listeners -> Nat]
    /\ busy \in [Listeners -> BOOLEAN]
    /\ tasks \in [Tasks -> Task]
    /\ edits \in 0 .. MaxEdits /\ raced \subseteq Inbounds
    /\ \A s \in Tasks : tasks[s].pc \in {"wait", "bind"} <=> tasks[s].on # None

Init ==
    /\ rows = [i \in Inbounds |-> [state |-> "none", enabled |-> TRUE, port |-> AnyPort]]
    /\ servers = [i \in Inbounds |-> None]
    /\ muxes = [p \in Ports |-> None]
    /\ listeners = [l \in Listeners |->
                        [mux |-> FALSE, port |-> AnyPort, phase |-> "new", paths |-> {}]]
    /\ called = [l \in Listeners |-> 0] /\ cleaning = [l \in Listeners |-> 0]
    /\ busy = [l \in Listeners |-> FALSE]
    /\ tasks = [s \in Tasks |-> Idle]
    /\ edits = 0 /\ raced = {}
-----------------------------------------------------------------------------
(* The panel: each request hands one coroutine to the loop *)

Known(i) == rows[i].state \in {"live", "leaving"}
NoTask(i) == \A s \in Tasks : tasks[s].tag = i => tasks[s].pc = "idle"

\* A request for i begins.  One that finds another under way, or the row about to
\* be deleted, races with it.
Request(pc, restart, i) ==
    /\ \E s \in Tasks :
          /\ tasks[s].pc = "idle"
          /\ tasks' = [tasks EXCEPT ![s] = [Idle EXCEPT !.pc = pc, !.restart = restart,
                                                       !.tag = i]]
    /\ raced' = IF NoTask(i) /\ rows[i].state # "leaving" THEN raced ELSE raced \cup {i}

manager == <<servers, muxes, listeners, stops, busy>>

\* POST
CreateInbound(i) ==
    /\ rows[i].state = "none"
    /\ \E p \in Ports :
          rows' = [rows EXCEPT ![i] = [state |-> "live", enabled |-> TRUE, port |-> p]]
    /\ Request("asked", FALSE, i)
    /\ UNCHANGED <<manager, edits>>

\* PUT: enables, disables or moves the inbound, then restarts it.
UpdateInbound(i) ==
    /\ Known(i) /\ edits < MaxEdits
    /\ \E v \in BOOLEAN, p \in Ports :
          rows' = [rows EXCEPT ![i] = [@ EXCEPT !.enabled = v, !.port = p]]
    /\ Request("asked", TRUE, i)
    /\ edits' = edits + 1
    /\ UNCHANGED manager

\* POST and PUT get the row, if it is still there ...
FindRow(s) ==
    LET i == tasks[s].tag IN
    /\ tasks[s].pc = "asked"
    /\ tasks' = IF Known(i)
                THEN [tasks EXCEPT ![s] = [@ EXCEPT !.pc = "found", !.port = rows[i].port]]
                ELSE [tasks EXCEPT ![s] = Idle]
    /\ UNCHANGED <<rows, manager, edits, raced>>

\* ... and hand over a _start_inbound of the row they got, or a restart_inbound.
HandOver(s) ==
    /\ tasks[s].pc = "found"
    /\ tasks' = [tasks EXCEPT ![s].pc = IF tasks[s].restart THEN "stop" ELSE "start"]
    /\ UNCHANGED <<rows, manager, edits, raced>>

\* Mutant: looks for the inbound after its row has gone, and stops nothing.
DeleteUnstopped(i) ==
    /\ Known(i)
    /\ rows' = [rows EXCEPT ![i].state = "leaving"]
    /\ UNCHANGED <<manager, tasks, edits, raced>>

\* DELETE, one or in bulk: the stop is handed over, then the row goes.
DeleteInbound(i) ==
    /\ Known(i)
    /\ rows' = [rows EXCEPT ![i].state = "leaving"]
    /\ Request("stop", FALSE, i)
    /\ UNCHANGED <<manager, edits>>

DeleteRow(i) ==
    /\ rows[i].state = "leaving"
    /\ rows' = [rows EXCEPT ![i].state = "gone"]
    /\ UNCHANGED <<manager, tasks, edits, raced>>

\* Bulk enable and disable touch the row alone.
BulkToggle(i) ==
    /\ Bulk /\ Known(i) /\ edits < MaxEdits
    /\ rows' = [rows EXCEPT ![i].enabled = ~@]
    /\ edits' = edits + 1
    /\ UNCHANGED <<manager, tasks, raced>>
-----------------------------------------------------------------------------
(* _stop_inbound *)

\* restart_inbound goes on after its _stop_inbound.
Stopped(s) ==
    tasks' = [tasks EXCEPT ![s] =
                 IF @.restart THEN [@ EXCEPT !.pc = "rows", !.on = None] ELSE Idle]

\* There is no server under the tag.
StopNothing(s) ==
    /\ tasks[s].pc = "stop"
    /\ servers[tasks[s].tag] = None
    /\ Stopped(s)
    /\ UNCHANGED <<rows, manager, edits, raced>>

Popped(s) ==
    /\ tasks[s].pc = "stop"
    /\ servers[tasks[s].tag] # None
    /\ servers' = [servers EXCEPT ![tasks[s].tag] = None]

\* Mutant: looks whether the PortMux is empty before it removes the path.
StopServerEarly(s) ==
    LET l == servers[tasks[s].tag] IN
    /\ Popped(s)
    /\ IF listeners[l].mux
       THEN /\ listeners' = [listeners EXCEPT ![l].paths = @ \ {Path[tasks[s].tag]}]
            /\ called' = [called EXCEPT ![l] = IF listeners[l].paths = {} THEN @ + 1 ELSE @]
       ELSE /\ listeners' = [listeners EXCEPT ![l].phase = "closed"]
            /\ UNCHANGED called
    /\ tasks' = [tasks EXCEPT ![s] = [@ EXCEPT !.pc = "wait", !.on = l]]
    /\ UNCHANGED <<rows, muxes, cleaning, busy, edits, raced>>

\* Mutant: leaves the path of a closed server in the PortMux.
StopServerKeeps(s) ==
    LET l == servers[tasks[s].tag] IN
    /\ Popped(s)
    /\ IF listeners[l].mux THEN UNCHANGED listeners
       ELSE listeners' = [listeners EXCEPT ![l].phase = "closed"]
    /\ tasks' = [tasks EXCEPT ![s] = [@ EXCEPT !.pc = "wait", !.on = l]]
    /\ UNCHANGED <<rows, muxes, called, cleaning, busy, edits, raced>>

\* Mutant: waits without the server it has popped.
StopServerLost(s) ==
    LET l == servers[tasks[s].tag] IN
    /\ Popped(s)
    /\ IF listeners[l].mux THEN UNCHANGED listeners
       ELSE listeners' = [listeners EXCEPT ![l].phase = "closed"]
    /\ tasks' = [tasks EXCEPT ![s].pc = "wait"]
    /\ UNCHANGED <<rows, muxes, called, cleaning, busy, edits, raced>>

\* pop and close: a PortMux forgets the path and, if that was its last, a task
\* is made to stop it; another server closes its sockets.
StopServer(s) ==
    LET i == tasks[s].tag
        l == servers[i]
        left == listeners[l].paths \ {Path[i]}
    IN
    /\ Popped(s)
    /\ IF listeners[l].mux
       THEN /\ listeners' = [listeners EXCEPT ![l].paths = left]
            /\ called' = IF left = {} THEN [called EXCEPT ![l] = @ + 1] ELSE called
       ELSE /\ listeners' = [listeners EXCEPT ![l].phase = "closed"]
            /\ UNCHANGED called
    /\ tasks' = [tasks EXCEPT ![s] = [@ EXCEPT !.pc = "wait", !.on = l]]
    /\ UNCHANGED <<rows, muxes, cleaning, busy, edits, raced>>

\* wait_closed: for a path of a PortMux a tenth of a second, in which a _stop_mux
\* at least begins; for an asyncio server until its last connection has gone.
Waited(s) ==
    /\ tasks[s].pc = "wait"
    /\ IF listeners[tasks[s].on].mux THEN called[tasks[s].on] = 0 ELSE ~busy[tasks[s].on]
    /\ Stopped(s)
    /\ UNCHANGED <<rows, manager, edits, raced>>

\* get_inbounds: the row as it is now, if it is there and enabled.
ReadRows(s) ==
    LET r == rows[tasks[s].tag] IN
    /\ tasks[s].pc = "rows"
    /\ tasks' = IF Known(tasks[s].tag) /\ r.enabled
                THEN [tasks EXCEPT ![s] = [@ EXCEPT !.pc = "start", !.port = r.port]]
                ELSE [tasks EXCEPT ![s] = Idle]
    /\ UNCHANGED <<rows, manager, edits, raced>>
-----------------------------------------------------------------------------
(* _start_inbound *)

\* The PortMux of the port is known, listening or not: the path is added to it.
JoinMux(s) ==
    LET i == tasks[s].tag
        l == muxes[tasks[s].port]
    IN
    /\ tasks[s].pc = "start" /\ i \notin Plain
    /\ l # None
    /\ listeners' = [listeners EXCEPT ![l].paths = @ \cup {Path[i]}]
    /\ servers' = [servers EXCEPT ![i] = l]
    /\ tasks' = [tasks EXCEPT ![s] = Idle]
    /\ UNCHANGED <<rows, muxes, stops, busy, edits, raced>>

\* A new PortMux or server, whose sockets are bound across an await.
NewListener(s) ==
    LET i == tasks[s].tag IN
    /\ tasks[s].pc = "start"
    /\ i \in Plain \/ muxes[tasks[s].port] = None
    /\ \E l \in Listeners :
          /\ listeners[l].phase = "new"
          /\ \A m \in 1 .. l - 1 : listeners[m].phase # "new"
          /\ listeners' = [listeners EXCEPT ![l] = [mux |-> i \notin Plain, paths |-> {},
                              port |-> tasks[s].port, phase |-> "binding"]]
          /\ tasks' = [tasks EXCEPT ![s] = [@ EXCEPT !.pc = "bind", !.on = l]]
    /\ UNCHANGED <<rows, servers, muxes, stops, busy, edits, raced>>

Taken(p) == \E l \in Listeners : listeners[l].phase = "open" /\ listeners[l].port = p

\* The port is free: the listener opens with its first path, and is stored.
Bind(s) ==
    LET i == tasks[s].tag
        l == tasks[s].on
        p == tasks[s].port
    IN
    /\ tasks[s].pc = "bind" /\ ~Taken(p)
    /\ listeners' = [listeners EXCEPT ![l] = [@ EXCEPT !.phase = "open", !.paths = {Path[i]}]]
    /\ muxes' = IF i \in Plain THEN muxes ELSE [muxes EXCEPT ![p] = l]
    /\ servers' = [servers EXCEPT ![i] = l]
    /\ tasks' = [tasks EXCEPT ![s] = Idle]
    /\ UNCHANGED <<rows, stops, busy, edits, raced>>

\* The port is taken: the error is logged.
BindFail(s) ==
    /\ tasks[s].pc = "bind" /\ Taken(tasks[s].port)
    /\ listeners' = [listeners EXCEPT ![tasks[s].on].phase = "failed"]
    /\ tasks' = [tasks EXCEPT ![s] = Idle]
    /\ UNCHANGED <<rows, servers, muxes, stops, busy, edits, raced>>
-----------------------------------------------------------------------------
(* _stop_mux *)

\* PortMux.stop: cleanup closes the sockets first.
StopMux(l) ==
    /\ called[l] > 0
    /\ listeners[l].phase # "closed"
    /\ called' = [called EXCEPT ![l] = @ - 1]
    /\ cleaning' = [cleaning EXCEPT ![l] = @ + 1]
    /\ listeners' = [listeners EXCEPT ![l].phase = "closing"]
    /\ UNCHANGED <<rows, servers, muxes, busy, tasks, edits, raced>>

\* The runner is gone already: there is nothing to await.
StopAgain(l) ==
    /\ called[l] > 0
    /\ listeners[l].phase = "closed"
    /\ called' = [called EXCEPT ![l] = @ - 1]
    /\ muxes' = [muxes EXCEPT ![listeners[l].port] = None]
    /\ UNCHANGED <<rows, servers, listeners, cleaning, busy, tasks, edits, raced>>

\* The cleanup has waited for the requests being handled; the entry of the
\* port is popped, whatever it is by now.
CleanupDone(l) ==
    /\ cleaning[l] > 0
    /\ cleaning' = [cleaning EXCEPT ![l] = @ - 1]
    /\ listeners' = [listeners EXCEPT ![l].phase = "closed"]
    /\ muxes' = [muxes EXCEPT ![listeners[l].port] = None]
    /\ UNCHANGED <<rows, servers, called, busy, tasks, edits, raced>>

ClientComes(l) ==
    /\ listeners[l].phase = "open" /\ ~listeners[l].mux /\ ~busy[l]
    /\ busy' = [busy EXCEPT ![l] = TRUE]
    /\ UNCHANGED <<rows, servers, muxes, listeners, stops, tasks, edits, raced>>

ClientGoes(l) ==
    /\ busy[l]
    /\ busy' = [busy EXCEPT ![l] = FALSE]
    /\ UNCHANGED <<rows, servers, muxes, listeners, stops, tasks, edits, raced>>
-----------------------------------------------------------------------------
PanelStep(i) ==
    \/ CreateInbound(i) \/ UpdateInbound(i) \/ DeleteInbound(i) \/ DeleteRow(i)
    \/ BulkToggle(i)

TaskStep(s) ==
    \/ FindRow(s) \/ HandOver(s)
    \/ StopNothing(s) \/ StopServer(s) \/ Waited(s) \/ ReadRows(s)
    \/ JoinMux(s) \/ NewListener(s) \/ Bind(s) \/ BindFail(s)

ListenerStep(l) ==
    StopMux(l) \/ StopAgain(l) \/ CleanupDone(l) \/ ClientComes(l) \/ ClientGoes(l)

Next ==
    \/ \E i \in Inbounds : PanelStep(i)
    \/ \E s \in Tasks : TaskStep(s)
    \/ \E l \in Listeners : ListenerStep(l)

Spec == Init /\ [][Next]_vars
-----------------------------------------------------------------------------
(* Properties *)

Serves(l, i) == listeners[l].phase = "open" /\ Path[i] \in listeners[l].paths

\* A PortMux that listens with no path left is about to be stopped, however
\* starts, stops and restarts of its inbounds overlap (manager.py 16-23).
NoIdleListener ==
    \A l \in Listeners :
        listeners[l].mux /\ listeners[l].phase = "open" /\ listeners[l].paths = {} =>
            called[l] > 0

\* Every path a listener answers is that of an inbound whose server it is, so
\* that a stop of that inbound takes it away; however the starts and stops of
\* other inbounds overlap.  Two requests for one inbound can leave it a path that
\* no stop reaches (manager.py 54-92, 113-121).
NoOrphanPath ==
    \A l \in Listeners : listeners[l].phase = "open" =>
        \A p \in listeners[l].paths :
            \E i \in Inbounds : Path[i] = p /\ (servers[i] = l \/ i \in raced)

\* docs/api.md 119, "Stops and removes the inbound": so it is for an inbound of a
\* path of its own whose requests followed one another, whatever requests for
\* others, single or in bulk, ran at the same time on its port (api.py 193-225).
\* The docs make no exception; a stop that overtakes a start of its inbound leaves
\* it served, which is why those in raced are left out.
Owns(i) == \A j \in Inbounds : Path[j] = Path[i] => j = i
DeletedIsNotServed ==
    \A i \in Inbounds \ raced :
        rows[i].state = "gone" /\ NoTask(i) /\ Owns(i) =>
            servers[i] = None /\ \A l \in Listeners : ~Serves(l, i)

\* docs/api.md 82: "Restarts the inbound after updating".  An enabled inbound
\* that nothing competes with is served once its coroutine is done and no
\* PortMux is being stopped.
UpdatedIsServed ==
    (\A l \in Listeners : called[l] = 0 /\ cleaning[l] = 0) =>
        \A i \in Inbounds :
            rows[i].state = "live" /\ rows[i].enabled /\ NoTask(i) =>
                \E l \in Listeners : Serves(l, i)
=============================================================================
