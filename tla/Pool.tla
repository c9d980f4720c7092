-------------------------------- MODULE Pool --------------------------------
(***************************************************************************)
(* The client: its pool of mux sessions (client/pool.py), the choice       *)
(* between the pool and a connection of its own (client/connector.py), and *)
(* the connections that use them, of the SOCKS5 server (client/socks5.py)  *)
(* and of the stdio bridge (client/main.py).                               *)
(*                                                                         *)
(* A session is a number; its entry, the dict of _connect_session, is made *)
(* with it, so that sess holds both.  A number is used again when nothing  *)
(* refers to it any more.  The server is nondeterministic: a session ends  *)
(* and a stream is closed by the peer at any time.                         *)
(***************************************************************************)
EXTENDS Naturals, FiniteSets

CONSTANTS
    Size,        \* pool_size
    MaxSess,     \* bound: sessions that something refers to, at a time
    Socks,       \* connections of the SOCKS5 server
    Stdio,       \* connections of the stdio bridge
    MaxFaults    \* bound: streams that cannot be opened although the session runs

ASSUME SizeAssumption == Size \in Nat \ {0} /\ MaxSess \in Nat \ {0} /\ MaxFaults \in Nat
ASSUME ConnsAssumption ==
    IsFiniteSet(Socks) /\ IsFiniteSet(Stdio) /\ Socks \cap Stdio = {}

Slots == 1 .. Size
Sessions == 1 .. MaxSess
Conns == Socks \cup Stdio
None == 0

VARIABLES
    started,  \* _started
    worker,   \* the task of each slot
    cur,      \* _sessions: the entry of each slot
    sess,     \* sessions with their entries and watchers
    conns,    \* connections: where they stand, the session of their stream, and
              \* whether they still copy up and down, and whether their reader
              \* sleeps for good
    faults,   \* streams that could not be opened although the session ran
    stopped   \* the pool was stopped once

vars == <<started, worker, cur, sess, conns, faults, stopped>>

Unused == [st |-> "none", slot |-> 1, dead |-> FALSE, active |-> 0]
NewConn == [pc |-> "hello", via |-> None, up |-> FALSE, dn |-> FALSE, deaf |-> FALSE]

TypeOK ==
    /\ started \in BOOLEAN /\ stopped \in BOOLEAN /\ faults \in 0 .. MaxFaults
    /\ worker \in [Slots -> {"off", "connect", "poll", "delay"}]
    /\ \A s \in Slots : (worker[s] # "off") = started
    /\ cur \in [Slots -> Sessions \cup {None}]
    /\ \A s \in Slots : cur[s] # None => sess[cur[s]].slot = s /\ sess[cur[s]].st # "none"
    /\ sess \in [Sessions -> [st : {"none", "run", "over"}, slot : Slots,
                              dead : BOOLEAN, active : 0 .. Cardinality(Conns)]]
    /\ conns \in [Conns -> [pc : {"hello", "open", "dial", "reply", "relay", "lost",
                                  "done"},
                            via : Sessions \cup {None}, up : BOOLEAN, dn : BOOLEAN,
                            deaf : BOOLEAN]]

Init ==
    /\ started = FALSE /\ stopped = FALSE /\ faults = 0
    /\ worker = [s \in Slots |-> "off"]
    /\ cur = [s \in Slots |-> None]
    /\ sess = [i \in Sessions |-> Unused]
    /\ conns = [c \in Conns |-> NewConn]
-----------------------------------------------------------------------------
(* The pool *)

InUse(i) == \/ sess[i].st = "run"
            \/ \E s \in Slots : cur[s] = i
            \/ \E c \in Conns : conns[c].via = i

\* _connect_session: a new session takes the place of the slot's entry.
Connect(s) ==
    /\ worker[s] = "connect" /\ \E i \in Sessions : ~InUse(i)
    /\ worker' = [worker EXCEPT ![s] = "poll"]
    /\ LET i == CHOOSE j \in Sessions : ~InUse(j) IN
          /\ cur' = [cur EXCEPT ![s] = i]
          /\ sess' = [sess EXCEPT ![i] = [Unused EXCEPT !.st = "run", !.slot = s]]
    /\ UNCHANGED <<started, conns, faults, stopped>>

\* Mutant: a failure ends the worker.
ConnectFailsForGood(s) ==
    /\ worker[s] = "connect"
    /\ worker' = [worker EXCEPT ![s] = "off"]
    /\ UNCHANGED <<started, cur, sess, conns, faults, stopped>>

ConnectFails(s) ==
    /\ worker[s] = "connect"
    /\ worker' = [worker EXCEPT ![s] = "delay"]
    /\ UNCHANGED <<started, cur, sess, conns, faults, stopped>>

\* The worker looks every 0.5 s whether the entry of its slot is dead.
Poll(s) ==
    /\ worker[s] = "poll"
    /\ cur[s] = None \/ sess[cur[s]].dead
    /\ worker' = [worker EXCEPT ![s] = "delay"]
    /\ UNCHANGED <<started, cur, sess, conns, faults, stopped>>

Delay(s) ==
    /\ worker[s] = "delay"
    /\ worker' = [worker EXCEPT ![s] = "connect"]
    /\ UNCHANGED <<started, cur, sess, conns, faults, stopped>>

\* Mutant: only a run that returns, and not one that raises, marks the entry.
SessionEndsRaising(i) ==
    /\ sess[i].st = "run"
    /\ \E raises \in BOOLEAN :
          sess' = [j \in Sessions |->
                   IF j = i THEN [sess[i] EXCEPT !.st = "over",
                                                 !.dead = @ \/ (~raises /\ cur[sess[i].slot] = i)]
                   ELSE IF j = cur[sess[i].slot] THEN [sess[j] EXCEPT !.dead = @ \/ ~raises]
                   ELSE sess[j]]
    /\ UNCHANGED <<started, worker, cur, conns, faults, stopped>>

\* A session ends, and its watcher marks the entry that the slot has by now dead.
SessionEnds(i) ==
    /\ sess[i].st = "run"
    /\ sess' = [j \in Sessions |->
                [sess[j] EXCEPT !.st = IF j = i THEN "over" ELSE @,
                                !.dead = @ \/ j = cur[sess[i].slot]]]
    /\ UNCHANGED <<started, worker, cur, conns, faults, stopped>>

\* Mutant: stop does not cancel the workers.
StopKeeps ==
    /\ started
    /\ started' = FALSE /\ stopped' = TRUE
    /\ cur' = [s \in Slots |-> None]
    /\ UNCHANGED <<worker, sess, conns, faults>>

\* stop cancels the workers and forgets the sessions, which run on.
Stop ==
    /\ started
    /\ started' = FALSE /\ stopped' = TRUE
    /\ worker' = [s \in Slots |-> "off"]
    /\ cur' = [s \in Slots |-> None]
    /\ UNCHANGED <<sess, conns, faults>>
-----------------------------------------------------------------------------
(* A connection asks for a tunnel *)

\* The SOCKS5 handshake fails.
Refuse(c) ==
    /\ c \in Socks /\ conns[c].pc = "hello"
    /\ conns' = [conns EXCEPT ![c].pc = "done"]
    /\ UNCHANGED <<started, worker, cur, sess, faults, stopped>>

Live == {cur[s] : s \in {t \in Slots : cur[t] # None /\ ~sess[cur[t]].dead}}
Adds(i, n) == [sess EXCEPT ![i].active = @ + n]
Drops(i) == IF i = None THEN sess ELSE [sess EXCEPT ![i].active = IF @ > 0 THEN @ - 1 ELSE 0]

\* open_stream starts the workers, when that is due, and picks the live entry with
\* the fewest streams; without one connect_to_server dials by itself.
Open(c) ==
    /\ conns[c].pc = "hello"
    /\ started' = TRUE
    /\ worker' = IF started THEN worker ELSE [s \in Slots |-> "connect"]
    /\ \/ /\ Live = {}
          /\ conns' = [conns EXCEPT ![c].pc = "dial"]
          /\ UNCHANGED sess
       \/ \E i \in Live :
             /\ \A j \in Live : sess[i].active <= sess[j].active
             /\ sess' = Adds(i, 1)
             /\ conns' = [conns EXCEPT ![c].pc = "open", ![c].via = i]
    /\ UNCHANGED <<cur, faults, stopped>>

Ready(c) == IF c \in Socks THEN [conns[c] EXCEPT !.pc = "reply"]
            ELSE [conns[c] EXCEPT !.pc = "relay", !.up = TRUE, !.dn = TRUE]

Opened(c) ==
    /\ conns[c].pc = "open"
    /\ conns' = [conns EXCEPT ![c] = Ready(c)]
    /\ UNCHANGED <<started, worker, cur, sess, faults, stopped>>

\* Mutant: the entry that the slot has by now is charged.
OpenFailsLater(c) ==
    LET i == conns[c].via
        now == cur[sess[i].slot]
    IN
    /\ conns[c].pc = "open"
    /\ sess[i].st = "run" => faults < MaxFaults
    /\ faults' = IF sess[i].st = "run" THEN faults + 1 ELSE faults
    /\ sess' = IF now = None THEN sess ELSE [Drops(now) EXCEPT ![now].dead = TRUE]
    /\ conns' = [conns EXCEPT ![c].pc = "dial", ![c].via = None]
    /\ UNCHANGED <<started, worker, cur, stopped>>

\* The frame cannot be sent or the header not be built: the entry is marked dead,
\* whether its session runs or not, and connect_to_server dials by itself.
OpenFails(c) ==
    LET i == conns[c].via IN
    /\ conns[c].pc = "open"
    /\ sess[i].st = "run" => faults < MaxFaults
    /\ faults' = IF sess[i].st = "run" THEN faults + 1 ELSE faults
    /\ sess' = [Drops(i) EXCEPT ![i].dead = TRUE]
    /\ conns' = [conns EXCEPT ![c].pc = "dial", ![c].via = None]
    /\ UNCHANGED <<started, worker, cur, stopped>>

Dial(c) ==
    /\ conns[c].pc = "dial"
    /\ \/ conns' = [conns EXCEPT ![c] = Ready(c)]
       \/ conns' = [conns EXCEPT ![c].pc = "done"]
    /\ UNCHANGED <<started, worker, cur, sess, faults, stopped>>
-----------------------------------------------------------------------------
(* A connection of the SOCKS5 server *)

\* The reply reaches the application; or it cannot be written, and the handler
\* ends without closing what it was given.
Reply(c) ==
    /\ conns[c].pc = "reply"
    /\ \/ conns' = [conns EXCEPT ![c] = [@ EXCEPT !.pc = "relay", !.up = TRUE, !.dn = TRUE]]
       \/ conns' = [conns EXCEPT ![c].pc = IF conns[c].via # None
                                           THEN "lost" ELSE "done"]
    /\ UNCHANGED <<started, worker, cur, sess, faults, stopped>>

\* The application closes: pipe closes the stream, which counts it off and leaves the
\* session.  The reader of the other pipe is then woken by nothing more, unless it
\* was before (mux.py 55-65, 96-100).
UpEnds(c) ==
    /\ c \in Socks /\ conns[c].pc = "relay" /\ conns[c].up
    /\ \E deaf \in BOOLEAN :
          /\ deaf => conns[c].via # None /\ sess[conns[c].via].st = "run"
          /\ conns' = [conns EXCEPT ![c].up = FALSE, ![c].deaf = deaf]
    /\ sess' = Drops(conns[c].via)
    /\ UNCHANGED <<started, worker, cur, faults, stopped>>

\* Mutant: pipe does not close the application's connection.
DownEndsOpen(c) ==
    /\ c \in Socks /\ conns[c].pc = "relay" /\ conns[c].dn /\ ~conns[c].deaf
    /\ UNCHANGED vars

\* The stream ends, by its peer or with its session: pipe closes the application's
\* connection.
DownEnds(c) ==
    /\ c \in Socks /\ conns[c].pc = "relay" /\ conns[c].dn /\ ~conns[c].deaf
    /\ conns' = [conns EXCEPT ![c].dn = FALSE]
    /\ UNCHANGED <<started, worker, cur, sess, faults, stopped>>

\* Both pipes are done.
Finish(c) ==
    /\ c \in Socks /\ conns[c].pc = "relay" /\ ~conns[c].up /\ ~conns[c].dn
    /\ conns' = [conns EXCEPT ![c] = [NewConn EXCEPT !.pc = "done"]]
    /\ UNCHANGED <<started, worker, cur, sess, faults, stopped>>
-----------------------------------------------------------------------------
(* A connection of the stdio bridge *)

\* The command "close", or the end of stdin.
StdioClose(c) ==
    /\ c \in Stdio /\ conns[c].pc = "relay"
    /\ conns' = [conns EXCEPT ![c] = [NewConn EXCEPT !.pc = "done"]]
    /\ sess' = Drops(conns[c].via)
    /\ UNCHANGED <<started, worker, cur, faults, stopped>>

\* _read_remote sees the end: the connection is dropped, its writer not closed.
StdioEnds(c) ==
    /\ c \in Stdio /\ conns[c].pc = "relay"
    /\ conns' = [conns EXCEPT ![c].pc = IF conns[c].via = None THEN "done" ELSE "lost",
                              ![c].up = FALSE, ![c].dn = FALSE]
    /\ UNCHANGED <<started, worker, cur, sess, faults, stopped>>
-----------------------------------------------------------------------------
PoolStep ==
    \/ \E s \in Slots : Connect(s) \/ ConnectFails(s) \/ Poll(s) \/ Delay(s)
    \/ \E i \in Sessions : SessionEnds(i)
    \/ Stop

ConnStep ==
    \E c \in Conns :
        \/ Refuse(c) \/ Open(c) \/ Opened(c) \/ OpenFails(c) \/ Dial(c)
        \/ Reply(c) \/ UpEnds(c) \/ DownEnds(c) \/ Finish(c)
        \/ StdioClose(c) \/ StdioEnds(c)

Next == PoolStep \/ ConnStep

\* The workers are scheduled; a pipe is, once there is an end for it to see.
SessionOver(c) == conns[c].via # None /\ sess[conns[c].via].st = "over"
Fairness ==
    /\ \A s \in Slots : WF_vars(Poll(s)) /\ WF_vars(Delay(s))
    /\ \A c \in Conns :
          /\ WF_vars(SessionOver(c) /\ DownEnds(c)) /\ WF_vars(SessionOver(c) /\ StdioEnds(c))
          /\ WF_vars(~conns[c].dn /\ UpEnds(c)) /\ WF_vars(Finish(c))

Spec == Init /\ [][Next]_vars /\ Fairness
-----------------------------------------------------------------------------
(* Properties *)

\* No stream is opened on a session that is over: the entry of a slot is live only
\* while its session runs, although watchers mark the entries by slot (pool.py
\* 50-54, 125-130).  It is dead only when its session is over, unless an open
\* failed or the pool was stopped: then an old session may end with a new one in
\* its slot.
EntryMatchesSession ==
    \A s \in Slots :
        LET i == cur[s] IN
        i # None =>
            /\ ~sess[i].dead => sess[i].st = "run"
            /\ faults = 0 /\ ~stopped => (sess[i].dead => sess[i].st = "over")

\* A stream that was opened on session i and that nothing has closed.
Counts(conn, i) ==
    /\ conn.via = i
    /\ conn.pc \in {"open", "reply", "lost"} \/ (conn.pc = "relay" /\ conn.up)
Counted(i) == {c \in Conns : Counts(conns[c], i)}

\* What _pick compares is the number of streams that were opened on the session and
\* not closed, whatever entries came and went meanwhile; the streams that nothing
\* closes stay counted (pool.py 62-80, socks5.py 61-69, main.py 121-123).
ActiveCountsStreams == \A i \in Sessions : sess[i].active = Cardinality(Counted(i))

\* A slot whose entry is dead, or whose connect failed, is tried again (pool.py
\* 132-153).
SlotIsRetried ==
    \A s \in Slots :
        (started /\ (cur[s] = None \/ sess[cur[s]].dead)) ~> (worker[s] = "connect" \/ ~started)

\* When its session ends, a connection that its application has not closed before
\* comes to an end as well (socks5.py 69-86, main.py 112-123).
DeadTunnelEnds ==
    \A c \in Conns :
        (conns[c].pc = "relay" /\ SessionOver(c) /\ conns[c].up)
            ~> conns[c].pc \in {"done", "lost"}
=============================================================================
