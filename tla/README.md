# GhostNode: TLA+ models, checks and proofs

GhostNode is a proxy written in Python. Clients open GNP connections over one of seven transports; the
server authenticates them, relays or multiplexes their streams, counts their traffic and cuts off those
that are disabled or over their limit; a web panel changes the database while all of this runs. One asyncio
loop runs the server; the panel's Flask threads hand it coroutines (`panel/api.py` 98-99). The repository has
no tests, so that the code and `README.md` / `docs/api.md` are the only reference.

This directory holds the models of the parts where the order of events matters, the TLC runs over small
instances, and TLAPS proofs for all values of the constants. `PROJECT.json` gives, for each definition, the
lines it models, and lists the components, runs, mutants, findings, hazards and theorems.

## Inventory

Each line says which state the component keeps, what it does, what is hard about it, and what must hold.

| Component | State and operations | Hard behaviour | Correct when | Here |
| --- | --- | --- | --- | --- |
| Traffic accounting, `core/traffic.py` with `db.py` and the relays of `inbound/handler.py` | pending byte dictionaries, the set of open writers per client, the clients table; record, flush, register, kill | the flush awaits the database between pop, add, read, disable and kill, while relays record and the panel edits rows | no byte lost or counted twice, a kill reaches every relay, a client over its limit is cut | `Traffic` |
| GNP handshake and dispatch, `core/crypto.py`, `core/protocol.py`, `inbound/handler.py`, `client/pool.py`, `client/connector.py` | keys, the bytes of the last read; authenticate, exchange settings, parse headers, dial or start a mux | both sides wait for each other; several headers in one frame; length limits; loss at any point | payload is kept whole, an enabled client is served | `Gnp` |
| Stream multiplexing, `core/mux.py` | streams of each session, buffers, events, accept queue; open, write, read, close, reset | crossing closes, waits that race with data, loss of the connection | each direction of each stream is a FIFO with an end | `Mux`, `MuxPipes` |
| Inbound manager, `inbound/manager.py`, `inbound/port_mux.py`, `panel/api.py` | servers by tag, port muxes by port; start, stop, restart | stops end later than they return; several inbounds share a socket; requests overlap | what is deleted is not served, what is updated is, nothing listens in vain | `Inbounds` |
| HTTP request transport, `transport/http_request.py` | download buffer and event of each session, upload buffer; poll, upload, close | concurrent polls share the buffer and its event; requests fail, arrive late or are answered to nobody | no byte doubled, either way; none lost and none stuck when nothing fails; order with one poll | `HttpPoll` |
| Client pool and the programs that use it, `client/pool.py`, `client/connector.py`, `client/socks5.py`, `client/main.py` | an entry per slot with its dead flag and active count, the workers, the sessions' watchers; connect, watch, pick, open, close, stop | a watcher looks its entry up by slot; counts move in wrappers installed after the open; opens fail on sessions that run; a stream closed here wakes no reader | only running sessions are picked, counts are exact, dead slots are tried again, tunnels end with their session | `Pool` |
| SSE and body transports, `transport/http_request_sse.py`, `transport/http_request_body.py` | the server's queue and stop event, a response (or several) that takes from it, the two stream readers, upload buffers | a reconnecting event stream competes with the handler of the previous one; a queue wait that times out | order, no loss without failure, handlers end, ends are seen | `EventStream` |
| WebSocket, HTTP/2, gRPC transports | adaptors of libraries | reads and drains that wait for the library's state | bytes pass in order | not modelled |
| Router and outbounds, `core/router.py`, `core/outbound.py` | rules and outbounds in memory, replaced by reload | a reload awaits two reads while other edits are under way | routes are those of the tables | `Admin` |
| Xray manager, `core/xray.py` | a child process and its handle; start, stop, restart | overlapping restarts share the handle across awaits; files that are not written | one process at most, and it runs the newest tables | `Admin` |
| Database, `db.py` | the tables; create, update, delete, migrate | every call is several awaits on one shared connection | cascades leave no orphan | clients in `Traffic`, inbounds in `Inbounds`, routing and Xray tables in `Admin` |
| Panel, `panel/api.py` | none but the database; requests of several threads | reads and writes in two calls; what follows an edit follows it later | what the panel changed takes effect | clients in `Traffic`, inbounds in `Inbounds`, routing and Xray in `Admin` |
| Mixed inbound and SOCKS5 parsers, geo data, updater, start-up | local to a call | parsing and I/O, sequential | | not modelled |

Interaction: a transport gives `handle_connection` a reader and a writer; that runs `Gnp`, then either the relay
of `Traffic` or a `Mux` whose server end feeds the same relay; the inbound manager makes and removes the sockets
through which all of it arrives; the panel changes the tables under everybody's feet, and `Admin` says when the
router and Xray follow. `Pool` is the client's side of the sessions of `Mux`; `HttpPoll` and `EventStream` are
three of the transports below both.

## Conventions

A step is a stretch of Python between two awaits: the loop cannot switch tasks inside it. Each module has one
action per stretch or message, one `TypeOK`, and its properties at the end, each with the lines it is about.
Definitions marked "Mutant" are plausible errors that `PROJECT.json` puts in place of the definition they vary, to
see that the property notices. Names starting with `Max` are bounds of the model, except `MaxPolls`, which is the
largest `poll_connections`.

## Modules

**Traffic.** `row` and `used` are the clients table; `pending` and `keys` the two dictionaries of
`TrafficController` (the flush walks the keys of the upload one alone, so the keys are kept apart); `fpc`, `items`,
`cur`, `fly` are the flush task between its awaits; `pc`, `half`, `carry`, `wopen` are the handlers and the two halves
of their relays; `streams` is `_streams`. `kills` are kills that panel threads have still to hand to the loop. `due`
is a history variable: bytes recorded, less those a reset, a deletion or a dead flush takes away. The flush
is a little finer than the code (the wake-up and the first pop are two steps), which only adds interleavings. A
handler whose drain of the leftover raises is "leaked": `handler.py` 158-161 registers before it enters the `try`,
so that its entry stays. The drained leftover of a header is never billed, and the panel's reset, limits and
expiry act on the row alone, as in the code.

**Gnp.** `c2s` and `s2c` are frames under way, a frame being the items of one drain. `raw` is what the server's
`read(512)` returned; headers and mux frames of the shipped client are shorter, so that it is the next frame.
`CfgLength` is the arithmetic of the settings header. A pool session and a single connection differ in what the
client drains first. The direct client's payload is followed to the target, and `Cut` may lose any suffix of
what is under way. Keys and signatures are left out: no property here depends on them.

**Mux** composes two `MuxSession`s with the two channels between them. `closed`, `rclosed`, `buf`, `event` are the
fields of `MuxStream`; `closing` marks the await inside `close` and `rst`. `sent` and `log` are histories.
The session lock is FIFO, so frames enter the connection in the order of the senders. A drain that raises on a lost
connection skips `_remove_stream` (`CloseRaises`), so that the entry stays until `close_all`. **MuxPipes** is
the abstract specification: per direction a FIFO of chunks whose end is seen after everything written has been
read; an end that closes its own side or loses its session may see the end earlier. The refinement mapping
(`Pipes` in `Mux`) takes the writer's `closed` for `fin` and the reader's log for `read`. `readexactly`
of a stream has no caller and is left out.

**Inbounds.** `servers`, `muxes` are `_servers` and `_port_muxes`; a listener is an asyncio server or a `PortMux`
with its paths. `tasks` are the requests that create, update or delete, each with the coroutine that it hands to the loop
without waiting for it: the write of the row, the read of it (`FindRow`) and the hand-over (`HandOver`) are steps. `raced` is
a history variable, the inbounds for which two requests, or the coroutines they left, were under way at a time. `called` and `cleaning` count `_stop_mux`
coroutines that have not begun, and those that await the runner's cleanup: `asyncio.ensure_future` starts them
within the 0.1 s that `wait_closed` sleeps, but aiohttp's cleanup closes the sockets and then waits up to a
minute for requests under way. A plain server's `wait_closed` waits for its connections (Python 3.12 and later;
the project builds with 3.13). The deletion of a row follows the hand-over of its stop, and a bulk deletion is several of
them, none of which waits for the stops. `start_all` is a sequence of starts.

**HttpPoll.** One session. `gets` are requests with their handlers, which outlive a client that gave them up
(`by = None`); `buf` and `event` are shared by all of them; `got` and `fed` are what the two readers were given.
The number of polls and whether `min_download_ms` is positive are chosen in the initial state. `drain` awaits one
POST at a time, ignores the answer and goes on after an error; a POST given up may have been handled, may be
handled later or never. `Restart` forgets the session, after which the server answers 404 with no body. A wait may
end by its timeout as well as by the event, so that `woken` restricts nothing and serves `NoStuckPoll` alone.
`UploadInOrder` asks for everything in order until a fault or a close; from then on, when a part may be missing or come late, that no
byte is fed twice and none before an older one that the client still has in hand.

**EventStream.** One session of either streaming transport, `kind` saying which. `queue` is `down_queue` with the
`None` of `SvrWriter.close`, `stop` is `stop_event`; `conns` are responses with their handlers, `mine` when the client
still reads them and `wire` what it has yet to read. `task` is `sse_loop` or `run_conn`. A handler whose client has gone
takes a chunk and loses it, and notices with that write or a later one. `lines` are the chunks that end with a newline:
the body transport iterates over lines, so that it delivers a chunk only when a line ends or the response
does, and the pings before it are part of the line. `post` is the POST of an SSE client, or the queue and request
body of a body client; `late` are POSTs given up that may still be handled. `Restart` forgets the session. `UploadInOrder`
is that of `HttpPoll` for posts, and asks of a body request a prefix of what was written, whatever happens.
What the code does and no property contradicts: an SSE client whose session is unknown or closed asks again without a
pause; a handler drops what the queue holds when it sees `stop_event`; `drain` ignores a failed POST.

**Pool.** `worker`, `cur` are the slot tasks and `_sessions`. A session and the dict made with it share a number, which
is used again once nothing refers to it. `conns` are connections of the SOCKS5 server and of the stdio bridge; `via` is the
session of their stream, or `None` for a connection of its own. Closing a stream and counting it off are one step, because the
wrapper decrements before its first await. `deaf` is a reader that was asleep when its own side closed the stream:
`mux.py` 60-65 takes the stream out of `_streams` and sets no event, so that the pipe, and the handler with it,
sleeps for good. A stream that is not closed after a failed SOCKS5 reply (`socks5.py` 68) or after the bridge saw
its end (`main.py` 121-123) is `lost`, and stays counted. The failure of an open is bounded where the session runs; a failure because
the session is over is not. A worker waits for the server's hello without a timeout (`pool.py` 92), so that
`Connect` has no fairness.

**Admin.** A job is what is left of the program of one request: statements of the database, its own
steps, and steps of the panel thread between two coroutines it waits for. There the thread goes on (`Hop`), or `result(timeout=10)`
has expired (`GiveUp`): the edit is done and the reload, the second half of a toggle or the look at Xray does not follow. `unloaded`
and `missed` remember that, until a reload or a start begins. The connection serves statements in the order they were sent, `fifo`, as aiosqlite's thread does, and the loop sees
the answers in that order, `ready`. `router` is the pair `_rules`, `_outbounds`, which `reload` sets without an
await between them after reading both tables; an outbound that `build_outbound` refuses keeps it as it was. `Match` is
the first match by order and id, reduced to the inbound; `Chain` follows `dialer_proxy` tags. `handle` is
`XrayManager._process` and `kids` the processes ever started, with the tables each was started with. Foreign keys
are those of the tables: deletion of an outbound cascades to its rules. `file` is the configuration file: `Launch` starts a process
also when it could not be written (`xray.py` 156-157), on the file as it was or half written. `overlap`
remembers that two jobs were stopping or starting the process at a time, in which case an orphan is possible; an edit is not one
until it restarts Xray. `missed` also remembers a look at `is_running` while a start that had read tables was yet to launch (the gap of a
restart, `api.py` 582 and 600), and a job whose `kill` raised. Rows are cut down to what routing tells apart, and an Xray table to the number of its edits.

## Runs

| Run | Instance | What it shows |
| --- | --- | --- |
| `traffic_account` | one client, two connections, limit 2, two bytes per direction, one failing database call, five kinds of panel request | `Conservation`, `PendingIsReachable`, `RelayIsRegistered`, `QuotaEnforced` |
| `traffic_live` | the same without failures; enable, limit changes, delete | `OverLimitIsCut`: a client at its limit is disabled, also when the panel re-enables it meanwhile |
| `traffic_cut` (violated) | limit 1, no panel | `LimitKillsConnections` fails, see Findings |
| `gnp` | both kinds of client, short and truncated user agents, three payload items, two toggles, loss at any point | `PayloadIntact`, `DirectIsServed` |
| `gnp_pool` (violated) | no toggles | `PoolIsServed` fails |
| `mux_one` | one stream, two chunks each way, either end closes or resets, loss at any point | `ImplementsPipes`, `NoLostWakeup`, `NoEntryLeaks`, `EndIsSeen` |
| `inbounds` | two inbounds of a mux and a plain one, one port, two listeners, one edit, bulk edits, two requests or coroutines at a time | `NoIdleListener`, `NoOrphanPath`, `DeletedIsNotServed` |
| `inbounds_update` (violated) | one inbound, one port, one update | `UpdatedIsServed` fails |
| `http_poll` | one or two polls, two bytes down, two up, batches of one, one fault, a close | `NoStuckPoll`, `NothingLost`, `InOrderAlone`, `UploadInOrder`, `Delivered` |
| `event_stream` | either transport, two responses at a time, two chunks each way with any of them ending a line, one ping, one fault | `DownInOrder`, `NothingLost`, `UploadInOrder`, `Delivered`, `HandlersEnd`, `BodyEndIsSeen` |
| `admin` | two routing requests, three Xray requests, or one of each, all at a time, of fifteen kinds; three contents of an outbound (one dials through another, one cannot be built), two of a rule, three processes, one crash, kill, file not written or request that gives up | `RouterIsCurrent`, `NoOrphan`, `XrayIsCurrent` |
| `pool` | two slots, three sessions referred to at a time, a SOCKS5 and a stdio connection, one failed open, a stop | `EntryMatchesSession`, `ActiveCountsStreams`, `SlotIsRetried`, `DeadTunnelEnds` |

Why these bounds: the races of `Traffic` are between the flush and one client's connections, clients share
nothing but the order in which the flush visits them, and two connections of one client are what registering and
killing can confuse; two bytes let a chunk be recorded while another is in the flush. A mux stream
has two writers, two readers and two closes, all of which one stream with two chunks exercises; streams share nothing
but the lock and the connection, and every frame names its stream, so a second one is not instantiated. In `Inbounds` two tasks are what can overlap on a mux, and two listeners a mux with its successor or with a plain server; on one port every inbound meets the others. Two bytes in batches of
one leave something behind after a take, and a second poll and one abandoned handler compete for it. In `EventStream` the second response is the reconnect, which needs one fault; the fault and one ping reach
every ending of a response. In `Admin` two routing requests are an edit and what races with it; Xray has three, an edit, a restart and one more. `Weight` gives
a routing request 3 of the 6 units of `MaxRequests` and an Xray one 2, and `MaxId` bounds the rows that requests name. In `Pool` the third session is the one that an old entry, or a stop, leaves behind for the other two slots; sessions
come and go without bound, because their numbers are used again. The proofs
lift the bounds for the properties they cover.

`CHECK_DEADLOCK FALSE` stands where a program may stop: the flush task dead and all connections leaked, a mux
with all streams closed, a listener set that is used up, a closed HTTP client or event stream, an `Admin` whose requests are used up,
a pool that was stopped and whose connections are done. The handshake stops after a hang-up.

## Fairness

`Traffic`: the flush task is weakly fair, because a sleep or a database call that ends resumes it, and so is each
panel kill, which the loop runs once it has been handed over; handlers and the panel are not. `Gnp`: both ends' tasks, each
as one. `Mux`: `run`, `accept_loop`, each reader, and a close whose frame is drained; writing, opening and closing are
free. `HttpPoll`: the handlers (their waits have timeouts), the poll loops, drains and messages; faults, writes
and closes are free. `EventStream`: the handlers, whose waits have a timeout of 15 s, the receiving task, the drains and the
upload reader; writes, closes, reads of the application and faults are free. `Pool`: a worker's poll and its delay are sleeps that end;
a pipe whose session is over or whose application's connection was closed has something to read, and both pipes done end the handler; connecting,
peers, applications and `stop` are free. No strong fairness is assumed. `Inbounds` and `Admin` check safety only.

## Findings

Three runs show documented behaviours that are not what the code does; `PROJECT.json` quotes the lines.

- `traffic_cut`: a connection that passes `check_client`, and is still resolving or connecting when the flush disables
  its client and kills its streams, registers afterwards and relays until it ends by itself (`handler.py` 136-158).
- `gnp_pool`: the pool drains its CFG and MUX headers as one frame, and the server drops what follows CFG in a read
  (`handler.py` 121-134). It then takes the first mux frame for a header and hangs up.
- `inbounds_update`: restarting the only inbound of a port rejoins the mux whose cleanup is still under way; when it
  ends, the path belongs to a mux without sockets (`manager.py` 21-26, 67-72).

Further limits have no run of their own; the property that excepts them says what remains:

- With several polls (four by default) the HTTP transport does not keep the order of bytes
  (`http_request.py` 283-295), hence the name `InOrderAlone`.
- A delete that overtakes a start of the same inbound, or two restarts of it, leave it served by a listener that no entry reaches
  (`manager.py` 54-121), although `docs/api.md` 119 says "Stops and removes the inbound" without exception; hence `raced` in
  `NoOrphanPath` and `DeletedIsNotServed`.
- The truncation of a user agent of 142 characters or more leaves 256 bytes for a length of one byte
  (`handler.py` 100-104, `CfgLength` in `Gnp`), so that the settings cannot be encoded and the connection is closed.
- Two restarts of Xray that overlap orphan a process (`xray.py` 172-190), hence `~overlap` in `NoOrphan`. `XrayIsCurrent` needs no
  such exception.
- An edit that asks `is_running` while a start has read its tables and not yet launched, a request that times out before it asks, and a
  configuration that cannot be written each leave Xray on old tables until the next start (`api.py` 98-99, 600, `xray.py` 156-157),
  hence `missed`. A request that times out before its reload leaves the router behind until the next one, hence `unloaded`.
- The deletion of an inbound leaves its rules in the router until the next reload (`api.py` 192-199), hence `gone`
  in `RouterIsCurrent`; one outbound row that cannot be built stops all reloads (`router.py` 21-52).
- A stream its own side has closed is never woken (`mux.py` 60-65), hence `deaf` in `Pool` and the exception in
  `DeadTunnelEnds` and `EndIsSeen`.

## Proofs

All theorems are for arbitrary constants that satisfy the named assumptions of the module. Every safety invariant
that a passing run checks has one, except `NoOrphan`.

- `TrafficProofs`: the inductive invariant `Ledger` is `TypeOK`, `Conservation` and `FlyIsSpent` (the flush holds bytes
  only while it is about to add them; without it a step from "read" could find bytes no equation accounts for). The
  proof has one lemma per actor (handler, panel, flush) and two for the arithmetic of resetting columns and
  of landing the flush's bytes. On top of it: `RelayIsRegistered` (each kill walks the whole set), `PendingIsReachable`
  and `QuotaEnforced`, each inductive together with the types.
- `GnpProofs`: `TypeOK` and `PayloadIntact`. The property follows the direct client's payload through frames of any size:
  `Carries` gives each frame under way the first and the last number of what it holds. It is inductive with `Lined`, which
  says that the opening, as far as the client has sent it and the server has not read it, is ahead of all payload and each of its
  messages in a frame of its own, so that the server, which drops what follows a header in one read, drops nothing.
- `InboundsProofs`: `TypeOK`, which includes that a coroutine holds a listener exactly while it waits or binds, `NoIdleListener`,
  `NoOrphanPath` and `DeletedIsNotServed`, all for any number of overlapping requests and coroutines, where TLC has two. The last two
  except inbounds in `raced`, and the last those that share their path: nothing enforces that paths differ, and of two with one path and port
  the mux serves the later. The invariant `Ordered` adds that an inbound without a row has no server and no task (`Absent`), that an
  inbound outside `raced` has one task at most (`Single`), that a task that stopped one or is to start it finds it without a server
  (`Untied`), and that one that is being deleted is only stopped (`Stopping`).
- `HttpPollProofs`: `TypeOK`; `NoStuckPoll`, inductive with the types of the handlers: a handler starts to wait only where the
  buffer is empty, and whatever fills the buffer wakes all that wait; `UploadInOrder`, `InOrderAlone` and `NothingLost`, for
  any number of polls, batches and bytes. The shared invariant `Fine` has the ownership of requests by poll loops (`Requests`).
  For uploads, `Shared` says that what was fed, the POST under way, the
  buffer and the POSTs given up are disjoint shares of what was written, and what was fed is below what is in hand.
  `Places` says that no byte is in two places, whatever fails; `InTurn` that one poll's answers come in turn; `Present` that every byte is
  in some place until a request fails.
- `EventStreamProofs`: `TypeOK`, `DownInOrder`, `UploadInOrder` and `NothingLost`, for both transports and any number of responses.
  The invariant `Line` puts what was fed, each response's wire and the queue in one order, pings apart; it holds because at most one
  response is the client's (`Owner`). `Up` follows the writer's bytes through the POST or request body until a fault, `Shared`
  whatever happens, as in `HttpPoll`; `Present` follows every chunk.
- `MuxProofs`: `TypeOK`, `NoLostWakeup` and `NoEntryLeaks`, for any number of streams, chunks and frames under way, where TLC has one
  stream. A session keeps an entry for a closed stream only while the close is being drained, or, once
  the connection is lost and a drain has raised, until `close_all` (`Left`). That a
  frame NEW cannot bring an entry back needs that a stream is opened once: whoever has it, it was opened (`Opened`), and its NEW
  is alone, under way to the server, and names a stream that is neither queued nor used there (`News`). And the
  refinement: `SessionsArePipes` is `Spec => ImplementsPipes`. Its invariant `PipeInv` says of each direction of each stream that
  what was read, what is buffered and what is under way are consecutive chunks (`Contiguous`, `Ordered`, `Gapless`, `Complete`), that
  NEW comes before and FIN or RST after all of them, and that an end that knows of the end has had everything or has lost its connection.
- `PoolProofs`: `TypeOK`, `EntryMatchesSession` and `ActiveCountsStreams`, for any number of slots, sessions, connections and
  failed opens. The watcher of a session marks the entry its slot has by then, so `EntryMatchesSession` is not
  inductive: the invariant adds that an entry is that of a session of its own slot (`OwnSlot`), that a worker leaves
  it only when it is dead (`Leaves`), and that, while no open has failed and nothing was stopped, a session that runs is the
  one its slot has (`Latest`). The counts need only which connections hold a stream (`Streams`); `CountedAfter` says
  how the number of streams of a session follows a step of one connection, and rests on the library's facts about cardinality.
- `AdminProofs`: `TypeOK`, `XrayIsCurrent` and `RouterIsCurrent`, for any number of jobs, requests, Xray processes and faults. A job's
  program is linked step by step (`RTo`, `DTo`, `XTo`), so that its first step says what can follow; a job is in exactly one of the two lines
  while it waits for a statement (`Lines`). `XrayFollows` carries `XrayIsCurrent`: unless something was `missed`, a table that was
  edited since a start read it, or since the process in the handle was started, is owed a restart (`Owing`: the edit has yet to ask whether
  Xray runs, or a restart has yet to read) or was read as it is (`Fresh`) by a start that launches later (`Behind`). No job has to be alone for that:
  starts read three tables in one order over two lines that are first in, first out, so that they launch in the order in which they read.
  `Follows` carries `RouterIsCurrent`. Each edit ends in a reload of its own, and reloads overlap. Both lines are
  first in, first out, so a reload whose reads an edit has made stale is ahead of that edit's own reload (`StaleIsAhead`, over the order `Sooner` of
  jobs in the two lines), and the last to install has read what is current. Until then some job is due to reload (`RouterFollows`); `Answered`
  says that a job on its way to a reload is not stopped by an error. Rules of an inbound that is deleted, or is about to be (`Doomed`), are
  excepted, because `DeleteInbound` reloads nothing: connections of a deleted inbound are the only ones they could route.

Minimal elements of well-founded relations (`WFMin`) take the place of induction over numbers, where a proof needs a smallest number,
the largest of a bounded set, or a first frame.

Only model-checked: liveness (`OverLimitIsCut`, `DirectIsServed`, `EndIsSeen`, `Delivered`, `HandlersEnd`, `BodyEndIsSeen`,
`SlotIsRetried`, `DeadTunnelEnds`), which the proof system does not support under fairness; and `NoOrphan`.

## Plan

In this order, the most important first:

1. done: `Traffic`, `Gnp`, `Mux` with `MuxPipes`, `Inbounds`, `HttpPoll`, `EventStream`, `Pool`, `Admin`, and the proofs above.
2. Proofs: action properties that follow from the invariants above, such as that reloads set the router in the order in
   which they read the tables, so that it never goes back to older ones.
3. `MuxRelay`: `handle_stream` of `_handle_mux` over the streams of `Mux` and the registry of `Traffic`: streams billed to another client
   than the session's, a kill that calls `stream.close()` without awaiting it, a relay whose upward half no close wakes.

## Not modelled

The geo parsers, the parsers of the mixed inbound and of SOCKS5, the updater and the start-up code are sequential and mostly I/O.
WebSocket, HTTP/2 and gRPC are adaptors of libraries whose code is not in the repository. Cryptography is abstract. The relays of mux sub-streams
are not part of `Traffic`, whose streams are the connections of their own. In `Inbounds`, edits of an inbound's tag or path, the re-creation of one that was deleted, failing database calls and
`stop_all` at shutdown are left out, and the id that a create returns is taken for that of its own row (`db.py` 258). In `Admin`, conditions of rules other than the inbound (domains, addresses, ports, geo data) are
pure functions of one row and are left out, as are the generation of Xray's configuration and the endpoint that overwrites
its file (`api.py` 688-698), whose text the next restart replaces, failing database calls, and a deleted inbound that is created
again; so is the id that a create returns, which may be that of
another request's row (`db.py` 297-301) and is only shown. The panel's settings, login, domains and statistics
read or write one row each. In `Pool` programs that use no pool (`pool_size <= 0`) and the server's GNP outbound, which uses
a pool too (`core/outbound.py`), are left out, what the mux does with a frame is left to `Mux`, and the server's authentication to `Gnp`; the stdio bridge's
reuse of an id, which lets the reader of an old connection drop the new one (`main.py` 121-123), is left out.
