------------------------------ MODULE Traffic ------------------------------
(***************************************************************************)
(* Traffic accounting and enforcement: core/traffic.py, the clients table  *)
(* of db.py, the relays of inbound/handler.py that feed it and the client  *)
(* endpoints of panel/api.py that race with it.                            *)
(*                                                                         *)
(* One asyncio loop runs everything; a step of this module is a stretch of *)
(* code between two awaits.  SQLite is one connection whose statements run *)
(* one at a time, so an UPDATE and its commit are one step.                *)
(***************************************************************************)
EXTENDS Naturals, FiniteSets

CONSTANTS
    Clients,    \* NanoIDs of rows of the clients table
    Conns,      \* connections of handle_connection
    Owner,      \* the NanoID in the header of each connection
    Limits,     \* values the panel may store in traffic_limit; 0 = unlimited
    Sizes,      \* sizes of one relayed chunk
    MaxBytes,   \* bound: unreset bytes recorded per client and direction
    MaxFaults,  \* bound: failing database calls
    Panel       \* kinds of panel request that are issued

PanelOps == {"enable", "disable", "bulk_disable", "delete", "reset", "limit", "expiry"}

ASSUME OwnerAssumption == Owner \in [Conns -> Clients]
ASSUME LimitsAssumption == Limits \subseteq Nat
ASSUME SizesAssumption == Sizes \subseteq Nat \ {0}
ASSUME BoundsAssumption == MaxBytes \in Nat /\ MaxFaults \in Nat
ASSUME PanelAssumption == Panel \subseteq PanelOps

Dirs == {"up", "down"}

VARIABLES
    row,      \* clients table without its counters
    used,     \* its upload and download columns
    pending,  \* _pending_upload and _pending_download, 0 where absent
    keys,     \* the keys of _pending_upload
    fpc,      \* where the flush task is
    items,    \* the keys _flush_pending has still to visit
    cur,      \* nanoid of the current iteration
    fly,      \* up and dn: popped and not yet added to the row
    pc,       \* where each connection handler is
    half,     \* its two relay coroutines
    carry,    \* chunk written and drained, not yet recorded
    wopen,    \* the client-side writer is open
    streams,  \* _streams
    kills,    \* kill_client_streams calls the panel has still to get run
    faults,   \* database failures so far
    due       \* history: bytes recorded, less those reset or lost

db == <<row, used>>
ctrl == <<pending, keys>>
flush == <<fpc, items, cur, fly>>
relay == <<half, carry>>
vars == <<row, used, pending, keys, fpc, items, cur, fly, pc, half, carry,
          wopen, streams, kills, faults, due>>

Row == [live : {"unborn", "live", "gone"}, enabled : BOOLEAN,
        expired : BOOLEAN, limit : Nat]
FlushPC == {"sleep", "next", "add", "read", "disable", "kill", "dead"}
ConnPC == {"idle", "check", "disable", "dial", "lead", "relay", "leaked"}
Half == {"idle", "read", "sent", "end"}
NoBytes == [d \in Dirs |-> 0]

TypeOK ==
    /\ row \in [Clients -> Row]
    /\ used \in [Dirs -> [Clients -> Nat]]
    /\ pending \in [Dirs -> [Clients -> Nat]]
    /\ keys \subseteq Clients
    /\ fpc \in FlushPC
    /\ items \subseteq Clients
    /\ cur \in Clients
    /\ fly \in [Dirs -> Nat]
    /\ pc \in [Conns -> ConnPC]
    /\ half \in [Dirs -> [Conns -> Half]]
    /\ carry \in [Dirs -> [Conns -> Nat]]
    /\ wopen \in [Conns -> BOOLEAN]
    /\ streams \in [Clients -> SUBSET Conns]
    /\ kills \subseteq Clients
    /\ faults \in 0 .. MaxFaults
    /\ due \in [Dirs -> [Clients -> Nat]]

Init ==
    /\ row = [c \in Clients |-> [live |-> "unborn", enabled |-> TRUE,
                                 expired |-> FALSE, limit |-> 0]]
    /\ used = [d \in Dirs |-> [c \in Clients |-> 0]]
    /\ pending = [d \in Dirs |-> [c \in Clients |-> 0]]
    /\ keys = {}
    /\ fpc = "sleep"
    /\ items = {}
    /\ cur \in Clients
    /\ fly = NoBytes
    /\ pc = [k \in Conns |-> "idle"]
    /\ half = [d \in Dirs |-> [k \in Conns |-> "idle"]]
    /\ carry = [d \in Dirs |-> [k \in Conns |-> 0]]
    /\ wopen = [k \in Conns |-> FALSE]
    /\ streams = [c \in Clients |-> {}]
    /\ kills = {}
    /\ faults = 0
    /\ due = [d \in Dirs |-> [c \in Clients |-> 0]]
-----------------------------------------------------------------------------
Live(c) == row[c].live = "live"

\* traffic_limit>0 and upload+download>=traffic_limit
OverLimit(c) ==
    /\ row[c].limit > 0
    /\ used["up"][c] + used["down"][c] >= row[c].limit

\* UPDATE clients SET enabled=v WHERE id=?; no row, no effect
SetEnabled(c, v) ==
    row' = IF Live(c) THEN [row EXCEPT ![c].enabled = v] ELSE row

\* kill_client_streams has no await: it closes every registered writer and
\* drops the client's set in one step
KillStreams(c) ==
    /\ wopen' = [k \in Conns |-> wopen[k] /\ k \notin streams[c]]
    /\ streams' = [streams EXCEPT ![c] = {}]
-----------------------------------------------------------------------------
(* handle_connection, one action per stretch between awaits *)

Accept(k) ==
    /\ pc[k] = "idle"
    /\ pc' = [pc EXCEPT ![k] = "check"]
    /\ wopen' = [wopen EXCEPT ![k] = TRUE]
    /\ UNCHANGED <<db, ctrl, flush, relay, streams, kills, faults, due>>

\* Leave the handler: its finally clause closes the writer.
Leave(k) ==
    /\ pc' = [pc EXCEPT ![k] = "idle"]
    /\ wopen' = [wopen EXCEPT ![k] = FALSE]

\* check_client reads the row and decides on that copy of it.
CheckClient(k) ==
    LET c == Owner[k] IN
    /\ pc[k] = "check"
    /\ \/ /\ ~Live(c) \/ ~row[c].enabled
          /\ Leave(k)
       \/ /\ Live(c) /\ row[c].enabled /\ (row[c].expired \/ OverLimit(c))
          /\ pc' = [pc EXCEPT ![k] = "disable"]
          /\ UNCHANGED wopen
       \/ /\ Live(c) /\ row[c].enabled /\ ~row[c].expired /\ ~OverLimit(c)
          /\ pc' = [pc EXCEPT ![k] = "dial"]
          /\ UNCHANGED wopen
    /\ UNCHANGED <<db, ctrl, flush, relay, streams, kills, faults, due>>

\* ... and, for an expired client or one over its limit, disables the row.
CheckDisable(k) ==
    /\ pc[k] = "disable"
    /\ SetEnabled(Owner[k], FALSE)
    /\ Leave(k)
    /\ UNCHANGED <<used, ctrl, flush, relay, streams, kills, faults, due>>

\* A database call of check_client raises: the handler gives up.
CheckFault(k) ==
    /\ pc[k] \in {"check", "disable"}
    /\ faults < MaxFaults
    /\ faults' = faults + 1
    /\ Leave(k)
    /\ UNCHANGED <<db, ctrl, flush, relay, streams, kills, due>>

\* resolve, route and connect are awaited without looking at the row again
DialOk(k) ==
    /\ pc[k] = "dial"
    /\ pc' = [pc EXCEPT ![k] = "lead"]
    /\ streams' = [streams EXCEPT ![Owner[k]] = @ \cup {k}]
    /\ UNCHANGED <<db, ctrl, flush, relay, wopen, kills, faults, due>>

DialFail(k) ==
    /\ pc[k] = "dial"
    /\ Leave(k)
    /\ UNCHANGED <<db, ctrl, flush, relay, streams, kills, faults, due>>

\* The leftover of the header is drained and the two relays start.
LeadOk(k) ==
    /\ pc[k] = "lead"
    /\ pc' = [pc EXCEPT ![k] = "relay"]
    /\ half' = [d \in Dirs |-> [half[d] EXCEPT ![k] = "read"]]
    /\ UNCHANGED <<db, ctrl, flush, carry, wopen, streams, kills, faults, due>>

\* The drain of the leftover raises before the try: nothing unregisters.
LeadFail(k) ==
    /\ pc[k] = "lead"
    /\ pc' = [pc EXCEPT ![k] = "leaked"]
    /\ wopen' = [wopen EXCEPT ![k] = FALSE]
    /\ UNCHANGED <<db, ctrl, flush, relay, streams, kills, faults, due>>
-----------------------------------------------------------------------------
(* _relay_bidirectional: each half loops read, write, drain, record_bytes *)

\* A chunk is read and drained; on a closed writer that is a no-op.
Send(k, d) ==
    /\ half[d][k] = "read"
    /\ \E n \in Sizes :
          /\ due[d][Owner[k]] + n <= MaxBytes
          /\ carry' = [carry EXCEPT ![d][k] = n]
    /\ half' = [half EXCEPT ![d][k] = "sent"]
    /\ UNCHANGED <<db, ctrl, flush, pc, wopen, streams, kills, faults, due>>

\* Mutant: assigns the counter instead of adding to it.
RecordBytesOver(k, d) ==
    LET c == Owner[k] IN
    /\ half[d][k] = "sent"
    /\ pending' = [pending EXCEPT ![d][c] = carry[d][k]]
    /\ keys' = keys \cup {c}
    /\ due' = [due EXCEPT ![d][c] = @ + carry[d][k]]
    /\ carry' = [carry EXCEPT ![d][k] = 0]
    /\ half' = [half EXCEPT ![d][k] = "read"]
    /\ UNCHANGED <<db, flush, pc, wopen, streams, kills, faults>>

\* Mutant: each direction has its key in its own dictionary only.
RecordBytesApart(k, d) ==
    LET c == Owner[k] IN
    /\ half[d][k] = "sent"
    /\ pending' = [pending EXCEPT ![d][c] = @ + carry[d][k]]
    /\ keys' = IF d = "up" THEN keys \cup {c} ELSE keys
    /\ due' = [due EXCEPT ![d][c] = @ + carry[d][k]]
    /\ carry' = [carry EXCEPT ![d][k] = 0]
    /\ half' = [half EXCEPT ![d][k] = "read"]
    /\ UNCHANGED <<db, flush, pc, wopen, streams, kills, faults>>

\* record_bytes: both dictionaries get the key, whatever the direction.
RecordBytes(k, d) ==
    LET c == Owner[k] IN
    /\ half[d][k] = "sent"
    /\ pending' = [pending EXCEPT ![d][c] = @ + carry[d][k]]
    /\ keys' = keys \cup {c}
    /\ due' = [due EXCEPT ![d][c] = @ + carry[d][k]]
    /\ carry' = [carry EXCEPT ![d][k] = 0]
    /\ half' = [half EXCEPT ![d][k] = "read"]
    /\ UNCHANGED <<db, flush, pc, wopen, streams, kills, faults>>

\* End of file, or an exception of the write or the drain (the chunk then
\* goes unrecorded).  The downward half closes the client's writer.
HalfEnd(k, d) ==
    /\ half[d][k] \in {"read", "sent"}
    /\ half' = [half EXCEPT ![d][k] = "end"]
    /\ carry' = [carry EXCEPT ![d][k] = 0]
    /\ wopen' = IF d = "down" THEN [wopen EXCEPT ![k] = FALSE] ELSE wopen
    /\ UNCHANGED <<db, ctrl, flush, pc, streams, kills, faults, due>>

\* Mutant: unregisters every stream of the client with its own.
FinishAll(k) ==
    /\ \A d \in Dirs : half[d][k] = "end"
    /\ half' = [d \in Dirs |-> [half[d] EXCEPT ![k] = "idle"]]
    /\ streams' = [streams EXCEPT ![Owner[k]] = {}]
    /\ Leave(k)
    /\ UNCHANGED <<db, ctrl, flush, carry, kills, faults, due>>

\* gather has both halves: unregister_stream and close.
Finish(k) ==
    /\ \A d \in Dirs : half[d][k] = "end"
    /\ half' = [d \in Dirs |-> [half[d] EXCEPT ![k] = "idle"]]
    /\ streams' = [streams EXCEPT ![Owner[k]] = @ \ {k}]
    /\ Leave(k)
    /\ UNCHANGED <<db, ctrl, flush, carry, kills, faults, due>>
-----------------------------------------------------------------------------
(* The flush task *)

FlushWake ==
    /\ fpc = "sleep"
    /\ fpc' = "next"
    /\ items' = keys
    /\ UNCHANGED <<db, ctrl, cur, fly, pc, relay, wopen, streams, kills, faults, due>>

\* Mutant: reads the dictionaries with get where the code pops them.
FlushPeek(c) ==
    /\ fpc = "next"
    /\ c \in items
    /\ items' = items \ {c}
    /\ cur' = c
    /\ fly' = [d \in Dirs |-> pending[d][c]]
    /\ fpc' = IF \E d \in Dirs : pending[d][c] > 0 THEN "add" ELSE "next"
    /\ UNCHANGED <<db, ctrl, pc, relay, wopen, streams, kills, faults, due>>

\* Mutant: adds only what has bytes in both directions.
FlushPopBoth(c) ==
    /\ fpc = "next"
    /\ c \in items
    /\ items' = items \ {c}
    /\ cur' = c
    /\ fly' = [d \in Dirs |-> pending[d][c]]
    /\ pending' = [d \in Dirs |-> [pending[d] EXCEPT ![c] = 0]]
    /\ keys' = keys \ {c}
    /\ fpc' = IF \A d \in Dirs : pending[d][c] > 0 THEN "add" ELSE "next"
    /\ UNCHANGED <<db, pc, relay, wopen, streams, kills, faults, due>>

\* Pop both dictionaries for the next key.
FlushPop(c) ==
    /\ fpc = "next"
    /\ c \in items
    /\ items' = items \ {c}
    /\ cur' = c
    /\ fly' = [d \in Dirs |-> pending[d][c]]
    /\ pending' = [d \in Dirs |-> [pending[d] EXCEPT ![c] = 0]]
    /\ keys' = keys \ {c}
    /\ fpc' = IF \E d \in Dirs : pending[d][c] > 0 THEN "add" ELSE "next"
    /\ UNCHANGED <<db, pc, relay, wopen, streams, kills, faults, due>>

FlushEnd ==
    /\ fpc = "next"
    /\ items = {}
    /\ fpc' = "sleep"
    /\ UNCHANGED <<db, ctrl, items, cur, fly, pc, relay, wopen, streams, kills, faults, due>>

\* add_traffic; if the row is gone the UPDATE matches nothing.
AddTraffic ==
    IF Live(cur)
    THEN /\ used' = [d \in Dirs |-> [used[d] EXCEPT ![cur] = @ + fly[d]]]
         /\ UNCHANGED due
    ELSE /\ due' = [d \in Dirs |-> [due[d] EXCEPT ![cur] = @ - fly[d]]]
         /\ UNCHANGED used

FlushAdd ==
    /\ fpc = "add"
    /\ AddTraffic
    /\ fly' = NoBytes
    /\ fpc' = "read"
    /\ UNCHANGED <<row, ctrl, items, cur, pc, relay, wopen, streams, kills, faults>>

\* Mutant: compares the upload column alone with the limit.
UpOverLimit(c) ==
    /\ row[c].limit > 0
    /\ used["up"][c] >= row[c].limit
FlushReadHalf ==
    /\ fpc = "read"
    /\ fpc' = IF Live(cur) /\ UpOverLimit(cur) THEN "disable" ELSE "next"
    /\ UNCHANGED <<db, ctrl, items, cur, fly, pc, relay, wopen, streams, kills, faults, due>>

\* get_client_by_nanoid; the decision uses the row as read.
FlushRead ==
    /\ fpc = "read"
    /\ fpc' = IF Live(cur) /\ OverLimit(cur) THEN "disable" ELSE "next"
    /\ UNCHANGED <<db, ctrl, items, cur, fly, pc, relay, wopen, streams, kills, faults, due>>

FlushDisable ==
    /\ fpc = "disable"
    /\ SetEnabled(cur, FALSE)
    /\ fpc' = "kill"
    /\ UNCHANGED <<used, ctrl, items, cur, fly, pc, relay, wopen, streams, kills, faults, due>>

FlushKill ==
    /\ fpc = "kill"
    /\ KillStreams(cur)
    /\ fpc' = "next"
    /\ UNCHANGED <<db, ctrl, items, cur, fly, pc, relay, kills, faults, due>>

\* No handler in _flush_loop: an exception of a database call ends the task,
\* with the popped bytes, unless the failing call was the commit.
FlushFault ==
    /\ fpc \in {"add", "read", "disable"}
    /\ faults < MaxFaults
    /\ faults' = faults + 1
    /\ fpc' = "dead"
    /\ fly' = NoBytes
    /\ \/ /\ fpc = "add"
          /\ AddTraffic
       \/ /\ due' = [d \in Dirs |-> [due[d] EXCEPT ![cur] = @ - fly[d]]]
          /\ UNCHANGED used
    /\ UNCHANGED <<row, ctrl, items, cur, pc, relay, wopen, streams, kills>>

Flush ==
    \/ FlushWake \/ FlushEnd \/ FlushAdd \/ FlushRead \/ FlushDisable \/ FlushKill
    \/ \E c \in Clients : FlushPop(c)
-----------------------------------------------------------------------------
(* Panel requests: Flask threads that run one database call at a time *)

CreateClient(c) ==
    /\ row[c].live = "unborn"
    /\ \E l \in Limits :
          row' = [row EXCEPT ![c] = [live |-> "live", enabled |-> TRUE,
                                     expired |-> FALSE, limit |-> l]]
    /\ UNCHANGED <<used, ctrl, flush, pc, relay, wopen, streams, kills, faults, due>>

\* PUT enabled=1, bulk enable, or the second half of a toggle.
EnableClient(c) ==
    /\ "enable" \in Panel /\ Live(c)
    /\ row' = [row EXCEPT ![c].enabled = TRUE]
    /\ UNCHANGED <<used, ctrl, flush, pc, relay, wopen, streams, kills, faults, due>>

\* PUT enabled=0 or a toggle: the kill is handed to the loop afterwards.
DisableClient(c) ==
    /\ "disable" \in Panel /\ Live(c)
    /\ row' = [row EXCEPT ![c].enabled = FALSE]
    /\ kills' = kills \cup {c}
    /\ UNCHANGED <<used, ctrl, flush, pc, relay, wopen, streams, faults, due>>

\* The bulk endpoint disables and schedules no kill.
BulkDisable(c) ==
    /\ "bulk_disable" \in Panel /\ Live(c)
    /\ row' = [row EXCEPT ![c].enabled = FALSE]
    /\ UNCHANGED <<used, ctrl, flush, pc, relay, wopen, streams, kills, faults, due>>

DeleteClient(c) ==
    /\ "delete" \in Panel /\ Live(c)
    /\ row' = [row EXCEPT ![c].live = "gone"]
    /\ used' = [d \in Dirs |-> [used[d] EXCEPT ![c] = 0]]
    /\ due' = [d \in Dirs |-> [due[d] EXCEPT ![c] = @ - used[d][c]]]
    /\ UNCHANGED <<ctrl, flush, pc, relay, wopen, streams, kills, faults>>

\* reset_client_traffic zeroes the columns; enabled stays as it is.
ResetTraffic(c) ==
    /\ "reset" \in Panel /\ Live(c)
    /\ used' = [d \in Dirs |-> [used[d] EXCEPT ![c] = 0]]
    /\ due' = [d \in Dirs |-> [due[d] EXCEPT ![c] = @ - used[d][c]]]
    /\ UNCHANGED <<row, ctrl, flush, pc, relay, wopen, streams, kills, faults>>

SetLimit(c) ==
    /\ "limit" \in Panel /\ Live(c)
    /\ \E l \in Limits : row' = [row EXCEPT ![c].limit = l]
    /\ UNCHANGED <<used, ctrl, flush, pc, relay, wopen, streams, kills, faults, due>>

\* The date passes, or a PUT moves it.
SetExpired(c) ==
    /\ "expiry" \in Panel /\ Live(c)
    /\ row' = [row EXCEPT ![c].expired = ~@]
    /\ UNCHANGED <<used, ctrl, flush, pc, relay, wopen, streams, kills, faults, due>>

\* The scheduled kill runs on the loop; a client whose row was gone when the
\* panel looked for its NanoID is not killed.
PanelKill(c) ==
    /\ c \in kills
    /\ kills' = kills \ {c}
    /\ \/ KillStreams(c)
       \/ ~Live(c) /\ UNCHANGED <<wopen, streams>>
    /\ UNCHANGED <<db, ctrl, flush, pc, relay, faults, due>>

\* get_client raises between the update and the kill: the request fails with
\* the client disabled and its connections untouched.
PanelFault(c) ==
    /\ c \in kills
    /\ faults < MaxFaults
    /\ faults' = faults + 1
    /\ kills' = kills \ {c}
    /\ UNCHANGED <<db, ctrl, flush, pc, relay, wopen, streams, due>>
-----------------------------------------------------------------------------
Handler(k) ==
    \/ Accept(k) \/ CheckClient(k) \/ CheckDisable(k) \/ CheckFault(k)
    \/ DialOk(k) \/ DialFail(k) \/ LeadOk(k) \/ LeadFail(k) \/ Finish(k)
    \/ \E d \in Dirs : Send(k, d) \/ RecordBytes(k, d) \/ HalfEnd(k, d)

PanelStep(c) ==
    \/ CreateClient(c) \/ EnableClient(c) \/ DisableClient(c) \/ BulkDisable(c)
    \/ DeleteClient(c) \/ ResetTraffic(c) \/ SetLimit(c) \/ SetExpired(c)
    \/ PanelKill(c) \/ PanelFault(c)

Next ==
    \/ \E k \in Conns : Handler(k)
    \/ Flush \/ FlushFault
    \/ \E c \in Clients : PanelStep(c)

Spec == Init /\ [][Next]_vars

\* asyncio resumes the flush task whenever its sleep or its call is over, and
\* runs what run_coroutine_threadsafe hands it.
FairSpec ==
    /\ Spec
    /\ WF_vars(Flush)
    /\ \A c \in Clients : WF_vars(PanelKill(c))
-----------------------------------------------------------------------------
(* Properties *)

InFlight(d, c) == IF fpc = "add" /\ cur = c THEN fly[d] ELSE 0

\* Every byte record_bytes was told of, in each direction, is in exactly one
\* place: the pending dictionaries, the flush in progress, or the row; however
\* records, pops, awaits, resets and deletions interleave (traffic.py 51-94).
Conservation ==
    \A d \in Dirs, c \in Clients :
        due[d][c] = pending[d][c] + InFlight(d, c) + used[d][c]

\* The flush walks the keys of _pending_upload alone, so bytes pending in
\* either dictionary must be under a key of that one (traffic.py 51-54, 81).
PendingIsReachable ==
    \A d \in Dirs, c \in Clients : pending[d][c] > 0 => c \in keys

\* A relay whose writer is open is in the set kill_client_streams walks: no
\* kill, unregister or other handler of the same client takes it out of it
\* (traffic.py 56-73, handler.py 158-165).
RelayIsRegistered ==
    \A k \in Conns : pc[k] \in {"lead", "relay"} /\ wopen[k] => k \in streams[Owner[k]]

\* As long as no panel request re-enables a client or lowers its limit, an
\* enabled client over its limit is one the flush is just about to disable,
\* or the flush task is dead (traffic.py 86-90).
QuotaEnforced ==
    Panel \cap {"enable", "limit"} = {} =>
        \A c \in Clients :
            Live(c) /\ row[c].enabled /\ OverLimit(c) =>
                fpc = "dead" \/ (fpc \in {"read", "disable"} /\ cur = c)

\* A client that has pending bytes and with them is at its limit is not left
\* enabled: it ends up disabled, unless the panel lifts its limit or deletes
\* the row.  (A reset between every add of the flush and its read would empty
\* the row each time, so the claim is made for a panel that does not reset;
\* traffic.py 75-90.)
BytesDue(c) == due["up"][c] + due["down"][c]
AtLimit(c) == Live(c) /\ row[c].limit > 0 /\ BytesDue(c) >= row[c].limit
OverLimitIsCut ==
    "reset" \notin Panel =>
        \A c \in Clients :
            (c \in keys /\ AtLimit(c)) ~> (~row[c].enabled \/ ~AtLimit(c))

\* "client {nanoid} traffic limit reached, connections killed" (traffic.py 94):
\* where nothing else disables clients, one that is disabled and that the flush
\* is done with has no relay open.
LimitKillsConnections ==
    \A k \in Conns :
        LET c == Owner[k] IN
        Live(c) /\ ~row[c].enabled /\ fpc \in {"sleep", "next"} =>
            ~(pc[k] = "relay" /\ wopen[k])
=============================================================================
