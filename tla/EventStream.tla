---------------------------- MODULE EventStream ----------------------------
(***************************************************************************)
(* The two streaming transports, transport/http_request_sse.py ("sse") and *)
(* transport/http_request_body.py ("body"): one session.                   *)
(*                                                                         *)
(* The server puts what it writes into an asyncio queue; the handler of a  *)
(* response takes chunks from it and sends a ping after 15 s of silence.   *)
(* An sse client asks again when its response ends or breaks, and the      *)
(* handler of the broken one goes on taking until a write fails.  A body   *)
(* client has one request for both directions.  A chunk is its number in   *)
(* the order of writing.  A step is a stretch of code between two awaits.  *)
(***************************************************************************)
EXTENDS Naturals, FiniteSets, Sequences, SequencesExt

CONSTANTS
    MaxConns,     \* bound: responses under way, with those the client gave up
    MaxDown,      \* bound: chunks the server writes
    MaxUp,        \* bound: chunks the client writes
    MaxPings,     \* bound: pings written before the session is closed
    MaxFaults     \* bound: requests that fail, and server restarts

ASSUME BoundsAssumption ==
    /\ MaxConns \in Nat \ {0} /\ MaxDown \in Nat /\ MaxUp \in Nat
    /\ MaxPings \in Nat /\ MaxFaults \in Nat

Conns == 1 .. MaxConns
Sides == {"client", "server"}
Ping == 0                 \* an event ": ping", or a byte of zeros
End == MaxDown + 1        \* the None that SvrWriter.close puts
Data == 1 .. MaxDown
UpData == 1 .. MaxUp

VARIABLES
    kind,      \* the transport
    lines,     \* chunks, of either direction, that end a line
    task,      \* the client's receiving task
    conns,     \* responses: the handler, what is on the wire, whose it is
    written,   \* chunks the server has written
    queue,     \* down_queue
    stop,      \* the server's writer is closed and stop_event set
    pings,     \* pings written while it was not
    reader,    \* both StreamReaders: what is fed and not read, what is read, the end
    ubuf,      \* what the client's writer holds
    post,      \* sse: the POST under way; body: upload_queue and request body
    late,      \* sse: POSTs given up that may yet reach the server
    up,        \* chunks the client has written
    known,     \* the session and its handler task exist
    closed,    \* the client's writer is closed
    faults     \* requests that have failed

down == <<written, queue, stop, pings>>
uploads == <<ubuf, post, late, up>>
vars == <<kind, lines, task, conns, down, reader, uploads, known, closed, faults>>

Free == [pc |-> "free", wire |-> <<>>, mine |-> FALSE]
\* The chunks of s are in order; a ping is 0, below every chunk.
Increasing(s) == \A i, j \in DOMAIN s : i < j /\ s[j] # Ping => s[i] < s[j]

TypeOK ==
    /\ kind \in {"sse", "body"} /\ lines \subseteq 1 .. (MaxDown + MaxUp)
    /\ task \in {"ask", "reading", "asleep", "off"}
    /\ conns \in [Conns -> [pc : {"free", "sent", "get", "over"},
                            wire : Seq(Data \cup {Ping}), mine : BOOLEAN]]
    /\ Cardinality({c \in Conns : conns[c].mine}) = IF task = "reading" THEN 1 ELSE 0
    /\ written \in 0 .. MaxDown /\ queue \in Seq(Data \cup {End})
    /\ stop \in BOOLEAN /\ pings \in 0 .. MaxPings
    /\ reader \in [Sides -> [buf : Seq(Nat), got : Seq(Nat), ended : BOOLEAN]]
    /\ ubuf \in Seq(UpData) /\ post \in Seq(UpData) /\ late \subseteq UpData
    /\ up \in 0 .. MaxUp
    /\ known \in BOOLEAN /\ closed \in BOOLEAN /\ faults \in 0 .. MaxFaults

\* connect: an sse session exists from gn-init on, a body session from the arrival
\* of its one request.
Init ==
    /\ kind \in {"sse", "body"}
    /\ lines \in IF kind = "sse" THEN {{}} ELSE SUBSET (Data \cup UpData)
    /\ task = "ask"
    /\ conns = [c \in Conns |-> Free]
    /\ written = 0 /\ queue = <<>> /\ stop = FALSE /\ pings = 0
    /\ reader = [s \in Sides |-> [buf |-> <<>>, got |-> <<>>, ended |-> FALSE]]
    /\ ubuf = <<>> /\ post = <<>> /\ late = {} /\ up = 0
    /\ known = (kind = "sse")
    /\ closed = FALSE /\ faults = 0
-----------------------------------------------------------------------------
(* The stream readers *)

Feed(side, s) == reader' = [reader EXCEPT ![side].buf = @ \o s]
FeedEnd(side, s) == reader' = [reader EXCEPT ![side].buf = @ \o s, ![side].ended = TRUE]

\* read: what there is, up to n.
Read(side, n) ==
    /\ n <= Len(reader[side].buf)
    /\ reader' = [reader EXCEPT ![side].got = @ \o SubSeq(reader[side].buf, 1, n),
                                ![side].buf = SubSeq(@, n + 1, Len(@))]
    /\ UNCHANGED <<kind, lines, task, conns, down, uploads, known, closed, faults>>
-----------------------------------------------------------------------------
(* The server's writer *)

\* write and drain.
SvrWrite ==
    /\ known /\ ~stop /\ written < MaxDown
    /\ written' = written + 1
    /\ queue' = Append(queue, written + 1)
    /\ UNCHANGED <<kind, lines, task, conns, stop, pings, reader, uploads, known, closed, faults>>

SvrClose ==
    /\ known /\ ~stop
    /\ stop' = TRUE
    /\ queue' = Append(queue, End)
    /\ UNCHANGED <<kind, lines, task, conns, written, pings, reader, uploads, known, closed, faults>>
-----------------------------------------------------------------------------
(* The handler of a response *)

\* The loop looks at stop_event before it waits for the queue, and only then: what
\* the queue holds when it is set is not sent.
Loop(c, wire, halt) ==
    conns' = [conns EXCEPT ![c] =
        IF ~halt THEN [@ EXCEPT !.pc = "get", !.wire = wire]
        ELSE IF conns[c].mine THEN [@ EXCEPT !.pc = "over", !.wire = wire]
        ELSE Free]

\* A request for events arrives: an unknown session is answered with a 404.
SseArrive(c) ==
    /\ kind = "sse" /\ conns[c].pc = "sent"
    /\ Loop(c, <<>>, stop \/ ~known)
    /\ UNCHANGED <<kind, lines, task, down, reader, uploads, known, closed, faults>>

\* The request arrives and makes the session: its handler and its upload reader.
BodyArrive(c) ==
    /\ kind = "body" /\ conns[c].pc = "sent"
    /\ known' = TRUE
    /\ Loop(c, <<>>, stop)
    /\ UNCHANGED <<kind, lines, task, down, reader, uploads, closed, faults>>

\* Mutant: a chunk whose write failed goes back to the end of the queue.
TakeBack(c) ==
    LET head == Head(queue) IN
    /\ conns[c].pc = "get" /\ queue # <<>>
    /\ queue' = IF ~conns[c].mine /\ head # End THEN Append(Tail(queue), head) ELSE Tail(queue)
    /\ \/ conns[c].mine /\ head # End /\ Loop(c, Append(conns[c].wire, head), stop)
       \/ (head = End \/ ~conns[c].mine) /\ Loop(c, conns[c].wire, TRUE)
    /\ UNCHANGED <<kind, lines, task, written, stop, pings, reader, uploads, known, closed, faults>>

\* The handler takes a chunk and writes it; None ends it.  When the client has
\* gone the chunk is lost, and the write fails once the loss is noticed.
Take(c) ==
    LET head == Head(queue) IN
    /\ conns[c].pc = "get" /\ queue # <<>>
    /\ queue' = Tail(queue)
    /\ \/ head = End /\ Loop(c, conns[c].wire, TRUE)
       \/ head # End /\ conns[c].mine /\ Loop(c, Append(conns[c].wire, head), stop)
       \/ head # End /\ ~conns[c].mine /\ \E failed \in BOOLEAN : Loop(c, <<>>, stop \/ failed)
    /\ UNCHANGED <<kind, lines, task, written, stop, pings, reader, uploads, known, closed, faults>>

\* Mutant: the chunk that comes with the timeout is lost.
TimeoutLoses(c) ==
    /\ conns[c].pc = "get" /\ (pings < MaxPings \/ stop)
    /\ pings' = IF stop THEN pings ELSE pings + 1
    /\ queue' = IF queue # <<>> THEN Tail(queue) ELSE queue
    /\ Loop(c, IF conns[c].mine THEN Append(conns[c].wire, Ping) ELSE <<>>,
            stop \/ ~conns[c].mine)
    /\ UNCHANGED <<kind, lines, task, written, stop, reader, uploads, known, closed, faults>>

\* Mutant: the timeout ends the response.
TimeoutEnds(c) ==
    /\ conns[c].pc = "get" /\ (pings < MaxPings \/ stop)
    /\ pings' = IF stop THEN pings ELSE pings + 1
    /\ Loop(c, conns[c].wire, TRUE)
    /\ UNCHANGED <<kind, lines, task, written, queue, stop, reader, uploads, known, closed, faults>>

\* Mutant: only None ends the loop.
TimeoutForever(c) ==
    /\ conns[c].pc = "get" /\ (pings < MaxPings \/ stop)
    /\ pings' = IF stop THEN pings ELSE pings + 1
    /\ Loop(c, IF ~conns[c].mine \/ stop THEN conns[c].wire ELSE Append(conns[c].wire, Ping),
            ~conns[c].mine)
    /\ UNCHANGED <<kind, lines, task, written, queue, stop, reader, uploads, known, closed, faults>>

\* 15 s without a chunk: a ping, which fails when the client has gone.
Timeout(c) ==
    /\ conns[c].pc = "get" /\ (pings < MaxPings \/ stop)
    /\ pings' = IF stop THEN pings ELSE pings + 1
    /\ Loop(c, IF conns[c].mine THEN Append(conns[c].wire, Ping) ELSE <<>>,
            stop \/ ~conns[c].mine)
    /\ UNCHANGED <<kind, lines, task, written, queue, stop, reader, uploads, known, closed, faults>>
-----------------------------------------------------------------------------
(* The client's receiving task *)

\* The GET of sse_loop, or the one POST of run_conn.
Ask ==
    /\ task = "ask"
    /\ \E c \in Conns : conns[c].pc = "free"
    /\ LET c == CHOOSE d \in Conns : conns[d].pc = "free"
       IN conns' = [conns EXCEPT ![c] = [Free EXCEPT !.pc = "sent", !.mine = TRUE]]
    /\ task' = "reading"
    /\ UNCHANGED <<kind, lines, down, reader, uploads, known, closed, faults>>

\* sse_loop takes an event from the response; a comment is not fed.
SseReceive(c) ==
    LET wire == conns[c].wire IN
    /\ kind = "sse" /\ conns[c].mine /\ wire # <<>>
    /\ Feed("client", IF Head(wire) = Ping THEN <<>> ELSE <<Head(wire)>>)
    /\ conns' = [conns EXCEPT ![c].wire = Tail(@)]
    /\ UNCHANGED <<kind, lines, task, down, uploads, known, closed, faults>>

\* Mutant: asks again while the response that ended is open.
SseEndsOpen(c) ==
    /\ kind = "sse" /\ conns[c].mine /\ conns[c].pc = "over" /\ conns[c].wire = <<>>
    /\ task' = "ask"
    /\ UNCHANGED <<kind, lines, conns, down, reader, uploads, known, closed, faults>>

\* The response has ended: sse_loop asks again at once.
SseEnds(c) ==
    /\ kind = "sse" /\ conns[c].mine /\ conns[c].pc = "over" /\ conns[c].wire = <<>>
    /\ conns' = [conns EXCEPT ![c] = Free]
    /\ task' = "ask"
    /\ UNCHANGED <<kind, lines, down, reader, uploads, known, closed, faults>>

\* The first line of s: iterating over content yields lines, not chunks.
HasLine(s) == \E i \in DOMAIN s : s[i] \in lines
LineEnd(s) == CHOOSE i \in DOMAIN s : s[i] \in lines /\ \A j \in 1 .. i - 1 : s[j] \notin lines

\* run_conn feeds a line; the pings before its end are part of it.
BodyReceive(c) ==
    LET wire == conns[c].wire IN
    /\ kind = "body" /\ conns[c].mine /\ HasLine(wire)
    /\ Feed("client", SubSeq(wire, 1, LineEnd(wire)))
    /\ conns' = [conns EXCEPT ![c].wire = SubSeq(@, LineEnd(wire) + 1, Len(@))]
    /\ UNCHANGED <<kind, lines, task, down, uploads, known, closed, faults>>

\* Mutant: the reader is not closed.
BodyEndsOpen(c) ==
    LET wire == conns[c].wire IN
    /\ kind = "body" /\ conns[c].mine /\ conns[c].pc = "over" /\ ~HasLine(wire)
    /\ Feed("client", IF wire = <<Ping>> THEN <<>> ELSE wire)
    /\ conns' = [conns EXCEPT ![c] = Free]
    /\ task' = "off"
    /\ UNCHANGED <<kind, lines, down, uploads, known, closed, faults>>

\* The response has ended: run_conn feeds the rest, unless it is one ping, and
\* closes the reader.
BodyEnds(c) ==
    LET wire == conns[c].wire IN
    /\ kind = "body" /\ conns[c].mine /\ conns[c].pc = "over" /\ ~HasLine(wire)
    /\ FeedEnd("client", IF wire = <<Ping>> THEN <<>> ELSE wire)
    /\ conns' = [conns EXCEPT ![c] = Free]
    /\ task' = "off"
    /\ UNCHANGED <<kind, lines, down, uploads, known, closed, faults>>

\* The client is without response c; its handler is not told.
Abandon(c) == [conns EXCEPT ![c] = IF @.pc = "over" THEN Free
                                   ELSE [@ EXCEPT !.mine = FALSE, !.wire = <<>>]]

\* The response breaks: sse_loop sleeps, run_conn closes the reader.
Break(c) ==
    /\ conns[c].mine /\ faults < MaxFaults
    /\ kind = "sse" => \E d \in Conns \ {c} : conns[d].pc = "free"
    /\ faults' = faults + 1
    /\ conns' = Abandon(c)
    /\ IF kind = "sse" THEN task' = "asleep" /\ UNCHANGED reader
                       ELSE task' = "off" /\ FeedEnd("client", <<>>)
    /\ UNCHANGED <<kind, lines, down, uploads, known, closed>>

Wake ==
    /\ task = "asleep"
    /\ task' = "ask"
    /\ UNCHANGED <<kind, lines, conns, down, reader, uploads, known, closed, faults>>

\* A request the client gave up never arrives.
Vanish(c) ==
    /\ ~conns[c].mine /\ conns[c].pc = "sent"
    /\ conns' = [conns EXCEPT ![c] = Free]
    /\ UNCHANGED <<kind, lines, task, down, reader, uploads, known, closed, faults>>
-----------------------------------------------------------------------------
(* The client's writer *)

Write ==
    /\ ~closed /\ up < MaxUp
    /\ up' = up + 1
    /\ ubuf' = Append(ubuf, up + 1)
    /\ UNCHANGED <<kind, lines, task, conns, down, reader, post, late, known, closed, faults>>

\* sse: drain posts one chunk after the other, each when the last is answered.
SseDrain ==
    /\ kind = "sse" /\ ~closed /\ ubuf # <<>> /\ post = <<>>
    /\ post' = <<Head(ubuf)>> /\ ubuf' = Tail(ubuf)
    /\ UNCHANGED <<kind, lines, task, conns, down, reader, late, up, known, closed, faults>>

\* The server feeds its reader, or answers 404, which drain does not look at.
SsePosted ==
    /\ kind = "sse" /\ post # <<>>
    /\ Feed("server", IF known THEN post ELSE <<>>)
    /\ post' = <<>>
    /\ UNCHANGED <<kind, lines, task, conns, down, ubuf, late, up, known, closed, faults>>

\* Mutant: posts the chunk once more.
SsePostFailsAgain ==
    /\ kind = "sse" /\ post # <<>> /\ faults < MaxFaults
    /\ faults' = faults + 1
    /\ Feed("server", IF known THEN post ELSE <<>>)
    /\ UNCHANGED <<kind, lines, task, conns, down, ubuf, post, late, up, known, closed>>

\* The POST fails at the client, and drain goes on; the server has it, may yet
\* have it, or never will.
SsePostFails ==
    /\ kind = "sse" /\ post # <<>> /\ faults < MaxFaults
    /\ faults' = faults + 1
    /\ \/ Feed("server", IF known THEN post ELSE <<>>) /\ UNCHANGED late
       \/ late' = late \cup {Head(post)} /\ UNCHANGED reader
    /\ post' = <<>>
    /\ UNCHANGED <<kind, lines, task, conns, down, ubuf, up, known, closed>>

SsePostLate(x) ==
    /\ x \in late
    /\ late' = late \ {x}
    /\ \/ Feed("server", IF known THEN <<x>> ELSE <<>>)
       \/ UNCHANGED reader
    /\ UNCHANGED <<kind, lines, task, conns, down, ubuf, post, up, known, closed, faults>>

\* body: drain puts all into upload_queue, which the request's body takes from as
\* long as the request lives.
BodyDrain ==
    /\ kind = "body" /\ ~closed /\ ubuf # <<>>
    /\ ubuf' = <<>>
    /\ post' = IF task = "off" THEN post ELSE post \o ubuf
    /\ UNCHANGED <<kind, lines, task, conns, down, reader, late, up, known, closed, faults>>

\* read_upload feeds a line.
BodyUpload ==
    /\ kind = "body" /\ known /\ ~reader["server"].ended /\ HasLine(post)
    /\ Feed("server", SubSeq(post, 1, LineEnd(post)))
    /\ post' = SubSeq(post, LineEnd(post) + 1, Len(post))
    /\ UNCHANGED <<kind, lines, task, conns, down, ubuf, late, up, known, closed, faults>>

\* The request has ended or broken: what is left of it is lost, and read_upload
\* closes the reader.
BodyUploadEnds ==
    /\ kind = "body" /\ known /\ ~reader["server"].ended
    /\ \A c \in Conns : ~conns[c].mine \/ conns[c].pc = "over"
    /\ FeedEnd("server", <<>>)
    /\ post' = <<>>
    /\ UNCHANGED <<kind, lines, task, conns, down, ubuf, late, up, known, closed, faults>>

\* sse: close cancels sse_loop and a POST; the server is not told.
SseClose ==
    /\ kind = "sse" /\ ~closed
    /\ closed' = TRUE /\ task' = "off"
    /\ conns' = [c \in Conns |-> IF conns[c].mine THEN Abandon(c)[c] ELSE conns[c]]
    /\ late' = late \cup ToSet(post) /\ post' = <<>>
    /\ UNCHANGED <<kind, lines, down, reader, ubuf, up, known, faults>>

\* body: close cancels the request, with what it has not sent, before run_conn
\* could close the client's reader.
BodyClose ==
    /\ kind = "body" /\ ~closed
    /\ closed' = TRUE /\ task' = "off"
    /\ conns' = [c \in Conns |-> IF conns[c].mine THEN Abandon(c)[c] ELSE conns[c]]
    /\ UNCHANGED <<kind, lines, down, reader, uploads, known, faults>>

\* The server starts anew: the session and the handlers are gone, and a response
\* under way breaks.
Restart ==
    /\ known /\ faults < MaxFaults
    /\ known' = FALSE /\ faults' = faults + 1
    /\ queue' = <<>>
    /\ conns' = [c \in Conns |-> IF conns[c].pc = "get" THEN Free ELSE conns[c]]
    /\ IF \E c \in Conns : conns[c].mine /\ conns[c].pc = "get"
       THEN IF kind = "sse" THEN task' = "asleep" /\ UNCHANGED reader
                            ELSE task' = "off" /\ FeedEnd("client", <<>>)
       ELSE UNCHANGED <<task, reader>>
    /\ UNCHANGED <<kind, lines, written, stop, pings, uploads, closed>>
-----------------------------------------------------------------------------
ServerStep ==
    \/ SvrWrite \/ SvrClose \/ Restart
    \/ \E c \in Conns : SseArrive(c) \/ BodyArrive(c) \/ Take(c) \/ Timeout(c)

ReceiveStep ==
    \/ Ask \/ Wake
    \/ \E c \in Conns : \/ SseReceive(c) \/ SseEnds(c) \/ BodyReceive(c) \/ BodyEnds(c)
                        \/ Break(c) \/ Vanish(c)

SendStep ==
    \/ Write \/ SseDrain \/ SsePosted \/ SsePostFails
    \/ \E x \in late : SsePostLate(x)
    \/ BodyDrain \/ BodyUpload \/ BodyUploadEnds
    \/ SseClose \/ BodyClose

ReadStep == \E side \in Sides, n \in 1 .. (MaxDown + MaxPings + MaxUp) : Read(side, n)

Next == ServerStep \/ ReceiveStep \/ SendStep \/ ReadStep

\* Both programs run, a message that is not lost arrives, and the 15 s pass.
Fairness ==
    /\ \A c \in Conns :
          /\ WF_vars(SseArrive(c)) /\ WF_vars(BodyArrive(c))
          /\ WF_vars(Take(c)) /\ WF_vars(Timeout(c))
          /\ WF_vars(SseReceive(c)) /\ WF_vars(SseEnds(c))
          /\ WF_vars(BodyReceive(c)) /\ WF_vars(BodyEnds(c))
    /\ WF_vars(Ask) /\ WF_vars(Wake)
    /\ WF_vars(SseDrain) /\ WF_vars(SsePosted)
    /\ WF_vars(BodyDrain) /\ WF_vars(BodyUpload) /\ WF_vars(BodyUploadEnds)

Spec == Init /\ [][Next]_vars /\ Fairness
-----------------------------------------------------------------------------
(* Properties *)

Fed(side) == reader[side].got \o reader[side].buf

\* Whatever breaks, the client is given chunks in the order of writing and none
\* twice, although the handlers of old responses share the queue with the new one
\* (http_request_sse.py 137-151, 258-280); an sse client is given no ping.
DownInOrder ==
    /\ Increasing(Fed("client"))
    /\ kind = "sse" => Ping \notin ToSet(Fed("client"))

\* What is on the wire of the response the client has.
Wire ==
    LET mine == {c \in Conns : conns[c].mine}
    IN IF mine = {} THEN <<>> ELSE conns[CHOOSE c \in mine : TRUE].wire

\* As long as nothing fails and neither side closes, every chunk is with the
\* client, on the wire or in the queue, each once and in order: a timeout takes
\* none from the queue (http_request_sse.py 141-148, http_request_body.py 126-133).
NothingLost ==
    faults = 0 /\ ~stop /\ ~closed =>
        LET chunks == Fed("client") \o Wire \o queue
        IN Increasing(chunks) /\ ToSet(chunks) \ {Ping} = 1 .. written

\* The server is given a prefix of what the client wrote by a body request, and by
\* posts as long as none fails.  Whatever fails, no chunk is given to it twice, and
\* none before an older one that the client still has in hand (http_request_sse.py
\* 67-77, http_request_body.py 191-198, 288-297).
UploadInOrder ==
    LET fed == Fed("server") IN
    /\ kind = "body" \/ (faults = 0 /\ ~closed) => IsPrefix(fed, [i \in 1 .. up |-> i])
    /\ \A i, j \in DOMAIN fed : fed[i] = fed[j] => i = j
    /\ \A x \in ToSet(fed), y \in ToSet(post \o ubuf) : x < y

\* Without failures a chunk of the server's reaches an sse client, and a body
\* client once a chunk that ends a line follows (http_request_sse.py 258-276).
Delivered ==
    \A b \in Data :
        /\ b <= written /\ (kind = "body" => \E e \in b .. written : e \in lines)
        ~> b \in ToSet(Fed("client")) \/ faults > 0 \/ closed \/ stop

\* When the server closes, the handlers of all the responses end, those that find
\* no None in the queue too (http_request_sse.py 112-115, 141-149).
HandlersEnd ==
    stop ~> ~known \/ \A c \in Conns : conns[c].pc # "get"

\* A body connection that either side closes ends for the reader of the other
\* (http_request_body.py 113-120, 276-279).
BodyEndIsSeen ==
    /\ (kind = "body" /\ stop) ~> (reader["client"].ended \/ closed)
    /\ (kind = "body" /\ closed /\ known) ~> (reader["server"].ended \/ ~known)
=============================================================================
