------------------------------ MODULE HttpPoll ------------------------------
(***************************************************************************)
(* The HTTP request transport, transport/http_request.py: one session.     *)
(*                                                                         *)
(* The server appends what it writes to _down_buf, from which the handlers *)
(* of several concurrent GET requests, sent by the client's poll loops,    *)
(* take chunks.  The client posts what it writes, one POST at a time.  A   *)
(* byte is its number in the order of writing.  A step is a stretch of     *)
(* code between two awaits, or a message sent, lost or delivered.          *)
(***************************************************************************)
EXTENDS Naturals, FiniteSets, Sequences

CONSTANTS
    MaxPolls,     \* poll_connections at most
    MaxStale,     \* bound: handlers of requests the client gave up, at a time
    MaxDown,      \* bound: bytes the server writes
    MaxUp,        \* bound: bytes the client writes
    Batch,        \* max_download_bytes and max_upload_bytes
    MaxFaults     \* bound: requests that fail

ASSUME PollsAssumption == MaxPolls \in Nat \ {0} /\ MaxStale \in Nat
ASSUME BoundsAssumption == MaxDown \in Nat /\ MaxUp \in Nat /\ MaxFaults \in Nat
ASSUME BatchAssumption == Batch \in Nat \ {0}

Polls == 1 .. MaxPolls
Slots == 1 .. (MaxPolls + MaxStale)
None == 0

VARIABLES
    config,   \* poll_connections, and whether min_download_ms is positive
    loops,    \* each poll loop: off, about to ask, asking, or asleep after an error
    gets,     \* GET requests under way, with their handlers
    written,  \* bytes the server has written
    buf,      \* _down_buf
    event,    \* _down_event is set
    got,      \* what the client has been given, in order
    ubuf,     \* what the client's writer holds
    post,     \* the POST that drain awaits
    late,     \* POSTs that were given up but may yet reach the server
    fed,      \* what the server's reader has been given, in order
    up,       \* bytes the client has written
    known,    \* the session is in _sessions
    closed,   \* the client's writer is closed
    faults    \* requests that have failed

down == <<written, buf, event>>
uploads == <<ubuf, post, late, fed, up>>
vars == <<config, loops, gets, down, got, uploads, known, closed, faults>>

Chunk == {<<>>} \cup UNION {[1 .. n -> 1 .. MaxDown] : n \in 1 .. Batch}
UpChunk == UNION {[1 .. n -> 1 .. MaxUp] : n \in 1 .. Batch}
Waiting == {"wait1", "wait2"}
Get == [pc : {"free", "sent", "wait1", "wait2", "answer"}, woken : BOOLEAN,
        by : Polls \cup {None}, data : Chunk]
Free == [pc |-> "free", woken |-> FALSE, by |-> None, data |-> <<>>]

IsOnto(s, n) == \A i \in DOMAIN s : s[i] \in 1 .. n

TypeOK ==
    /\ config \in [polls : 1 .. MaxPolls, min : BOOLEAN]
    /\ loops \in [Polls -> {"off", "ask", "asking", "asleep"}]
    /\ gets \in [Slots -> Get]
    /\ written \in 0 .. MaxDown /\ up \in 0 .. MaxUp
    /\ IsOnto(buf, written) /\ IsOnto(got, written)
    /\ IsOnto(ubuf, up) /\ IsOnto(fed, up)
    /\ event \in BOOLEAN /\ known \in BOOLEAN /\ closed \in BOOLEAN
    /\ post \in {<<>>} \cup UpChunk /\ late \subseteq UpChunk
    /\ faults \in 0 .. MaxFaults
    /\ \A p \in Polls :
          Cardinality({g \in Slots : gets[g].by = p}) = IF loops[p] = "asking" THEN 1 ELSE 0
    /\ \A g \in Slots : gets[g].data # <<>> => gets[g].pc = "answer"

Init ==
    /\ config \in [polls : 1 .. MaxPolls, min : BOOLEAN]
    /\ loops = [p \in Polls |-> IF p <= config.polls THEN "ask" ELSE "off"]
    /\ gets = [g \in Slots |-> Free]
    /\ written = 0 /\ buf = <<>> /\ event = FALSE /\ got = <<>>
    /\ up = 0 /\ ubuf = <<>> /\ post = <<>> /\ late = {} /\ fed = <<>>
    /\ known = TRUE /\ closed = FALSE /\ faults = 0
-----------------------------------------------------------------------------
(* The server's writer *)

\* Mutant: wakes a single handler.
FeedDownOne(n) ==
    LET sleepers == {g \in Slots : gets[g].pc \in Waiting /\ ~gets[g].woken}
        one == CHOOSE g \in sleepers : TRUE
    IN
    /\ known /\ written + n <= MaxDown
    /\ written' = written + n
    /\ buf' = buf \o [i \in 1 .. n |-> written + i]
    /\ event' = TRUE
    /\ gets' = IF sleepers = {} THEN gets ELSE [gets EXCEPT ![one].woken = TRUE]
    /\ UNCHANGED <<config, loops, got, uploads, known, closed, faults>>

\* write and drain: feed_down wakes every handler that waits.
FeedDown(n) ==
    /\ known /\ written + n <= MaxDown
    /\ written' = written + n
    /\ buf' = buf \o [i \in 1 .. n |-> written + i]
    /\ event' = TRUE
    /\ gets' = [g \in Slots |-> [gets[g] EXCEPT !.woken = @ \/ gets[g].pc \in Waiting]]
    /\ UNCHANGED <<config, loops, got, uploads, known, closed, faults>>
-----------------------------------------------------------------------------
(* A poll *)

Ask(p) ==
    /\ loops[p] = "ask"
    /\ \E g \in Slots :
          /\ gets[g].pc = "free" /\ \A f \in 1 .. g - 1 : gets[f].pc # "free"
          /\ gets' = [gets EXCEPT ![g] = [pc |-> "sent", woken |-> FALSE,
                                          by |-> p, data |-> <<>>]]
    /\ loops' = [loops EXCEPT ![p] = "asking"]
    /\ UNCHANGED <<config, down, got, uploads, known, closed, faults>>

\* Mutant: removes one byte more than it takes.
TakeOver(g) ==
    LET n == IF Len(buf) < Batch THEN Len(buf) ELSE Batch IN
    /\ event' = FALSE
    /\ buf' = SubSeq(buf, n + 2, Len(buf))
    /\ gets' = [gets EXCEPT ![g] = [@ EXCEPT !.pc = "answer", !.woken = FALSE,
                                             !.data = SubSeq(buf, 1, n)]]
    /\ UNCHANGED written

\* The last part of the handler: clear the event and take a chunk.
Take(g) ==
    LET n == IF Len(buf) < Batch THEN Len(buf) ELSE Batch IN
    /\ event' = FALSE
    /\ buf' = SubSeq(buf, n + 1, Len(buf))
    /\ gets' = [gets EXCEPT ![g] = [@ EXCEPT !.pc = "answer", !.woken = FALSE,
                                             !.data = SubSeq(buf, 1, n)]]
    /\ UNCHANGED written

Wait(g, phase) ==
    /\ gets' = [gets EXCEPT ![g] = [@ EXCEPT !.pc = phase, !.woken = FALSE]]
    /\ UNCHANGED down

\* Mutant: with min_download_ms, waits for more with a chunk in hand.
ArriveEarly(g) ==
    LET n == IF buf = <<>> THEN 0 ELSE 1 IN
    /\ gets[g].pc = "sent" /\ known
    /\ IF config.min
       THEN /\ gets' = [gets EXCEPT ![g] = [@ EXCEPT !.pc = "wait1", !.data = SubSeq(buf, 1, n)]]
            /\ buf' = SubSeq(buf, n + 1, Len(buf)) /\ UNCHANGED <<event, written>>
       ELSE IF buf # <<>> THEN Take(g) ELSE Wait(g, "wait2")
    /\ UNCHANGED <<config, loops, got, uploads, known, closed, faults>>

\* The request arrives: nothing to wait for, or the first of the waits.
Arrive(g) ==
    /\ gets[g].pc = "sent" /\ known
    /\ IF buf # <<>> THEN Take(g) ELSE Wait(g, IF config.min THEN "wait1" ELSE "wait2")
    /\ UNCHANGED <<config, loops, got, uploads, known, closed, faults>>

\* Woken, or timed out, in the wait of min_download_ms.
WaitAgain(g) ==
    /\ gets[g].pc = "wait1"
    /\ IF buf # <<>> THEN Take(g) ELSE Wait(g, "wait2")
    /\ UNCHANGED <<config, loops, got, uploads, known, closed, faults>>

\* Woken, or timed out, in the wait of POLL_TIMEOUT.
Answer(g) ==
    /\ gets[g].pc = "wait2"
    /\ Take(g)
    /\ UNCHANGED <<config, loops, got, uploads, known, closed, faults>>

\* The session is not known: 404 and no body.
Refuse(g) ==
    /\ gets[g].pc = "sent" /\ ~known
    /\ gets' = [gets EXCEPT ![g].pc = "answer"]
    /\ UNCHANGED <<config, loops, down, got, uploads, known, closed, faults>>

\* Mutant: an empty answer ends the poll loop.
ReceiveStops(g) ==
    /\ gets[g].pc = "answer" /\ gets[g].by # None
    /\ got' = got \o gets[g].data
    /\ loops' = [loops EXCEPT ![gets[g].by] = IF gets[g].data = <<>> THEN "off" ELSE "ask"]
    /\ gets' = [gets EXCEPT ![g] = Free]
    /\ UNCHANGED <<config, down, uploads, known, closed, faults>>

\* The poll loop feeds what it receives and asks again.
Receive(g) ==
    /\ gets[g].pc = "answer" /\ gets[g].by # None
    /\ got' = got \o gets[g].data
    /\ loops' = [loops EXCEPT ![gets[g].by] = "ask"]
    /\ gets' = [gets EXCEPT ![g] = Free]
    /\ UNCHANGED <<config, down, uploads, known, closed, faults>>

\* Mutant: the loop goes on and the request it gave up stays open.
PollFailsOpen(g) ==
    /\ gets[g].by # None /\ faults < MaxFaults
    /\ \E f \in Slots \ {g} : gets[f].pc = "free"
    /\ loops' = [loops EXCEPT ![gets[g].by] = "asleep"]
    /\ faults' = faults + 1
    /\ UNCHANGED <<config, gets, down, got, uploads, known, closed>>

\* A request fails at the client.  Its handler, if there is one, is not told.
PollFails(g) ==
    /\ gets[g].by # None /\ faults < MaxFaults
    /\ \E f \in Slots \ {g} : gets[f].pc = "free"
    /\ gets' = [gets EXCEPT ![g].by = None]
    /\ loops' = [loops EXCEPT ![gets[g].by] = "asleep"]
    /\ faults' = faults + 1
    /\ UNCHANGED <<config, down, got, uploads, known, closed>>

Wake(p) ==
    /\ loops[p] = "asleep"
    /\ loops' = [loops EXCEPT ![p] = "ask"]
    /\ UNCHANGED <<config, gets, down, got, uploads, known, closed, faults>>

\* What nobody waits for goes: a request that never arrived, or an answer.
Vanish(g) ==
    /\ gets[g].by = None /\ gets[g].pc \in {"sent", "answer"}
    /\ gets' = [gets EXCEPT ![g] = Free]
    /\ UNCHANGED <<config, loops, down, got, uploads, known, closed, faults>>
-----------------------------------------------------------------------------
(* The client's writer *)

Write(n) ==
    /\ ~closed /\ up + n <= MaxUp
    /\ up' = up + n
    /\ ubuf' = ubuf \o [i \in 1 .. n |-> up + i]
    /\ UNCHANGED <<config, loops, gets, down, got, post, late, fed, known, closed, faults>>

\* drain: the next chunk leaves the buffer with its POST.
Drain ==
    LET n == IF Len(ubuf) < Batch THEN Len(ubuf) ELSE Batch IN
    /\ ~closed /\ ubuf # <<>> /\ post = <<>>
    /\ post' = SubSeq(ubuf, 1, n)
    /\ ubuf' = SubSeq(ubuf, n + 1, Len(ubuf))
    /\ UNCHANGED <<config, loops, gets, down, got, late, fed, up, known, closed, faults>>

\* The server feeds its reader, or answers 404; drain does not look at the answer.
Posted ==
    /\ post # <<>>
    /\ fed' = IF known THEN fed \o post ELSE fed
    /\ post' = <<>>
    /\ UNCHANGED <<config, loops, gets, down, got, ubuf, late, up, known, closed, faults>>

\* Mutant: posts the chunk once more.
PostFailsAgain ==
    /\ post # <<>> /\ faults < MaxFaults
    /\ faults' = faults + 1
    /\ fed' = IF known THEN fed \o post ELSE fed
    /\ UNCHANGED <<config, loops, gets, down, got, ubuf, post, late, up, known, closed>>

\* The POST fails at the client, and drain goes on without its chunk.  The server
\* may have had it, may yet have it, or never will.
PostFails ==
    /\ post # <<>> /\ faults < MaxFaults
    /\ faults' = faults + 1
    /\ \/ fed' = (IF known THEN fed \o post ELSE fed) /\ UNCHANGED late
       \/ late' = late \cup {post} /\ UNCHANGED fed
    /\ post' = <<>>
    /\ UNCHANGED <<config, loops, gets, down, got, ubuf, up, known, closed>>

PostLate(c) ==
    /\ c \in late
    /\ late' = late \ {c}
    /\ \/ fed' = (IF known THEN fed \o c ELSE fed)
       \/ UNCHANGED fed
    /\ UNCHANGED <<config, loops, gets, down, got, ubuf, post, up, known, closed, faults>>

\* The writer's close cancels the polls and the POST; the server is not told.
Close ==
    /\ ~closed
    /\ closed' = TRUE
    /\ loops' = [p \in Polls |-> "off"]
    /\ gets' = [g \in Slots |-> [gets[g] EXCEPT !.by = None]]
    /\ late' = IF post = <<>> THEN late ELSE late \cup {post}
    /\ post' = <<>>
    /\ UNCHANGED <<config, down, got, ubuf, fed, up, known, faults>>

\* The server starts anew: sessions, buffers and handlers are gone, and a poll
\* that waited fails.
Restart ==
    /\ known /\ faults < MaxFaults
    /\ known' = FALSE
    /\ faults' = faults + 1
    /\ buf' = <<>> /\ event' = FALSE
    /\ gets' = [g \in Slots |-> IF gets[g].pc \in Waiting THEN Free ELSE gets[g]]
    /\ loops' = [p \in Polls |-> IF \E g \in Slots : gets[g].by = p /\ gets[g].pc \in Waiting
                                 THEN "asleep" ELSE loops[p]]
    /\ UNCHANGED <<config, written, got, uploads, closed>>
-----------------------------------------------------------------------------
ServerStep ==
    \/ \E n \in 1 .. MaxDown : FeedDown(n)
    \/ \E g \in Slots : Arrive(g) \/ WaitAgain(g) \/ Answer(g) \/ Refuse(g)

PollStep ==
    \/ \E p \in Polls : Ask(p) \/ Wake(p)
    \/ \E g \in Slots : Receive(g) \/ PollFails(g) \/ Vanish(g)

UploadStep ==
    \/ \E n \in 1 .. MaxUp : Write(n)
    \/ Drain \/ Posted \/ PostFails
    \/ \E c \in late : PostLate(c)

Next == ServerStep \/ PollStep \/ UploadStep \/ Close \/ Restart

\* Both programs run, and a message that is not lost arrives.
Fairness ==
    /\ \A g \in Slots :
          /\ WF_vars(Arrive(g)) /\ WF_vars(WaitAgain(g)) /\ WF_vars(Answer(g))
          /\ WF_vars(Refuse(g)) /\ WF_vars(Receive(g)) /\ WF_vars(Vanish(g))
    /\ \A p \in Polls : WF_vars(Ask(p)) /\ WF_vars(Wake(p))
    /\ WF_vars(Drain) /\ WF_vars(Posted)

Spec == Init /\ [][Next]_vars /\ Fairness
-----------------------------------------------------------------------------
(* Properties *)

\* No handler sleeps while there is something to take: clearing the event that
\* the polls share never loses a wake-up (http_request.py 98-100, 236-249).
NoStuckPoll ==
    buf # <<>> => \A g \in Slots : gets[g].pc \in Waiting => gets[g].woken

\* A byte the server writes is in one place at most, and in one exactly as long
\* as no request has failed and the client is open (http_request.py 174, 248, 289).
NothingLost ==
    \A b \in 1 .. written :
        LET places == Cardinality({i \in DOMAIN buf : buf[i] = b})
                      + Cardinality({i \in DOMAIN got : got[i] = b})
                      + Cardinality({g \in Slots : \E i \in DOMAIN gets[g].data :
                                                       gets[g].data[i] = b})
        IN places <= 1 /\ (faults = 0 /\ ~closed => places = 1)

\* With one poll connection the client is given the bytes in order, whatever
\* fails; with more, answers may overtake each other (http_request.py 283-295).
InOrderAlone ==
    config.polls = 1 => \A i, j \in DOMAIN got : i < j => got[i] < got[j]

\* What the client has in hand: the POST it awaits, and what it has not sent yet.
Pending == post \o ubuf

\* Uploads arrive whole and in order until one fails.  After a failure chunks may be
\* missing, and a POST given up may arrive behind the next; but whatever fails, no
\* byte is given to the server twice, and none before one that the client still has
\* in hand and wrote earlier (http_request.py 70-80).
UploadInOrder ==
    /\ faults = 0 /\ ~closed => fed \o post \o ubuf = [i \in 1 .. up |-> i]
    /\ \A i, j \in DOMAIN fed : fed[i] = fed[j] => i = j
    /\ \A i \in DOMAIN fed, j \in DOMAIN Pending : fed[i] < Pending[j]

\* Without failures, what the server has written reaches the client, however
\* the polls share the buffer and its event (http_request.py 236-250, 283-292).
Delivered ==
    \A b \in 1 .. MaxDown :
        b <= written ~> (\E i \in DOMAIN got : got[i] = b) \/ faults > 0 \/ closed
=============================================================================
