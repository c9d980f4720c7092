-------------------------------- MODULE Mux --------------------------------
(***************************************************************************)
(* Two MuxSessions of core/mux.py over one connection: the client, which   *)
(* opens streams (client/pool.py), and the server, which accepts them      *)
(* (inbound/handler.py).  A step is a stretch of code between two awaits;  *)
(* the session lock is a FIFO, so frames enter the connection in the order *)
(* their senders asked for it.                                             *)
(***************************************************************************)
EXTENDS Naturals, Sequences, FiniteSets

CONSTANTS
    MaxStreams,  \* bound: streams the client opens; the k-th has id 2k-1
    MaxChunks,   \* bound: chunks each end writes to a stream
    MaxFlight,   \* bound: frames under way to one end; a drain waits for room
    Closers,     \* bound: the ends whose user closes streams
    Losses       \* bound: losses of the connection, 0 or 1

Ends == {"client", "server"}

ASSUME BoundsAssumption ==
    /\ MaxStreams \in Nat /\ MaxChunks \in [Ends -> Nat] /\ MaxFlight \in Nat
    /\ Closers \subseteq Ends /\ Losses \in {0, 1}

Peer(e) == IF e = "client" THEN "server" ELSE "client"
Streams == 1 .. MaxStreams

VARIABLES
    opened,   \* streams opened so far: _next_id = 2*opened + 1
    streams,  \* _streams: the streams of each session that frames can reach
    queue,    \* the server's _accept_queue
    used,     \* streams an end holds and uses
    closed,   \* _closed of each MuxStream
    rclosed,  \* _remote_closed
    closing,  \* close or rst has sent its frame and not yet left _streams
    buf,      \* _buf, the chunks numbered in the order they were written
    event,    \* _data_event is set
    reader,   \* the coroutine that reads the stream
    sent,     \* history: chunks each end has written
    log,      \* history: chunks each end's reader has returned
    chan,     \* frames under way to each end
    ended,    \* run has returned, after close_all
    cut       \* the connection is lost

object == <<closed, rclosed, closing, buf, event>>
history == <<sent, log>>
vars == <<opened, streams, queue, used, closed, rclosed, closing, buf, event,
          reader, sent, log, chan, ended, cut>>

Each(v) == [e \in Ends |-> [k \in Streams |-> v]]
Frame == [id : Streams, flag : {"NEW", "DATA", "FIN", "RST"}, n : Nat]

TypeOK ==
    /\ opened \in 0 .. MaxStreams
    /\ streams \in [Ends -> SUBSET Streams]
    /\ queue \in Seq(Streams)
    /\ used \in [Ends -> SUBSET Streams]
    /\ {closed, rclosed, closing, event} \subseteq [Ends -> [Streams -> BOOLEAN]]
    /\ {buf, log} \subseteq [Ends -> [Streams -> Seq(Nat)]]
    /\ reader \in [Ends -> [Streams -> {"ready", "waiting", "over"}]]
    /\ sent \in [Ends -> [Streams -> Nat]]
    /\ chan \in [Ends -> Seq(Frame)]
    /\ ended \in [Ends -> BOOLEAN] /\ cut \in BOOLEAN
    /\ \A e \in Ends, k \in Streams : closing[e][k] => closed[e][k]

Init ==
    /\ opened = 0 /\ queue = <<>>
    /\ streams = [e \in Ends |-> {}] /\ used = [e \in Ends |-> {}]
    /\ closed = Each(FALSE) /\ rclosed = Each(FALSE) /\ closing = Each(FALSE)
    /\ buf = Each(<<>>) /\ event = Each(FALSE) /\ reader = Each("ready")
    /\ sent = Each(0) /\ log = Each(<<>>)
    /\ chan = [e \in Ends |-> <<>>]
    /\ ended = [e \in Ends |-> FALSE] /\ cut = FALSE
-----------------------------------------------------------------------------
\* _send_frame: what is written to a lost connection goes nowhere.
SendFrame(e, k, flag, n) ==
    \/ cut /\ UNCHANGED chan
    \/ /\ ~cut /\ Len(chan[Peer(e)]) < MaxFlight
       /\ chan' = [chan EXCEPT ![Peer(e)] = Append(@, [id |-> k, flag |-> flag, n |-> n])]

\* open_stream of a session the pool has not seen end.  On a lost connection
\* drain may raise: the caller gets no stream and the entry stays.
OpenStream ==
    /\ opened < MaxStreams
    /\ ~ended["client"]
    /\ opened' = opened + 1
    /\ streams' = [streams EXCEPT !["client"] = @ \cup {opened'}]
    /\ \/ used' = [used EXCEPT !["client"] = @ \cup {opened'}]
       \/ cut /\ UNCHANGED used
    /\ SendFrame("client", opened', "NEW", 0)
    /\ UNCHANGED <<queue, object, reader, history, ended, cut>>

\* accept_loop starts a handle_stream task for each queued stream.
AcceptStream ==
    /\ queue # <<>>
    /\ used' = [used EXCEPT !["server"] = @ \cup {Head(queue)}]
    /\ queue' = Tail(queue)
    /\ UNCHANGED <<opened, streams, object, reader, history, chan, ended, cut>>

Write(e, k) ==
    /\ k \in used[e] /\ ~closed[e][k]
    /\ sent[e][k] < MaxChunks[e]
    /\ sent' = [sent EXCEPT ![e][k] = @ + 1]
    /\ SendFrame(e, k, "DATA", sent'[e][k])
    /\ UNCHANGED <<opened, streams, queue, used, object, reader, log, ended, cut>>

\* Mutant: sends the frame and leaves the flag for later.
CloseUnmarked(e, k, flag) ==
    /\ e \in Closers
    /\ k \in used[e] /\ ~closed[e][k]
    /\ closing' = [closing EXCEPT ![e][k] = TRUE]
    /\ SendFrame(e, k, flag, 0)
    /\ UNCHANGED <<opened, streams, queue, used, closed, rclosed, buf, event, reader, history, ended, cut>>

\* close and rst: the flag, then the frame ...
Close(e, k, flag) ==
    /\ e \in Closers
    /\ k \in used[e] /\ ~closed[e][k]
    /\ closed' = [closed EXCEPT ![e][k] = TRUE]
    /\ closing' = [closing EXCEPT ![e][k] = TRUE]
    /\ SendFrame(e, k, flag, 0)
    /\ UNCHANGED <<opened, streams, queue, used, rclosed, buf, event, reader, history, ended, cut>>

\* ... and, once the frame is drained, _remove_stream.
CloseDone(e, k) ==
    /\ closing[e][k]
    /\ closing' = [closing EXCEPT ![e][k] = FALSE]
    /\ streams' = [streams EXCEPT ![e] = @ \ {k}]
    /\ UNCHANGED <<opened, queue, used, closed, rclosed, buf, event, reader, history, chan, ended, cut>>

\* The drain raises on a lost connection: _remove_stream is skipped and the entry
\* stays until close_all.
CloseRaises(e, k) ==
    /\ cut /\ closing[e][k]
    /\ closing' = [closing EXCEPT ![e][k] = FALSE]
    /\ UNCHANGED <<opened, streams, queue, used, closed, rclosed, buf, event, reader, history, chan, ended, cut>>
-----------------------------------------------------------------------------
(* read: return what is buffered, or nothing at an end, or wait for the event *)

MayRun(e, k) ==
    /\ k \in used[e]
    /\ reader[e][k] = "ready" \/ (reader[e][k] = "waiting" /\ event[e][k])

ReadData(e, k) ==
    /\ MayRun(e, k)
    /\ \E m \in 1 .. Len(buf[e][k]) :
          /\ log' = [log EXCEPT ![e][k] = @ \o SubSeq(buf[e][k], 1, m)]
          /\ buf' = [buf EXCEPT ![e][k] = SubSeq(@, m + 1, Len(@))]
    /\ reader' = [reader EXCEPT ![e][k] = "ready"]
    /\ UNCHANGED <<opened, streams, queue, used, closed, rclosed, closing, event, sent, chan, ended, cut>>

\* Mutant: returns the end although chunks are buffered.
ReadEndEarly(e, k) ==
    /\ MayRun(e, k)
    /\ rclosed[e][k] \/ closed[e][k]
    /\ reader' = [reader EXCEPT ![e][k] = "over"]
    /\ UNCHANGED <<opened, streams, queue, used, object, history, chan, ended, cut>>

ReadEnd(e, k) ==
    /\ MayRun(e, k)
    /\ buf[e][k] = <<>>
    /\ rclosed[e][k] \/ closed[e][k]
    /\ reader' = [reader EXCEPT ![e][k] = "over"]
    /\ UNCHANGED <<opened, streams, queue, used, object, history, chan, ended, cut>>

\* Mutant: waits whenever nothing is buffered, closed or not.
ReadWaitAlways(e, k) ==
    /\ MayRun(e, k)
    /\ buf[e][k] = <<>>
    /\ event' = [event EXCEPT ![e][k] = FALSE]
    /\ reader' = [reader EXCEPT ![e][k] = "waiting"]
    /\ UNCHANGED <<opened, streams, queue, used, closed, rclosed, closing, buf, history, chan, ended, cut>>

ReadWait(e, k) ==
    /\ MayRun(e, k)
    /\ buf[e][k] = <<>> /\ ~rclosed[e][k] /\ ~closed[e][k]
    /\ event' = [event EXCEPT ![e][k] = FALSE]
    /\ reader' = [reader EXCEPT ![e][k] = "waiting"]
    /\ UNCHANGED <<opened, streams, queue, used, closed, rclosed, closing, buf, history, chan, ended, cut>>
-----------------------------------------------------------------------------
(* run: one frame after the other, each to the stream it names if it is known *)

Receive(e, flags) ==
    /\ ~ended[e]
    /\ chan[e] # <<>>
    /\ Head(chan[e]).flag \in flags
    /\ chan' = [chan EXCEPT ![e] = Tail(@)]

ReceiveNew(e) ==
    LET k == Head(chan[e]).id IN
    /\ Receive(e, {"NEW"})
    /\ streams' = [streams EXCEPT ![e] = @ \cup {k}]
    /\ queue' = Append(queue, k)
    /\ UNCHANGED <<opened, used, object, reader, history, ended, cut>>

\* Mutant: buffers the chunk and does not set the event.
ReceiveDataQuiet(e) ==
    LET k == Head(chan[e]).id IN
    /\ Receive(e, {"DATA"})
    /\ buf' = IF k \in streams[e]
              THEN [buf EXCEPT ![e][k] = Append(@, Head(chan[e]).n)] ELSE buf
    /\ UNCHANGED <<opened, streams, queue, used, closed, rclosed, closing, event, reader, history, ended, cut>>

ReceiveData(e) ==
    LET k == Head(chan[e]).id IN
    /\ Receive(e, {"DATA"})
    /\ IF k \in streams[e]
       THEN /\ buf' = [buf EXCEPT ![e][k] = Append(@, Head(chan[e]).n)]
            /\ event' = [event EXCEPT ![e][k] = TRUE]
       ELSE UNCHANGED <<buf, event>>
    /\ UNCHANGED <<opened, streams, queue, used, closed, rclosed, closing, reader, history, ended, cut>>

\* mark_remote_closed sets the flag and the event of each of these streams.
MarkRemoteClosed(e, ks) ==
    /\ rclosed' = [rclosed EXCEPT ![e] = [k \in Streams |-> @[k] \/ k \in ks]]
    /\ event' = [event EXCEPT ![e] = [k \in Streams |-> @[k] \/ k \in ks]]

ReceiveFin(e) ==
    LET k == Head(chan[e]).id IN
    /\ Receive(e, {"FIN", "RST"})
    /\ MarkRemoteClosed(e, {k} \cap streams[e])
    /\ streams' = [streams EXCEPT ![e] = @ \ {k}]
    /\ UNCHANGED <<opened, queue, used, closed, closing, buf, reader, history, ended, cut>>

\* Mutant: ends the streams and keeps their entries.
CloseAllKeeps(e) ==
    /\ cut /\ ~ended[e]
    /\ ended' = [ended EXCEPT ![e] = TRUE]
    /\ MarkRemoteClosed(e, streams[e])
    /\ UNCHANGED <<opened, streams, queue, used, closed, closing, buf, reader, history, chan, cut>>

\* End of the connection: run leaves its loop and close_all runs.
CloseAll(e) ==
    /\ cut /\ ~ended[e]
    /\ ended' = [ended EXCEPT ![e] = TRUE]
    /\ MarkRemoteClosed(e, streams[e])
    /\ streams' = [streams EXCEPT ![e] = {}]
    /\ UNCHANGED <<opened, queue, used, closed, closing, buf, reader, history, chan, cut>>

\* The connection is lost with a suffix of the frames under way.
Cut ==
    /\ ~cut /\ Losses = 1
    /\ cut' = TRUE
    /\ \E f \in [Ends -> 0 .. Len(chan["client"]) + Len(chan["server"])] :
          /\ \A e \in Ends : f[e] <= Len(chan[e])
          /\ chan' = [e \in Ends |-> SubSeq(chan[e], 1, f[e])]
    /\ UNCHANGED <<opened, streams, queue, used, object, reader, history, ended>>
-----------------------------------------------------------------------------
Run(e) == ReceiveNew(e) \/ ReceiveData(e) \/ ReceiveFin(e) \/ CloseAll(e)

Read(e, k) == ReadData(e, k) \/ ReadEnd(e, k) \/ ReadWait(e, k)

Next ==
    \/ OpenStream \/ AcceptStream \/ Cut
    \/ \E e \in Ends : Run(e)
    \/ \E e \in Ends, k \in Streams :
          \/ Write(e, k) \/ Close(e, k, "FIN") \/ Read(e, k)
          \/ CloseDone(e, k) \/ CloseRaises(e, k)
    \/ \E k \in Streams : Close("server", k, "RST")

Spec == Init /\ [][Next]_vars

\* run, accept_loop and the readers are tasks; a close goes on when its drain is
\* done or has raised.
FairSpec ==
    /\ Spec
    /\ WF_vars(AcceptStream)
    /\ \A e \in Ends : WF_vars(Run(e))
    /\ \A e \in Ends, k \in Streams :
          WF_vars(Read(e, k)) /\ WF_vars(CloseDone(e, k) \/ CloseRaises(e, k))
-----------------------------------------------------------------------------
(* Properties *)

\* Each direction of each stream is the pipe MuxPipes describes: no chunk is
\* lost, repeated, reordered or given to another stream before the end is
\* seen (mux.py 23-58, 110-139).
Flip(f) == [e \in Ends |-> f[Peer(e)]]
Pipes == INSTANCE MuxPipes WITH
    written <- Flip(sent),
    fin <- Flip(closed),
    read <- log,
    over <- [e \in Ends |-> [k \in Streams |-> reader[e][k] = "over"]],
    excused <- [e \in Ends |-> [k \in Streams |-> closed[e][k] \/ cut]]
ImplementsPipes == Pipes!Spec

\* A reader that waits with the event clear has nothing to return: the clear
\* before each wait never erases the wake-up of a chunk, of the peer's close
\* or of the session's end (mux.py 24-26, 52-58).
NoLostWakeup ==
    \A e \in Ends, k \in Streams :
        reader[e][k] = "waiting" /\ ~event[e][k] => buf[e][k] = <<>> /\ ~rclosed[e][k]

\* When both ends have closed a stream and nothing is under way, no session keeps
\* an entry for it, whichever frames crossed, except one whose connection is lost
\* and that close_all has still to empty (mux.py 60-72, 99-103, 124-133).
Quiet(k) ==
    /\ \A e \in Ends : \A i \in 1 .. Len(chan[e]) : chan[e][i].id # k
    /\ \A e \in Ends : ~closing[e][k]
NoEntryLeaks ==
    \A k \in Streams :
        (\A e \in Ends : closed[e][k]) /\ Quiet(k) =>
            \A e \in Ends : k \notin streams[e] \/ (cut /\ ~ended[e])

\* A stream its peer has closed comes to its end for the reader, unless that
\* end closes it itself first: close wakes no reader (mux.py 60-65).
EndIsSeen ==
    \A e \in Ends, k \in Streams :
        (k \in used[e] /\ closed[Peer(e)][k]) ~>
            (reader[e][k] = "over" \/ closed[e][k])
=============================================================================
