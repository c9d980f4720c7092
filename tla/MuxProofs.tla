----------------------------- MODULE MuxProofs -----------------------------
(* Proofs about Mux, for any number of streams, chunks and frames under way. *)
EXTENDS Mux, TLAPS

Flags == [Ends -> [Streams -> BOOLEAN]]
Chunks == [Ends -> [Streams -> Seq(Nat)]]

\* TypeOK, one variable at a time.
Types ==
    /\ opened \in 0 .. MaxStreams
    /\ streams \in [Ends -> SUBSET Streams] /\ used \in [Ends -> SUBSET Streams]
    /\ queue \in Seq(Streams)
    /\ closed \in Flags /\ rclosed \in Flags /\ closing \in Flags /\ event \in Flags
    /\ buf \in Chunks /\ log \in Chunks
    /\ reader \in [Ends -> [Streams -> {"ready", "waiting", "over"}]]
    /\ sent \in [Ends -> [Streams -> Nat]]
    /\ chan \in [Ends -> Seq(Frame)]
    /\ ended \in [Ends -> BOOLEAN] /\ cut \in BOOLEAN

\* Only a stream that is closed is closing.
ClosingIsClosed == \A e \in Ends, k \in Streams : closing[e][k] => closed[e][k]

LEMMA TypesAre == TypeOK <=> Types /\ ClosingIsClosed
BY DEF TypeOK, Types, ClosingIsClosed, Flags, Chunks

LEMMA Bounds == MaxStreams \in Nat /\ MaxChunks \in [Ends -> Nat] /\ MaxFlight \in Nat
BY BoundsAssumption

LEMMA PeerIsEnd == \A e \in Ends : Peer(e) \in Ends /\ Peer(e) # e
BY DEF Ends, Peer

\* What sending, taking and losing frames does to a sequence of them.
LEMMA Frames ==
    ASSUME NEW s \in Seq(Frame)
    PROVE  /\ \A f \in Frame : Append(s, f) \in Seq(Frame)
           /\ s # <<>> => Head(s) \in Frame /\ Tail(s) \in Seq(Frame)
           /\ \A n \in 0 .. Len(s) : SubSeq(s, 1, n) \in Seq(Frame)
OBVIOUS

LEMMA SendTypes ==
    ASSUME Types, NEW e \in Ends, NEW k \in Streams, NEW n \in Nat,
           NEW flag \in {"NEW", "DATA", "FIN", "RST"}, SendFrame(e, k, flag, n)
    PROVE  chan' \in [Ends -> Seq(Frame)]
<1>1. [id |-> k, flag |-> flag, n |-> n] \in Frame
    BY DEF Frame
<1>2. CASE UNCHANGED chan
    BY <1>2 DEF Types
<1>3. CASE chan' = [chan EXCEPT ![Peer(e)] = Append(@, [id |-> k, flag |-> flag, n |-> n])]
    <2>1. chan[Peer(e)] \in Seq(Frame)
        BY PeerIsEnd DEF Types
    <2>2. Append(chan[Peer(e)], [id |-> k, flag |-> flag, n |-> n]) \in Seq(Frame)
        BY <1>1, <2>1, Frames
    <2> QED
        BY <1>3, <2>2 DEF Types
<1> QED
    BY <1>2, <1>3 DEF SendFrame

LEMMA ReceiveTypes ==
    ASSUME Types, NEW e \in Ends, NEW flags, Receive(e, flags)
    PROVE  /\ chan' \in [Ends -> Seq(Frame)]
           /\ Head(chan[e]) \in Frame /\ Head(chan[e]).id \in Streams /\ Head(chan[e]).n \in Nat
<1>1. chan[e] \in Seq(Frame) /\ chan[e] # <<>> /\ chan' = [chan EXCEPT ![e] = Tail(@)]
    BY DEF Types, Receive
<1>2. Head(chan[e]) \in Frame /\ Tail(chan[e]) \in Seq(Frame)
    BY <1>1, Frames
<1> QED
    BY <1>1, <1>2 DEF Types, Frame

-----------------------------------------------------------------------------
(* The wake-ups of the readers *)

\* NoLostWakeup of one stream of one end.
Wakes(e, k) == reader[e][k] = "waiting" /\ ~event[e][k] => buf[e][k] = <<>> /\ ~rclosed[e][k]

\* An end's entries are closed by its user or not at all, or close_all is to come.
Left ==
    \A e \in Ends, k \in Streams :
        k \in streams[e] =>
            /\ ~ended[e]
            /\ closed[e][k] => closing[e][k] \/ cut

\* A stream is opened once: whoever has it, it was opened, and the frame that tells
\* of it is alone and goes to an end that has never had it.
IsNew(e, i) == i \in 1 .. Len(chan[e]) /\ chan[e][i].flag = "NEW"
Opened ==
    /\ \A e \in Ends, k \in Streams : closed[e][k] => k \in used[e]
    /\ \A e \in Ends : \A k \in used[e] : k <= opened
    /\ \A i \in 1 .. Len(queue) : queue[i] <= opened
News ==
    /\ \A i \in 1 .. Len(chan["client"]) : chan["client"][i].flag # "NEW"
    /\ \A i \in 1 .. Len(chan["server"]) : IsNew("server", i) =>
          LET k == chan["server"][i].id IN
          /\ k <= opened /\ k \notin used["server"]
          /\ \A j \in 1 .. Len(queue) : queue[j] # k
          /\ \A j \in 1 .. Len(chan["server"]) :
                IsNew("server", j) /\ j # i => chan["server"][j].id # k

Inv == Types /\ ClosingIsClosed /\ NoLostWakeup /\ Left /\ Opened /\ News

-----------------------------------------------------------------------------
(* Frames that tell of new streams *)

\* A frame that tells of no stream enters a channel.
LEMMA NewsSent ==
    ASSUME Types, News, NEW e \in Ends, NEW k \in Streams, NEW n \in Nat,
           NEW flag \in {"DATA", "FIN", "RST"}, SendFrame(e, k, flag, n),
           UNCHANGED <<opened, used, queue>>
    PROVE  News'
<1> DEFINE f == [id |-> k, flag |-> flag, n |-> n]
<1>1. CASE UNCHANGED chan
    BY <1>1 DEF News, IsNew
<1>2. CASE chan' = [chan EXCEPT ![Peer(e)] = Append(@, f)]
    <2>1. \A d \in Ends : /\ chan[d] \in Seq(Frame)
                          /\ Len(chan'[d]) \in Nat
                          /\ \A i \in 1 .. Len(chan'[d]) :
                                \/ i \in 1 .. Len(chan[d]) /\ chan'[d][i] = chan[d][i]
                                \/ chan'[d][i].flag # "NEW"
        BY <1>2, PeerIsEnd DEF Types
    <2>2. "client" \in Ends /\ "server" \in Ends
        BY DEF Ends
    <2>3. \A i \in 1 .. Len(chan'["client"]) : chan'["client"][i].flag # "NEW"
        BY <2>1, <2>2 DEF News
    <2>4. \A i : IsNew("server", i)' => IsNew("server", i) /\ chan'["server"][i] = chan["server"][i]
        BY <2>1, <2>2 DEF IsNew
    <2> QED
        BY <2>3, <2>4 DEF News, IsNew
<1> QED
    BY <1>1, <1>2 DEF SendFrame

\* The first frame leaves a channel.
LEMMA Shifted ==
    ASSUME Types, NEW e \in Ends, NEW flags, Receive(e, flags)
    PROVE  \A d \in Ends : \A i \in 1 .. Len(chan'[d]) :
               \/ d = e /\ i + 1 \in 1 .. Len(chan[d]) /\ chan'[d][i] = chan[d][i + 1]
               \/ d # e /\ i \in 1 .. Len(chan[d]) /\ chan'[d][i] = chan[d][i]
<1>1. chan[e] \in Seq(Frame) /\ chan[e] # <<>> /\ chan' = [chan EXCEPT ![e] = Tail(@)]
    BY DEF Types, Receive
<1> QED
    BY <1>1 DEF Types

LEMMA NewsTaken ==
    ASSUME Types, News, NEW e \in Ends, NEW flags, Receive(e, flags),
           UNCHANGED <<opened, used, queue>>
    PROVE  News'
<1>1. "client" \in Ends /\ "server" \in Ends
    BY DEF Ends
<1>2. \A i \in 1 .. Len(chan'["client"]) : chan'["client"][i].flag # "NEW"
    BY <1>1, Shifted DEF News
<1>3. CASE e = "server"
    <2>1. \A i \in 1 .. Len(chan'["server"]) : /\ i + 1 \in 1 .. Len(chan["server"])
                                              /\ chan'["server"][i] = chan["server"][i + 1]
        BY <1>1, <1>3, Shifted
    <2>2. \A i : IsNew("server", i)' => /\ i \in Nat /\ IsNew("server", i + 1)
                                        /\ chan'["server"][i] = chan["server"][i + 1]
        BY <2>1 DEF IsNew
    <2>3. ASSUME NEW i, IsNew("server", i)'
          PROVE  LET k == chan'["server"][i].id IN
                 /\ k <= opened /\ k \notin used["server"]
                 /\ \A j \in 1 .. Len(queue) : queue[j] # k
        BY <2>2, <2>3 DEF News, IsNew
    <2>4. ASSUME NEW i, NEW j, IsNew("server", i)', IsNew("server", j)', j # i
          PROVE  chan'["server"][j].id # chan'["server"][i].id
        <3>1. i + 1 # j + 1
            BY <2>2, <2>4
        <3> QED
            BY <2>2, <2>4, <3>1 DEF News, IsNew
    <2> QED
        BY <1>2, <2>3, <2>4 DEF News
<1>4. CASE e # "server"
    <2>1. \A i : IsNew("server", i)' => IsNew("server", i) /\ chan'["server"][i] = chan["server"][i]
        BY <1>1, <1>4, Shifted DEF IsNew
    <2> QED
        BY <1>2, <2>1 DEF News, IsNew
<1> QED
    BY <1>3, <1>4
-----------------------------------------------------------------------------
(* The steps of the users *)

LEMMA OpenStreamStep == Inv /\ OpenStream => Inv'
<1> SUFFICES ASSUME Inv, OpenStream PROVE Inv'
    OBVIOUS
<1> DEFINE k == opened + 1
           f == [id |-> k, flag |-> "NEW", n |-> 0]
<1>1. /\ k \in Streams /\ k \in Nat /\ k > opened /\ opened \in Nat /\ opened' = k
      /\ "client" \in Ends /\ "server" \in Ends
    BY Bounds DEF OpenStream, Inv, Types, Streams, Ends
<1>2. /\ streams' = [streams EXCEPT !["client"] = @ \cup {k}]
      /\ used' = [used EXCEPT !["client"] = @ \cup {k}] \/ used' = used
      /\ SendFrame("client", k, "NEW", 0)
      /\ UNCHANGED <<queue, closed, rclosed, closing, buf, event, reader, sent, log, ended, cut>>
    BY DEF OpenStream, object, history
<1> HIDE DEF k
<1>11. /\ used' \in [Ends -> SUBSET Streams]
       /\ used'["server"] = used["server"]
       /\ \A e \in Ends : used[e] \subseteq used'[e] /\ used'[e] \subseteq used[e] \cup {k}
    <2>1. used \in [Ends -> SUBSET Streams]
        BY DEF Inv, Types
    <2>2. CASE used' = [used EXCEPT !["client"] = @ \cup {k}]
        BY <1>1, <2>1, <2>2
    <2>3. CASE used' = used
        BY <1>1, <2>1, <2>3
    <2> QED
        BY <1>2, <2>2, <2>3
<1>12. ~ended["client"]
    BY DEF OpenStream
<1>3. Types'
    <2>1. chan' \in [Ends -> Seq(Frame)]
        BY <1>1, <1>2, SendTypes DEF Inv
    <2>2. opened' \in 0 .. MaxStreams
        BY <1>1, Bounds DEF Streams
    <2> QED
        BY <1>1, <1>2, <1>11, <2>1, <2>2 DEF Inv, Types
<1>4. ClosingIsClosed' /\ NoLostWakeup'
    BY <1>2 DEF Inv, ClosingIsClosed, NoLostWakeup
<1>5. Opened'
    <2>1. ASSUME NEW e \in Ends, NEW i \in used'[e] PROVE i <= k
        <3>1. i \in used[e] \/ i = k
            BY <1>11, <2>1
        <3>2. ASSUME i \in used[e] PROVE i \in Nat /\ i <= opened
            BY <3>2, <2>1, Bounds DEF Inv, Types, Opened, Streams
        <3> QED
            BY <1>1, <3>1, <3>2
    <2>2. ASSUME NEW i \in 1 .. Len(queue) PROVE queue[i] <= k
        <3>1. queue[i] \in Streams
            BY DEF Inv, Types
        <3>2. queue[i] \in Nat /\ queue[i] <= opened
            BY <3>1, Bounds DEF Inv, Opened, Streams
        <3> QED
            BY <1>1, <3>2
    <2>3. \A e \in Ends : used[e] \subseteq used'[e]
        BY <1>11
    <2> QED
        BY <1>1, <1>2, <2>1, <2>2, <2>3 DEF Inv, Opened
<1>6. Left'
    <2>1. \A e \in Ends, i \in Streams : closed[e][i] => i # k
        BY <1>1, Bounds DEF Inv, Opened, Streams
    <2> QED
        BY <1>1, <1>2, <1>12, <2>1 DEF Inv, Types, Left
<1>7. News'
    <2>1. \A d \in Ends : \A i \in 1 .. Len(chan'[d]) :
              \/ i \in 1 .. Len(chan[d]) /\ chan'[d][i] = chan[d][i]
              \/ d = "server" /\ i = Len(chan[d]) + 1 /\ chan'[d][i] = f
        <3>1. CASE UNCHANGED chan
            BY <3>1
        <3>2. CASE chan' = [chan EXCEPT !["server"] = Append(@, f)]
            BY <1>1, <3>2 DEF Inv, Types
        <3> QED
            BY <1>2, <3>1, <3>2 DEF SendFrame, Peer
    <2>2. \A i \in 1 .. Len(chan'["client"]) : chan'["client"][i].flag # "NEW"
        BY <1>1, <2>1 DEF Inv, News
    <2>3. used'["server"] = used["server"]
        BY <1>11
    <2>4. /\ \A j \in used["server"] : j # k
          /\ \A j \in 1 .. Len(queue) : queue[j] # k
        <3>1. used["server"] \subseteq Streams /\ \A j \in 1 .. Len(queue) : queue[j] \in Streams
            BY <1>1 DEF Inv, Types
        <3>2. ~(k <= opened)
            BY <1>1
        <3> QED
            BY <1>1, <3>1, <3>2 DEF Inv, Opened
    <2>5. ASSUME NEW i \in 1 .. Len(chan'["server"]), IsNew("server", i)'
          PROVE  \/ /\ IsNew("server", i) /\ chan'["server"][i] = chan["server"][i]
                    /\ chan["server"][i].id \in Nat /\ chan["server"][i].id <= opened
                 \/ ~IsNew("server", i) /\ chan'["server"][i].id = k
        <3>1. CASE i \in 1 .. Len(chan["server"]) /\ chan'["server"][i] = chan["server"][i]
            <4>1. IsNew("server", i)
                BY <2>5, <3>1 DEF IsNew
            <4>2. chan["server"][i] \in Frame
                BY <1>1, <3>1 DEF Inv, Types
            <4> QED
                BY <3>1, <4>1, <4>2, Bounds DEF Inv, News, Frame, Streams
        <3>2. CASE i = Len(chan["server"]) + 1 /\ chan'["server"][i] = f
            <4>1. Len(chan["server"]) \in Nat
                BY <1>1 DEF Inv, Types
            <4>2. i \notin 1 .. Len(chan["server"])
                BY <3>2, <4>1
            <4> QED
                BY <3>2, <4>2 DEF IsNew
        <3> QED
            BY <1>1, <2>1, <3>1, <3>2
    <2>6. ASSUME NEW i \in 1 .. Len(chan'["server"]), IsNew("server", i)'
          PROVE  /\ chan'["server"][i].id <= k
                 /\ chan'["server"][i].id \notin used["server"]
                 /\ \A j \in 1 .. Len(queue) : queue[j] # chan'["server"][i].id
        <3>1. CASE IsNew("server", i) /\ chan'["server"][i] = chan["server"][i]
            <4>1. chan["server"][i].id \in Nat /\ chan["server"][i].id <= opened
                BY <2>5, <2>6, <3>1
            <4>2. chan["server"][i].id <= k
                BY <1>1, <4>1
            <4> QED
                BY <3>1, <4>2 DEF Inv, News, IsNew
        <3>2. CASE chan'["server"][i].id = k
            <4>1. k <= k
                BY <1>1
            <4> QED
                BY <2>4, <3>2, <4>1
        <3> QED
            BY <2>5, <2>6, <3>1, <3>2
    <2>7. ASSUME NEW i \in 1 .. Len(chan'["server"]), IsNew("server", i)',
                 NEW j \in 1 .. Len(chan'["server"]), IsNew("server", j)', j # i
          PROVE  chan'["server"][j].id # chan'["server"][i].id
        <3>1. CASE IsNew("server", i) /\ IsNew("server", j)
            <4>1. /\ chan'["server"][i] = chan["server"][i]
                  /\ chan'["server"][j] = chan["server"][j]
                BY <2>5, <2>7, <3>1
            <4> QED
                BY <2>7, <3>1, <4>1 DEF Inv, News, IsNew
        <3>2. CASE IsNew("server", i) /\ ~IsNew("server", j)
            <4>1. /\ chan'["server"][i].id \in Nat /\ chan'["server"][i].id <= opened
                  /\ chan'["server"][j].id = k
                BY <2>5, <2>7, <3>2
            <4> QED
                BY <1>1, <4>1
        <3>3. CASE IsNew("server", j) /\ ~IsNew("server", i)
            <4>1. /\ chan'["server"][j].id \in Nat /\ chan'["server"][j].id <= opened
                  /\ chan'["server"][i].id = k
                BY <2>5, <2>7, <3>3
            <4> QED
                BY <1>1, <4>1
        <3>4. CASE ~IsNew("server", i) /\ ~IsNew("server", j)
            <4>1. i = Len(chan["server"]) + 1 /\ j = Len(chan["server"]) + 1
                BY <1>1, <2>1, <2>7, <3>4 DEF IsNew
            <4> QED
                BY <2>7, <4>1
        <3> QED
            BY <3>1, <3>2, <3>3, <3>4
    <2> QED
        BY <1>1, <1>2, <2>2, <2>3, <2>6, <2>7 DEF News, IsNew
<1> QED
    BY <1>3, <1>4, <1>5, <1>6, <1>7 DEF Inv

LEMMA AcceptStep == Inv /\ AcceptStream => Inv'
<1> SUFFICES ASSUME Inv, AcceptStream PROVE Inv'
    OBVIOUS
<1>1. /\ queue \in Seq(Streams) /\ queue # <<>> /\ queue' = Tail(queue)
      /\ used' = [used EXCEPT !["server"] = @ \cup {Head(queue)}]
      /\ UNCHANGED <<opened, streams, closed, rclosed, closing, buf, event, reader, sent, log,
                     chan, ended, cut>>
      /\ "client" \in Ends /\ "server" \in Ends
    BY DEF AcceptStream, Inv, Types, object, history, Ends
<1>2. /\ Head(queue) \in Streams /\ Tail(queue) \in Seq(Streams) /\ Head(queue) = queue[1]
      /\ 1 \in 1 .. Len(queue)
      /\ \A i \in 1 .. Len(Tail(queue)) : /\ i + 1 \in 1 .. Len(queue)
                                          /\ Tail(queue)[i] = queue[i + 1]
    BY <1>1
<1>3. Types'
    BY <1>1, <1>2 DEF Inv, Types
<1>4. ClosingIsClosed' /\ NoLostWakeup' /\ Left'
    BY <1>1 DEF Inv, ClosingIsClosed, NoLostWakeup, Left
<1>5. Opened'
    <2>1. \A e \in Ends : used[e] \subseteq used'[e]
        BY <1>1 DEF Inv, Types
    <2>2. \A e \in Ends : \A k \in used'[e] : k <= opened
        BY <1>1, <1>2 DEF Inv, Types, Opened
    <2> QED
        BY <1>1, <1>2, <2>1, <2>2 DEF Inv, Opened
<1>6. News'
    <2>1. used'["server"] = used["server"] \cup {queue[1]}
        BY <1>1, <1>2 DEF Inv, Types
    <2> QED
        BY <1>1, <1>2, <2>1 DEF Inv, News, IsNew
<1> QED
    BY <1>3, <1>4, <1>5, <1>6 DEF Inv

LEMMA WriteStep ==
    ASSUME Inv, NEW e \in Ends, NEW k \in Streams, Write(e, k)
    PROVE  Inv'
<1>1. /\ sent' = [sent EXCEPT ![e][k] = @ + 1] /\ sent'[e][k] \in Nat
      /\ SendFrame(e, k, "DATA", sent'[e][k])
      /\ UNCHANGED <<opened, streams, queue, used, closed, rclosed, closing, buf, event, reader,
                     log, ended, cut>>
    BY DEF Write, Inv, Types, object
<1>2. Types'
    <2>1. chan' \in [Ends -> Seq(Frame)]
        BY <1>1, SendTypes DEF Inv
    <2> QED
        BY <1>1, <2>1 DEF Inv, Types
<1>3. News'
    BY <1>1, NewsSent DEF Inv
<1> QED
    BY <1>1, <1>2, <1>3 DEF Inv, ClosingIsClosed, NoLostWakeup, Left, Opened

LEMMA CloseStep ==
    ASSUME Inv, NEW e \in Ends, NEW k \in Streams, NEW flag \in {"FIN", "RST"}, Close(e, k, flag)
    PROVE  Inv'
<1>1. /\ k \in used[e]
      /\ closed' = [closed EXCEPT ![e][k] = TRUE] /\ closing' = [closing EXCEPT ![e][k] = TRUE]
      /\ SendFrame(e, k, flag, 0)
      /\ UNCHANGED <<opened, streams, queue, used, rclosed, buf, event, reader, sent, log,
                     ended, cut>>
    BY DEF Close, history
<1>2. Types'
    <2>1. chan' \in [Ends -> Seq(Frame)]
        BY <1>1, SendTypes DEF Inv
    <2> QED
        BY <1>1, <2>1 DEF Inv, Types, Flags
<1>3. News'
    BY <1>1, NewsSent DEF Inv
<1>4. \A d \in Ends, i \in Streams :
          /\ closed'[d][i] <=> closed[d][i] \/ (d = e /\ i = k)
          /\ closing'[d][i] <=> closing[d][i] \/ (d = e /\ i = k)
    BY <1>1 DEF Inv, Types, Flags
<1>5. ClosingIsClosed' /\ Left' /\ Opened'
    BY <1>1, <1>4 DEF Inv, ClosingIsClosed, Left, Opened
<1> QED
    BY <1>1, <1>2, <1>3, <1>5 DEF Inv, NoLostWakeup

LEMMA CloseDoneStep ==
    ASSUME Inv, NEW e \in Ends, NEW k \in Streams, CloseDone(e, k)
    PROVE  Inv'
<1>1. /\ closing' = [closing EXCEPT ![e][k] = FALSE]
      /\ streams' = [streams EXCEPT ![e] = @ \ {k}]
      /\ UNCHANGED <<opened, queue, used, closed, rclosed, buf, event, reader, sent, log, chan,
                     ended, cut>>
    BY DEF CloseDone, history
<1>2. Types'
    BY <1>1 DEF Inv, Types, Flags
<1>3. \A d \in Ends, i \in Streams :
          /\ closing'[d][i] <=> closing[d][i] /\ ~(d = e /\ i = k)
          /\ i \in streams'[d] <=> i \in streams[d] /\ ~(d = e /\ i = k)
    BY <1>1 DEF Inv, Types, Flags
<1>4. ClosingIsClosed' /\ Left'
    BY <1>1, <1>3 DEF Inv, ClosingIsClosed, Left
<1> QED
    BY <1>1, <1>2, <1>4 DEF Inv, NoLostWakeup, Opened, News, IsNew

LEMMA CloseRaisesStep ==
    ASSUME Inv, NEW e \in Ends, NEW k \in Streams, CloseRaises(e, k)
    PROVE  Inv'
<1>1. /\ cut /\ closing[e][k] /\ closing' = [closing EXCEPT ![e][k] = FALSE]
      /\ UNCHANGED <<opened, streams, queue, used, closed, rclosed, buf, event, reader, sent, log,
                     chan, ended, cut>>
    BY DEF CloseRaises, history
<1>2. Types'
    BY <1>1 DEF Inv, Types, Flags
<1>3. \A d \in Ends, i \in Streams : closing'[d][i] <=> closing[d][i] /\ ~(d = e /\ i = k)
    BY <1>1 DEF Inv, Types, Flags
<1>4. ClosingIsClosed' /\ Left'
    BY <1>1, <1>3 DEF Inv, ClosingIsClosed, Left
<1> QED
    BY <1>1, <1>2, <1>4 DEF Inv, NoLostWakeup, Opened, News, IsNew

LEMMA ReadStep ==
    ASSUME Inv, NEW e \in Ends, NEW k \in Streams, Read(e, k)
    PROVE  Inv'
<1>1. /\ UNCHANGED <<opened, streams, queue, used, closed, rclosed, closing, sent, chan, ended, cut>>
      /\ MayRun(e, k)
    BY DEF Read, ReadData, ReadEnd, ReadWait, object, history
<1>2. ClosingIsClosed' /\ Left' /\ Opened' /\ News'
    BY <1>1 DEF Inv, ClosingIsClosed, Left, Opened, News, IsNew
<1>3. CASE ReadData(e, k)
    <2>1. PICK m \in 1 .. Len(buf[e][k]) :
              /\ log' = [log EXCEPT ![e][k] = @ \o SubSeq(buf[e][k], 1, m)]
              /\ buf' = [buf EXCEPT ![e][k] = SubSeq(@, m + 1, Len(@))]
        BY <1>3 DEF ReadData
    <2>2. reader' = [reader EXCEPT ![e][k] = "ready"] /\ event' = event
        BY <1>3 DEF ReadData
    <2>3. /\ buf[e][k] \in Seq(Nat) /\ log[e][k] \in Seq(Nat)
          /\ log[e][k] \o SubSeq(buf[e][k], 1, m) \in Seq(Nat)
          /\ SubSeq(buf[e][k], m + 1, Len(buf[e][k])) \in Seq(Nat)
        BY DEF Inv, Types, Chunks
    <2>4. Types'
        BY <1>1, <2>1, <2>2, <2>3 DEF Inv, Types, Chunks
    <2>5. NoLostWakeup'
        BY <1>1, <2>1, <2>2 DEF Inv, Types, Chunks, NoLostWakeup
    <2> QED
        BY <1>2, <2>4, <2>5 DEF Inv
<1>4. CASE ReadEnd(e, k)
    <2>1. reader' = [reader EXCEPT ![e][k] = "over"] /\ UNCHANGED <<buf, log, event>>
        BY <1>4 DEF ReadEnd, object, history
    <2>2. Types' /\ NoLostWakeup'
        BY <1>1, <2>1 DEF Inv, Types, NoLostWakeup
    <2> QED
        BY <1>2, <2>2 DEF Inv
<1>5. CASE ReadWait(e, k)
    <2>1. /\ reader' = [reader EXCEPT ![e][k] = "waiting"]
          /\ event' = [event EXCEPT ![e][k] = FALSE]
          /\ buf[e][k] = <<>> /\ ~rclosed[e][k] /\ UNCHANGED <<buf, log>>
        BY <1>5 DEF ReadWait, history
    <2>2. Types'
        BY <1>1, <2>1 DEF Inv, Types, Flags
    <2>3. NoLostWakeup'
        BY <1>1, <2>1 DEF Inv, Types, Flags, NoLostWakeup
    <2> QED
        BY <1>2, <2>2, <2>3 DEF Inv
<1> QED
    BY <1>3, <1>4, <1>5 DEF Read
-----------------------------------------------------------------------------
(* The steps of the sessions *)

\* A frame that tells of a stream goes to the server, which has not had the stream.
LEMMA ReceiveNewStep ==
    ASSUME Inv, NEW e \in Ends, ReceiveNew(e)
    PROVE  Inv'
<1> DEFINE k == Head(chan[e]).id
<1>1. /\ Receive(e, {"NEW"})
      /\ streams' = [streams EXCEPT ![e] = @ \cup {k}]
      /\ queue' = Append(queue, k)
      /\ UNCHANGED <<opened, used, closed, rclosed, closing, buf, event, reader, sent, log, ended, cut>>
      /\ "client" \in Ends /\ "server" \in Ends
    BY DEF ReceiveNew, object, history, Ends
<1>2. chan' \in [Ends -> Seq(Frame)] /\ k \in Streams
    BY <1>1, ReceiveTypes DEF Inv
<1>3. /\ 1 \in 1 .. Len(chan[e]) /\ chan[e][1].id = k /\ chan[e][1].flag = "NEW"
    <2>1. chan[e] \in Seq(Frame) /\ chan[e] # <<>> /\ Head(chan[e]).flag = "NEW"
        BY <1>1 DEF Inv, Types, Receive
    <2>2. Head(chan[e]) = chan[e][1] /\ 1 \in 1 .. Len(chan[e])
        BY <2>1
    <2> QED
        BY <2>1, <2>2
<1>4. e = "server" /\ IsNew("server", 1)
    BY <1>3 DEF Inv, News, IsNew, Ends
<1>5. /\ k <= opened /\ k \notin used["server"]
      /\ \A j \in 1 .. Len(queue) : queue[j] # k
      /\ \A j \in 1 .. Len(chan["server"]) : IsNew("server", j) /\ j # 1 => chan["server"][j].id # k
    BY <1>3, <1>4 DEF Inv, News
<1>6. /\ queue \in Seq(Streams) /\ queue' \in Seq(Streams)
      /\ \A j \in 1 .. Len(queue') : queue'[j] = k \/ (j \in 1 .. Len(queue) /\ queue'[j] = queue[j])
    BY <1>1, <1>2 DEF Inv, Types
<1> HIDE DEF k
<1>7. Types'
    BY <1>1, <1>2, <1>6 DEF Inv, Types
<1>8. ClosingIsClosed' /\ NoLostWakeup'
    BY <1>1 DEF Inv, ClosingIsClosed, NoLostWakeup
<1>9. Opened'
    BY <1>1, <1>5, <1>6 DEF Inv, Opened
<1>10. Left'
    <2>1. ~closed[e][k]
        BY <1>2, <1>4, <1>5 DEF Inv, Opened
    <2>2. ~ended[e]
        BY <1>1 DEF Receive
    <2> QED
        BY <1>1, <2>1, <2>2 DEF Inv, Types, Left
<1>11. News'
    <2>1. \A i \in 1 .. Len(chan'["client"]) : chan'["client"][i].flag # "NEW"
        BY <1>1, Shifted DEF Inv, News
    <2>2. \A i \in 1 .. Len(chan'["server"]) : /\ i + 1 \in 1 .. Len(chan["server"])
                                              /\ chan'["server"][i] = chan["server"][i + 1]
        BY <1>1, <1>4, Shifted DEF Inv
    <2>3. \A i : IsNew("server", i)' => /\ i \in Nat \ {0} /\ IsNew("server", i + 1)
                                        /\ chan'["server"][i] = chan["server"][i + 1]
        BY <2>2 DEF IsNew
    <2>4. ASSUME NEW i, IsNew("server", i)'
          PROVE  LET id == chan'["server"][i].id IN
                 /\ id <= opened /\ id \notin used["server"]
                 /\ \A j \in 1 .. Len(queue') : queue'[j] # id
        <3>1. IsNew("server", i + 1) /\ i + 1 # 1 /\ chan'["server"][i] = chan["server"][i + 1]
            BY <2>3, <2>4
        <3>2. chan["server"][i + 1].id # k
            BY <1>5, <3>1 DEF IsNew
        <3>3. LET id == chan["server"][i + 1].id IN
              /\ id <= opened /\ id \notin used["server"]
              /\ \A j \in 1 .. Len(queue) : queue[j] # id
            BY <3>1 DEF Inv, News, IsNew
        <3> QED
            BY <1>6, <3>1, <3>2, <3>3
    <2>5. ASSUME NEW i, NEW j, IsNew("server", i)', IsNew("server", j)', j # i
          PROVE  chan'["server"][j].id # chan'["server"][i].id
        <3>1. i + 1 # j + 1
            BY <2>3, <2>5
        <3>2. /\ IsNew("server", i + 1) /\ i + 1 \in 1 .. Len(chan["server"])
              /\ IsNew("server", j + 1) /\ j + 1 \in 1 .. Len(chan["server"])
            BY <2>3, <2>5 DEF IsNew
        <3>3. chan["server"][j + 1].id # chan["server"][i + 1].id
            BY <3>1, <3>2 DEF Inv, News
        <3> QED
            BY <2>3, <2>5, <3>3
    <2> QED
        BY <1>1, <2>1, <2>4, <2>5 DEF News
<1> QED
    BY <1>7, <1>8, <1>9, <1>10, <1>11 DEF Inv

LEMMA ReceiveDataStep ==
    ASSUME Inv, NEW e \in Ends, ReceiveData(e)
    PROVE  Inv'
<1> DEFINE k == Head(chan[e]).id
           n == Head(chan[e]).n
<1>1. /\ Receive(e, {"DATA"})
      /\ UNCHANGED <<opened, streams, queue, used, closed, rclosed, closing, reader, sent, log, ended, cut>>
      /\ \/ UNCHANGED <<buf, event>>
         \/ /\ buf' = [buf EXCEPT ![e][k] = Append(@, n)]
            /\ event' = [event EXCEPT ![e][k] = TRUE]
    BY DEF ReceiveData, history
<1>2. chan' \in [Ends -> Seq(Frame)] /\ k \in Streams /\ n \in Nat
    BY <1>1, ReceiveTypes DEF Inv
<1> HIDE DEF k, n
<1>3. ClosingIsClosed' /\ Left' /\ Opened'
    BY <1>1 DEF Inv, ClosingIsClosed, Left, Opened
<1>4. News'
    BY <1>1, NewsTaken DEF Inv
<1>5. CASE UNCHANGED <<buf, event>>
    <2>1. Types' /\ NoLostWakeup'
        BY <1>1, <1>2, <1>5 DEF Inv, Types, NoLostWakeup
    <2> QED
        BY <1>3, <1>4, <2>1 DEF Inv
<1>6. CASE /\ buf' = [buf EXCEPT ![e][k] = Append(@, n)]
           /\ event' = [event EXCEPT ![e][k] = TRUE]
    <2>1. Append(buf[e][k], n) \in Seq(Nat)
        BY <1>2 DEF Inv, Types, Chunks
    <2>2. Types'
        BY <1>1, <1>2, <1>6, <2>1 DEF Inv, Types, Chunks, Flags
    <2>3. NoLostWakeup'
        BY <1>1, <1>2, <1>6 DEF Inv, Types, Chunks, Flags, NoLostWakeup
    <2> QED
        BY <1>3, <1>4, <2>2, <2>3 DEF Inv
<1> QED
    BY <1>1, <1>5, <1>6

\* mark_remote_closed wakes whom it tells.
LEMMA Marked ==
    ASSUME Types, NoLostWakeup, NEW e \in Ends, NEW ks, MarkRemoteClosed(e, ks),
           UNCHANGED <<reader, buf>>
    PROVE  rclosed' \in Flags /\ event' \in Flags /\ NoLostWakeup'
<1>1. /\ rclosed' = [rclosed EXCEPT ![e] = [k \in Streams |-> @[k] \/ k \in ks]]
      /\ event' = [event EXCEPT ![e] = [k \in Streams |-> @[k] \/ k \in ks]]
      /\ rclosed \in Flags /\ event \in Flags
    BY DEF MarkRemoteClosed, Types
<1>2. /\ [k \in Streams |-> rclosed[e][k] \/ k \in ks] \in [Streams -> BOOLEAN]
      /\ [k \in Streams |-> event[e][k] \/ k \in ks] \in [Streams -> BOOLEAN]
    BY <1>1 DEF Flags
<1>3. rclosed' \in Flags /\ event' \in Flags
    BY <1>1, <1>2 DEF Flags
<1>4. \A d \in Ends, k \in Streams :
          /\ rclosed'[d][k] <=> rclosed[d][k] \/ (d = e /\ k \in ks)
          /\ event'[d][k] <=> event[d][k] \/ (d = e /\ k \in ks)
    BY <1>1 DEF Flags
<1>5. NoLostWakeup'
    BY <1>4 DEF NoLostWakeup
<1> QED
    BY <1>3, <1>5

LEMMA ReceiveFinStep ==
    ASSUME Inv, NEW e \in Ends, ReceiveFin(e)
    PROVE  Inv'
<1> DEFINE k == Head(chan[e]).id
<1>1. /\ Receive(e, {"FIN", "RST"})
      /\ MarkRemoteClosed(e, {k} \cap streams[e])
      /\ streams' = [streams EXCEPT ![e] = @ \ {k}]
      /\ UNCHANGED <<opened, queue, used, closed, closing, buf, reader, sent, log, ended, cut>>
    BY DEF ReceiveFin, history
<1>2. chan' \in [Ends -> Seq(Frame)]
    BY <1>1, ReceiveTypes DEF Inv
<1>3. rclosed' \in Flags /\ event' \in Flags /\ NoLostWakeup'
    BY <1>1, Marked DEF Inv
<1> HIDE DEF k
<1>4. Types'
    BY <1>1, <1>2, <1>3 DEF Inv, Types
<1>5. Left'
    BY <1>1 DEF Inv, Types, Left
<1>6. News'
    BY <1>1, NewsTaken DEF Inv
<1> QED
    BY <1>1, <1>3, <1>4, <1>5, <1>6 DEF Inv, ClosingIsClosed, Opened

LEMMA CloseAllStep ==
    ASSUME Inv, NEW e \in Ends, CloseAll(e)
    PROVE  Inv'
<1>1. /\ MarkRemoteClosed(e, streams[e])
      /\ streams' = [streams EXCEPT ![e] = {}] /\ ended' = [ended EXCEPT ![e] = TRUE]
      /\ UNCHANGED <<opened, queue, used, closed, closing, buf, reader, sent, log, chan, cut>>
    BY DEF CloseAll, history
<1>2. rclosed' \in Flags /\ event' \in Flags /\ NoLostWakeup'
    BY <1>1, Marked DEF Inv
<1>3. Types'
    BY <1>1, <1>2 DEF Inv, Types
<1>4. Left'
    BY <1>1 DEF Inv, Types, Left
<1> QED
    BY <1>1, <1>2, <1>3, <1>4 DEF Inv, ClosingIsClosed, Opened, News, IsNew

LEMMA CutStep == Inv /\ Cut => Inv'
<1> SUFFICES ASSUME Inv, Cut PROVE Inv'
    OBVIOUS
<1>1. PICK f \in [Ends -> 0 .. Len(chan["client"]) + Len(chan["server"])] :
          /\ \A e \in Ends : f[e] <= Len(chan[e])
          /\ chan' = [e \in Ends |-> SubSeq(chan[e], 1, f[e])]
    BY DEF Cut
<1>2. /\ cut' = TRUE
      /\ UNCHANGED <<opened, streams, queue, used, closed, rclosed, closing, buf, event, reader,
                     sent, log, ended>>
    BY DEF Cut, object, history
<1>3. "client" \in Ends /\ "server" \in Ends
    BY DEF Ends
<1>4. ASSUME NEW e \in Ends
      PROVE  /\ chan'[e] = SubSeq(chan[e], 1, f[e]) /\ chan[e] \in Seq(Frame)
             /\ f[e] \in 0 .. Len(chan[e])
    <2>1. \A d \in Ends : Len(chan[d]) \in Nat
        BY DEF Inv, Types
    <2>2. f[e] \in Nat
        <3>1. f[e] \in 0 .. (Len(chan["client"]) + Len(chan["server"]))
            OBVIOUS
        <3> QED
            BY <1>3, <2>1, <3>1
    <2> QED
        BY <1>1, <2>1, <2>2 DEF Inv, Types
<1>5. \A e \in Ends : /\ chan'[e] \in Seq(Frame)
                      /\ \A i \in 1 .. Len(chan'[e]) : /\ i \in 1 .. Len(chan[e])
                                                       /\ chan'[e][i] = chan[e][i]
    <2> SUFFICES ASSUME NEW e \in Ends
                 PROVE  /\ chan'[e] \in Seq(Frame)
                        /\ \A i \in 1 .. Len(chan'[e]) : /\ i \in 1 .. Len(chan[e])
                                                         /\ chan'[e][i] = chan[e][i]
        OBVIOUS
    <2>1. /\ SubSeq(chan[e], 1, f[e]) \in Seq(Frame)
          /\ Len(SubSeq(chan[e], 1, f[e])) = f[e]
          /\ \A i \in 1 .. f[e] : i \in 1 .. Len(chan[e]) /\ SubSeq(chan[e], 1, f[e])[i] = chan[e][i]
        BY <1>4
    <2> QED
        BY <1>4, <2>1
<1>6. chan' \in [Ends -> Seq(Frame)]
    <2>1. chan' = [e \in Ends |-> chan'[e]]
        BY <1>1
    <2> QED
        BY <1>5, <2>1
<1>7. Types'
    BY <1>2, <1>6 DEF Inv, Types
<1>8. News'
    <2>1. \A i : IsNew("server", i)' => IsNew("server", i) /\ chan'["server"][i] = chan["server"][i]
        BY <1>3, <1>5 DEF IsNew
    <2>2. \A i \in 1 .. Len(chan'["client"]) : chan'["client"][i].flag # "NEW"
        BY <1>3, <1>5 DEF Inv, News
    <2> QED
        BY <1>2, <2>1, <2>2 DEF Inv, News, IsNew
<1> QED
    BY <1>2, <1>7, <1>8 DEF Inv, ClosingIsClosed, NoLostWakeup, Left, Opened

-----------------------------------------------------------------------------

LEMMA InitInv == Init => Inv
<1> SUFFICES ASSUME Init PROVE Inv
    OBVIOUS
<1>1. Types
    <2>1. /\ <<>> \in Seq(Nat) /\ <<>> \in Seq(Streams) /\ <<>> \in Seq(Frame)
          /\ 0 \in 0 .. MaxStreams /\ 0 \in Nat
        BY Bounds
    <2>2. Each(FALSE) \in Flags /\ Each(<<>>) \in Chunks
        BY <2>1 DEF Each, Flags, Chunks
    <2>3. /\ Each("ready") \in [Ends -> [Streams -> {"ready", "waiting", "over"}]]
          /\ Each(0) \in [Ends -> [Streams -> Nat]]
        BY <2>1 DEF Each
    <2> QED
        BY <2>1, <2>2, <2>3 DEF Init, Types
<1>2. \A e \in Ends, k \in Streams : /\ ~closed[e][k] /\ ~closing[e][k] /\ reader[e][k] = "ready"
                                     /\ streams[e] = {} /\ used[e] = {}
    BY DEF Init, Each
<1>3. queue = <<>> /\ chan["client"] = <<>> /\ chan["server"] = <<>>
    BY DEF Init, Ends
<1>4. \A e \in Ends : used[e] = {}
    BY DEF Init
<1> QED
    BY <1>1, <1>2, <1>3, <1>4 DEF Inv, ClosingIsClosed, NoLostWakeup, Left, Opened, News

LEMMA StepInv == Inv /\ [Next]_vars => Inv'
<1> SUFFICES ASSUME Inv, [Next]_vars PROVE Inv'
    OBVIOUS
<1>1. CASE OpenStream \/ AcceptStream \/ Cut
    BY <1>1, OpenStreamStep, AcceptStep, CutStep
<1>2. CASE \E e \in Ends : Run(e)
    BY <1>2, ReceiveNewStep, ReceiveDataStep, ReceiveFinStep, CloseAllStep DEF Run
<1>3. CASE \E e \in Ends, k \in Streams :
               \/ Write(e, k) \/ Close(e, k, "FIN") \/ Read(e, k)
               \/ CloseDone(e, k) \/ CloseRaises(e, k)
    BY <1>3, WriteStep, CloseStep, CloseDoneStep, CloseRaisesStep, ReadStep
<1>4. CASE \E k \in Streams : Close("server", k, "RST")
    BY <1>4, CloseStep DEF Ends
<1>5. CASE UNCHANGED vars
    BY <1>5 DEF vars, Inv, Types, ClosingIsClosed, NoLostWakeup, Left, Opened, News, IsNew
<1> QED
    BY <1>1, <1>2, <1>3, <1>4, <1>5 DEF Next

LEMMA InvAlways == Spec => []Inv
BY InitInv, StepInv, PTL DEF Spec

\* Every field of the two sessions and of the channels has its type, for any number
\* of streams and frames under way (mux.py 9-21, 75-90).
THEOREM TypesHold == Spec => []TypeOK
<1>1. Inv => TypeOK
    BY TypesAre DEF Inv
<1> QED
    BY <1>1, InvAlways, PTL

\* No reader sleeps on a chunk, on the peer's close or on the end of the session
\* (mux.py 24-26, 52-58).
THEOREM NoReaderSleepsOnData == Spec => []NoLostWakeup
<1>1. Inv => NoLostWakeup
    BY DEF Inv
<1> QED
    BY <1>1, InvAlways, PTL

\* A stream both ends have closed is in neither session, whichever frames crossed,
\* unless its connection is lost and close_all is to come, for any number of streams
\* (mux.py 60-72, 99-103, 124-133).
THEOREM EntriesAreRemoved == Spec => []NoEntryLeaks
<1>1. Inv => NoEntryLeaks
    BY DEF Inv, Left, NoEntryLeaks, Quiet
<1> QED
    BY <1>1, InvAlways, PTL
-----------------------------------------------------------------------------
(* The streams are pipes: what is under way to an end continues what it has *)

\* Frame i of those under way to e is one of stream k; it tells of the stream,
\* carries a chunk of it, or finishes it.
IsOf(e, i, k) == i \in 1 .. Len(chan[e]) /\ chan[e][i].id = k
Tells(e, i, k) == IsOf(e, i, k) /\ chan[e][i].flag = "NEW"
Carries(e, i, k) == IsOf(e, i, k) /\ chan[e][i].flag = "DATA"
Finishes(e, i, k) == IsOf(e, i, k) /\ chan[e][i].flag \in {"FIN", "RST"}

\* Chunks of k that e has had, and whether those that arrive next reach it.
Reached(e, k) == Len(log[e][k]) + Len(buf[e][k])
Reachable(e, k) == k \in streams[e] \/ \E i \in 1 .. Len(chan[e]) : Tells(e, i, k)

\* What has been read and what is buffered are the first chunks written.
Contiguous(e, k) ==
    /\ \A i \in 1 .. Len(log[e][k]) : log[e][k][i] = i
    /\ \A i \in 1 .. Len(buf[e][k]) : buf[e][k][i] = Len(log[e][k]) + i
    /\ Reached(e, k) <= sent[Peer(e)][k]

\* The chunks under way are some that were written; to an end they reach they are the
\* next ones, with none missing between them, nor behind them until frames are lost.
Written(e, k) ==
    \A i \in 1 .. Len(chan[e]) : Carries(e, i, k) => chan[e][i].n <= sent[Peer(e)][k]
Ordered(e, k) ==
    \A i, j \in 1 .. Len(chan[e]) :
        Carries(e, i, k) /\ Carries(e, j, k) /\ j < i => chan[e][j].n < chan[e][i].n
Gapless(e, k) ==
    Reachable(e, k) => \A i \in 1 .. Len(chan[e]) : Carries(e, i, k) =>
        /\ Reached(e, k) < chan[e][i].n
        /\ \A v \in Nat : Reached(e, k) < v /\ v <= chan[e][i].n =>
              \E j \in 1 .. i : Carries(e, j, k) /\ chan[e][j].n = v
Complete(e, k) ==
    Reachable(e, k) /\ ~cut => \A v \in Nat : Reached(e, k) < v /\ v <= sent[Peer(e)][k] =>
        \E j \in 1 .. Len(chan[e]) : Carries(e, j, k) /\ chan[e][j].n = v

\* The order of the frames of a stream: the one that tells of it, to an end that has
\* not got it; the chunks; the one that finishes it, of an end that has closed it.
NewIsFirst(e, k) ==
    \A i \in 1 .. Len(chan[e]) : Tells(e, i, k) =>
        k \notin streams[e] /\ \A j \in 1 .. Len(chan[e]) : IsOf(e, j, k) => i <= j
FinIsLast(e, k) ==
    \A i \in 1 .. Len(chan[e]) : Finishes(e, i, k) =>
        closed[Peer(e)][k] /\ \A j \in 1 .. Len(chan[e]) : Carries(e, j, k) => j < i

\* Nothing is known of a stream that is not open.
Unopened(e, k) ==
    k > opened => /\ k \notin streams[e] /\ ~rclosed[e][k] /\ sent[e][k] = 0
                  /\ \A i \in 1 .. Len(chan[e]) : ~IsOf(e, i, k)

\* An end that has been told of the end has had everything, unless frames are lost.
AtEnd(e, k) ==
    rclosed[e][k] =>
        /\ ~Reachable(e, k)
        /\ cut \/ (closed[Peer(e)][k] /\ Reached(e, k) = sent[Peer(e)][k])

Pipe(e, k) ==
    /\ Contiguous(e, k) /\ Written(e, k) /\ Ordered(e, k) /\ Gapless(e, k) /\ Complete(e, k)
    /\ NewIsFirst(e, k) /\ FinIsLast(e, k) /\ Unopened(e, k) /\ AtEnd(e, k)
PipeInv == \A e \in Ends, k \in Streams : Pipe(e, k)

\* What sending does to the frames under way to an end.
Puts(p, f) == (cut /\ UNCHANGED chan) \/ (~cut /\ chan' = [chan EXCEPT ![p] = Append(@, f)])

LEMMA Sent ==
    ASSUME Types, NEW p \in Ends, NEW f, Puts(p, f), NEW d \in Ends
    PROVE  /\ Len(chan[d]) \in Nat /\ Len(chan'[d]) \in Nat /\ Len(chan[d]) <= Len(chan'[d])
           /\ \A i \in 1 .. Len(chan[d]) : chan'[d][i] = chan[d][i]
           /\ \A i \in 1 .. Len(chan'[d]) : i \notin 1 .. Len(chan[d]) =>
                 d = p /\ ~cut /\ i = Len(chan[d]) + 1
           /\ cut \/ d # p \/ (/\ Len(chan'[d]) = Len(chan[d]) + 1
                               /\ chan'[d][Len(chan[d]) + 1] = f)
<1>1. chan[d] \in Seq(Frame) /\ Len(chan[d]) \in Nat
    BY DEF Types
<1>2. /\ Len(Append(chan[d], f)) = Len(chan[d]) + 1
      /\ \A i \in 1 .. Len(chan[d]) : Append(chan[d], f)[i] = chan[d][i]
      /\ Append(chan[d], f)[Len(chan[d]) + 1] = f
    BY <1>1
<1>3. CASE chan'[d] = chan[d] /\ (cut \/ d # p)
    BY <1>1, <1>3
<1>4. CASE ~cut /\ d = p /\ chan'[d] = Append(chan[d], f)
    BY <1>1, <1>2, <1>4
<1> QED
    BY <1>3, <1>4 DEF Types, Puts

LEMMA NumbersAre ==
    ASSUME Types, NEW e \in Ends, NEW k \in Streams
    PROVE  /\ Len(log[e][k]) \in Nat /\ Len(buf[e][k]) \in Nat /\ Reached(e, k) \in Nat
           /\ sent[e][k] \in Nat /\ sent[Peer(e)][k] \in Nat /\ k \in Nat /\ opened \in Nat
           /\ Len(chan[e]) \in Nat
           /\ \A i \in 1 .. Len(chan[e]) : chan[e][i].n \in Nat /\ chan[e][i].id \in Streams
<1>1. Len(log[e][k]) \in Nat /\ Len(buf[e][k]) \in Nat
    BY DEF Types, Chunks
<1>2. sent[e][k] \in Nat /\ sent[Peer(e)][k] \in Nat
    BY PeerIsEnd DEF Types
<1>3. k \in Nat /\ opened \in Nat
    BY Bounds DEF Types, Streams
<1>4. chan[e] \in Seq(Frame)
    BY DEF Types
<1>5. Len(chan[e]) \in Nat /\ \A i \in 1 .. Len(chan[e]) : chan[e][i] \in Frame
    BY <1>4
<1>6. \A f \in Frame : f.n \in Nat /\ f.id \in Streams
    BY DEF Frame
<1>7. Reached(e, k) \in Nat
    <2>1. \A m, n \in Nat : m + n \in Nat
        OBVIOUS
    <2> QED
        BY <1>1, <2>1, Zenon DEF Reached
<1> QED
    BY <1>1, <1>2, <1>3, <1>5, <1>6, <1>7

\* Frame i of those under way to d is f, which has just been put there for stream s.
Fresh(p, f, d, s, i) == ~cut /\ d = p /\ f.id = s /\ i = Len(chan[d]) + 1

LEMMA SentFrames ==
    ASSUME Types, NEW p \in Ends, NEW f, Puts(p, f), NEW d \in Ends, NEW s \in Streams
    PROVE  /\ \A i \in 1 .. Len(chan'[d]) :
                 /\ IsOf(d, i, s)' => IsOf(d, i, s) \/ Fresh(p, f, d, s, i)
                 /\ Tells(d, i, s)' =>
                       Tells(d, i, s) \/ (Fresh(p, f, d, s, i) /\ f.flag = "NEW")
                 /\ Finishes(d, i, s)' =>
                       Finishes(d, i, s) \/ (Fresh(p, f, d, s, i) /\ f.flag \in {"FIN", "RST"})
                 /\ Carries(d, i, s)' =>
                       \/ Carries(d, i, s) /\ chan'[d][i] = chan[d][i]
                       \/ Fresh(p, f, d, s, i) /\ f.flag = "DATA" /\ chan'[d][i] = f
           /\ \A i \in 1 .. Len(chan[d]) :
                 /\ i \in 1 .. Len(chan'[d])
                 /\ IsOf(d, i, s) => IsOf(d, i, s)'
                 /\ Tells(d, i, s) => Tells(d, i, s)'
                 /\ Carries(d, i, s) => Carries(d, i, s)' /\ chan'[d][i] = chan[d][i]
           /\ \A i : Fresh(p, f, d, s, i) =>
                 /\ i \in 1 .. Len(chan'[d]) /\ chan'[d][i] = f
                 /\ \A j \in 1 .. Len(chan'[d]) : j = i \/ (j < i /\ j \in 1 .. Len(chan[d]))
<1>1. /\ Len(chan[d]) \in Nat /\ Len(chan'[d]) \in Nat /\ Len(chan[d]) <= Len(chan'[d])
      /\ \A i \in 1 .. Len(chan[d]) : chan'[d][i] = chan[d][i]
      /\ \A i \in 1 .. Len(chan'[d]) : i \notin 1 .. Len(chan[d]) =>
            d = p /\ ~cut /\ i = Len(chan[d]) + 1
      /\ cut \/ d # p \/ (/\ Len(chan'[d]) = Len(chan[d]) + 1
                          /\ chan'[d][Len(chan[d]) + 1] = f)
    BY Sent
<1>2. ASSUME NEW i \in 1 .. Len(chan[d])
      PROVE  i \in 1 .. Len(chan'[d]) /\ chan'[d][i] = chan[d][i]
    BY <1>1
<1>3. ASSUME NEW i, Fresh(p, f, d, s, i)
      PROVE  /\ i \in 1 .. Len(chan'[d]) /\ chan'[d][i] = f
             /\ \A j \in 1 .. Len(chan'[d]) : j = i \/ (j < i /\ j \in 1 .. Len(chan[d]))
    BY <1>1, <1>3 DEF Fresh
<1>4. ASSUME NEW i \in 1 .. Len(chan'[d])
      PROVE  /\ IsOf(d, i, s)' => IsOf(d, i, s) \/ Fresh(p, f, d, s, i)
             /\ Tells(d, i, s)' =>
                   Tells(d, i, s) \/ (Fresh(p, f, d, s, i) /\ f.flag = "NEW")
             /\ Finishes(d, i, s)' =>
                   Finishes(d, i, s) \/ (Fresh(p, f, d, s, i) /\ f.flag \in {"FIN", "RST"})
             /\ Carries(d, i, s)' =>
                   \/ Carries(d, i, s) /\ chan'[d][i] = chan[d][i]
                   \/ Fresh(p, f, d, s, i) /\ f.flag = "DATA" /\ chan'[d][i] = f
    <2>1. CASE i \in 1 .. Len(chan[d]) /\ chan'[d][i] = chan[d][i]
        BY <2>1 DEF IsOf, Tells, Finishes, Carries
    <2>2. CASE d = p /\ ~cut /\ i = Len(chan[d]) + 1 /\ chan'[d][i] = f
        BY <2>2 DEF IsOf, Tells, Finishes, Carries, Fresh
    <2> QED
        BY <1>1, <2>1, <2>2
<1> QED
    BY <1>2, <1>3, <1>4 DEF IsOf, Tells, Carries

\* A step that neither adds a chunk of s to those under way to d nor takes one, but may
\* lose the last frames, and makes nothing reachable.
LEMMA SameChunks ==
    ASSUME Types, NEW d \in Ends, NEW s \in Streams, Pipe(d, s),
           Reached(d, s)' = Reached(d, s), sent'[Peer(d)][s] = sent[Peer(d)][s],
           Reachable(d, s)' => Reachable(d, s), cut => cut',
           Len(chan'[d]) \in Nat, cut' \/ Len(chan[d]) <= Len(chan'[d]),
           \A i \in 1 .. Len(chan'[d]) : Carries(d, i, s)' =>
               i \in 1 .. Len(chan[d]) /\ Carries(d, i, s) /\ chan'[d][i] = chan[d][i],
           \A i \in 1 .. Len(chan[d]) : Carries(d, i, s) /\ i <= Len(chan'[d]) =>
               Carries(d, i, s)' /\ chan'[d][i] = chan[d][i]
    PROVE  Written(d, s)' /\ Ordered(d, s)' /\ Gapless(d, s)' /\ Complete(d, s)'
<1>1. Written(d, s)'
    BY DEF Pipe, Written
<1>2. Ordered(d, s)'
    BY DEF Pipe, Ordered
<1>3. Gapless(d, s)'
    <2> SUFFICES ASSUME Reachable(d, s)', NEW i \in 1 .. Len(chan'[d]), Carries(d, i, s)'
                 PROVE  /\ Reached(d, s)' < chan'[d][i].n
                        /\ \A v \in Nat : Reached(d, s)' < v /\ v <= chan'[d][i].n =>
                              \E j \in 1 .. i : Carries(d, j, s)' /\ chan'[d][j].n = v
        BY DEF Gapless
    <2>1. i \in 1 .. Len(chan[d]) /\ Carries(d, i, s) /\ chan'[d][i] = chan[d][i]
        OBVIOUS
    <2>2. /\ Reached(d, s) < chan[d][i].n
          /\ \A v \in Nat : Reached(d, s) < v /\ v <= chan[d][i].n =>
                \E j \in 1 .. i : Carries(d, j, s) /\ chan[d][j].n = v
        BY <2>1 DEF Pipe, Gapless
    <2>3. \A j \in 1 .. i : j \in 1 .. Len(chan[d]) /\ j <= Len(chan'[d])
        BY <2>1, NumbersAre
    <2>4. \A j \in 1 .. i : Carries(d, j, s) => Carries(d, j, s)' /\ chan'[d][j] = chan[d][j]
        BY <2>3
    <2> QED
        BY <2>1, <2>2, <2>4
<1>4. Complete(d, s)'
    <2> SUFFICES ASSUME Reachable(d, s)', ~cut', NEW v \in Nat,
                        Reached(d, s)' < v, v <= sent'[Peer(d)][s]
                 PROVE  \E j \in 1 .. Len(chan'[d]) : Carries(d, j, s)' /\ chan'[d][j].n = v
        BY DEF Complete
    <2>1. PICK j \in 1 .. Len(chan[d]) : Carries(d, j, s) /\ chan[d][j].n = v
        BY DEF Pipe, Complete
    <2>2. j \in 1 .. Len(chan'[d])
        BY NumbersAre
    <2> QED
        BY <2>1, <2>2
<1> QED
    BY <1>1, <1>2, <1>3, <1>4

LEMMA WritePipe ==
    ASSUME Inv, PipeInv, NEW e \in Ends, NEW k \in Streams, Write(e, k)
    PROVE  PipeInv'
<1> DEFINE n == sent[e][k] + 1
           f == [id |-> k, flag |-> "DATA", n |-> n]
<1>1. /\ sent' = [sent EXCEPT ![e][k] = n] /\ n \in Nat /\ sent[e][k] \in Nat
      /\ k \in used[e] /\ ~closed[e][k]
      /\ SendFrame(e, k, "DATA", n)
      /\ UNCHANGED <<opened, streams, closed, rclosed, buf, log, cut>>
    <2>1. sent'[e][k] = n
        BY DEF Write, Inv, Types
    <2> QED
        BY <2>1 DEF Write, Inv, Types, object
<1> SUFFICES ASSUME NEW d \in Ends, NEW s \in Streams PROVE Pipe(d, s)'
    BY DEF PipeInv
<1>2. Pipe(d, s)
    BY DEF PipeInv
<1>3. /\ Puts(Peer(e), f) /\ Peer(e) \in Ends /\ f.id = k /\ f.flag = "DATA" /\ f.n = n
      /\ k <= opened /\ k \in Nat /\ opened \in Nat /\ s \in Nat
    BY <1>1, PeerIsEnd, NumbersAre DEF Inv, Opened, SendFrame, Puts
<1>4. n = sent[e][k] + 1
    OBVIOUS
<1> HIDE DEF n, f
<1> DEFINE New(i) == Fresh(Peer(e), f, d, s, i)
<1>5. /\ \A i \in 1 .. Len(chan'[d]) :
            /\ IsOf(d, i, s)' => IsOf(d, i, s) \/ New(i)
            /\ Tells(d, i, s)' => Tells(d, i, s)
            /\ Finishes(d, i, s)' => Finishes(d, i, s)
            /\ Carries(d, i, s)' => \/ Carries(d, i, s) /\ chan'[d][i] = chan[d][i]
                                    \/ New(i) /\ chan'[d][i].n = n
      /\ \A i \in 1 .. Len(chan[d]) :
            /\ i \in 1 .. Len(chan'[d])
            /\ Tells(d, i, s) => Tells(d, i, s)'
            /\ Carries(d, i, s) => Carries(d, i, s)' /\ chan'[d][i] = chan[d][i]
      /\ \A i : New(i) => /\ Carries(d, i, s)' /\ chan'[d][i].n = n /\ i \in 1 .. Len(chan'[d])
                          /\ \A j \in 1 .. Len(chan'[d]) : j = i \/ (j < i /\ j \in 1 .. Len(chan[d]))
                          /\ d = Peer(e) /\ s = k /\ ~cut /\ i = Len(chan[d]) + 1
    <2>1. \A i : New(i) => d = Peer(e) /\ s = k /\ ~cut /\ i = Len(chan[d]) + 1
        BY <1>3 DEF Fresh
    <2>2. Types
        BY DEF Inv
    <2> HIDE DEF New
    <2>3. ASSUME NEW i, New(i)
          PROVE  /\ i \in 1 .. Len(chan'[d]) /\ chan'[d][i] = f
                 /\ \A j \in 1 .. Len(chan'[d]) : j = i \/ (j < i /\ j \in 1 .. Len(chan[d]))
        BY <1>3, <2>2, <2>3, SentFrames DEF New
    <2>4. \A i : New(i) => Carries(d, i, s)' /\ chan'[d][i].n = n
        BY <1>3, <2>1, <2>3 DEF Carries, IsOf
    <2> QED
        BY <1>3, <2>1, <2>2, <2>3, <2>4, SentFrames DEF New
<1> HIDE DEF New
<1>lens. Len(chan[d]) \in Nat /\ Len(chan'[d]) \in Nat /\ Len(chan[d]) <= Len(chan'[d])
    BY <1>3, Sent DEF Inv
<1>6. /\ Reached(d, s)' = Reached(d, s) /\ Reached(d, s) \in Nat
      /\ Reachable(d, s)' => Reachable(d, s)
      /\ sent[Peer(d)][s] \in Nat /\ sent'[Peer(d)][s] \in Nat
      /\ sent[Peer(d)][s] <= sent'[Peer(d)][s]
      /\ d # Peer(e) \/ s # k => sent'[Peer(d)][s] = sent[Peer(d)][s]
      /\ d = Peer(e) => Peer(d) = e
      /\ d = Peer(e) /\ s = k => sent'[Peer(d)][s] = n
      /\ \A i \in 1 .. Len(chan[d]) : chan[d][i].n \in Nat
    <2>1. d = Peer(e) <=> Peer(d) = e
        BY DEF Peer, Ends
    <2>2. Reachable(d, s)' => Reachable(d, s)
        BY <1>1, <1>5 DEF Reachable, Tells, IsOf
    <2>3. Reached(d, s)' = Reached(d, s)
        BY <1>1 DEF Reached
    <2>4. Peer(d) \in Ends /\ sent \in [Ends -> [Streams -> Nat]]
        BY PeerIsEnd DEF Inv, Types
    <2>5. /\ d # Peer(e) \/ s # k => sent'[Peer(d)][s] = sent[Peer(d)][s]
          /\ d = Peer(e) /\ s = k => sent'[Peer(d)][s] = n
        BY <1>1, <2>1, <2>4
    <2> QED
        BY <1>1, <1>4, <2>1, <2>2, <2>3, <2>5, NumbersAre DEF Inv
<1>7. Contiguous(d, s)'
    BY <1>1, <1>2, <1>6 DEF Pipe, Contiguous
<1>8. Written(d, s)'
    <2> SUFFICES ASSUME NEW i \in 1 .. Len(chan'[d]), Carries(d, i, s)'
                 PROVE  chan'[d][i].n <= sent'[Peer(d)][s]
        BY DEF Written
    <2>1. CASE Carries(d, i, s) /\ chan'[d][i] = chan[d][i]
        <3>1. i \in 1 .. Len(chan[d])
            BY <2>1 DEF Carries, IsOf
        <3> QED
            BY <1>2, <1>6, <2>1, <3>1 DEF Pipe, Written
    <2>2. CASE New(i) /\ chan'[d][i].n = n
        BY <1>1, <1>5, <1>6, <2>2
    <2> QED
        BY <1>5, <2>1, <2>2
<1>9. Ordered(d, s)'
    <2> SUFFICES ASSUME NEW i \in 1 .. Len(chan'[d]), NEW j \in 1 .. Len(chan'[d]),
                        Carries(d, i, s)', Carries(d, j, s)', j < i
                 PROVE  chan'[d][j].n < chan'[d][i].n
        BY DEF Ordered
    <2>1. j \in 1 .. Len(chan[d]) /\ Carries(d, j, s) /\ chan'[d][j] = chan[d][j]
        BY <1>3, <1>5 DEF New, Carries, IsOf
    <2>2. CASE Carries(d, i, s) /\ chan'[d][i] = chan[d][i]
        <3>1. i \in 1 .. Len(chan[d])
            BY <2>2 DEF Carries, IsOf
        <3> QED
            BY <1>2, <2>1, <2>2, <3>1 DEF Pipe, Ordered
    <2>3. CASE New(i) /\ chan'[d][i].n = n
        <3>1. chan[d][j].n <= sent[e][k]
            BY <1>2, <1>5, <1>6, <2>1, <2>3 DEF Pipe, Written
        <3> QED
            BY <1>1, <1>4, <1>6, <2>1, <2>3, <3>1
    <2> QED
        BY <1>5, <2>2, <2>3
<1>10. Gapless(d, s)'
    <2> SUFFICES ASSUME Reachable(d, s)', NEW i \in 1 .. Len(chan'[d]), Carries(d, i, s)'
                 PROVE  /\ Reached(d, s)' < chan'[d][i].n
                        /\ \A v \in Nat : Reached(d, s)' < v /\ v <= chan'[d][i].n =>
                              \E j \in 1 .. i : Carries(d, j, s)' /\ chan'[d][j].n = v
        BY DEF Gapless
    <2>1. CASE Carries(d, i, s) /\ chan'[d][i] = chan[d][i]
        <3>1. i \in 1 .. Len(chan[d]) /\ \A j \in 1 .. i : j \in 1 .. Len(chan[d])
            BY <1>3, <2>1 DEF Carries, IsOf
        <3>2. /\ Reached(d, s) < chan[d][i].n
              /\ \A v \in Nat : Reached(d, s) < v /\ v <= chan[d][i].n =>
                    \E j \in 1 .. i : Carries(d, j, s) /\ chan[d][j].n = v
            BY <1>2, <1>6, <2>1, <3>1 DEF Pipe, Gapless
        <3>3. \A j \in 1 .. i : Carries(d, j, s) => Carries(d, j, s)' /\ chan'[d][j] = chan[d][j]
            BY <1>5, <3>1
        <3> QED
            BY <1>6, <2>1, <3>2, <3>3
    <2>2. CASE s = k /\ d = Peer(e) /\ ~cut /\ i = Len(chan[d]) + 1 /\ chan'[d][i].n = n
        <3>1. Reached(d, s) <= sent[e][k]
            BY <1>2, <1>6, <2>2 DEF Pipe, Contiguous
        <3>2. ASSUME NEW v \in Nat, Reached(d, s)' < v, v <= chan'[d][i].n
              PROVE  \E j \in 1 .. i : Carries(d, j, s)' /\ chan'[d][j].n = v
            <4>1. CASE v = n
                <5>1. i \in 1 .. i /\ Carries(d, i, s)'
                    BY <1>3, <2>2, <1>5 DEF New
                <5> QED
                    BY <2>2, <4>1, <5>1
            <4>2. CASE v <= sent[e][k]
                <5>1. PICK j \in 1 .. Len(chan[d]) : Carries(d, j, s) /\ chan[d][j].n = v
                    BY <1>2, <1>6, <2>2, <3>2, <4>2 DEF Pipe, Complete
                <5> QED
                    BY <1>3, <1>5, <2>2, <5>1
            <4> QED
                BY <1>1, <1>4, <2>2, <3>2, <4>1, <4>2
        <3> QED
            BY <1>4, <1>6, <2>2, <3>1, <3>2
    <2> QED
        BY <1>5, <2>1, <2>2 DEF New
<1>11. Complete(d, s)'
    <2> SUFFICES ASSUME Reachable(d, s)', ~cut', NEW v \in Nat,
                        Reached(d, s)' < v, v <= sent'[Peer(d)][s]
                 PROVE  \E j \in 1 .. Len(chan'[d]) : Carries(d, j, s)' /\ chan'[d][j].n = v
        BY DEF Complete
    <2>1. CASE v <= sent[Peer(d)][s]
        <3>1. PICK j \in 1 .. Len(chan[d]) : Carries(d, j, s) /\ chan[d][j].n = v
            BY <1>1, <1>2, <1>6, <2>1 DEF Pipe, Complete
        <3> QED
            BY <1>5, <3>1
    <2>2. CASE ~(v <= sent[Peer(d)][s])
        <3>1. d = Peer(e) /\ s = k /\ v = n /\ ~cut
            BY <1>1, <1>4, <1>6, <2>2
        <3>2. New(Len(chan[d]) + 1)
            BY <1>3, <3>1 DEF New, Fresh
        <3> QED
            BY <1>5, <3>1, <3>2
    <2> QED
        BY <2>1, <2>2
<1>12. NewIsFirst(d, s)'
    BY <1>1, <1>2, <1>3, <1>5 DEF Pipe, NewIsFirst, Tells, IsOf
<1>13. FinIsLast(d, s)'
    <2> SUFFICES ASSUME NEW i \in 1 .. Len(chan'[d]), Finishes(d, i, s)'
                 PROVE  /\ closed'[Peer(d)][s]
                        /\ \A j \in 1 .. Len(chan'[d]) : Carries(d, j, s)' => j < i
        BY DEF FinIsLast
    <2>1. i \in 1 .. Len(chan[d]) /\ Finishes(d, i, s)
        BY <1>5 DEF Finishes, IsOf
    <2>2. /\ closed[Peer(d)][s]
          /\ \A j \in 1 .. Len(chan[d]) : Carries(d, j, s) => j < i
        BY <1>2, <2>1 DEF Pipe, FinIsLast
    <2>3. ~(d = Peer(e) /\ s = k)
        BY <1>1, <1>6, <2>2
    <2> QED
        BY <1>1, <1>5, <2>2, <2>3 DEF New, Carries, IsOf
<1>14. Unopened(d, s)'
    <2>1. s > opened => s # k
        BY <1>3
    <2>2. s # k => sent'[d][s] = sent[d][s]
        BY <1>1 DEF Inv, Types
    <2> QED
        BY <1>1, <1>2, <1>5, <2>1, <2>2 DEF Pipe, Unopened, IsOf, New
<1>15. AtEnd(d, s)'
    BY <1>1, <1>2, <1>6 DEF Pipe, AtEnd
<1> QED
    BY <1>7, <1>8, <1>9, <1>10, <1>11, <1>12, <1>13, <1>14, <1>15 DEF Pipe

\* A step that leaves the frames under way alone, but may lose the last ones.
LEMMA SameFrames ==
    ASSUME Types, NEW d \in Ends, Len(chan'[d]) \in 0 .. Len(chan[d]),
           \A i \in 1 .. Len(chan'[d]) : chan'[d][i] = chan[d][i], NEW s \in Streams
    PROVE  \A i \in 1 .. Len(chan'[d]) :
               /\ i \in 1 .. Len(chan[d])
               /\ IsOf(d, i, s)' <=> IsOf(d, i, s)
               /\ Tells(d, i, s)' <=> Tells(d, i, s)
               /\ Carries(d, i, s)' <=> Carries(d, i, s)
               /\ Finishes(d, i, s)' <=> Finishes(d, i, s)
<1>1. Len(chan[d]) \in Nat
    BY NumbersAre
<1> SUFFICES ASSUME NEW i \in 1 .. Len(chan'[d])
             PROVE  /\ i \in 1 .. Len(chan[d])
                    /\ IsOf(d, i, s)' <=> IsOf(d, i, s)
                    /\ Tells(d, i, s)' <=> Tells(d, i, s)
                    /\ Carries(d, i, s)' <=> Carries(d, i, s)
                    /\ Finishes(d, i, s)' <=> Finishes(d, i, s)
    OBVIOUS
<1>2. i \in 1 .. Len(chan[d]) /\ chan'[d][i] = chan[d][i]
    BY <1>1
<1> QED
    BY <1>2 DEF IsOf, Tells, Carries, Finishes

\* Such a step keeps the pipe if the end has had the same chunks, and what it adds is
\* only that an end is told of an end of stream that is due.
LEMMA SamePipe ==
    ASSUME Types, NEW d \in Ends, NEW s \in Streams, Pipe(d, s),
           Len(chan'[d]) \in 0 .. Len(chan[d]), cut' \/ Len(chan'[d]) = Len(chan[d]),
           \A i \in 1 .. Len(chan'[d]) : chan'[d][i] = chan[d][i],
           Contiguous(d, s)', Reached(d, s)' = Reached(d, s),
           sent' = sent, opened' = opened, closed' = closed, cut => cut',
           s \in streams'[d] => s \in streams[d],
           rclosed'[d][s] => rclosed[d][s] \/ (cut' /\ s \in streams[d] /\ s \notin streams'[d])
    PROVE  Pipe(d, s)'
<1>1. \A i \in 1 .. Len(chan'[d]) :
          /\ i \in 1 .. Len(chan[d])
          /\ IsOf(d, i, s)' <=> IsOf(d, i, s)
          /\ Tells(d, i, s)' <=> Tells(d, i, s)
          /\ Carries(d, i, s)' <=> Carries(d, i, s)
          /\ Finishes(d, i, s)' <=> Finishes(d, i, s)
    BY SameFrames
<1>2. Len(chan[d]) \in Nat /\ Len(chan'[d]) \in Nat
    BY NumbersAre
<1>3. Reachable(d, s)' => Reachable(d, s)
    BY <1>1 DEF Reachable
<1>4. Written(d, s)' /\ Ordered(d, s)' /\ Gapless(d, s)' /\ Complete(d, s)'
    BY <1>1, <1>2, <1>3, SameChunks
<1>5. NewIsFirst(d, s)' /\ FinIsLast(d, s)' /\ Unopened(d, s)'
    <2>1. NewIsFirst(d, s)'
        BY <1>1 DEF Pipe, NewIsFirst
    <2>2. FinIsLast(d, s)'
        BY <1>1 DEF Pipe, FinIsLast
    <2>3. Unopened(d, s)'
        BY <1>1 DEF Pipe, Unopened
    <2> QED
        BY <2>1, <2>2, <2>3
<1>6. AtEnd(d, s)'
    <2>1. CASE rclosed[d][s]
        BY <1>3, <2>1 DEF Pipe, AtEnd
    <2>2. CASE cut' /\ s \in streams[d] /\ s \notin streams'[d]
        <3>1. \A i \in 1 .. Len(chan[d]) : ~Tells(d, i, s)
            BY <2>2 DEF Pipe, NewIsFirst
        <3>2. ~Reachable(d, s)'
            BY <1>1, <2>2, <3>1 DEF Reachable
        <3> QED
            BY <2>2, <3>2 DEF AtEnd
    <2> QED
        BY <2>1, <2>2 DEF AtEnd
<1> QED
    BY <1>4, <1>5, <1>6 DEF Pipe

LEMMA CloseDonePipe ==
    ASSUME Inv, PipeInv, NEW e \in Ends, NEW k \in Streams, CloseDone(e, k)
    PROVE  PipeInv'
<1>1. /\ streams' = [streams EXCEPT ![e] = @ \ {k}]
      /\ UNCHANGED <<opened, closed, rclosed, buf, sent, log, chan, cut>>
    BY DEF CloseDone, history
<1> SUFFICES ASSUME NEW d \in Ends, NEW s \in Streams PROVE Pipe(d, s)'
    BY DEF PipeInv
<1>2. Pipe(d, s) /\ Types
    BY DEF PipeInv, Inv
<1>3. Contiguous(d, s)' /\ Reached(d, s)' = Reached(d, s)
    BY <1>1, <1>2 DEF Pipe, Contiguous, Reached
<1>4. s \in streams'[d] => s \in streams[d]
    BY <1>1, <1>2 DEF Types
<1>5. Len(chan[d]) \in 0 .. Len(chan[d])
    BY <1>2, NumbersAre
<1> QED
    BY <1>1, <1>2, <1>3, <1>4, <1>5, SamePipe

LEMMA CloseRaisesPipe ==
    ASSUME Inv, PipeInv, NEW e \in Ends, NEW k \in Streams, CloseRaises(e, k)
    PROVE  PipeInv'
<1>1. UNCHANGED <<opened, streams, closed, rclosed, buf, sent, log, chan, cut>>
    BY DEF CloseRaises, history
<1> SUFFICES ASSUME NEW d \in Ends, NEW s \in Streams PROVE Pipe(d, s)'
    BY DEF PipeInv
<1>2. Pipe(d, s) /\ Types
    BY DEF PipeInv, Inv
<1>3. Contiguous(d, s)' /\ Reached(d, s)' = Reached(d, s)
    BY <1>1, <1>2 DEF Pipe, Contiguous, Reached
<1>4. Len(chan[d]) \in 0 .. Len(chan[d])
    BY <1>2, NumbersAre
<1> QED
    BY <1>1, <1>2, <1>3, <1>4, SamePipe

LEMMA CloseAllPipe ==
    ASSUME Inv, PipeInv, NEW e \in Ends, CloseAll(e)
    PROVE  PipeInv'
<1>1. /\ cut /\ streams' = [streams EXCEPT ![e] = {}]
      /\ rclosed' = [rclosed EXCEPT ![e] = [k \in Streams |-> @[k] \/ k \in streams[e]]]
      /\ UNCHANGED <<opened, closed, buf, sent, log, chan, cut>>
    BY DEF CloseAll, history, MarkRemoteClosed
<1> SUFFICES ASSUME NEW d \in Ends, NEW s \in Streams PROVE Pipe(d, s)'
    BY DEF PipeInv
<1>2. Pipe(d, s) /\ Types
    BY DEF PipeInv, Inv
<1>3. Contiguous(d, s)' /\ Reached(d, s)' = Reached(d, s)
    BY <1>1, <1>2 DEF Pipe, Contiguous, Reached
<1>4. streams'[d] = IF d = e THEN {} ELSE streams[d]
    BY <1>1, <1>2 DEF Types
<1>5. rclosed'[d][s] => rclosed[d][s] \/ (d = e /\ s \in streams[d])
    BY <1>1, <1>2 DEF Types, Flags
<1>6. Len(chan[d]) \in 0 .. Len(chan[d])
    BY <1>2, NumbersAre
<1> QED
    BY <1>1, <1>2, <1>3, <1>4, <1>5, <1>6, SamePipe

LEMMA CutPipe == Inv /\ PipeInv /\ Cut => PipeInv'
<1> SUFFICES ASSUME Inv, PipeInv, Cut, NEW d \in Ends, NEW s \in Streams PROVE Pipe(d, s)'
    BY DEF PipeInv
<1>1. PICK f \in [Ends -> 0 .. Len(chan["client"]) + Len(chan["server"])] :
          /\ \A e \in Ends : f[e] <= Len(chan[e])
          /\ chan' = [e \in Ends |-> SubSeq(chan[e], 1, f[e])]
    BY DEF Cut
<1>2. /\ ~cut /\ cut'
      /\ UNCHANGED <<opened, streams, closed, rclosed, buf, sent, log>>
    BY DEF Cut, object, history
<1>3. Pipe(d, s) /\ Types
    BY DEF PipeInv, Inv
<1>4. /\ Len(chan'[d]) \in 0 .. Len(chan[d])
      /\ \A i \in 1 .. Len(chan'[d]) : chan'[d][i] = chan[d][i]
    <2>1. /\ chan[d] \in Seq(Frame) /\ Len(chan["client"]) \in Nat /\ Len(chan["server"]) \in Nat
          /\ Len(chan[d]) \in Nat
        BY <1>3 DEF Types, Ends
    <2>2. f[d] \in 0 .. (Len(chan["client"]) + Len(chan["server"]))
        OBVIOUS
    <2>3. f[d] \in 0 .. Len(chan[d])
        BY <1>1, <2>1, <2>2
    <2>4. chan'[d] = SubSeq(chan[d], 1, f[d])
        BY <1>1
    <2> QED
        BY <2>1, <2>3, <2>4
<1>5. Contiguous(d, s)' /\ Reached(d, s)' = Reached(d, s)
    BY <1>2, <1>3 DEF Pipe, Contiguous, Reached
<1> QED
    BY <1>2, <1>3, <1>4, <1>5, SamePipe

\* What a reader takes of its buffer continues what it has read.
LEMMA TakenAre ==
    ASSUME NEW l \in Seq(Nat), NEW b \in Seq(Nat), NEW m \in 1 .. Len(b)
    PROVE  /\ Len(l \o SubSeq(b, 1, m)) = Len(l) + m
           /\ \A i \in 1 .. Len(l) + m :
                 (l \o SubSeq(b, 1, m))[i] = IF i <= Len(l) THEN l[i] ELSE b[i - Len(l)]
           /\ Len(SubSeq(b, m + 1, Len(b))) = Len(b) - m
           /\ \A i \in 1 .. Len(b) - m : SubSeq(b, m + 1, Len(b))[i] = b[m + i]
<1> DEFINE a == SubSeq(b, 1, m)
<1>1. a \in Seq(Nat) /\ Len(a) = m /\ \A i \in 1 .. m : a[i] = b[i]
    OBVIOUS
<1>2. /\ Len(l \o a) = Len(l) + m
      /\ \A i \in 1 .. Len(l) + m : (l \o a)[i] = IF i <= Len(l) THEN l[i] ELSE a[i - Len(l)]
    BY <1>1
<1>3. \A i \in 1 .. Len(l) + m : i <= Len(l) \/ i - Len(l) \in 1 .. m
    OBVIOUS
<1>4. /\ Len(SubSeq(b, m + 1, Len(b))) = Len(b) - m
      /\ \A i \in 1 .. Len(b) - m : SubSeq(b, m + 1, Len(b))[i] = b[m + i]
    OBVIOUS
<1> HIDE DEF a
<1>5. \A i \in 1 .. Len(l) + m : (l \o a)[i] = IF i <= Len(l) THEN l[i] ELSE b[i - Len(l)]
    BY <1>1, <1>2, <1>3
<1> QED
    BY <1>2, <1>4, <1>5 DEF a

LEMMA ReadPipe ==
    ASSUME Inv, PipeInv, NEW e \in Ends, NEW k \in Streams, Read(e, k)
    PROVE  PipeInv'
<1>1. UNCHANGED <<opened, streams, closed, rclosed, sent, chan, cut>>
    BY DEF Read, ReadData, ReadEnd, ReadWait, object, history
<1> SUFFICES ASSUME NEW d \in Ends, NEW s \in Streams PROVE Pipe(d, s)'
    BY DEF PipeInv
<1>2. Pipe(d, s) /\ Types
    BY DEF PipeInv, Inv
<1>3. Len(chan[d]) \in 0 .. Len(chan[d])
    BY <1>2, NumbersAre
<1>4. Contiguous(d, s)' /\ Reached(d, s)' = Reached(d, s)
    <2>1. CASE UNCHANGED <<log[d][s], buf[d][s]>>
        BY <1>1, <1>2, <2>1 DEF Pipe, Contiguous, Reached
    <2>2. CASE d = e /\ s = k /\ ReadData(e, k)
        <3>1. PICK m \in 1 .. Len(buf[e][k]) :
                  /\ log' = [log EXCEPT ![e][k] = @ \o SubSeq(buf[e][k], 1, m)]
                  /\ buf' = [buf EXCEPT ![e][k] = SubSeq(@, m + 1, Len(@))]
            BY <2>2 DEF ReadData
        <3>2. /\ log[d][s] \in Seq(Nat) /\ buf[d][s] \in Seq(Nat)
              /\ log'[d][s] = log[d][s] \o SubSeq(buf[d][s], 1, m)
              /\ buf'[d][s] = SubSeq(buf[d][s], m + 1, Len(buf[d][s]))
            BY <1>2, <2>2, <3>1 DEF Types, Chunks
        <3>3. /\ \A i \in 1 .. Len(log[d][s]) : log[d][s][i] = i
              /\ \A i \in 1 .. Len(buf[d][s]) : buf[d][s][i] = Len(log[d][s]) + i
              /\ Reached(d, s) <= sent[Peer(d)][s]
            BY <1>2 DEF Pipe, Contiguous
        <3>4. /\ Len(log'[d][s]) + Len(buf'[d][s]) = Len(log[d][s]) + Len(buf[d][s])
              /\ \A i \in 1 .. Len(log'[d][s]) : log'[d][s][i] = i
              /\ \A i \in 1 .. Len(buf'[d][s]) : buf'[d][s][i] = Len(log'[d][s]) + i
            <4> DEFINE l == log[d][s]
                       b == buf[d][s]
                       t == log'[d][s]
                       r == buf'[d][s]
            <4>1. /\ m \in 1 .. Len(b) /\ l \in Seq(Nat) /\ b \in Seq(Nat)
                  /\ \A i \in 1 .. Len(l) : l[i] = i
                  /\ \A i \in 1 .. Len(b) : b[i] = Len(l) + i
                BY <2>2, <3>2, <3>3
            <4>2. /\ Len(t) = Len(l) + m /\ Len(r) = Len(b) - m
                  /\ \A i \in 1 .. Len(l) + m : t[i] = IF i <= Len(l) THEN l[i] ELSE b[i - Len(l)]
                  /\ \A i \in 1 .. Len(b) - m : r[i] = b[m + i]
                BY <3>2, <4>1, TakenAre
            <4> HIDE DEF l, b, t, r
            <4>3. Len(l) \in Nat /\ Len(b) \in Nat /\ m \in Nat /\ m <= Len(b)
                BY <4>1
            <4>4. Len(t) + Len(r) = Len(l) + Len(b)
                BY <4>2, <4>3
            <4>5. ASSUME NEW i \in 1 .. Len(t) PROVE t[i] = i
                <5>1. i <= Len(l) \/ i - Len(l) \in 1 .. Len(b)
                    BY <4>2, <4>3
                <5>2. CASE i <= Len(l)
                    <6>1. i \in 1 .. Len(l) /\ i \in 1 .. Len(l) + m
                        BY <4>2, <4>3, <5>2
                    <6> QED
                        BY <4>1, <4>2, <5>2, <6>1
                <5>3. CASE ~(i <= Len(l)) /\ i - Len(l) \in 1 .. Len(b)
                    <6>1. t[i] = b[i - Len(l)]
                        BY <4>2, <4>3, <5>3
                    <6>2. b[i - Len(l)] = Len(l) + (i - Len(l))
                        BY <4>1, <5>3
                    <6> QED
                        BY <4>3, <6>1, <6>2
                <5> QED
                    BY <5>1, <5>2, <5>3
            <4>6. \A i \in 1 .. Len(r) : r[i] = Len(t) + i
                BY <4>1, <4>2, <4>3
            <4> QED
                BY <4>4, <4>5, <4>6 DEF l, b, t, r
        <3> QED
            BY <1>1, <3>3, <3>4 DEF Contiguous, Reached
    <2>3. CASE ReadData(e, k) /\ ~(d = e /\ s = k)
        <3>1. PICK l, b : log' = [log EXCEPT ![e][k] = l] /\ buf' = [buf EXCEPT ![e][k] = b]
            BY <2>3 DEF ReadData
        <3>2. UNCHANGED <<log[d][s], buf[d][s]>>
            BY <1>2, <2>3, <3>1 DEF Types, Chunks
        <3> QED
            BY <2>1, <3>2
    <2>4. CASE ReadEnd(e, k) \/ ReadWait(e, k)
        <3>1. UNCHANGED <<log[d][s], buf[d][s]>>
            BY <2>4 DEF ReadEnd, ReadWait, object, history
        <3> QED
            BY <2>1, <3>1
    <2> QED
        BY <2>2, <2>3, <2>4 DEF Read
<1> QED
    BY <1>1, <1>2, <1>3, <1>4, SamePipe

\* No chunk of a stream is written once its end has closed it.
LEMMA ClosePipe ==
    ASSUME Inv, PipeInv, NEW e \in Ends, NEW k \in Streams, NEW flag \in {"FIN", "RST"},
           Close(e, k, flag)
    PROVE  PipeInv'
<1> DEFINE f == [id |-> k, flag |-> flag, n |-> 0]
<1>1. /\ k \in used[e] /\ closed' = [closed EXCEPT ![e][k] = TRUE]
      /\ SendFrame(e, k, flag, 0)
      /\ UNCHANGED <<opened, streams, rclosed, buf, sent, log, cut>>
    BY DEF Close, history
<1> SUFFICES ASSUME NEW d \in Ends, NEW s \in Streams PROVE Pipe(d, s)'
    BY DEF PipeInv
<1>2. Pipe(d, s) /\ Types
    BY DEF PipeInv, Inv
<1>3. /\ Puts(Peer(e), f) /\ Peer(e) \in Ends /\ f.id = k /\ f.flag = flag
      /\ k <= opened /\ k \in Nat /\ opened \in Nat /\ s \in Nat
    BY <1>1, <1>2, PeerIsEnd, NumbersAre DEF Inv, Opened, SendFrame, Puts
<1> HIDE DEF f
<1> DEFINE New(i) == Fresh(Peer(e), f, d, s, i)
<1>4. /\ \A i \in 1 .. Len(chan'[d]) :
            /\ IsOf(d, i, s)' => IsOf(d, i, s) \/ New(i)
            /\ Tells(d, i, s)' => Tells(d, i, s)
            /\ Finishes(d, i, s)' => Finishes(d, i, s) \/ New(i)
            /\ Carries(d, i, s)' => Carries(d, i, s) /\ chan'[d][i] = chan[d][i]
      /\ \A i \in 1 .. Len(chan[d]) :
            /\ i \in 1 .. Len(chan'[d])
            /\ Carries(d, i, s) => Carries(d, i, s)' /\ chan'[d][i] = chan[d][i]
      /\ \A i : New(i) => \A j \in 1 .. Len(chan'[d]) : j = i \/ (j < i /\ j \in 1 .. Len(chan[d]))
    BY <1>2, <1>3, SentFrames
<1>5. \A i : New(i) => d = Peer(e) /\ Peer(d) = e /\ s = k /\ i = Len(chan[d]) + 1
    BY <1>3 DEF Fresh, Peer, Ends
<1> HIDE DEF New
<1>6. Len(chan[d]) \in Nat /\ Len(chan'[d]) \in Nat /\ Len(chan[d]) <= Len(chan'[d])
    BY <1>2, <1>3, Sent
<1>7. Contiguous(d, s)' /\ Reached(d, s)' = Reached(d, s)
    BY <1>1, <1>2 DEF Pipe, Contiguous, Reached
<1>8. Reachable(d, s)' => Reachable(d, s)
    BY <1>1, <1>4 DEF Reachable, Tells, IsOf
<1>9. Written(d, s)' /\ Ordered(d, s)' /\ Gapless(d, s)' /\ Complete(d, s)'
    <2>1. \A i \in 1 .. Len(chan'[d]) : Carries(d, i, s)' =>
               i \in 1 .. Len(chan[d]) /\ Carries(d, i, s) /\ chan'[d][i] = chan[d][i]
        BY <1>4 DEF Carries, IsOf
    <2> QED
        BY <1>1, <1>2, <1>4, <1>6, <1>7, <1>8, <2>1, SameChunks
<1>10. NewIsFirst(d, s)'
    <2> SUFFICES ASSUME NEW i \in 1 .. Len(chan'[d]), Tells(d, i, s)'
                 PROVE  /\ s \notin streams'[d]
                        /\ \A j \in 1 .. Len(chan'[d]) : IsOf(d, j, s)' => i <= j
        BY DEF NewIsFirst
    <2>1. i \in 1 .. Len(chan[d]) /\ Tells(d, i, s)
        BY <1>4 DEF Tells, IsOf
    <2>2. \A j \in 1 .. Len(chan[d]) : IsOf(d, j, s) => i <= j
        BY <1>2, <2>1 DEF Pipe, NewIsFirst
    <2>3. ASSUME NEW j \in 1 .. Len(chan'[d]), IsOf(d, j, s)' PROVE i <= j
        <3>1. CASE IsOf(d, j, s)
            BY <2>2, <3>1 DEF IsOf
        <3>2. CASE New(j)
            BY <1>5, <1>6, <2>1, <3>2
        <3> QED
            BY <1>4, <2>3, <3>1, <3>2
    <2> QED
        BY <1>1, <1>2, <2>1, <2>3 DEF Pipe, NewIsFirst
<1>11. FinIsLast(d, s)'
    <2> SUFFICES ASSUME NEW i \in 1 .. Len(chan'[d]), Finishes(d, i, s)'
                 PROVE  /\ closed'[Peer(d)][s]
                        /\ \A j \in 1 .. Len(chan'[d]) : Carries(d, j, s)' => j < i
        BY DEF FinIsLast
    <2>1. CASE New(i)
        <3>1. closed'[Peer(d)][s]
            BY <1>1, <1>2, <1>5, <2>1 DEF Types, Flags
        <3>2. \A j \in 1 .. Len(chan'[d]) : Carries(d, j, s)' => j \in 1 .. Len(chan[d])
            BY <1>4 DEF Carries, IsOf
        <3>3. \A j \in 1 .. Len(chan[d]) : j < i
            BY <1>5, <1>6, <2>1
        <3> QED
            BY <3>1, <3>2, <3>3
    <2>2. CASE Finishes(d, i, s)
        <3>1. i \in 1 .. Len(chan[d])
            BY <2>2 DEF Finishes, IsOf
        <3>2. /\ closed[Peer(d)][s]
              /\ \A j \in 1 .. Len(chan[d]) : Carries(d, j, s) => j < i
            BY <1>2, <2>2, <3>1 DEF Pipe, FinIsLast
        <3>3. closed'[Peer(d)][s]
            BY <1>1, <1>2, <3>2, PeerIsEnd DEF Types, Flags
        <3> QED
            BY <1>4, <3>2, <3>3 DEF Carries, IsOf
    <2> QED
        BY <1>4, <2>1, <2>2
<1>12. Unopened(d, s)'
    <2>1. s > opened => s # k
        BY <1>3
    <2> QED
        BY <1>1, <1>2, <1>4, <1>5, <2>1 DEF Pipe, Unopened, IsOf
<1>13. AtEnd(d, s)'
    <2>1. closed[Peer(d)][s] => closed'[Peer(d)][s]
        BY <1>1, <1>2, PeerIsEnd DEF Types, Flags
    <2> QED
        BY <1>1, <1>2, <1>7, <1>8, <2>1 DEF Pipe, AtEnd
<1> QED
    BY <1>7, <1>9, <1>10, <1>11, <1>12, <1>13 DEF Pipe

LEMMA OpenPipe == Inv /\ PipeInv /\ OpenStream => PipeInv'
<1> SUFFICES ASSUME Inv, PipeInv, OpenStream, NEW d \in Ends, NEW s \in Streams PROVE Pipe(d, s)'
    BY DEF PipeInv
<1> DEFINE k == opened + 1
           f == [id |-> k, flag |-> "NEW", n |-> 0]
<1>1. /\ opened' = k /\ streams' = [streams EXCEPT !["client"] = @ \cup {k}]
      /\ SendFrame("client", k, "NEW", 0)
      /\ UNCHANGED <<closed, rclosed, buf, sent, log, cut>>
    BY DEF OpenStream, object, history
<1>2. /\ Types /\ PipeInv /\ Pipe(d, s) /\ opened \in Nat /\ s \in Nat /\ k > opened /\ k \in Nat
      /\ k \in Streams
    <2>1. opened < MaxStreams
        BY DEF OpenStream
    <2> QED
        BY <2>1, NumbersAre, Bounds DEF Inv, PipeInv, Streams
<1>3. /\ Puts("server", f) /\ "server" \in Ends /\ "client" \in Ends
      /\ f.id = k /\ f.flag = "NEW"
    BY <1>1 DEF SendFrame, Puts, Peer, Ends
<1> HIDE DEF f, k
<1> DEFINE New(i) == Fresh("server", f, d, s, i)
<1>4. /\ \A i \in 1 .. Len(chan'[d]) :
            /\ IsOf(d, i, s)' => IsOf(d, i, s) \/ New(i)
            /\ Tells(d, i, s)' => Tells(d, i, s) \/ New(i)
            /\ Finishes(d, i, s)' => Finishes(d, i, s)
            /\ Carries(d, i, s)' => Carries(d, i, s) /\ chan'[d][i] = chan[d][i]
      /\ \A i \in 1 .. Len(chan[d]) :
            /\ i \in 1 .. Len(chan'[d])
            /\ Carries(d, i, s) => Carries(d, i, s)' /\ chan'[d][i] = chan[d][i]
    BY <1>2, <1>3, SentFrames
<1>5. \A i : New(i) => d = "server" /\ s = k /\ i = Len(chan[d]) + 1
    BY <1>3 DEF Fresh
<1> HIDE DEF New
<1>6. Len(chan[d]) \in Nat /\ Len(chan'[d]) \in Nat /\ Len(chan[d]) <= Len(chan'[d])
    BY <1>2, <1>3, Sent
<1>7. Contiguous(d, s)' /\ Reached(d, s)' = Reached(d, s)
    BY <1>1, <1>2 DEF Pipe, Contiguous, Reached
<1>8. CASE s = k
    <2>1. /\ s \notin streams[d] /\ ~rclosed[d][s] /\ sent[Peer(d)][s] = 0
          /\ \A i \in 1 .. Len(chan[d]) : ~IsOf(d, i, s)
        BY <1>2, <1>8, PeerIsEnd DEF PipeInv, Pipe, Unopened
    <2>2. \A i \in 1 .. Len(chan'[d]) :
              ~Carries(d, i, s)' /\ ~Finishes(d, i, s)' /\ (IsOf(d, i, s)' => New(i))
        BY <1>4, <2>1 DEF IsOf, Carries, Finishes
    <2>3. Written(d, s)' /\ Ordered(d, s)' /\ Gapless(d, s)' /\ FinIsLast(d, s)'
        <3>1. Written(d, s)'
            BY <2>2 DEF Written
        <3>2. Ordered(d, s)'
            BY <2>2 DEF Ordered
        <3>3. Gapless(d, s)'
            BY <2>2 DEF Gapless
        <3>4. FinIsLast(d, s)'
            BY <2>2 DEF FinIsLast
        <3> QED
            BY <3>1, <3>2, <3>3, <3>4
    <2>4. Complete(d, s)'
        <3>1. Reached(d, s) \in Nat
            BY <1>2, NumbersAre
        <3>2. \A v \in Nat : ~(Reached(d, s) < v /\ v <= 0)
            BY <3>1
        <3> QED
            BY <1>1, <1>7, <2>1, <3>2 DEF Complete
    <2>5. NewIsFirst(d, s)'
        <3>1. ASSUME NEW i \in 1 .. Len(chan'[d]), IsOf(d, i, s)'
              PROVE  d = "server" /\ i = Len(chan[d]) + 1
            <4>1. New(i)
                BY <2>2, <3>1
            <4> QED
                BY <1>5, <4>1
        <3>2. d = "server" => s \notin streams'[d]
            BY <1>1, <1>2, <2>1 DEF Types
        <3> QED
            BY <1>6, <3>1, <3>2 DEF NewIsFirst, Tells
    <2>6. Unopened(d, s)' /\ AtEnd(d, s)'
        BY <1>1, <1>2, <1>8, <2>1 DEF Unopened, AtEnd
    <2> QED
        BY <1>7, <2>3, <2>4, <2>5, <2>6 DEF Pipe
<1>9. CASE s # k
    <2>1. s \in streams'[d] => s \in streams[d]
        BY <1>1, <1>2, <1>9 DEF Types
    <2>2. \A i \in 1 .. Len(chan'[d]) :
              /\ IsOf(d, i, s)' => i \in 1 .. Len(chan[d]) /\ IsOf(d, i, s)
              /\ Tells(d, i, s)' => i \in 1 .. Len(chan[d]) /\ Tells(d, i, s)
              /\ Finishes(d, i, s)' => i \in 1 .. Len(chan[d]) /\ Finishes(d, i, s)
              /\ Carries(d, i, s)' => /\ i \in 1 .. Len(chan[d]) /\ Carries(d, i, s)
                                      /\ chan'[d][i] = chan[d][i]
        BY <1>4, <1>5, <1>9 DEF IsOf, Tells, Finishes, Carries
    <2>3. Reachable(d, s)' => Reachable(d, s)
        BY <2>1, <2>2 DEF Reachable
    <2>4. Written(d, s)' /\ Ordered(d, s)' /\ Gapless(d, s)' /\ Complete(d, s)'
        BY <1>1, <1>2, <1>4, <1>6, <1>7, <2>2, <2>3, SameChunks
    <2>5. NewIsFirst(d, s)'
        BY <1>2, <2>1, <2>2 DEF Pipe, NewIsFirst
    <2>6. FinIsLast(d, s)'
        BY <1>1, <1>2, <2>2 DEF Pipe, FinIsLast
    <2>7. Unopened(d, s)'
        <3>1. s > opened' => s > opened
            BY <1>1, <1>2
        <3> QED
            BY <1>1, <1>2, <2>1, <2>2, <3>1 DEF Pipe, Unopened
    <2>8. AtEnd(d, s)'
        BY <1>1, <1>2, <1>7, <2>3 DEF Pipe, AtEnd
    <2> QED
        BY <1>7, <2>4, <2>5, <2>6, <2>7, <2>8 DEF Pipe
<1> QED
    BY <1>8, <1>9
-----------------------------------------------------------------------------
(* The frame an end takes is the first of those under way to it *)

LEMMA TakenFrames ==
    ASSUME Types, NEW e \in Ends, NEW flags, Receive(e, flags), NEW s \in Streams
    PROVE  /\ Len(chan[e]) \in Nat /\ Len(chan'[e]) \in Nat /\ Len(chan[e]) = Len(chan'[e]) + 1
           /\ Head(chan[e]) = chan[e][1] /\ 1 \in 1 .. Len(chan[e])
           /\ \A i \in 1 .. Len(chan'[e]) :
                 /\ i + 1 \in 1 .. Len(chan[e]) /\ chan'[e][i] = chan[e][i + 1]
                 /\ IsOf(e, i, s)' <=> IsOf(e, i + 1, s)
                 /\ Tells(e, i, s)' <=> Tells(e, i + 1, s)
                 /\ Finishes(e, i, s)' <=> Finishes(e, i + 1, s)
                 /\ Carries(e, i, s)' <=> Carries(e, i + 1, s)
           /\ \A i \in 1 .. Len(chan[e]) : i = 1 \/ i - 1 \in 1 .. Len(chan'[e])
           /\ \A d \in Ends : d # e => chan'[d] = chan[d]
<1>1. chan[e] \in Seq(Frame) /\ chan[e] # <<>> /\ chan' = [chan EXCEPT ![e] = Tail(@)]
    BY DEF Types, Receive
<1>2. /\ Len(Tail(chan[e])) \in Nat /\ Len(chan[e]) \in Nat
      /\ Len(chan[e]) = Len(Tail(chan[e])) + 1
      /\ Head(chan[e]) = chan[e][1] /\ 1 \in 1 .. Len(chan[e])
      /\ \A i \in 1 .. Len(Tail(chan[e])) : Tail(chan[e])[i] = chan[e][i + 1]
    BY <1>1
<1>3. chan'[e] = Tail(chan[e]) /\ \A d \in Ends : d # e => chan'[d] = chan[d]
    BY <1>1 DEF Types
<1>4. ASSUME NEW i \in 1 .. Len(chan'[e])
      PROVE  /\ i + 1 \in 1 .. Len(chan[e]) /\ chan'[e][i] = chan[e][i + 1]
             /\ IsOf(e, i, s)' <=> IsOf(e, i + 1, s)
             /\ Tells(e, i, s)' <=> Tells(e, i + 1, s)
             /\ Finishes(e, i, s)' <=> Finishes(e, i + 1, s)
             /\ Carries(e, i, s)' <=> Carries(e, i + 1, s)
    <2>1. i + 1 \in 1 .. Len(chan[e]) /\ chan'[e][i] = chan[e][i + 1]
        BY <1>2, <1>3
    <2> QED
        BY <2>1 DEF IsOf, Tells, Finishes, Carries
<1>5. \A i \in 1 .. Len(chan[e]) : i = 1 \/ i - 1 \in 1 .. Len(chan'[e])
    BY <1>2, <1>3
<1> QED
    BY <1>2, <1>3, <1>4, <1>5

\* A frame that is no chunk of s is taken: the chunks of s move up.
LEMMA OtherTaken ==
    ASSUME Types, NEW e \in Ends, NEW flags, Receive(e, flags), NEW s \in Streams, Pipe(e, s),
           ~Carries(e, 1, s), Reached(e, s)' = Reached(e, s),
           UNCHANGED <<sent, closed, cut>>, Reachable(e, s)' => Reachable(e, s)
    PROVE  /\ Written(e, s)' /\ Ordered(e, s)' /\ Gapless(e, s)' /\ Complete(e, s)'
           /\ FinIsLast(e, s)'
<1>1. /\ Len(chan[e]) \in Nat /\ Len(chan'[e]) \in Nat /\ Len(chan[e]) = Len(chan'[e]) + 1
      /\ \A i \in 1 .. Len(chan'[e]) :
            /\ i + 1 \in 1 .. Len(chan[e]) /\ chan'[e][i] = chan[e][i + 1]
            /\ Finishes(e, i, s)' <=> Finishes(e, i + 1, s)
            /\ Carries(e, i, s)' <=> Carries(e, i + 1, s)
      /\ \A i \in 1 .. Len(chan[e]) : i = 1 \/ i - 1 \in 1 .. Len(chan'[e])
    BY TakenFrames
<1>2. ASSUME NEW i \in 1 .. Len(chan[e]), Carries(e, i, s)
      PROVE  /\ i - 1 \in 1 .. Len(chan'[e]) /\ Carries(e, i - 1, s)'
             /\ chan'[e][i - 1] = chan[e][i]
    <2>1. i - 1 \in 1 .. Len(chan'[e]) /\ (i - 1) + 1 = i
        BY <1>1, <1>2
    <2> QED
        BY <1>1, <1>2, <2>1
<1>3. Written(e, s)'
    BY <1>1 DEF Pipe, Written
<1>4. Ordered(e, s)'
    BY <1>1 DEF Pipe, Ordered
<1>5. Gapless(e, s)'
    <2> SUFFICES ASSUME Reachable(e, s)', NEW i \in 1 .. Len(chan'[e]), Carries(e, i, s)'
                 PROVE  /\ Reached(e, s)' < chan'[e][i].n
                        /\ \A v \in Nat : Reached(e, s)' < v /\ v <= chan'[e][i].n =>
                              \E j \in 1 .. i : Carries(e, j, s)' /\ chan'[e][j].n = v
        BY DEF Gapless
    <2>1. i + 1 \in 1 .. Len(chan[e]) /\ Carries(e, i + 1, s) /\ chan'[e][i] = chan[e][i + 1]
        BY <1>1
    <2>2. /\ Reached(e, s) < chan[e][i + 1].n
          /\ \A v \in Nat : Reached(e, s) < v /\ v <= chan[e][i + 1].n =>
                \E j \in 1 .. i + 1 : Carries(e, j, s) /\ chan[e][j].n = v
        BY <2>1 DEF Pipe, Gapless
    <2>3. ASSUME NEW v \in Nat, NEW j \in 1 .. i + 1, Carries(e, j, s), chan[e][j].n = v
          PROVE  \E h \in 1 .. i : Carries(e, h, s)' /\ chan'[e][h].n = v
        <3>1. j \in 1 .. Len(chan[e])
            BY <2>3 DEF Carries, IsOf
        <3>2. /\ j - 1 \in 1 .. Len(chan'[e]) /\ Carries(e, j - 1, s)'
              /\ chan'[e][j - 1] = chan[e][j]
            BY <1>2, <2>3, <3>1
        <3>3. j - 1 \in 1 .. i
            BY <1>1, <3>2
        <3> QED
            BY <2>3, <3>2, <3>3
    <2> QED
        BY <2>1, <2>2, <2>3
<1>6. Complete(e, s)'
    BY <1>2 DEF Pipe, Complete
<1>7. FinIsLast(e, s)'
    <2> SUFFICES ASSUME NEW i \in 1 .. Len(chan'[e]), Finishes(e, i, s)'
                 PROVE  /\ closed'[Peer(e)][s]
                        /\ \A j \in 1 .. Len(chan'[e]) : Carries(e, j, s)' => j < i
        BY DEF FinIsLast
    <2>1. /\ closed[Peer(e)][s]
          /\ \A j \in 1 .. Len(chan[e]) : Carries(e, j, s) => j < i + 1
        BY <1>1 DEF Pipe, FinIsLast
    <2>2. \A j \in 1 .. Len(chan'[e]) : Carries(e, j, s)' => j + 1 < i + 1
        BY <1>1, <2>1
    <2> QED
        BY <1>1, <2>1, <2>2
<1> QED
    BY <1>3, <1>4, <1>5, <1>6, <1>7

\* Of a frame that is taken nothing is left that could not be told before.
LEMMA TakenReach ==
    ASSUME Types, NEW e \in Ends, NEW flags, Receive(e, flags), NEW s \in Streams,
           s \in streams'[e] => Reachable(e, s)
    PROVE  Reachable(e, s)' => Reachable(e, s)
<1>1. \A i \in 1 .. Len(chan'[e]) :
          i + 1 \in 1 .. Len(chan[e]) /\ (Tells(e, i, s)' <=> Tells(e, i + 1, s))
    BY TakenFrames
<1> QED
    BY <1>1 DEF Reachable

\* What the end a frame goes to has of the other streams, and the other end of all, is
\* as it was.
LEMMA TakenApart ==
    ASSUME Types, NEW e \in Ends, NEW flags, Receive(e, flags), NEW d \in Ends, NEW s \in Streams,
           Pipe(d, s), d # e \/ ~IsOf(e, 1, s),
           UNCHANGED <<opened, closed, sent, log, cut, buf[d][s], rclosed[d][s]>>,
           s \in streams'[d] <=> s \in streams[d]
    PROVE  Pipe(d, s)'
<1>1. Contiguous(d, s)' /\ Reached(d, s)' = Reached(d, s)
    BY DEF Pipe, Contiguous, Reached
<1>2. CASE d # e
    <2>1. chan'[d] = chan[d] /\ Len(chan[d]) \in 0 .. Len(chan[d])
        BY <1>2, TakenFrames, NumbersAre
    <2> QED
        BY <1>1, <2>1, SamePipe
<1>3. CASE d = e /\ ~IsOf(e, 1, s)
    <2>1. /\ Len(chan[e]) \in Nat /\ Len(chan'[e]) \in Nat
          /\ \A i \in 1 .. Len(chan'[e]) :
                /\ i + 1 \in 1 .. Len(chan[e]) /\ chan'[e][i] = chan[e][i + 1]
                /\ IsOf(e, i, s)' <=> IsOf(e, i + 1, s)
                /\ Tells(e, i, s)' <=> Tells(e, i + 1, s)
        BY TakenFrames
    <2>2. Reachable(e, s)' => Reachable(e, s)
        BY <1>3, TakenReach DEF Reachable
    <2>3. ~Carries(e, 1, s)
        BY <1>3 DEF Carries
    <2>4. /\ Written(e, s)' /\ Ordered(e, s)' /\ Gapless(e, s)' /\ Complete(e, s)'
          /\ FinIsLast(e, s)'
        BY <1>1, <1>3, <2>2, <2>3, OtherTaken
    <2>5. NewIsFirst(e, s)'
        <3> SUFFICES ASSUME NEW i \in 1 .. Len(chan'[e]), Tells(e, i, s)'
                     PROVE  /\ s \notin streams'[e]
                            /\ \A j \in 1 .. Len(chan'[e]) : IsOf(e, j, s)' => i <= j
            BY DEF NewIsFirst
        <3>1. /\ s \notin streams[e]
              /\ \A j \in 1 .. Len(chan[e]) : IsOf(e, j, s) => i + 1 <= j
            BY <1>3, <2>1 DEF Pipe, NewIsFirst
        <3>2. \A j \in 1 .. Len(chan'[e]) : IsOf(e, j, s)' => i + 1 <= j + 1
            BY <2>1, <3>1
        <3> QED
            BY <1>3, <2>1, <3>1, <3>2
    <2>6. Unopened(e, s)'
        BY <1>3, <2>1 DEF Pipe, Unopened
    <2>7. AtEnd(e, s)'
        BY <1>1, <1>3, <2>2 DEF Pipe, AtEnd
    <2> QED
        BY <1>1, <1>3, <2>4, <2>5, <2>6, <2>7 DEF Pipe
<1> QED
    BY <1>2, <1>3

LEMMA ReceiveNewPipe ==
    ASSUME Inv, PipeInv, NEW e \in Ends, ReceiveNew(e)
    PROVE  PipeInv'
<1> DEFINE k == Head(chan[e]).id
<1>1. /\ Receive(e, {"NEW"}) /\ chan[e] # <<>> /\ Head(chan[e]).flag = "NEW"
      /\ streams' = [streams EXCEPT ![e] = @ \cup {k}]
      /\ UNCHANGED <<opened, closed, rclosed, buf, sent, log, cut>>
    BY DEF ReceiveNew, Receive, object, history
<1> SUFFICES ASSUME NEW d \in Ends, NEW s \in Streams PROVE Pipe(d, s)'
    BY DEF PipeInv
<1>2. Types /\ Pipe(d, s) /\ Pipe(e, s)
    BY DEF Inv, PipeInv
<1>3. k \in Streams /\ Head(chan[e]) = chan[e][1] /\ 1 \in 1 .. Len(chan[e]) /\ Tells(e, 1, k)
    BY <1>1, <1>2, ReceiveTypes, TakenFrames DEF Tells, IsOf
<1>4. CASE d # e \/ s # k
    <2>1. s \in streams'[d] <=> s \in streams[d]
        BY <1>1, <1>2, <1>4 DEF Types
    <2>2. d # e \/ ~IsOf(e, 1, s)
        BY <1>3, <1>4 DEF IsOf
    <2> QED
        BY <1>1, <1>2, <2>1, <2>2, TakenApart
<1>5. CASE d = e /\ s = k
    <2>1. /\ Len(chan[e]) \in Nat /\ Len(chan'[e]) \in Nat
          /\ \A i \in 1 .. Len(chan'[e]) :
                /\ i + 1 \in 1 .. Len(chan[e]) /\ chan'[e][i] = chan[e][i + 1]
                /\ IsOf(e, i, s)' <=> IsOf(e, i + 1, s)
                /\ Tells(e, i, s)' <=> Tells(e, i + 1, s)
        BY <1>1, <1>2, TakenFrames
    <2>2. Reachable(e, s)
        BY <1>3, <1>5 DEF Reachable
    <2>3. ~Carries(e, 1, s)
        BY <1>3 DEF Carries, Tells
    <2>4. Contiguous(e, s)' /\ Reached(e, s)' = Reached(e, s)
        BY <1>1, <1>2 DEF Pipe, Contiguous, Reached
    <2>5. /\ Written(e, s)' /\ Ordered(e, s)' /\ Gapless(e, s)' /\ Complete(e, s)'
          /\ FinIsLast(e, s)'
        BY <1>1, <1>2, <2>2, <2>3, <2>4, OtherTaken
    <2>6. NewIsFirst(e, s)'
        <3>1. ASSUME NEW i \in 1 .. Len(chan'[e]), Tells(e, i, s)' PROVE FALSE
            <4>1. i + 1 \in 1 .. Len(chan[e]) /\ Tells(e, i + 1, s) /\ i \in Nat
                BY <2>1, <3>1
            <4>2. i + 1 <= 1
                BY <1>2, <1>3, <1>5, <4>1 DEF Pipe, NewIsFirst, Tells
            <4> QED
                BY <3>1, <4>1, <4>2
        <3> QED
            BY <3>1 DEF NewIsFirst
    <2>7. Unopened(e, s)'
        BY <1>1, <1>2, <1>3, <1>5 DEF Pipe, Unopened, Tells
    <2>8. AtEnd(e, s)'
        BY <1>1, <1>2, <2>2 DEF Pipe, AtEnd
    <2> QED
        BY <1>5, <2>4, <2>5, <2>6, <2>7, <2>8 DEF Pipe
<1> QED
    BY <1>4, <1>5

LEMMA ReceiveFinPipe ==
    ASSUME Inv, PipeInv, NEW e \in Ends, ReceiveFin(e)
    PROVE  PipeInv'
<1> DEFINE k == Head(chan[e]).id
<1>1. /\ Receive(e, {"FIN", "RST"}) /\ chan[e] # <<>> /\ Head(chan[e]).flag \in {"FIN", "RST"}
      /\ streams' = [streams EXCEPT ![e] = @ \ {k}]
      /\ rclosed' = [rclosed EXCEPT ![e] = [j \in Streams |-> @[j] \/ j \in {k} \cap streams[e]]]
      /\ UNCHANGED <<opened, closed, buf, sent, log, cut>>
    BY DEF ReceiveFin, Receive, MarkRemoteClosed, history
<1> SUFFICES ASSUME NEW d \in Ends, NEW s \in Streams PROVE Pipe(d, s)'
    BY DEF PipeInv
<1>2. Types /\ Pipe(d, s) /\ Pipe(e, s)
    BY DEF Inv, PipeInv
<1>3. /\ k \in Streams /\ Head(chan[e]) = chan[e][1] /\ 1 \in 1 .. Len(chan[e])
      /\ Finishes(e, 1, k)
    BY <1>1, <1>2, ReceiveTypes, TakenFrames DEF Finishes, IsOf
<1>4. /\ rclosed'[d][s] <=> rclosed[d][s] \/ (d = e /\ s = k /\ s \in streams[d])
      /\ rclosed[d][s] \in BOOLEAN /\ rclosed'[d][s] \in BOOLEAN
    BY <1>1, <1>2, <1>3 DEF Types, Flags
<1>5. CASE d # e \/ s # k
    <2>1. s \in streams'[d] <=> s \in streams[d]
        BY <1>1, <1>2, <1>5 DEF Types
    <2>2. d # e \/ ~IsOf(e, 1, s)
        BY <1>3, <1>5 DEF IsOf
    <2>3. rclosed'[d][s] = rclosed[d][s]
        BY <1>4, <1>5
    <2> QED
        BY <1>1, <1>2, <2>1, <2>2, <2>3, TakenApart
<1>6. CASE d = e /\ s = k
    <2>1. /\ Len(chan[e]) \in Nat /\ Len(chan'[e]) \in Nat
          /\ \A i \in 1 .. Len(chan'[e]) :
                /\ i + 1 \in 1 .. Len(chan[e]) /\ chan'[e][i] = chan[e][i + 1]
                /\ IsOf(e, i, s)' <=> IsOf(e, i + 1, s)
                /\ Tells(e, i, s)' <=> Tells(e, i + 1, s)
        BY <1>1, <1>2, TakenFrames
    <2>2. s \notin streams'[e]
        BY <1>1, <1>2, <1>6 DEF Types
    <2>3. \A i \in 1 .. Len(chan[e]) : ~Tells(e, i, s) \/ i = 1
        BY <1>2, <1>3, <1>6 DEF Pipe, NewIsFirst, Finishes, IsOf, Tells
    <2>4. \A i \in 1 .. Len(chan'[e]) : ~Tells(e, i, s)'
        BY <2>1, <2>3
    <2>5. ~Reachable(e, s)'
        BY <2>2, <2>4 DEF Reachable
    <2>6. ~Carries(e, 1, s)
        BY <1>3 DEF Carries, Finishes
    <2>7. Contiguous(e, s)' /\ Reached(e, s)' = Reached(e, s)
        BY <1>1, <1>2 DEF Pipe, Contiguous, Reached
    <2>8. /\ Written(e, s)' /\ Ordered(e, s)' /\ Gapless(e, s)' /\ Complete(e, s)'
          /\ FinIsLast(e, s)'
        BY <1>1, <1>2, <2>5, <2>6, <2>7, OtherTaken
    <2>9. NewIsFirst(e, s)'
        BY <2>4 DEF NewIsFirst
    <2>10. Unopened(e, s)'
        BY <1>1, <1>2, <1>3, <1>6 DEF Pipe, Unopened, Finishes
    <2>11. AtEnd(e, s)'
        <3>1. CASE rclosed[e][s]
            BY <1>1, <1>2, <2>5, <2>7, <3>1 DEF Pipe, AtEnd
        <3>2. CASE s \in streams[e]
            <4>1. closed[Peer(e)][s] /\ \A j \in 1 .. Len(chan[e]) : ~Carries(e, j, s)
                <5>1. closed[Peer(e)][s] /\ \A j \in 1 .. Len(chan[e]) : Carries(e, j, s) => j < 1
                    BY <1>2, <1>3, <1>6 DEF Pipe, FinIsLast
                <5> QED
                    BY <2>1, <5>1
            <4>2. ~cut => Reached(e, s) = sent[Peer(e)][s]
                <5>1. Reached(e, s) \in Nat /\ sent[Peer(e)][s] \in Nat
                    BY <1>2, NumbersAre
                <5>2. Reached(e, s) <= sent[Peer(e)][s]
                    BY <1>2 DEF Pipe, Contiguous
                <5>3. ~cut => ~(Reached(e, s) < sent[Peer(e)][s])
                    BY <1>2, <3>2, <4>1, <5>1 DEF Pipe, Complete, Reachable
                <5> QED
                    BY <5>1, <5>2, <5>3
            <4> QED
                BY <1>1, <2>5, <2>7, <4>1, <4>2 DEF AtEnd
        <3> QED
            BY <1>4, <1>6, <3>1, <3>2 DEF AtEnd
    <2> QED
        BY <1>6, <2>7, <2>8, <2>9, <2>10, <2>11 DEF Pipe
<1> QED
    BY <1>5, <1>6

LEMMA ReceiveDataPipe ==
    ASSUME Inv, PipeInv, NEW e \in Ends, ReceiveData(e)
    PROVE  PipeInv'
<1> DEFINE k == Head(chan[e]).id
           n == Head(chan[e]).n
<1>1. /\ Receive(e, {"DATA"}) /\ chan[e] # <<>> /\ Head(chan[e]).flag = "DATA"
      /\ buf' = IF k \in streams[e] THEN [buf EXCEPT ![e][k] = Append(@, n)] ELSE buf
      /\ UNCHANGED <<opened, streams, closed, rclosed, sent, log, cut>>
    BY DEF ReceiveData, Receive, history
<1> SUFFICES ASSUME NEW d \in Ends, NEW s \in Streams PROVE Pipe(d, s)'
    BY DEF PipeInv
<1>2. Types /\ Pipe(d, s) /\ Pipe(e, s)
    BY DEF Inv, PipeInv
<1>3. /\ k \in Streams /\ Head(chan[e]) = chan[e][1] /\ 1 \in 1 .. Len(chan[e])
      /\ Carries(e, 1, k) /\ n \in Nat /\ n = chan[e][1].n
    BY <1>1, <1>2, ReceiveTypes, TakenFrames DEF Carries, IsOf
<1> HIDE DEF n
<1>4. CASE d # e \/ s # k
    <2>1. buf'[d][s] = buf[d][s]
        BY <1>1, <1>2, <1>3, <1>4 DEF Types, Chunks
    <2>2. d # e \/ ~IsOf(e, 1, s)
        BY <1>3, <1>4 DEF IsOf
    <2> QED
        BY <1>1, <1>2, <2>1, <2>2, TakenApart
<1>5. /\ Len(chan[e]) \in Nat /\ Len(chan'[e]) \in Nat /\ Len(chan[e]) = Len(chan'[e]) + 1
      /\ \A i \in 1 .. Len(chan'[e]) :
            /\ i + 1 \in 1 .. Len(chan[e]) /\ chan'[e][i] = chan[e][i + 1]
            /\ IsOf(e, i, s)' <=> IsOf(e, i + 1, s)
            /\ Tells(e, i, s)' <=> Tells(e, i + 1, s)
            /\ Finishes(e, i, s)' <=> Finishes(e, i + 1, s)
            /\ Carries(e, i, s)' <=> Carries(e, i + 1, s)
      /\ \A i \in 1 .. Len(chan[e]) : i = 1 \/ i - 1 \in 1 .. Len(chan'[e])
    BY <1>1, <1>2, TakenFrames
<1>6. CASE d = e /\ s = k
    <2>1. Carries(e, 1, s) /\ ~Tells(e, 1, s)
        BY <1>3, <1>6 DEF Carries, Tells
    <2>2. \A i \in 1 .. Len(chan[e]) : ~Tells(e, i, s)
        <3>1. ASSUME NEW i \in 1 .. Len(chan[e]), Tells(e, i, s) PROVE FALSE
            <4>1. i <= 1
                BY <1>2, <1>3, <2>1, <3>1 DEF Pipe, NewIsFirst, Carries
            <4>2. i = 1
                BY <1>5, <4>1
            <4> QED
                BY <2>1, <3>1, <4>2
        <3> QED
            BY <3>1
    <2>3. (Reachable(e, s) <=> s \in streams[e]) /\ (Reachable(e, s)' => s \in streams[e])
        <3>1. \A i \in 1 .. Len(chan'[e]) : ~Tells(e, i, s)'
            BY <1>5, <2>2
        <3> QED
            BY <1>1, <2>2, <3>1 DEF Reachable
    <2>4. ASSUME NEW i \in 1 .. Len(chan[e]), Carries(e, i, s), i # 1
          PROVE  /\ i - 1 \in 1 .. Len(chan'[e]) /\ Carries(e, i - 1, s)'
                 /\ chan'[e][i - 1] = chan[e][i]
        <3>1. i - 1 \in 1 .. Len(chan'[e]) /\ (i - 1) + 1 = i
            BY <1>5, <2>4
        <3> QED
            BY <1>5, <2>4, <3>1
    <2>5. /\ Reached(e, s) \in Nat /\ sent[Peer(e)][s] \in Nat
          /\ Len(log[e][s]) \in Nat /\ Len(buf[e][s]) \in Nat /\ buf[e][s] \in Seq(Nat)
          /\ \A i \in 1 .. Len(chan[e]) : chan[e][i].n \in Nat
        BY <1>2, NumbersAre DEF Types, Chunks
    <2>6. Written(e, s)'
        BY <1>1, <1>2, <1>5 DEF Pipe, Written
    <2>7. Ordered(e, s)'
        BY <1>2, <1>5 DEF Pipe, Ordered
    <2>8. NewIsFirst(e, s)'
        BY <1>5, <2>2 DEF NewIsFirst
    <2>9. FinIsLast(e, s)'
        <3> SUFFICES ASSUME NEW i \in 1 .. Len(chan'[e]), Finishes(e, i, s)'
                     PROVE  /\ closed'[Peer(e)][s]
                            /\ \A j \in 1 .. Len(chan'[e]) : Carries(e, j, s)' => j < i
            BY DEF FinIsLast
        <3>1. /\ closed[Peer(e)][s]
              /\ \A j \in 1 .. Len(chan[e]) : Carries(e, j, s) => j < i + 1
            BY <1>2, <1>5 DEF Pipe, FinIsLast
        <3>2. \A j \in 1 .. Len(chan'[e]) : Carries(e, j, s)' => j + 1 < i + 1
            BY <1>5, <3>1
        <3> QED
            BY <1>1, <1>5, <3>1, <3>2
    <2>10. Unopened(e, s)'
        BY <1>1, <1>2, <1>5 DEF Pipe, Unopened
    <2>11. CASE s \notin streams[e]
        <3>1. buf' = buf
            BY <1>1, <1>6, <2>11
        <3>2. Contiguous(e, s)'
            BY <1>1, <1>2, <3>1 DEF Pipe, Contiguous, Reached
        <3>3. Gapless(e, s)' /\ Complete(e, s)'
            <4>1. ~Reachable(e, s)'
                BY <2>3, <2>11
            <4>2. Gapless(e, s)'
                BY <4>1 DEF Gapless
            <4>3. Complete(e, s)'
                BY <4>1 DEF Complete
            <4> QED
                BY <4>2, <4>3
        <3>4. AtEnd(e, s)'
            BY <1>1, <1>2, <2>3, <2>11, <3>1 DEF Pipe, AtEnd, Reached
        <3> QED
            BY <1>6, <2>6, <2>7, <2>8, <2>9, <2>10, <3>2, <3>3, <3>4 DEF Pipe
    <2>12. CASE s \in streams[e]
        <3>1. buf'[e][s] = Append(buf[e][s], n)
            BY <1>1, <1>2, <1>6, <2>12 DEF Types, Chunks
        <3>2. Reached(e, s)' = Reached(e, s) + 1
            <4>1. Len(buf'[e][s]) = Len(buf[e][s]) + 1
                BY <2>5, <3>1
            <4>2. log'[e][s] = log[e][s]
                BY <1>1
            <4>3. \A a, b, c \in Nat : c = b + 1 => a + c = (a + b) + 1
                OBVIOUS
            <4>4. Len(buf'[e][s]) \in Nat
                BY <2>5, <4>1
            <4>5. Len(log[e][s]) + Len(buf'[e][s]) = (Len(log[e][s]) + Len(buf[e][s])) + 1
                BY <2>5, <4>1, <4>3, <4>4, Zenon
            <4> QED
                BY <4>2, <4>5, Zenon DEF Reached
        <3>3. n = Reached(e, s) + 1
            <4>1. /\ Reached(e, s) < n
                  /\ \A v \in Nat : Reached(e, s) < v /\ v <= n =>
                        \E j \in 1 .. 1 : Carries(e, j, s) /\ chan[e][j].n = v
                BY <1>2, <1>3, <2>1, <2>3, <2>12 DEF Pipe, Gapless
            <4>2. Reached(e, s) + 1 \in Nat /\ Reached(e, s) < Reached(e, s) + 1
                BY <2>5
            <4>3. Reached(e, s) + 1 <= n
                BY <1>3, <2>5, <4>1
            <4>4. PICK j \in 1 .. 1 : chan[e][j].n = Reached(e, s) + 1
                BY <4>1, <4>2, <4>3
            <4>5. j = 1
                OBVIOUS
            <4> QED
                BY <1>3, <4>4, <4>5
        <3>4. Contiguous(e, s)'
            <4>1. /\ \A i \in 1 .. Len(log[e][s]) : log[e][s][i] = i
                  /\ \A i \in 1 .. Len(buf[e][s]) : buf[e][s][i] = Len(log[e][s]) + i
                BY <1>2 DEF Pipe, Contiguous
            <4>2. n <= sent[Peer(e)][s]
                BY <1>2, <1>3, <2>1 DEF Pipe, Written
            <4>3. /\ Len(buf'[e][s]) = Len(buf[e][s]) + 1
                  /\ \A i \in 1 .. Len(buf[e][s]) : buf'[e][s][i] = buf[e][s][i]
                  /\ buf'[e][s][Len(buf[e][s]) + 1] = n
                BY <1>3, <2>5, <3>1
            <4>4. n = Len(log[e][s]) + (Len(buf[e][s]) + 1)
                <5>1. \A a, b \in Nat : (a + b) + 1 = a + (b + 1)
                    OBVIOUS
                <5> QED
                    BY <2>5, <3>3, <5>1, Zenon DEF Reached
            <4>5. ASSUME NEW i \in 1 .. Len(buf'[e][s])
                  PROVE  buf'[e][s][i] = Len(log[e][s]) + i
                <5>1. i \in 1 .. Len(buf[e][s]) \/ i = Len(buf[e][s]) + 1
                    BY <2>5, <4>3
                <5> QED
                    BY <4>1, <4>3, <4>4, <5>1
            <4> QED
                BY <1>1, <3>2, <3>3, <4>1, <4>2, <4>5 DEF Contiguous
        <3>5. Gapless(e, s)'
            <4> SUFFICES ASSUME NEW i \in 1 .. Len(chan'[e]), Carries(e, i, s)'
                         PROVE  /\ Reached(e, s)' < chan'[e][i].n
                                /\ \A v \in Nat : Reached(e, s)' < v /\ v <= chan'[e][i].n =>
                                      \E j \in 1 .. i : Carries(e, j, s)' /\ chan'[e][j].n = v
                BY DEF Gapless
            <4>1. /\ i + 1 \in 1 .. Len(chan[e]) /\ Carries(e, i + 1, s) /\ 1 < i + 1
                  /\ chan'[e][i] = chan[e][i + 1]
                BY <1>5
            <4>2. n < chan[e][i + 1].n
                BY <1>2, <1>3, <2>1, <4>1 DEF Pipe, Ordered
            <4>3. \A v \in Nat : Reached(e, s) < v /\ v <= chan[e][i + 1].n =>
                      \E j \in 1 .. i + 1 : Carries(e, j, s) /\ chan[e][j].n = v
                BY <1>2, <2>3, <2>12, <4>1 DEF Pipe, Gapless
            <4>4. ASSUME NEW v \in Nat, n < v, v <= chan[e][i + 1].n
                  PROVE  \E j \in 1 .. i : Carries(e, j, s)' /\ chan'[e][j].n = v
                <5>1. PICK j \in 1 .. i + 1 : Carries(e, j, s) /\ chan[e][j].n = v
                    BY <1>3, <2>5, <3>3, <4>3, <4>4
                <5>2. j \in 1 .. Len(chan[e]) /\ j # 1
                    BY <1>3, <4>4, <5>1 DEF Carries, IsOf
                <5>3. /\ j - 1 \in 1 .. Len(chan'[e]) /\ Carries(e, j - 1, s)'
                      /\ chan'[e][j - 1] = chan[e][j]
                    BY <2>4, <5>1, <5>2
                <5>4. j - 1 \in 1 .. i
                    BY <1>5, <5>3
                <5> QED
                    BY <5>1, <5>3, <5>4
            <4> QED
                BY <3>2, <3>3, <4>1, <4>2, <4>4
        <3>6. Complete(e, s)'
            <4> SUFFICES ASSUME ~cut, NEW v \in Nat, n < v, v <= sent[Peer(e)][s]
                         PROVE  \E j \in 1 .. Len(chan'[e]) : Carries(e, j, s)' /\ chan'[e][j].n = v
                BY <1>1, <3>2, <3>3 DEF Complete
            <4>1. PICK j \in 1 .. Len(chan[e]) : Carries(e, j, s) /\ chan[e][j].n = v
                BY <1>2, <1>3, <2>3, <2>5, <2>12, <3>3 DEF Pipe, Complete
            <4>2. j # 1
                BY <1>3, <4>1
            <4> QED
                BY <2>4, <4>1, <4>2
        <3>7. AtEnd(e, s)'
            BY <1>1, <1>2, <2>3, <2>12 DEF Pipe, AtEnd
        <3> QED
            BY <1>6, <2>6, <2>7, <2>8, <2>9, <2>10, <3>4, <3>5, <3>6, <3>7 DEF Pipe
    <2> QED
        BY <2>11, <2>12
<1> QED
    BY <1>4, <1>6

LEMMA SameAll ==
    ASSUME Inv, PipeInv,
           UNCHANGED <<opened, streams, closed, rclosed, buf, sent, log, chan, cut>>
    PROVE  PipeInv'
<1> SUFFICES ASSUME NEW d \in Ends, NEW s \in Streams PROVE Pipe(d, s)'
    BY DEF PipeInv
<1>1. Types /\ Pipe(d, s)
    BY DEF Inv, PipeInv
<1>2. Contiguous(d, s)' /\ Reached(d, s)' = Reached(d, s)
    BY <1>1 DEF Pipe, Contiguous, Reached
<1>3. Len(chan[d]) \in 0 .. Len(chan[d])
    BY <1>1, NumbersAre
<1> QED
    BY <1>1, <1>2, <1>3, SamePipe

LEMMA InitPipe == Init => PipeInv
<1> SUFFICES ASSUME Init, NEW d \in Ends, NEW s \in Streams PROVE Pipe(d, s)
    BY DEF PipeInv
<1>1. /\ streams[d] = {} /\ log[d][s] = <<>> /\ buf[d][s] = <<>> /\ chan[d] = <<>>
      /\ ~rclosed[d][s] /\ sent[d][s] = 0 /\ sent[Peer(d)][s] = 0
    BY PeerIsEnd DEF Init, Each
<1>2. Reached(d, s) = 0
    BY <1>1 DEF Reached
<1>3. \A i : i \notin 1 .. Len(chan[d])
    BY <1>1
<1>4. Contiguous(d, s)
    BY <1>1, <1>2 DEF Contiguous
<1>5. Written(d, s) /\ Ordered(d, s) /\ Gapless(d, s) /\ Complete(d, s)
    <2>1. Written(d, s)
        BY <1>3 DEF Written
    <2>2. Ordered(d, s)
        BY <1>3 DEF Ordered
    <2>3. Gapless(d, s)
        BY <1>3 DEF Gapless
    <2>4. Complete(d, s)
        BY <1>1, <1>3 DEF Complete, Reachable
    <2> QED
        BY <2>1, <2>2, <2>3, <2>4
<1>6. NewIsFirst(d, s) /\ FinIsLast(d, s) /\ Unopened(d, s) /\ AtEnd(d, s)
    <2>1. NewIsFirst(d, s)
        BY <1>3 DEF NewIsFirst
    <2>2. FinIsLast(d, s)
        BY <1>3 DEF FinIsLast
    <2>3. Unopened(d, s)
        BY <1>1, <1>3 DEF Unopened
    <2>4. AtEnd(d, s)
        BY <1>1 DEF AtEnd
    <2> QED
        BY <2>1, <2>2, <2>3, <2>4
<1> QED
    BY <1>4, <1>5, <1>6 DEF Pipe

LEMMA StepPipe == Inv /\ PipeInv /\ [Next]_vars => PipeInv'
<1> SUFFICES ASSUME Inv, PipeInv, [Next]_vars PROVE PipeInv'
    OBVIOUS
<1>1. CASE OpenStream
    BY <1>1, OpenPipe
<1>2. CASE AcceptStream
    BY <1>2, SameAll DEF AcceptStream, object, history
<1>3. CASE Cut
    BY <1>3, CutPipe
<1>4. ASSUME NEW e \in Ends, Run(e) PROVE PipeInv'
    BY <1>4, ReceiveNewPipe, ReceiveDataPipe, ReceiveFinPipe, CloseAllPipe DEF Run
<1>5. ASSUME NEW e \in Ends, NEW k \in Streams,
             \/ Write(e, k) \/ Close(e, k, "FIN") \/ Read(e, k)
             \/ CloseDone(e, k) \/ CloseRaises(e, k)
      PROVE  PipeInv'
    BY <1>5, WritePipe, ClosePipe, CloseDonePipe, CloseRaisesPipe, ReadPipe
<1>6. ASSUME NEW k \in Streams, Close("server", k, "RST") PROVE PipeInv'
    <2>1. "server" \in Ends
        BY DEF Ends
    <2> QED
        BY <1>6, <2>1, ClosePipe
<1>7. CASE UNCHANGED vars
    BY <1>7, SameAll DEF vars
<1> QED
    BY <1>1, <1>2, <1>3, <1>4, <1>5, <1>6, <1>7 DEF Next
-----------------------------------------------------------------------------
(* Each step of the sessions is a step of the pipes, or none *)

LEMMA PeersAre == \A d, e \in Ends : Peer(d) \in Ends /\ Peer(Peer(e)) = e /\ (Peer(d) = e <=> d = Peer(e))
BY DEF Peer, Ends

LEMMA OverSame ==
    ASSUME Types, NEW e \in Ends, NEW k \in Streams, NEW v, v # "over", reader[e][k] # "over",
           reader' = [reader EXCEPT ![e][k] = v]
    PROVE  UNCHANGED [d \in Ends |-> [j \in Streams |-> reader[d][j] = "over"]]
<1>1. \A d \in Ends, j \in Streams : (reader'[d][j] = "over") = (reader[d][j] = "over")
    BY DEF Types
<1> QED
    BY <1>1

LEMMA InitRefines == Init => Pipes!Init
<1> SUFFICES ASSUME Init PROVE Pipes!Init
    OBVIOUS
<1>1. /\ sent = Each(0) /\ closed = Each(FALSE) /\ log = Each(<<>>) /\ reader = Each("ready")
      /\ cut = FALSE
    BY DEF Init
<1>2. ASSUME NEW v PROVE Flip(Each(v)) = [d \in Ends |-> [k \in Streams |-> v]]
    BY PeerIsEnd DEF Flip, Each
<1>3. \A d \in Ends, k \in Streams :
          /\ (reader[d][k] = "over") = FALSE
          /\ (closed[d][k] \/ cut) = FALSE
    BY <1>1 DEF Each
<1>4. /\ [d \in Ends |-> [k \in Streams |-> reader[d][k] = "over"]]
           = [d \in Ends |-> [k \in Streams |-> FALSE]]
      /\ [d \in Ends |-> [k \in Streams |-> closed[d][k] \/ cut]]
           = [d \in Ends |-> [k \in Streams |-> FALSE]]
    BY <1>3
<1> QED
    BY <1>1, <1>2, <1>4 DEF Pipes!Init, Each

LEMMA WriteRefines ==
    ASSUME Inv, NEW e \in Ends, NEW k \in Streams, Write(e, k)
    PROVE  Pipes!Next
<1>1. Types /\ Peer(e) \in Ends
    BY PeerIsEnd DEF Inv
<1>2. sent' = [sent EXCEPT ![e][k] = sent[e][k] + 1] /\ ~closed[e][k]
    BY DEF Write
<1>3. Flip(sent') = [Flip(sent) EXCEPT ![Peer(e)][k] = @ + 1]
    <2>1. \A d \in Ends :
              sent'[Peer(d)] = IF d = Peer(e) THEN [sent[Peer(d)] EXCEPT ![k] = @ + 1]
                                              ELSE sent[Peer(d)]
        BY <1>1, <1>2, PeersAre DEF Types
    <2> QED
        BY <1>1, <2>1 DEF Flip
<1>6. ~Flip(closed)[Peer(e)][k]
    BY <1>2, PeerIsEnd DEF Flip, Peer, Ends
<1>4. UNCHANGED <<closed, log, reader, cut>>
    BY DEF Write, object
<1>5. Pipes!Put(Peer(e), k)
    BY <1>3, <1>4, <1>6 DEF Pipes!Put, Flip
<1> QED
    BY <1>1, <1>5 DEF Pipes!Next

LEMMA CloseRefines ==
    ASSUME Inv, NEW e \in Ends, NEW k \in Streams, NEW flag, Close(e, k, flag)
    PROVE  Pipes!Next
<1>1. Types /\ Peer(e) \in Ends /\ Peer(e) # e
    BY PeerIsEnd DEF Inv
<1>2. closed' = [closed EXCEPT ![e][k] = TRUE] /\ ~closed[e][k]
    BY DEF Close
<1>3. closed \in Flags
    BY <1>1 DEF Types
<1>4. /\ Flip(closed') = [Flip(closed) EXCEPT ![Peer(e)][k] = TRUE]
      /\ ~Flip(closed)[Peer(e)][k]
    <2>1. Flip(closed)[Peer(e)][k] = closed[e][k]
        BY <1>1, PeersAre DEF Flip
    <2>2. Flip(closed') = [Flip(closed) EXCEPT ![Peer(e)][k] = TRUE]
        <3>1. \A d \in Ends :
                  closed'[Peer(d)] = IF d = Peer(e) THEN [closed[Peer(d)] EXCEPT ![k] = TRUE]
                                                    ELSE closed[Peer(d)]
            BY <1>2, <1>3, PeersAre DEF Flags
        <3> QED
            BY <1>1, <3>1 DEF Flip
    <2> QED
        BY <1>2, <2>1, <2>2
<1>5. UNCHANGED <<sent, log, reader, cut>>
    BY DEF Close, history
<1>6. [d \in Ends |-> [j \in Streams |-> closed[d][j] \/ cut]]'
          = [[d \in Ends |-> [j \in Streams |-> closed[d][j] \/ cut]] EXCEPT ![e][k] = TRUE]
    <2>1. \A d \in Ends, j \in Streams :
              (closed'[d][j] \/ cut) =
                 [[h \in Ends |-> [i \in Streams |-> closed[h][i] \/ cut]] EXCEPT ![e][k] = TRUE][d][j]
        BY <1>2, <1>3 DEF Flags
    <2> QED
        BY <1>5, <2>1
<1>7. Pipes!Finish(Peer(e), e, k)
    BY <1>1, <1>4, <1>5, <1>6 DEF Pipes!Finish, Flip
<1> QED
    BY <1>1, <1>7 DEF Pipes!Next

LEMMA CutRefines == Inv /\ Cut => Pipes!Next
<1> SUFFICES ASSUME Inv, Cut PROVE Pipes!Next
    OBVIOUS
<1>1. cut' = TRUE /\ UNCHANGED <<closed, sent, log, reader>>
    BY DEF Cut, object, history
<1>2. [d \in Ends |-> [j \in Streams |-> closed[d][j] \/ cut]]'
          = [d \in Ends |-> [j \in Streams |-> TRUE]]
    BY <1>1
<1>3. Pipes!Lose
    BY <1>1, <1>2 DEF Pipes!Lose, Flip
<1> QED
    BY <1>3 DEF Pipes!Next

\* A reader that runs has not seen the end; what it takes continues what it has read.
LEMMA ReadDataRefines ==
    ASSUME Inv, PipeInv, NEW e \in Ends, NEW k \in Streams, ReadData(e, k)
    PROVE  Pipes!Next
<1>1. Types /\ Contiguous(e, k) /\ Peer(e) \in Ends
    BY PeerIsEnd DEF Inv, PipeInv, Pipe
<1>2. PICK m \in 1 .. Len(buf[e][k]) :
          log' = [log EXCEPT ![e][k] = @ \o SubSeq(buf[e][k], 1, m)]
    BY DEF ReadData
<1>3. /\ reader' = [reader EXCEPT ![e][k] = "ready"] /\ reader[e][k] # "over"
      /\ UNCHANGED <<closed, sent, cut>>
    BY DEF ReadData, MayRun
<1>4. SubSeq(buf[e][k], 1, m) = [i \in 1 .. m |-> Len(log[e][k]) + i]
    <2>1. buf[e][k] \in Seq(Nat)
        BY <1>1 DEF Types, Chunks
    <2>2. SubSeq(buf[e][k], 1, m) = [i \in 1 .. m |-> buf[e][k][i]]
        BY <2>1
    <2>3. \A i \in 1 .. m : i \in 1 .. Len(buf[e][k])
        BY <2>1
    <2>4. \A i \in 1 .. m : buf[e][k][i] = Len(log[e][k]) + i
        BY <1>1, <2>3 DEF Contiguous
    <2> QED
        BY <2>2, <2>4
<1>5. m \in 1 .. (Flip(sent)[e][k] - Len(log[e][k]))
    <2>1. /\ Len(log[e][k]) \in Nat /\ Len(buf[e][k]) \in Nat /\ sent[Peer(e)][k] \in Nat
          /\ Len(log[e][k]) + Len(buf[e][k]) <= sent[Peer(e)][k]
        BY <1>1, NumbersAre DEF Contiguous, Reached
    <2>2. Flip(sent)[e][k] = sent[Peer(e)][k]
        BY DEF Flip
    <2>3. \A a, b, c \in Nat : m \in 1 .. b /\ a + b <= c => m \in 1 .. (c - a)
        OBVIOUS
    <2>4. m \in 1 .. (sent[Peer(e)][k] - Len(log[e][k]))
        BY <2>1, <2>3
    <2> QED
        BY <2>2, <2>4
<1>6. UNCHANGED [d \in Ends |-> [j \in Streams |-> reader[d][j] = "over"]]
    BY <1>1, <1>3, OverSame
<1>7. Pipes!Take(e, k)
    <2>1. log' = [log EXCEPT ![e][k] = @ \o [i \in 1 .. m |-> Len(@) + i]]
        BY <1>2, <1>4
    <2> QED
        BY <1>3, <1>5, <1>6, <2>1 DEF Pipes!Take, Flip
<1> QED
    BY <1>7 DEF Pipes!Next

\* The end is seen after everything, unless the end has closed its side or is cut off.
LEMMA ReadEndRefines ==
    ASSUME Inv, PipeInv, NEW e \in Ends, NEW k \in Streams, ReadEnd(e, k)
    PROVE  Pipes!Next
<1>1. Types /\ AtEnd(e, k) /\ Peer(e) \in Ends
    BY PeerIsEnd DEF Inv, PipeInv, Pipe
<1>2. /\ reader' = [reader EXCEPT ![e][k] = "over"] /\ reader[e][k] # "over"
      /\ buf[e][k] = <<>> /\ (rclosed[e][k] \/ closed[e][k])
      /\ UNCHANGED <<closed, sent, log, cut>>
    BY DEF ReadEnd, MayRun, object, history
<1>3. closed[e][k] \/ cut \/ (closed[Peer(e)][k] /\ Len(log[e][k]) = sent[Peer(e)][k])
    <2>1. Len(log[e][k]) + Len(buf[e][k]) = Len(log[e][k])
        BY <1>1, <1>2, NumbersAre
    <2> QED
        BY <1>1, <1>2, <2>1 DEF AtEnd, Reached
<1>4. [d \in Ends |-> [j \in Streams |-> reader[d][j] = "over"]]'
          = [[d \in Ends |-> [j \in Streams |-> reader[d][j] = "over"]] EXCEPT ![e][k] = TRUE]
    <2>1. \A d \in Ends, j \in Streams :
              (reader'[d][j] = "over") =
                 [[h \in Ends |-> [i \in Streams |-> reader[h][i] = "over"]] EXCEPT ![e][k] = TRUE][d][j]
        BY <1>1, <1>2 DEF Types
    <2> QED
        BY <2>1
<1>5. Pipes!End(e, k)
    BY <1>2, <1>3, <1>4 DEF Pipes!End, Flip
<1> QED
    BY <1>5 DEF Pipes!Next

LEMMA ReadWaitRefines ==
    ASSUME Inv, NEW e \in Ends, NEW k \in Streams, ReadWait(e, k)
    PROVE  UNCHANGED Pipes!vars
<1>1. /\ reader' = [reader EXCEPT ![e][k] = "waiting"] /\ reader[e][k] # "over"
      /\ UNCHANGED <<closed, sent, log, cut>>
    BY DEF ReadWait, MayRun, history
<1>2. UNCHANGED [d \in Ends |-> [j \in Streams |-> reader[d][j] = "over"]]
    BY <1>1, OverSame DEF Inv
<1> QED
    BY <1>1, <1>2 DEF Pipes!vars, Flip

LEMMA OthersRefine ==
    ASSUME UNCHANGED <<closed, sent, log, reader, cut>>
    PROVE  UNCHANGED Pipes!vars
BY DEF Pipes!vars, Flip

LEMMA StepRefines == Inv /\ PipeInv /\ [Next]_vars => [Pipes!Next]_(Pipes!vars)
<1> SUFFICES ASSUME Inv, PipeInv, [Next]_vars PROVE Pipes!Next \/ UNCHANGED Pipes!vars
    OBVIOUS
<1>1. CASE OpenStream \/ AcceptStream
    BY <1>1, OthersRefine DEF OpenStream, AcceptStream, object, history
<1>2. CASE Cut
    BY <1>2, CutRefines
<1>3. ASSUME NEW e \in Ends, Run(e) PROVE UNCHANGED Pipes!vars
    BY <1>3, OthersRefine
       DEF Run, ReceiveNew, ReceiveData, ReceiveFin, CloseAll, object, history
<1>4. ASSUME NEW e \in Ends, NEW k \in Streams,
             \/ Write(e, k) \/ Close(e, k, "FIN") \/ Read(e, k)
             \/ CloseDone(e, k) \/ CloseRaises(e, k)
      PROVE  Pipes!Next \/ UNCHANGED Pipes!vars
    <2>1. CASE Write(e, k)
        BY <2>1, WriteRefines
    <2>2. CASE Close(e, k, "FIN")
        BY <2>2, CloseRefines
    <2>3. CASE CloseDone(e, k) \/ CloseRaises(e, k)
        BY <2>3, OthersRefine DEF CloseDone, CloseRaises, history
    <2>4. CASE Read(e, k)
        BY <2>4, ReadDataRefines, ReadEndRefines, ReadWaitRefines DEF Read
    <2> QED
        BY <1>4, <2>1, <2>2, <2>3, <2>4
<1>5. ASSUME NEW k \in Streams, Close("server", k, "RST") PROVE Pipes!Next
    <2>1. "server" \in Ends
        BY DEF Ends
    <2> QED
        BY <1>5, <2>1, CloseRefines
<1>6. CASE UNCHANGED vars
    BY <1>6, OthersRefine DEF vars
<1> QED
    BY <1>1, <1>2, <1>3, <1>4, <1>5, <1>6 DEF Next

\* Each direction of each stream is a FIFO of chunks that loses, repeats and reorders
\* none before its end is seen, for any number of streams, chunks and frames under way:
\* the sessions implement MuxPipes (mux.py 23-72, 110-139).
THEOREM SessionsArePipes == Spec => ImplementsPipes
<1>1. Spec => [](Inv /\ PipeInv)
    BY InitInv, StepInv, InitPipe, StepPipe, PTL DEF Spec
<1>2. Spec => Pipes!Init /\ [][Pipes!Next]_(Pipes!vars)
    BY <1>1, InitRefines, StepRefines, PTL DEF Spec
<1> QED
    BY <1>2 DEF ImplementsPipes, Pipes!Spec
=============================================================================
