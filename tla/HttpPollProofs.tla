--------------------------- MODULE HttpPollProofs ---------------------------
(* Proofs about HttpPoll, for any number of polls, bytes and faults. *)
EXTENDS HttpPoll, TLAPS, FiniteSetTheorems, SequenceTheorems

\* What the proof needs of the types.
Handler == [pc : {"free", "sent", "wait1", "wait2", "answer"},
            woken : BOOLEAN, by : Nat, data : Seq(Nat)]

Handlers ==
    /\ buf \in Seq(Nat)
    /\ written \in Nat
    /\ gets \in [Slots -> Handler]

Inv == Handlers /\ NoStuckPoll

\* The chunk a handler takes and what it leaves are sequences, and it leaves
\* something only where there was something.
LEMMA Chunks ==
    ASSUME NEW s \in Seq(Nat), NEW n \in Nat, n <= Len(s)
    PROVE  /\ SubSeq(s, 1, n) \in Seq(Nat)
           /\ SubSeq(s, n + 1, Len(s)) \in Seq(Nat)
           /\ SubSeq(s, n + 1, Len(s)) # <<>> => s # <<>>
OBVIOUS

\* The bytes a write appends are numbers.
LEMMA Appended ==
    ASSUME NEW s \in Seq(Nat), NEW n \in Nat, NEW w \in Nat
    PROVE  s \o [i \in 1 .. n |-> w + i] \in Seq(Nat)
<1>1. [i \in 1 .. n |-> w + i] \in Seq(Nat)
    OBVIOUS
<1> QED
    BY <1>1

LEMMA TakeKeeps ==
    ASSUME Inv, NEW g \in Slots, Take(g)
    PROVE  Inv'
<1> DEFINE n == IF Len(buf) < Batch THEN Len(buf) ELSE Batch
<1>1. n \in Nat /\ n <= Len(buf)
    BY BatchAssumption DEF Inv, Handlers, Handler
<1>2. /\ SubSeq(buf, 1, n) \in Seq(Nat)
      /\ SubSeq(buf, n + 1, Len(buf)) \in Seq(Nat)
      /\ SubSeq(buf, n + 1, Len(buf)) # <<>> => buf # <<>>
    BY <1>1, Chunks DEF Inv, Handlers, Handler
<1>3. /\ buf' = SubSeq(buf, n + 1, Len(buf))
      /\ gets' = [gets EXCEPT ![g] = [@ EXCEPT !.pc = "answer", !.woken = FALSE,
                                               !.data = SubSeq(buf, 1, n)]]
      /\ written' = written
    BY DEF Take
<1> HIDE DEF n
<1>4. Handlers'
    BY <1>2, <1>3 DEF Inv, Handlers, Handler
<1>5. \A f \in Slots : gets'[f].pc \in Waiting => gets'[f] = gets[f]
    BY <1>3 DEF Inv, Handlers, Handler, Waiting
<1>6. NoStuckPoll'
    BY <1>2, <1>3, <1>5 DEF Inv, NoStuckPoll
<1> QED
    BY <1>4, <1>6 DEF Inv

\* A handler begins to wait only where there is nothing to take.
LEMMA WaitKeeps ==
    ASSUME Inv, NEW g \in Slots, NEW phase \in Waiting, buf = <<>>, Wait(g, phase)
    PROVE  Inv'
<1>1. Handlers'
    BY DEF Inv, Handlers, Handler, Wait, Waiting, down
<1>2. NoStuckPoll'
    BY DEF NoStuckPoll, Wait, down
<1> QED
    BY <1>1, <1>2 DEF Inv

\* A step that leaves the buffer alone and makes no handler wait.
LEMMA OthersKeep ==
    ASSUME Inv, UNCHANGED <<buf, written>>,
           gets' \in [Slots -> Handler],
           \A f \in Slots : gets'[f].pc \in Waiting =>
               gets[f].pc \in Waiting /\ gets'[f].woken = gets[f].woken
    PROVE  Inv'
BY DEF Inv, Handlers, Handler, NoStuckPoll

LEMMA FreeHandler == Free \in Handler /\ Free.pc \notin Waiting
BY DEF Free, Handler, None, Waiting

\* A step that gives one slot a record that does not wait.
LEMMA Emptied ==
    ASSUME Inv, UNCHANGED <<buf, written>>, NEW g \in Slots,
           NEW h \in Handler, h.pc \notin Waiting, gets' = [gets EXCEPT ![g] = h]
    PROVE  Inv'
<1>1. gets' \in [Slots -> Handler]
    BY DEF Inv, Handlers
<1>2. \A f \in Slots : gets'[f].pc \in Waiting => gets'[f] = gets[f]
    BY DEF Inv, Handlers
<1> QED
    BY <1>1, <1>2, OthersKeep

LEMMA InvInit == Init => Inv
BY DEF Init, Inv, Handlers, Handler, NoStuckPoll, Free, None

LEMMA InvNext == Inv /\ [Next]_vars => Inv'
<1> SUFFICES ASSUME Inv, [Next]_vars PROVE Inv'
    OBVIOUS
<1> USE DEF down, uploads
<1>1. ASSUME NEW n \in 1 .. MaxDown, FeedDown(n) PROVE Inv'
    <2>1. n \in Nat
        BY <1>1, BoundsAssumption
    <2>2. Handlers'
        <3>1. buf' \in Seq(Nat) /\ written' \in Nat
            BY <1>1, <2>1, Appended DEF Inv, Handlers, Handler, FeedDown
        <3>2. \A h \in Handler, w \in BOOLEAN : [h EXCEPT !.woken = w] \in Handler
            BY DEF Handler
        <3>3. \A g \in Slots : gets[g] \in Handler
                               /\ (gets[g].woken \/ gets[g].pc \in Waiting) \in BOOLEAN
            BY DEF Inv, Handlers
        <3>4. \A g \in Slots :
                  [gets[g] EXCEPT !.woken = @ \/ gets[g].pc \in Waiting] \in Handler
            BY <3>2, <3>3, Zenon
        <3>5. gets' = [g \in Slots |->
                          [gets[g] EXCEPT !.woken = @ \/ gets[g].pc \in Waiting]]
            BY <1>1 DEF FeedDown
        <3> QED
            BY <3>1, <3>4, <3>5 DEF Handlers
    <2>3. NoStuckPoll'
        BY <1>1 DEF Inv, Handlers, Handler, NoStuckPoll, FeedDown, Waiting
    <2> QED
        BY <2>2, <2>3 DEF Inv
<1>2. ASSUME NEW g \in Slots, Arrive(g) PROVE Inv'
    <2>1. CASE buf # <<>>
        BY <1>2, <2>1, TakeKeeps DEF Arrive
    <2>2. CASE buf = <<>>
        BY <1>2, <2>2, WaitKeeps DEF Arrive, Waiting
    <2> QED
        BY <2>1, <2>2
<1>3. ASSUME NEW g \in Slots, WaitAgain(g) PROVE Inv'
    <2>1. CASE buf # <<>>
        BY <1>3, <2>1, TakeKeeps DEF WaitAgain
    <2>2. CASE buf = <<>>
        BY <1>3, <2>2, WaitKeeps DEF WaitAgain, Waiting
    <2> QED
        BY <2>1, <2>2
<1>4. ASSUME NEW g \in Slots, Answer(g) PROVE Inv'
    BY <1>4, TakeKeeps DEF Answer
<1>5. ASSUME NEW g \in Slots, Refuse(g) PROVE Inv'
    BY <1>5, OthersKeep DEF Refuse, Inv, Handlers, Handler, Waiting
<1>6. ASSUME NEW p \in Polls, Ask(p) PROVE Inv'
    <2>1. p \in Nat
        BY PollsAssumption DEF Polls
    <2> DEFINE h == [pc |-> "sent", woken |-> FALSE, by |-> p, data |-> <<>>]
    <2>2. h \in Handler /\ h.pc \notin Waiting
        BY <2>1 DEF Handler, Waiting
    <2>3. PICK g \in Slots : gets' = [gets EXCEPT ![g] = h]
        BY <1>6 DEF Ask
    <2> HIDE DEF h
    <2> QED
        BY <1>6, <2>2, <2>3, Emptied DEF Ask
<1>7. ASSUME NEW g \in Slots, Receive(g) PROVE Inv'
    BY <1>7, FreeHandler, Emptied DEF Receive
<1>8. ASSUME NEW g \in Slots, PollFails(g) PROVE Inv'
    BY <1>8, OthersKeep DEF PollFails, Inv, Handlers, Handler, Waiting, None
<1>9. ASSUME NEW g \in Slots, Vanish(g) PROVE Inv'
    BY <1>9, FreeHandler, Emptied DEF Vanish
<1>10. ASSUME Close PROVE Inv'
    BY <1>10, OthersKeep DEF Close, Inv, Handlers, Handler, Waiting, None
<1>11. ASSUME Restart PROVE Inv'
    <2>1. Handlers'
        BY <1>11 DEF Restart, Inv, Handlers, Handler, Free, None
    <2> QED
        BY <1>11, <2>1 DEF Restart, Inv, NoStuckPoll
<1>12. ASSUME UNCHANGED <<buf, written, gets>> PROVE Inv'
    BY <1>12 DEF Inv, Handlers, Handler, NoStuckPoll
<1>13. ASSUME UploadStep PROVE Inv'
    BY <1>13, <1>12 DEF UploadStep, Write, Drain, Posted, PostFails, PostLate
<1>14. ASSUME NEW p \in Polls, Wake(p) PROVE Inv'
    BY <1>14, <1>12 DEF Wake
<1>15. ASSUME UNCHANGED vars PROVE Inv'
    BY <1>15, <1>12 DEF vars
<1> QED
    BY <1>1, <1>2, <1>3, <1>4, <1>5, <1>6, <1>7, <1>8, <1>9, <1>10, <1>11, <1>13, <1>14,
       <1>15 DEF Next, ServerStep, PollStep

\* However many polls share the event, none sleeps while there are bytes to take.
THEOREM NoPollSleepsOnData == Spec => []NoStuckPoll
<1>1. Inv => NoStuckPoll
    BY DEF Inv
<1> QED
    BY InvInit, InvNext, <1>1, PTL DEF Spec
-----------------------------------------------------------------------------
-----------------------------------------------------------------------------
(* Sequences of bytes *)

Rising(s) == \A i, j \in 1 .. Len(s) : i < j => s[i] < s[j]
Distinct(s) == \A i, j \in 1 .. Len(s) : s[i] = s[j] => i = j
Below(s, t) == \A i \in 1 .. Len(s), j \in 1 .. Len(t) : s[i] < t[j]
Apart(s, t) == \A i \in 1 .. Len(s), j \in 1 .. Len(t) : s[i] # t[j]
UpTo(s, n) == \A i \in 1 .. Len(s) : s[i] \in 1 .. n

\* The two parts of a sequence.
LEMMA Parts ==
    ASSUME NEW s \in Seq(Nat), NEW n \in 0 .. Len(s)
    PROVE  /\ Len(SubSeq(s, 1, n)) = n /\ SubSeq(s, 1, n) \in Seq(Nat)
           /\ \A i \in 1 .. n : i \in 1 .. Len(s) /\ SubSeq(s, 1, n)[i] = s[i]
           /\ Len(SubSeq(s, n + 1, Len(s))) = Len(s) - n /\ SubSeq(s, n + 1, Len(s)) \in Seq(Nat)
           /\ \A i \in 1 .. Len(s) - n :
                 n + i \in 1 .. Len(s) /\ SubSeq(s, n + 1, Len(s))[i] = s[n + i]
           /\ \A i \in 1 .. Len(s) : i \in 1 .. n \/ i - n \in 1 .. Len(s) - n
OBVIOUS

\* The two sides of a concatenation.
LEMMA Sides ==
    ASSUME NEW s \in Seq(Nat), NEW t \in Seq(Nat)
    PROVE  /\ s \o t \in Seq(Nat) /\ Len(s \o t) = Len(s) + Len(t)
           /\ \A i \in 1 .. Len(s \o t) :
                 \/ i \in 1 .. Len(s) /\ (s \o t)[i] = s[i]
                 \/ i > Len(s) /\ i - Len(s) \in 1 .. Len(t) /\ (s \o t)[i] = t[i - Len(s)]
           /\ \A i \in 1 .. Len(s) : i \in 1 .. Len(s \o t) /\ (s \o t)[i] = s[i]
           /\ \A i \in 1 .. Len(t) : Len(s) + i \in 1 .. Len(s \o t) /\ (s \o t)[Len(s) + i] = t[i]
OBVIOUS

\* What is taken from the front of rising bytes is below what is left.
LEMMA TakenRises ==
    ASSUME NEW s \in Seq(Nat), NEW n \in 0 .. Len(s), Rising(s)
    PROVE  /\ Rising(SubSeq(s, 1, n)) /\ Rising(SubSeq(s, n + 1, Len(s)))
           /\ Below(SubSeq(s, 1, n), SubSeq(s, n + 1, Len(s)))
<1>1. Len(s) \in Nat /\ n \in Nat /\ n <= Len(s) /\ \A i \in 1 .. Len(s) : s[i] \in Nat
    OBVIOUS
<1>2. Rising(SubSeq(s, 1, n))
    BY Parts DEF Rising
<1>3. Rising(SubSeq(s, n + 1, Len(s)))
    <2> DEFINE b == SubSeq(s, n + 1, Len(s))
    <2>1. Len(b) = Len(s) - n /\ \A i \in 1 .. Len(s) - n : b[i] = s[n + i]
        BY Parts
    <2> HIDE DEF b
    <2> SUFFICES ASSUME NEW i \in 1 .. Len(s) - n, NEW j \in 1 .. Len(s) - n, i < j
                 PROVE  s[n + i] < s[n + j]
        BY <2>1 DEF Rising, b
    <2>2. n + i \in 1 .. Len(s) /\ n + j \in 1 .. Len(s) /\ n + i < n + j
        BY <1>1
    <2> QED
        BY <2>2 DEF Rising
<1>4. Below(SubSeq(s, 1, n), SubSeq(s, n + 1, Len(s)))
    <2> DEFINE a == SubSeq(s, 1, n)
               b == SubSeq(s, n + 1, Len(s))
    <2>2. /\ Len(a) = n /\ \A i \in 1 .. n : a[i] = s[i]
          /\ Len(b) = Len(s) - n /\ \A i \in 1 .. Len(s) - n : b[i] = s[n + i]
        BY Parts
    <2> HIDE DEF a, b
    <2> SUFFICES ASSUME NEW i \in 1 .. n, NEW j \in 1 .. Len(s) - n PROVE s[i] < s[n + j]
        BY <2>2 DEF Below, a, b
    <2>1. i \in 1 .. Len(s) /\ n + j \in 1 .. Len(s) /\ i < n + j
        BY <1>1
    <2> QED
        BY <2>1 DEF Rising
<1> QED
    BY <1>2, <1>3, <1>4

LEMMA TakenWithin ==
    ASSUME NEW s \in Seq(Nat), NEW n \in 0 .. Len(s), NEW t \in Seq(Nat), NEW w \in Nat
    PROVE  /\ Below(t, s) => Below(t, SubSeq(s, 1, n)) /\ Below(t, SubSeq(s, n + 1, Len(s)))
           /\ UpTo(s, w) => UpTo(SubSeq(s, 1, n), w) /\ UpTo(SubSeq(s, n + 1, Len(s)), w)
<1>1. ASSUME Below(t, s)
      PROVE  Below(t, SubSeq(s, 1, n)) /\ Below(t, SubSeq(s, n + 1, Len(s)))
    <2>1. Below(t, SubSeq(s, 1, n))
        BY <1>1, Parts DEF Below
    <2>2. Below(t, SubSeq(s, n + 1, Len(s)))
        <3> SUFFICES ASSUME NEW i \in 1 .. Len(t), NEW j \in 1 .. Len(s) - n PROVE t[i] < s[n + j]
            BY Parts DEF Below
        <3>1. n + j \in 1 .. Len(s)
            BY Parts
        <3> QED
            BY <1>1, <3>1 DEF Below
    <2> QED
        BY <2>1, <2>2
<1>2. ASSUME UpTo(s, w)
      PROVE  UpTo(SubSeq(s, 1, n), w) /\ UpTo(SubSeq(s, n + 1, Len(s)), w)
    BY <1>2, Parts DEF UpTo
<1> QED
    BY <1>1, <1>2

\* Bytes not written before, numbered on.
Fresh(w, n) == [i \in 1 .. n |-> w + i]

LEMMA FreshAre ==
    ASSUME NEW w \in Nat, NEW n \in Nat
    PROVE  /\ Fresh(w, n) \in Seq(Nat) /\ Len(Fresh(w, n)) = n
           /\ \A i \in 1 .. n : Fresh(w, n)[i] = w + i
BY DEF Fresh

LEMMA FedRises ==
    ASSUME NEW s \in Seq(Nat), NEW t \in Seq(Nat), NEW w \in Nat, NEW n \in Nat, UpTo(s, w)
    PROVE  /\ s \o Fresh(w, n) \in Seq(Nat) /\ UpTo(s \o Fresh(w, n), w + n) /\ UpTo(s, w + n)
           /\ Rising(s) => Rising(s \o Fresh(w, n))
           /\ Below(t, s) /\ UpTo(t, w) => Below(t, s \o Fresh(w, n))
<1> DEFINE f == Fresh(w, n)
<1>1. f \in Seq(Nat) /\ Len(f) = n /\ \A i \in 1 .. n : f[i] = w + i
    BY FreshAre
<1> HIDE DEF f
<1> DEFINE r == s \o f
<1>2. /\ r \in Seq(Nat) /\ Len(r) = Len(s) + n /\ Len(s) \in Nat /\ Len(t) \in Nat
      /\ \A i \in 1 .. Len(r) :
            \/ i \in 1 .. Len(s) /\ r[i] = s[i]
            \/ i > Len(s) /\ i - Len(s) \in 1 .. n /\ r[i] = w + (i - Len(s))
      /\ \A i \in 1 .. Len(s) : s[i] \in Nat
      /\ \A i \in 1 .. Len(t) : t[i] \in Nat
    <2>1. /\ r \in Seq(Nat) /\ Len(r) = Len(s) + n
          /\ \A i \in 1 .. Len(r) :
                \/ i \in 1 .. Len(s) /\ r[i] = s[i]
                \/ i > Len(s) /\ i - Len(s) \in 1 .. n /\ r[i] = f[i - Len(s)]
        BY <1>1, Sides
    <2>2. \A i \in 1 .. Len(r) : i - Len(s) \in 1 .. n => f[i - Len(s)] = w + (i - Len(s))
        BY <1>1
    <2>3. Len(s) \in Nat /\ Len(t) \in Nat
        OBVIOUS
    <2>4. \A i \in 1 .. Len(s) : s[i] \in Nat
        OBVIOUS
    <2>5. \A i \in 1 .. Len(t) : t[i] \in Nat
        OBVIOUS
    <2> HIDE DEF r
    <2> QED
        BY <2>1, <2>2, <2>3, <2>4, <2>5
<1> HIDE DEF r
<1>3. UpTo(r, w + n) /\ UpTo(s, w + n)
    <2>1. \A i \in 1 .. Len(s) : s[i] \in 1 .. w /\ s[i] \in 1 .. w + n
        BY DEF UpTo
    <2>2. ASSUME NEW i \in 1 .. Len(r) PROVE r[i] \in 1 .. w + n
        <3>1. CASE i \in 1 .. Len(s) /\ r[i] = s[i]
            BY <2>1, <3>1
        <3>2. CASE i - Len(s) \in 1 .. n /\ r[i] = w + (i - Len(s))
            BY <1>2, <3>2
        <3> QED
            BY <1>2, <3>1, <3>2
    <2> QED
        BY <2>1, <2>2 DEF UpTo
<1>4. ASSUME Rising(s) PROVE Rising(r)
    <2> SUFFICES ASSUME NEW i \in 1 .. Len(r), NEW j \in 1 .. Len(r), i < j
                 PROVE  r[i] < r[j]
        BY DEF Rising
    <2>1. CASE i \in 1 .. Len(s) /\ r[i] = s[i] /\ j \in 1 .. Len(s) /\ r[j] = s[j]
        BY <1>4, <2>1 DEF Rising
    <2>2. CASE i \in 1 .. Len(s) /\ r[i] = s[i] /\ j - Len(s) \in 1 .. n /\ r[j] = w + (j - Len(s))
        <3>1. s[i] \in 1 .. w
            BY <2>2 DEF UpTo
        <3> QED
            BY <1>2, <2>2, <3>1
    <2>3. CASE /\ i > Len(s) /\ i - Len(s) \in 1 .. n /\ r[i] = w + (i - Len(s))
               /\ j > Len(s) /\ j - Len(s) \in 1 .. n /\ r[j] = w + (j - Len(s))
        BY <1>2, <2>3
    <2> QED
        BY <1>2, <2>1, <2>2, <2>3
<1>5. ASSUME Below(t, s), UpTo(t, w) PROVE Below(t, r)
    <2> SUFFICES ASSUME NEW i \in 1 .. Len(t), NEW j \in 1 .. Len(r) PROVE t[i] < r[j]
        BY DEF Below
    <2>1. t[i] \in 1 .. w
        BY <1>5 DEF UpTo
    <2>2. CASE j \in 1 .. Len(s) /\ r[j] = s[j]
        BY <1>5, <2>2 DEF Below
    <2>3. CASE j - Len(s) \in 1 .. n /\ r[j] = w + (j - Len(s))
        BY <1>2, <2>1, <2>3
    <2> QED
        BY <1>2, <2>2, <2>3
<1> QED
    BY <1>2, <1>3, <1>4, <1>5 DEF r, f

\* What is received goes behind what was.
LEMMA Joined ==
    ASSUME NEW s \in Seq(Nat), NEW d \in Seq(Nat), NEW t \in Seq(Nat), NEW w \in Nat
    PROVE  /\ Distinct(s) /\ Distinct(d) /\ Apart(s, d) => Distinct(s \o d)
           /\ Rising(s) /\ Rising(d) /\ Below(s, d) => Rising(s \o d)
           /\ Below(s, t) /\ Below(d, t) => Below(s \o d, t)
           /\ Apart(s, t) /\ Apart(d, t) => Apart(s \o d, t)
           /\ UpTo(s, w) /\ UpTo(d, w) => UpTo(s \o d, w)
<1> DEFINE r == s \o d
<1>1. /\ Len(r) \in Nat /\ Len(s) \in Nat /\ Len(d) \in Nat
      /\ \A i \in 1 .. Len(r) :
            \/ i \in 1 .. Len(s) /\ r[i] = s[i]
            \/ i > Len(s) /\ i - Len(s) \in 1 .. Len(d) /\ r[i] = d[i - Len(s)]
    BY Sides
<1> HIDE DEF r
<1>2. ASSUME Distinct(s), Distinct(d), Apart(s, d) PROVE Distinct(r)
    <2> SUFFICES ASSUME NEW i \in 1 .. Len(r), NEW j \in 1 .. Len(r), r[i] = r[j]
                 PROVE  i = j
        BY DEF Distinct
    <2>1. CASE i \in 1 .. Len(s) /\ r[i] = s[i] /\ j \in 1 .. Len(s) /\ r[j] = s[j]
        BY <1>2, <2>1 DEF Distinct
    <2>2. CASE /\ i - Len(s) \in 1 .. Len(d) /\ r[i] = d[i - Len(s)]
               /\ j - Len(s) \in 1 .. Len(d) /\ r[j] = d[j - Len(s)]
        <3>1. i - Len(s) = j - Len(s)
            BY <1>2, <2>2 DEF Distinct
        <3> QED
            BY <1>1, <3>1
    <2> QED
        BY <1>1, <1>2, <2>1, <2>2 DEF Apart
<1>3. ASSUME Rising(s), Rising(d), Below(s, d) PROVE Rising(r)
    <2> SUFFICES ASSUME NEW i \in 1 .. Len(r), NEW j \in 1 .. Len(r), i < j
                 PROVE  r[i] < r[j]
        BY DEF Rising
    <2>1. CASE i \in 1 .. Len(s) /\ r[i] = s[i] /\ j \in 1 .. Len(s) /\ r[j] = s[j]
        BY <1>3, <2>1 DEF Rising
    <2>2. CASE /\ i - Len(s) \in 1 .. Len(d) /\ r[i] = d[i - Len(s)]
               /\ j - Len(s) \in 1 .. Len(d) /\ r[j] = d[j - Len(s)]
        <3>1. i - Len(s) < j - Len(s)
            BY <1>1
        <3> QED
            BY <1>3, <2>2, <3>1 DEF Rising
    <2>3. CASE i \in 1 .. Len(s) /\ r[i] = s[i] /\ j - Len(s) \in 1 .. Len(d) /\ r[j] = d[j - Len(s)]
        BY <1>3, <2>3 DEF Below
    <2>4. ~(i > Len(s) /\ j \in 1 .. Len(s))
        BY <1>1
    <2> QED
        BY <1>1, <2>1, <2>2, <2>3, <2>4
<1>4. ASSUME Below(s, t), Below(d, t) PROVE Below(r, t)
    BY <1>1, <1>4 DEF Below
<1>5. ASSUME Apart(s, t), Apart(d, t) PROVE Apart(r, t)
    BY <1>1, <1>5 DEF Apart
<1>6. ASSUME UpTo(s, w), UpTo(d, w) PROVE UpTo(r, w)
    BY <1>1, <1>6 DEF UpTo
<1> QED
    BY <1>2, <1>3, <1>4, <1>5, <1>6 DEF r

LEMMA Implied ==
    ASSUME NEW s \in Seq(Nat), NEW t \in Seq(Nat)
    PROVE  /\ Rising(s) => Distinct(s)
           /\ Below(s, t) => Apart(s, t) /\ Apart(t, s)
           /\ Apart(s, t) => Apart(t, s)
<1>1. \A i \in 1 .. Len(s) : s[i] \in Nat
    OBVIOUS
<1>2. \A i \in 1 .. Len(t) : t[i] \in Nat
    OBVIOUS
<1>3. ASSUME Rising(s) PROVE Distinct(s)
    <2> SUFFICES ASSUME NEW i \in 1 .. Len(s), NEW j \in 1 .. Len(s), s[i] = s[j], i # j
                 PROVE  FALSE
        BY DEF Distinct
    <2>1. i < j \/ j < i
        OBVIOUS
    <2> QED
        BY <1>1, <1>3, <2>1 DEF Rising
<1>4. Below(s, t) => Apart(s, t) /\ Apart(t, s)
    BY <1>1, <1>2 DEF Below, Apart
<1>5. Apart(s, t) => Apart(t, s)
    BY DEF Apart
<1> QED
    BY <1>3, <1>4, <1>5

-----------------------------------------------------------------------------
(* Types, and the requests of the polls *)

Request == [pc : {"free", "sent", "wait1", "wait2", "answer"}, woken : BOOLEAN,
            by : Polls \cup {None}, data : Seq(Nat)]

\* TypeOK without the bounds on what the sequences hold.
Types ==
    /\ config \in [polls : 1 .. MaxPolls, min : BOOLEAN]
    /\ loops \in [Polls -> {"off", "ask", "asking", "asleep"}]
    /\ gets \in [Slots -> Request]
    /\ written \in 0 .. MaxDown /\ up \in 0 .. MaxUp
    /\ buf \in Seq(Nat) /\ got \in Seq(Nat)
    /\ ubuf \in Seq(Nat) /\ fed \in Seq(Nat) /\ post \in Seq(Nat)
    /\ event \in BOOLEAN /\ known \in BOOLEAN /\ closed \in BOOLEAN
    /\ faults \in 0 .. MaxFaults

\* What the sequences hold: bytes that were written, a batch at most in a message.
DownBytes ==
    /\ UpTo(buf, written) /\ UpTo(got, written)
    /\ \A g \in Slots : UpTo(gets[g].data, written) /\ Len(gets[g].data) <= Batch
UpBytes ==
    /\ UpTo(ubuf, up) /\ UpTo(fed, up) /\ UpTo(post, up) /\ Len(post) <= Batch
    /\ late \subseteq UpChunk /\ \A c \in late : UpTo(c, up)

\* A poll loop asks with one request; a slot nobody asks with is that of a request
\* given up, of which there is none before the first failure.
Requests ==
    /\ \A p \in Polls : loops[p] = "asking" <=> \E g \in Slots : gets[g].by = p
    /\ \A g, h \in Slots : gets[g].by = gets[h].by /\ gets[g].by # None => g = h
    /\ \A g \in Slots : gets[g].pc = "free" => gets[g].by = None
    /\ \A g \in Slots : gets[g].data # <<>> => gets[g].pc = "answer"
    /\ \A p \in Polls : p > config.polls => loops[p] = "off"
Smooth ==
    /\ faults = 0 => known
    /\ faults = 0 /\ ~closed => /\ \A g \in Slots : gets[g].by = None => gets[g].pc = "free"
                                /\ late = {}

Fine == Types /\ DownBytes /\ UpBytes /\ Requests /\ Smooth

LEMMA Constants ==
    /\ MaxPolls \in Nat /\ MaxPolls > 0 /\ MaxStale \in Nat /\ MaxDown \in Nat /\ MaxUp \in Nat
    /\ MaxFaults \in Nat /\ Batch \in Nat /\ Batch > 0
    /\ \A p \in Polls : p \in Nat /\ p # None
    /\ None \notin Polls
BY PollsAssumption, BoundsAssumption, BatchAssumption DEF Polls, None

LEMMA FreeIs == Free \in Request /\ Free.pc = "free" /\ Free.by = None /\ Free.data = <<>>
BY DEF Free, Request, None

\* A chunk of bytes that were written is one that TypeOK allows.
LEMMA ChunkIs ==
    ASSUME NEW s \in Seq(Nat), NEW w \in Nat, NEW m \in Nat, UpTo(s, w), w <= m, Len(s) <= Batch
    PROVE  s \in {<<>>} \cup UNION {[1 .. n -> 1 .. m] : n \in 1 .. Batch}
<1>1. CASE Len(s) = 0
    BY <1>1
<1>2. CASE Len(s) # 0
    <2>1. Len(s) \in 1 .. Batch
        BY <1>2, Constants
    <2>2. \A i \in 1 .. Len(s) : s[i] \in 1 .. m
        BY DEF UpTo
    <2>3. s \in [1 .. Len(s) -> 1 .. m]
        BY <2>2
    <2> QED
        BY <2>1, <2>3
<1> QED
    BY <1>1, <1>2

LEMMA FineIsTyped == Fine => TypeOK
<1> SUFFICES ASSUME Fine PROVE TypeOK
    OBVIOUS
<1> USE DEF Fine
<1>1. IsOnto(buf, written) /\ IsOnto(got, written) /\ IsOnto(ubuf, up) /\ IsOnto(fed, up)
    <2>1. \A t, n : t \in Seq(Nat) /\ UpTo(t, n) => IsOnto(t, n)
        BY DEF IsOnto, UpTo
    <2> QED
        BY <2>1 DEF Types, DownBytes, UpBytes
<1>2. written \in Nat /\ written <= MaxDown /\ up \in Nat /\ up <= MaxUp
    BY Constants DEF Types
<1>3. gets \in [Slots -> Get]
    <2>1. ASSUME NEW g \in Slots PROVE gets[g] \in Get
        <3>1. gets[g] \in Request /\ UpTo(gets[g].data, written) /\ Len(gets[g].data) <= Batch
            BY DEF Types, DownBytes
        <3>2. gets[g].data \in Chunk
            BY <1>2, <3>1, ChunkIs, Constants DEF Request, Chunk
        <3> QED
            BY <3>1, <3>2 DEF Request, Get
    <2> QED
        BY <2>1 DEF Types
<1>4. post \in {<<>>} \cup UpChunk
    <2>1. post \in Seq(Nat) /\ UpTo(post, up) /\ Len(post) <= Batch
        BY DEF Types, UpBytes
    <2>2. post \in {<<>>} \cup UNION {[1 .. n -> 1 .. MaxUp] : n \in 1 .. Batch}
        BY <1>2, <2>1, ChunkIs, Constants
    <2> QED
        BY <2>2 DEF UpChunk
<1>5. \A p \in Polls :
          Cardinality({g \in Slots : gets[g].by = p}) = IF loops[p] = "asking" THEN 1 ELSE 0
    <2> SUFFICES ASSUME NEW p \in Polls
                 PROVE  Cardinality({g \in Slots : gets[g].by = p})
                            = IF loops[p] = "asking" THEN 1 ELSE 0
        OBVIOUS
    <2>1. CASE loops[p] = "asking"
        <3>1. PICK g \in Slots : gets[g].by = p
            BY <2>1 DEF Requests
        <3>2. {h \in Slots : gets[h].by = p} = {g}
            BY <3>1, Constants DEF Requests
        <3> QED
            BY <2>1, <3>2, FS_Singleton
    <2>2. CASE loops[p] # "asking"
        <3>1. {h \in Slots : gets[h].by = p} = {}
            BY <2>2 DEF Requests
        <3> QED
            BY <2>2, <3>1, FS_EmptySet
    <2> QED
        BY <2>1, <2>2
<1> QED
    BY <1>1, <1>3, <1>4, <1>5 DEF TypeOK, Types, UpBytes, Requests

-----------------------------------------------------------------------------
(* The steps of the server *)

\* One handler goes on.
LEMMA Turned ==
    ASSUME Types, NEW g \in Slots, NEW c \in {"wait1", "wait2", "answer"}, NEW d \in Seq(Nat),
           gets' = [gets EXCEPT ![g] = [@ EXCEPT !.pc = c, !.woken = FALSE, !.data = d]]
    PROVE  /\ gets' \in [Slots -> Request]
           /\ gets'[g].by = gets[g].by /\ gets'[g].pc = c /\ gets'[g].data = d
           /\ \A h \in Slots : h # g => gets'[h] = gets[h]
<1>1. \A r \in Request : /\ [r EXCEPT !.pc = c, !.woken = FALSE, !.data = d] \in Request
                         /\ [r EXCEPT !.pc = c, !.woken = FALSE, !.data = d].by = r.by
                         /\ [r EXCEPT !.pc = c, !.woken = FALSE, !.data = d].pc = c
                         /\ [r EXCEPT !.pc = c, !.woken = FALSE, !.data = d].data = d
    BY DEF Request
<1>2. gets[g] \in Request
    BY DEF Types
<1>3. gets'[g] = [gets[g] EXCEPT !.pc = c, !.woken = FALSE, !.data = d]
    BY DEF Types
<1>4. \A h \in Slots : h # g => gets'[h] = gets[h]
    BY DEF Types
<1>5. gets'[g] \in Request
    BY <1>1, <1>2, <1>3
<1>6. gets' \in [Slots -> Request]
    BY <1>4, <1>5 DEF Types
<1> QED
    BY <1>1, <1>2, <1>3, <1>4, <1>6

\* A handler takes a batch from the front of the buffer ...
LEMMA TakeIs ==
    ASSUME Types, NEW g \in Slots, Take(g)
    PROVE  \E n \in 0 .. Len(buf) :
              /\ n <= Batch /\ buf' = SubSeq(buf, n + 1, Len(buf)) /\ written' = written
              /\ event' = FALSE /\ gets' \in [Slots -> Request]
              /\ gets'[g].by = gets[g].by /\ gets'[g].pc = "answer"
              /\ gets'[g].data = SubSeq(buf, 1, n)
              /\ \A h \in Slots : h # g => gets'[h] = gets[h]
<1> DEFINE n == IF Len(buf) < Batch THEN Len(buf) ELSE Batch
<1>1. n \in 0 .. Len(buf) /\ n <= Batch
    BY Constants DEF Types
<1>2. /\ buf' = SubSeq(buf, n + 1, Len(buf)) /\ written' = written /\ event' = FALSE
      /\ gets' = [gets EXCEPT ![g] = [@ EXCEPT !.pc = "answer", !.woken = FALSE,
                                               !.data = SubSeq(buf, 1, n)]]
    BY DEF Take
<1> HIDE DEF n
<1>3. SubSeq(buf, 1, n) \in Seq(Nat)
    BY <1>1, Parts DEF Types
<1>4. /\ gets' \in [Slots -> Request]
      /\ gets'[g].by = gets[g].by /\ gets'[g].pc = "answer"
      /\ gets'[g].data = SubSeq(buf, 1, n)
      /\ \A h \in Slots : h # g => gets'[h] = gets[h]
    BY <1>2, <1>3, Turned
<1> QED
    BY <1>1, <1>2, <1>4

\* ... or waits.
LEMMA WaitIs ==
    ASSUME Types, NEW g \in Slots, NEW c \in Waiting, Wait(g, c)
    PROVE  /\ UNCHANGED <<buf, written, event>> /\ gets' \in [Slots -> Request]
           /\ gets'[g].by = gets[g].by /\ gets'[g].pc = c /\ gets'[g].data = gets[g].data
           /\ \A h \in Slots : h # g => gets'[h] = gets[h]
<1>1. gets[g] \in Request /\ gets[g].data \in Seq(Nat) /\ c \in {"wait1", "wait2", "answer"}
    BY DEF Types, Request, Waiting
<1>2. gets' = [gets EXCEPT ![g] = [@ EXCEPT !.pc = c, !.woken = FALSE, !.data = gets[g].data]]
    <2>1. [gets[g] EXCEPT !.pc = c, !.woken = FALSE]
              = [gets[g] EXCEPT !.pc = c, !.woken = FALSE, !.data = gets[g].data]
        BY <1>1 DEF Request
    <2> QED
        BY <2>1 DEF Wait
<1> QED
    BY <1>1, <1>2, Turned DEF Wait, down

LEMMA Moves ==
    ASSUME NEW g \in Slots, Arrive(g) \/ WaitAgain(g) \/ Answer(g)
    PROVE  /\ gets[g].pc \in {"sent", "wait1", "wait2"}
           /\ Take(g) \/ \E c \in Waiting : Wait(g, c)
           /\ UNCHANGED <<config, loops, got, ubuf, post, late, fed, up, known, closed, faults>>
BY DEF Arrive, WaitAgain, Answer, Waiting, uploads

\* Nobody asks, is answered or goes away.
LEMMA SameRequests ==
    ASSUME Requests, Smooth, UNCHANGED <<config, loops, known, closed, faults>>,
           late' \subseteq late,
           \A g \in Slots : /\ gets'[g].by = gets[g].by
                            /\ gets'[g].pc = "free" <=> gets[g].pc = "free"
                            /\ gets'[g].data # <<>> => gets'[g].pc = "answer"
    PROVE  Requests' /\ Smooth'
<1>1. Requests'
    BY DEF Requests
<1>2. Smooth'
    BY DEF Smooth
<1> QED
    BY <1>1, <1>2

LEMMA MoveFine ==
    ASSUME Fine, NEW g \in Slots, Arrive(g) \/ WaitAgain(g) \/ Answer(g)
    PROVE  Fine'
<1>1. /\ gets[g].pc \in {"sent", "wait1", "wait2"} /\ gets[g].data = <<>>
      /\ UNCHANGED <<config, loops, got, ubuf, post, late, fed, up, known, closed, faults>>
    BY Moves DEF Fine, Requests
<1>2. Types /\ DownBytes /\ UpBytes /\ Requests /\ Smooth /\ written \in Nat
    BY Constants DEF Fine, Types
<1>3. UpBytes'
    BY <1>1, <1>2 DEF UpBytes
<1>4. CASE Take(g)
    <2>1. PICK n \in 0 .. Len(buf) :
              /\ n <= Batch /\ buf' = SubSeq(buf, n + 1, Len(buf)) /\ written' = written
              /\ event' = FALSE /\ gets' \in [Slots -> Request]
              /\ gets'[g].by = gets[g].by /\ gets'[g].pc = "answer"
              /\ gets'[g].data = SubSeq(buf, 1, n)
              /\ \A h \in Slots : h # g => gets'[h] = gets[h]
        BY <1>2, <1>4, TakeIs
    <2>2. /\ buf' \in Seq(Nat) /\ UpTo(buf', written)
          /\ UpTo(gets'[g].data, written) /\ Len(gets'[g].data) = n
        BY <1>2, <2>1, Parts, TakenWithin DEF Types, DownBytes
    <2>3. Types'
        BY <1>1, <1>2, <2>1, <2>2 DEF Types
    <2>4. DownBytes'
        <3>1. \A h \in Slots : UpTo(gets'[h].data, written) /\ Len(gets'[h].data) <= Batch
            BY <1>2, <2>1, <2>2 DEF DownBytes
        <3> QED
            BY <1>1, <1>2, <2>1, <2>2, <3>1 DEF DownBytes
    <2>5. Requests' /\ Smooth'
        <3>1. \A h \in Slots : /\ gets'[h].by = gets[h].by
                               /\ gets'[h].pc = "free" <=> gets[h].pc = "free"
                               /\ gets'[h].data # <<>> => gets'[h].pc = "answer"
            BY <1>1, <1>2, <2>1 DEF Requests
        <3> QED
            BY <1>1, <1>2, <3>1, SameRequests
    <2> QED
        BY <1>3, <2>3, <2>4, <2>5 DEF Fine
<1>5. CASE \E c \in Waiting : Wait(g, c)
    <2>1. PICK c \in Waiting : Wait(g, c)
        BY <1>5
    <2>2. /\ UNCHANGED <<buf, written, event>> /\ gets' \in [Slots -> Request]
          /\ gets'[g].by = gets[g].by /\ gets'[g].pc = c /\ gets'[g].data = gets[g].data
          /\ \A h \in Slots : h # g => gets'[h] = gets[h]
        BY <1>2, <2>1, WaitIs
    <2>3. Types'
        BY <1>1, <1>2, <2>2 DEF Types
    <2>4. DownBytes'
        <3>1. \A h \in Slots : gets'[h].data = gets[h].data
            BY <2>2
        <3> QED
            BY <1>1, <1>2, <2>2, <3>1 DEF DownBytes
    <2>5. Requests' /\ Smooth'
        <3>1. c # "free"
            BY DEF Waiting
        <3>2. \A h \in Slots : /\ gets'[h].by = gets[h].by
                               /\ gets'[h].pc = "free" <=> gets[h].pc = "free"
                               /\ gets'[h].data # <<>> => gets'[h].pc = "answer"
            BY <1>1, <1>2, <2>2, <3>1 DEF Requests
        <3> QED
            BY <1>1, <1>2, <3>2, SameRequests
    <2> QED
        BY <1>3, <2>3, <2>4, <2>5 DEF Fine
<1> QED
    BY <1>4, <1>5, Moves

LEMMA FeedIs ==
    ASSUME Types, NEW n \in 1 .. MaxDown, FeedDown(n)
    PROVE  /\ written \in Nat /\ n \in Nat /\ written' = written + n /\ written' <= MaxDown
           /\ buf' = buf \o Fresh(written, n) /\ gets' \in [Slots -> Request] /\ event' = TRUE
           /\ \A g \in Slots : /\ gets'[g].by = gets[g].by /\ gets'[g].pc = gets[g].pc
                               /\ gets'[g].data = gets[g].data
           /\ UNCHANGED <<config, loops, got, ubuf, post, late, fed, up, known, closed, faults>>
<1>1. \A r \in Request, w \in BOOLEAN :
          /\ [r EXCEPT !.woken = w] \in Request
          /\ [r EXCEPT !.woken = w].by = r.by /\ [r EXCEPT !.woken = w].pc = r.pc
          /\ [r EXCEPT !.woken = w].data = r.data
    BY DEF Request
<1>2. \A g \in Slots : gets[g] \in Request
                       /\ (gets[g].woken \/ gets[g].pc \in Waiting) \in BOOLEAN
    BY DEF Types, Request
<1>3. gets' = [g \in Slots |-> [gets[g] EXCEPT !.woken = @ \/ gets[g].pc \in Waiting]]
    BY DEF FeedDown
<1>4. \A g \in Slots : gets'[g] = [gets[g] EXCEPT !.woken = (gets[g].woken \/ gets[g].pc \in Waiting)]
    BY <1>3
<1>5. \A g \in Slots : /\ gets'[g] \in Request
                       /\ gets'[g].by = gets[g].by /\ gets'[g].pc = gets[g].pc
                       /\ gets'[g].data = gets[g].data
    BY <1>1, <1>2, <1>4, Zenon
<1>6. gets' \in [Slots -> Request]
    BY <1>3, <1>5
<1>7. written \in Nat /\ n \in Nat
    BY Constants DEF Types
<1>8. /\ written' = written + n /\ written' <= MaxDown /\ event' = TRUE
      /\ buf' = buf \o Fresh(written, n)
      /\ UNCHANGED <<config, loops, got, ubuf, post, late, fed, up, known, closed, faults>>
    BY DEF FeedDown, Fresh, uploads
<1> QED
    BY <1>5, <1>6, <1>7, <1>8

LEMMA FeedFine ==
    ASSUME Fine, NEW n \in 1 .. MaxDown, FeedDown(n)
    PROVE  Fine'
<1>1. Types /\ DownBytes /\ UpBytes /\ Requests /\ Smooth
    BY DEF Fine
<1>2. /\ written \in Nat /\ n \in Nat /\ written' = written + n /\ written' <= MaxDown
      /\ buf' = buf \o Fresh(written, n) /\ gets' \in [Slots -> Request] /\ event' = TRUE
      /\ \A g \in Slots : /\ gets'[g].by = gets[g].by /\ gets'[g].pc = gets[g].pc
                          /\ gets'[g].data = gets[g].data
      /\ UNCHANGED <<config, loops, got, ubuf, post, late, fed, up, known, closed, faults>>
    BY <1>1, FeedIs
<1>3. ASSUME NEW s \in Seq(Nat), UpTo(s, written)
      PROVE  /\ UpTo(s, written') /\ s \o Fresh(written, n) \in Seq(Nat)
             /\ UpTo(s \o Fresh(written, n), written')
    BY <1>2, <1>3, FedRises
<1>4. Types'
    BY <1>1, <1>2, <1>3, Constants DEF Types, DownBytes
<1>5. DownBytes'
    <2>1. buf \in Seq(Nat) /\ got \in Seq(Nat) /\ \A g \in Slots : gets[g].data \in Seq(Nat)
        BY <1>1 DEF Types, Request
    <2>2. \A g \in Slots : UpTo(gets'[g].data, written') /\ Len(gets'[g].data) <= Batch
        BY <1>1, <1>2, <1>3, <2>1 DEF DownBytes
    <2> QED
        BY <1>1, <1>2, <1>3, <2>1, <2>2 DEF DownBytes
<1>6. UpBytes'
    BY <1>1, <1>2 DEF UpBytes
<1>7. Requests' /\ Smooth'
    BY <1>1, <1>2, SameRequests DEF Requests
<1> QED
    BY <1>4, <1>5, <1>6, <1>7 DEF Fine

-----------------------------------------------------------------------------
(* The steps of the polls *)

\* A slot changes hands.
LEMMA Placed ==
    ASSUME Types, NEW g \in Slots, NEW r \in Request, gets' = [gets EXCEPT ![g] = r]
    PROVE  /\ gets' \in [Slots -> Request] /\ gets'[g] = r
           /\ \A h \in Slots : h # g => gets'[h] = gets[h]
BY DEF Types

\* Nothing but a slot, a loop and the count of failures changes, and what the slot
\* holds is what it held, or nothing.
LEMMA SlotFine ==
    ASSUME Types, DownBytes, UpBytes, NEW g \in Slots, NEW r \in Request,
           r.data = <<>> \/ r.data = gets[g].data,
           gets' = [gets EXCEPT ![g] = r],
           loops' \in [Polls -> {"off", "ask", "asking", "asleep"}], faults' \in 0 .. MaxFaults,
           UNCHANGED <<config, written, up, buf, got, ubuf, fed, post, late, event, known, closed>>
    PROVE  Types' /\ DownBytes' /\ UpBytes'
<1>1. /\ gets' \in [Slots -> Request] /\ gets'[g] = r
      /\ \A h \in Slots : h # g => gets'[h] = gets[h]
    BY Placed
<1>2. Types'
    BY <1>1 DEF Types
<1>3. DownBytes'
    <2>1. ASSUME NEW h \in Slots
          PROVE  UpTo(gets'[h].data, written) /\ Len(gets'[h].data) <= Batch
        <3>1. CASE gets'[h].data = gets[h].data
            BY <3>1 DEF DownBytes
        <3>2. CASE gets'[h].data = <<>>
            BY <3>2, Constants DEF UpTo
        <3> QED
            BY <1>1, <3>1, <3>2
    <2> QED
        BY <2>1 DEF DownBytes
<1>4. UpBytes'
    BY DEF UpBytes
<1> QED
    BY <1>2, <1>3, <1>4

LEMMA RefuseFine ==
    ASSUME Fine, NEW g \in Slots, Refuse(g)
    PROVE  Fine'
<1>1. Types /\ DownBytes /\ UpBytes /\ Requests /\ Smooth
    BY DEF Fine
<1> DEFINE r == [gets[g] EXCEPT !.pc = "answer"]
<1>2. /\ gets[g] \in Request /\ gets[g].pc = "sent"
      /\ r \in Request /\ r.by = gets[g].by /\ r.data = gets[g].data /\ r.pc = "answer"
      /\ gets' = [gets EXCEPT ![g] = r]
    BY <1>1 DEF Types, Request, Refuse
<1> HIDE DEF r
<1>3. UNCHANGED <<config, loops, written, up, buf, got, ubuf, fed, post, late, event, known,
                  closed, faults>>
    BY DEF Refuse, down, uploads
<1>4. Types' /\ DownBytes' /\ UpBytes'
    BY <1>1, <1>2, <1>3, SlotFine DEF Types
<1>5. gets'[g] = r /\ \A h \in Slots : h # g => gets'[h] = gets[h]
    BY <1>1, <1>2, Placed
<1>6. Requests' /\ Smooth'
    BY <1>1, <1>2, <1>3, <1>5, SameRequests DEF Requests
<1> QED
    BY <1>4, <1>6 DEF Fine

LEMMA AskFine ==
    ASSUME Fine, NEW p \in Polls, Ask(p)
    PROVE  Fine'
<1>1. Types /\ DownBytes /\ UpBytes /\ Requests /\ Smooth
    BY DEF Fine
<1> DEFINE r == [pc |-> "sent", woken |-> FALSE, by |-> p, data |-> <<>>]
<1>2. PICK g \in Slots : gets[g].pc = "free" /\ gets' = [gets EXCEPT ![g] = r]
    BY DEF Ask
<1>3. r \in Request /\ r.by = p /\ r.data = <<>> /\ r.pc = "sent"
    BY DEF Request
<1> HIDE DEF r
<1>4. /\ loops[p] = "ask" /\ loops' = [loops EXCEPT ![p] = "asking"]
      /\ UNCHANGED <<config, written, up, buf, got, ubuf, fed, post, late, event, known,
                     closed, faults>>
    BY DEF Ask, down, uploads
<1>5. /\ loops' \in [Polls -> {"off", "ask", "asking", "asleep"}]
      /\ loops'[p] = "asking" /\ \A q \in Polls : q # p => loops'[q] = loops[q]
    BY <1>1, <1>4 DEF Types
<1>6. Types' /\ DownBytes' /\ UpBytes'
    BY <1>1, <1>2, <1>3, <1>4, <1>5, SlotFine DEF Types
<1>7. gets'[g] = r /\ \A h \in Slots : h # g => gets'[h] = gets[h]
    BY <1>1, <1>2, <1>3, Placed
<1>8. gets[g].by = None /\ \A h \in Slots : gets[h].by # p
    BY <1>1, <1>2, <1>4 DEF Requests
<1>9. Requests'
    <2>1. \A q \in Polls : loops'[q] = "asking" <=> \E h \in Slots : gets'[h].by = q
        BY <1>1, <1>3, <1>5, <1>7, <1>8, Constants DEF Requests
    <2>2. \A h, i \in Slots : gets'[h].by = gets'[i].by /\ gets'[h].by # None => h = i
        BY <1>1, <1>3, <1>7, <1>8 DEF Requests
    <2>3. \A h \in Slots : gets'[h].pc = "free" => gets'[h].by = None
        BY <1>1, <1>3, <1>7 DEF Requests
    <2>4. \A h \in Slots : gets'[h].data # <<>> => gets'[h].pc = "answer"
        BY <1>1, <1>3, <1>7 DEF Requests
    <2>5. \A q \in Polls : q > config.polls => loops'[q] = "off"
        BY <1>1, <1>4, <1>5 DEF Requests
    <2> QED
        BY <1>4, <2>1, <2>2, <2>3, <2>4, <2>5 DEF Requests
<1>10. Smooth'
    BY <1>1, <1>3, <1>4, <1>7, Constants DEF Smooth
<1> QED
    BY <1>6, <1>9, <1>10 DEF Fine

\* A poll loop leaves its request, for an answer or a failure.
LEMMA Left ==
    ASSUME Types, Requests, NEW g \in Slots, gets[g].by # None, NEW r \in Request,
           r.by = None, r.data # <<>> => r.pc = "answer", gets' = [gets EXCEPT ![g] = r],
           NEW c \in {"off", "ask", "asleep"}, loops' = [loops EXCEPT ![gets[g].by] = c],
           config' = config
    PROVE  /\ Requests'
           /\ loops' \in [Polls -> {"off", "ask", "asking", "asleep"}]
           /\ gets[g].by \in Polls
<1>1. gets'[g] = r /\ \A h \in Slots : h # g => gets'[h] = gets[h]
    BY Placed
<1> DEFINE p == gets[g].by
<1>2. p \in Polls /\ p # None /\ loops[p] = "asking"
    BY DEF Types, Request, Requests
<1>3. loops'[p] = c /\ \A q \in Polls : q # p => loops'[q] = loops[q]
    BY <1>2 DEF Types
<1>4. loops' \in [Polls -> {"off", "ask", "asking", "asleep"}]
    BY DEF Types
<1>5. \A q \in Polls : loops'[q] = "asking" <=> \E h \in Slots : gets'[h].by = q
    <2>1. \A h \in Slots : h # g => gets[h].by # p
        BY <1>2 DEF Requests
    <2> QED
        BY <1>1, <1>2, <1>3, <2>1, Constants DEF Requests
<1>6. \A h, i \in Slots : gets'[h].by = gets'[i].by /\ gets'[h].by # None => h = i
    BY <1>1 DEF Requests
<1>7. \A h \in Slots : gets'[h].pc = "free" => gets'[h].by = None
    BY <1>1 DEF Requests
<1>8. \A h \in Slots : gets'[h].data # <<>> => gets'[h].pc = "answer"
    BY <1>1 DEF Requests
<1>9. \A q \in Polls : q > config.polls => loops'[q] = "off"
    BY <1>2, <1>3 DEF Requests
<1> QED
    BY <1>2, <1>4, <1>5, <1>6, <1>7, <1>8, <1>9 DEF Requests

LEMMA ReceiveFine ==
    ASSUME Fine, NEW g \in Slots, Receive(g)
    PROVE  Fine'
<1>1. Types /\ DownBytes /\ UpBytes /\ Requests /\ Smooth /\ gets[g] \in Request
    BY DEF Fine, Types
<1>2. /\ gets[g].by # None /\ got' = got \o gets[g].data
      /\ loops' = [loops EXCEPT ![gets[g].by] = "ask"]
      /\ gets' = [gets EXCEPT ![g] = Free]
      /\ UNCHANGED <<config, written, up, buf, ubuf, fed, post, late, event, known,
                     closed, faults>>
    BY DEF Receive, down, uploads
<1>3. Requests' /\ loops' \in [Polls -> {"off", "ask", "asking", "asleep"}]
    BY <1>1, <1>2, Left, FreeIs
<1>4. /\ gets' \in [Slots -> Request] /\ gets'[g] = Free
      /\ \A h \in Slots : h # g => gets'[h] = gets[h]
    BY <1>1, <1>2, Placed, FreeIs
<1>5. got' \in Seq(Nat) /\ UpTo(got', written)
    <2>1. got \in Seq(Nat) /\ gets[g].data \in Seq(Nat) /\ written \in Nat
        BY <1>1, Constants DEF Types, Request
    <2>2. UpTo(got, written) /\ UpTo(gets[g].data, written)
        BY <1>1 DEF DownBytes
    <2> QED
        BY <1>2, <2>1, <2>2, Joined, Sides
<1>6. Types'
    BY <1>1, <1>2, <1>3, <1>4, <1>5 DEF Types
<1>7. DownBytes'
    <2>1. UpTo(Free.data, written) /\ Len(Free.data) <= Batch
        BY FreeIs, Constants DEF UpTo
    <2>2. \A h \in Slots : UpTo(gets'[h].data, written) /\ Len(gets'[h].data) <= Batch
        BY <1>1, <1>4, <2>1 DEF DownBytes
    <2> QED
        BY <1>1, <1>2, <1>5, <2>2 DEF DownBytes
<1>8. UpBytes'
    BY <1>1, <1>2 DEF UpBytes
<1>9. Smooth'
    BY <1>1, <1>2, <1>4, FreeIs DEF Smooth
<1> QED
    BY <1>3, <1>6, <1>7, <1>8, <1>9 DEF Fine

LEMMA PollFailsFine ==
    ASSUME Fine, NEW g \in Slots, PollFails(g)
    PROVE  Fine'
<1>1. Types /\ DownBytes /\ UpBytes /\ Requests /\ Smooth
    BY DEF Fine
<1> DEFINE r == [gets[g] EXCEPT !.by = None]
<1>2. /\ r \in Request /\ r.by = None /\ r.data = gets[g].data /\ r.pc = gets[g].pc
      /\ gets' = [gets EXCEPT ![g] = r]
    <2>1. gets[g] \in Request
        BY <1>1 DEF Types
    <2> QED
        BY <2>1 DEF Request, PollFails
<1> HIDE DEF r
<1>3. /\ gets[g].by # None /\ loops' = [loops EXCEPT ![gets[g].by] = "asleep"]
      /\ faults < MaxFaults /\ faults' = faults + 1
      /\ UNCHANGED <<config, written, up, buf, got, ubuf, fed, post, late, event, known, closed>>
    BY DEF PollFails, down, uploads
<1>4. r.data # <<>> => r.pc = "answer"
    BY <1>1, <1>2 DEF Requests
<1>5. Requests' /\ loops' \in [Polls -> {"off", "ask", "asking", "asleep"}]
    BY <1>1, <1>2, <1>3, <1>4, Left
<1>6. faults' \in 0 .. MaxFaults /\ faults' # 0
    BY <1>1, <1>3, Constants DEF Types
<1>7. Types' /\ DownBytes' /\ UpBytes'
    BY <1>1, <1>2, <1>3, <1>5, <1>6, SlotFine
<1>8. Smooth'
    BY <1>6 DEF Smooth
<1> QED
    BY <1>5, <1>7, <1>8 DEF Fine

LEMMA VanishFine ==
    ASSUME Fine, NEW g \in Slots, Vanish(g)
    PROVE  Fine'
<1>1. Types /\ DownBytes /\ UpBytes /\ Requests /\ Smooth
    BY DEF Fine
<1>2. /\ gets[g].by = None /\ gets' = [gets EXCEPT ![g] = Free]
      /\ UNCHANGED <<config, loops, written, up, buf, got, ubuf, fed, post, late, event, known,
                     closed, faults>>
    BY DEF Vanish, down, uploads
<1>3. Types' /\ DownBytes' /\ UpBytes'
    BY <1>1, <1>2, FreeIs, SlotFine DEF Types
<1>4. gets'[g] = Free /\ \A h \in Slots : h # g => gets'[h] = gets[h]
    BY <1>1, <1>2, Placed, FreeIs
<1>5. \A h \in Slots : gets'[h].by = gets[h].by
    BY <1>2, <1>4, FreeIs
<1>6. Requests'
    BY <1>1, <1>2, <1>4, <1>5, FreeIs DEF Requests
<1>7. Smooth'
    BY <1>1, <1>2, <1>4, FreeIs DEF Smooth
<1> QED
    BY <1>3, <1>6, <1>7 DEF Fine

LEMMA WakeFine ==
    ASSUME Fine, NEW p \in Polls, Wake(p)
    PROVE  Fine'
<1>1. Types /\ DownBytes /\ UpBytes /\ Requests /\ Smooth
    BY DEF Fine
<1>2. /\ loops[p] = "asleep" /\ loops' = [loops EXCEPT ![p] = "ask"]
      /\ UNCHANGED <<config, gets, written, up, buf, got, ubuf, fed, post, late, event, known,
                     closed, faults>>
    BY DEF Wake, down, uploads
<1>3. loops'[p] = "ask" /\ \A q \in Polls : q # p => loops'[q] = loops[q]
    BY <1>1, <1>2 DEF Types
<1>4. Types'
    BY <1>1, <1>2 DEF Types
<1>5. DownBytes' /\ UpBytes' /\ Smooth'
    BY <1>1, <1>2 DEF DownBytes, UpBytes, Smooth
<1>6. Requests'
    BY <1>1, <1>2, <1>3 DEF Requests
<1> QED
    BY <1>4, <1>5, <1>6 DEF Fine

-----------------------------------------------------------------------------
(* The client's writer, its close and the restart of the server *)

\* Nothing changes but what is on its way to the server.
LEMMA UploadFine ==
    ASSUME Fine,
           UNCHANGED <<config, loops, gets, written, buf, got, event, known, closed>>,
           up' \in 0 .. MaxUp, ubuf' \in Seq(Nat), fed' \in Seq(Nat), post' \in Seq(Nat),
           faults' \in 0 .. MaxFaults, UpBytes',
           faults' # 0 \/ (faults' = faults /\ late' \subseteq late)
    PROVE  Fine'
<1>1. Types /\ DownBytes /\ Requests /\ Smooth
    BY DEF Fine
<1>2. Types'
    BY <1>1 DEF Types
<1>3. DownBytes' /\ Requests'
    BY <1>1 DEF DownBytes, Requests
<1>4. Smooth'
    BY <1>1 DEF Smooth
<1> QED
    BY <1>2, <1>3, <1>4 DEF Fine

\* A POST in the hands of the client or of the network holds bytes that were written.
LEMMA PostIs ==
    ASSUME NEW c \in UpChunk
    PROVE  c \in Seq(Nat) /\ Len(c) <= Batch /\ c # <<>>
<1>1. PICK n \in 1 .. Batch : c \in [1 .. n -> 1 .. MaxUp]
    BY DEF UpChunk
<1>2. n \in Nat /\ n > 0 /\ \A i \in 1 .. n : c[i] \in Nat
    BY <1>1, Constants
<1> QED
    BY <1>1, <1>2, Constants

LEMMA WriteFine ==
    ASSUME Fine, NEW n \in 1 .. MaxUp, Write(n)
    PROVE  Fine'
<1>1. Types /\ UpBytes /\ up \in Nat /\ n \in Nat
    BY Constants DEF Fine, Types
<1>2. /\ up' = up + n /\ up' <= MaxUp /\ ubuf' = ubuf \o Fresh(up, n)
      /\ UNCHANGED <<config, loops, gets, written, buf, got, event, known, closed, faults,
                     post, late, fed>>
    BY DEF Write, down, Fresh
<1>3. ASSUME NEW s \in Seq(Nat), UpTo(s, up)
      PROVE  /\ UpTo(s, up') /\ s \o Fresh(up, n) \in Seq(Nat)
             /\ UpTo(s \o Fresh(up, n), up')
    BY <1>1, <1>2, <1>3, FedRises
<1>4. ubuf' \in Seq(Nat) /\ UpBytes'
    <2>1. \A c \in late : c \in Seq(Nat)
        BY <1>1, PostIs DEF UpBytes
    <2>2. \A c \in late' : UpTo(c, up')
        BY <1>1, <1>2, <1>3, <2>1 DEF UpBytes
    <2> QED
        BY <1>1, <1>2, <1>3, <2>2 DEF Types, UpBytes
<1>5. up' \in 0 .. MaxUp
    BY <1>1, <1>2, Constants
<1> QED
    BY <1>1, <1>2, <1>4, <1>5, UploadFine DEF Types

LEMMA DrainIs ==
    ASSUME Types, Drain
    PROVE  \E n \in 1 .. Len(ubuf) :
              /\ n <= Batch /\ n \in 0 .. Len(ubuf)
              /\ post = <<>> /\ post' = SubSeq(ubuf, 1, n) /\ ubuf' = SubSeq(ubuf, n + 1, Len(ubuf))
              /\ UNCHANGED <<config, loops, gets, written, buf, got, event, known, closed, faults,
                             late, fed, up>>
<1> DEFINE n == IF Len(ubuf) < Batch THEN Len(ubuf) ELSE Batch
<1>1. ubuf \in Seq(Nat) /\ ubuf # <<>>
    BY DEF Types, Drain
<1>2. n \in 1 .. Len(ubuf) /\ n <= Batch /\ n \in 0 .. Len(ubuf)
    BY <1>1, Constants
<1>3. /\ post = <<>> /\ post' = SubSeq(ubuf, 1, n) /\ ubuf' = SubSeq(ubuf, n + 1, Len(ubuf))
      /\ UNCHANGED <<config, loops, gets, written, buf, got, event, known, closed, faults,
                     late, fed, up>>
    BY DEF Drain, down
<1> HIDE DEF n
<1> QED
    BY <1>2, <1>3

LEMMA DrainFine ==
    ASSUME Fine, Drain
    PROVE  Fine'
<1>1. Types /\ UpBytes /\ up \in Nat
    BY Constants DEF Fine, Types
<1>2. PICK n \in 1 .. Len(ubuf) :
          /\ n <= Batch /\ n \in 0 .. Len(ubuf)
          /\ post = <<>> /\ post' = SubSeq(ubuf, 1, n) /\ ubuf' = SubSeq(ubuf, n + 1, Len(ubuf))
          /\ UNCHANGED <<config, loops, gets, written, buf, got, event, known, closed, faults,
                         late, fed, up>>
    BY <1>1, DrainIs
<1>3. /\ post' \in Seq(Nat) /\ Len(post') = n /\ UpTo(post', up)
      /\ ubuf' \in Seq(Nat) /\ UpTo(ubuf', up)
    BY <1>1, <1>2, Parts, TakenWithin DEF Types, UpBytes
<1>4. UpBytes'
    BY <1>1, <1>2, <1>3 DEF UpBytes
<1> QED
    BY <1>1, <1>2, <1>3, <1>4, UploadFine DEF Types

LEMMA ChunkSent ==
    ASSUME Types, UpBytes, post # <<>>
    PROVE  post \in UpChunk
<1>1. post \in {<<>>} \cup UNION {[1 .. n -> 1 .. MaxUp] : n \in 1 .. Batch}
    <2>1. /\ post \in Seq(Nat) /\ UpTo(post, up) /\ Len(post) <= Batch
          /\ up \in Nat /\ up <= MaxUp
        BY Constants DEF Types, UpBytes
    <2> QED
        BY <2>1, ChunkIs, Constants
<1> QED
    BY <1>1 DEF UpChunk

\* The server's reader is fed, or not.
LEMMA FedIs ==
    ASSUME Types, UpBytes, NEW c \in Seq(Nat), UpTo(c, up)
    PROVE  fed \o c \in Seq(Nat) /\ UpTo(fed \o c, up)
BY Joined, Sides, Constants DEF Types, UpBytes

LEMMA NothingIs == <<>> \in Seq(Nat) /\ Len(<<>>) = 0 /\ \A n : UpTo(<<>>, n)
BY DEF UpTo

LEMMA PostedFine ==
    ASSUME Fine, Posted
    PROVE  Fine'
<1>1. Types /\ UpBytes
    BY DEF Fine
<1>2. /\ fed' = (IF known THEN fed \o post ELSE fed) /\ post' = <<>>
      /\ UNCHANGED <<config, loops, gets, written, buf, got, event, known, closed, faults,
                     late, ubuf, up>>
    BY DEF Posted, down
<1>3. fed' \in Seq(Nat) /\ UpTo(fed', up)
    BY <1>1, <1>2, FedIs DEF Types, UpBytes
<1>4. UpBytes'
    BY <1>1, <1>2, <1>3, NothingIs, Constants DEF UpBytes
<1> QED
    BY <1>1, <1>2, <1>3, <1>4, NothingIs, UploadFine DEF Types

LEMMA PostFailsFine ==
    ASSUME Fine, PostFails
    PROVE  Fine'
<1>1. Types /\ UpBytes
    BY DEF Fine
<1>2. /\ post # <<>> /\ post' = <<>> /\ faults' = faults + 1 /\ faults < MaxFaults
      /\ (fed' = (IF known THEN fed \o post ELSE fed) /\ late' = late)
           \/ (late' = late \cup {post} /\ fed' = fed)
      /\ UNCHANGED <<config, loops, gets, written, buf, got, event, known, closed, ubuf, up>>
    BY DEF PostFails, down
<1>3. faults' \in 0 .. MaxFaults /\ faults' # 0
    BY <1>1, <1>2, Constants DEF Types
<1>4. fed' \in Seq(Nat) /\ UpTo(fed', up)
    BY <1>1, <1>2, FedIs DEF Types, UpBytes
<1>5. late' \subseteq UpChunk /\ \A c \in late' : UpTo(c, up)
    BY <1>1, <1>2, ChunkSent DEF UpBytes
<1>6. UpBytes'
    BY <1>1, <1>2, <1>4, <1>5, NothingIs, Constants DEF UpBytes
<1> QED
    BY <1>1, <1>2, <1>3, <1>4, <1>6, NothingIs, UploadFine DEF Types

LEMMA PostLateFine ==
    ASSUME Fine, NEW c \in late, PostLate(c)
    PROVE  Fine'
<1>1. Types /\ UpBytes
    BY DEF Fine
<1>2. /\ late' = late \ {c}
      /\ fed' = (IF known THEN fed \o c ELSE fed) \/ fed' = fed
      /\ UNCHANGED <<config, loops, gets, written, buf, got, event, known, closed, faults,
                     post, ubuf, up>>
    BY DEF PostLate, down
<1>3. c \in Seq(Nat) /\ UpTo(c, up)
    BY <1>1, PostIs DEF UpBytes
<1>4. fed' \in Seq(Nat) /\ UpTo(fed', up)
    BY <1>1, <1>2, <1>3, FedIs DEF Types, UpBytes
<1>5. UpBytes' /\ late' \subseteq late
    BY <1>1, <1>2, <1>4 DEF UpBytes
<1> QED
    BY <1>1, <1>2, <1>4, <1>5, UploadFine DEF Types

LEMMA CloseFine ==
    ASSUME Fine, Close
    PROVE  Fine'
<1>1. Types /\ DownBytes /\ UpBytes /\ Requests /\ Smooth
    BY DEF Fine
<1>2. /\ closed' = TRUE /\ loops' = [p \in Polls |-> "off"] /\ post' = <<>>
      /\ gets' = [g \in Slots |-> [gets[g] EXCEPT !.by = None]]
      /\ late' = IF post = <<>> THEN late ELSE late \cup {post}
      /\ UNCHANGED <<config, written, buf, event, got, ubuf, fed, up, known, faults>>
    BY DEF Close, down
<1>3. \A g \in Slots : /\ gets'[g] \in Request /\ gets'[g].by = None
                       /\ gets'[g].data = gets[g].data /\ gets'[g].pc = gets[g].pc
    <2> SUFFICES ASSUME NEW g \in Slots
                 PROVE  /\ gets'[g] \in Request /\ gets'[g].by = None
                        /\ gets'[g].data = gets[g].data /\ gets'[g].pc = gets[g].pc
        OBVIOUS
    <2>1. gets[g] \in Request /\ gets'[g] = [gets[g] EXCEPT !.by = None]
        BY <1>1, <1>2 DEF Types
    <2> QED
        BY <2>1 DEF Request
<1>4. gets' \in [Slots -> Request]
    BY <1>2, <1>3
<1>5. Types'
    BY <1>1, <1>2, <1>4, NothingIs DEF Types
<1>6. DownBytes'
    BY <1>1, <1>2, <1>3 DEF DownBytes
<1>7. UpBytes'
    <2>1. late' \subseteq UpChunk /\ \A c \in late' : UpTo(c, up)
        BY <1>1, <1>2, ChunkSent DEF UpBytes
    <2> QED
        BY <1>1, <1>2, <2>1, NothingIs, Constants DEF UpBytes
<1>8. Requests'
    <2>1. \A p \in Polls : loops'[p] = "off" /\ p # None
        BY <1>2, Constants
    <2>2. \A p \in Polls : loops'[p] = "asking" <=> \E g \in Slots : gets'[g].by = p
        BY <1>3, <2>1
    <2>3. \A g \in Slots : gets'[g].data # <<>> => gets'[g].pc = "answer"
        BY <1>1, <1>3 DEF Requests
    <2> QED
        BY <1>3, <2>1, <2>2, <2>3 DEF Requests
<1>9. Smooth'
    BY <1>1, <1>2 DEF Smooth
<1> QED
    BY <1>5, <1>6, <1>7, <1>8, <1>9 DEF Fine

LEMMA RestartIs ==
    ASSUME Types, Restart
    PROVE  /\ known' = FALSE /\ faults' = faults + 1 /\ faults < MaxFaults
           /\ buf' = <<>> /\ event' = FALSE
           /\ \A g \in Slots : gets'[g] = IF gets[g].pc \in Waiting THEN Free ELSE gets[g]
           /\ \A p \in Polls : loops'[p] = IF \E g \in Slots : gets[g].by = p /\ gets[g].pc \in Waiting
                                           THEN "asleep" ELSE loops[p]
           /\ gets' \in [Slots -> Request]
           /\ loops' \in [Polls -> {"off", "ask", "asking", "asleep"}]
           /\ UNCHANGED <<config, written, got, ubuf, post, late, fed, up, closed>>
<1>1. /\ gets' = [g \in Slots |-> IF gets[g].pc \in Waiting THEN Free ELSE gets[g]]
      /\ loops' = [p \in Polls |-> IF \E g \in Slots : gets[g].by = p /\ gets[g].pc \in Waiting
                                   THEN "asleep" ELSE loops[p]]
    BY DEF Restart
<1>2. gets' \in [Slots -> Request]
    BY <1>1, FreeIs DEF Types
<1>3. loops' \in [Polls -> {"off", "ask", "asking", "asleep"}]
    BY <1>1 DEF Types
<1> QED
    BY <1>1, <1>2, <1>3 DEF Restart, uploads

LEMMA RestartFine ==
    ASSUME Fine, Restart
    PROVE  Fine'
<1>1. Types /\ DownBytes /\ UpBytes /\ Requests /\ Smooth
    BY DEF Fine
<1>2. /\ known' = FALSE /\ faults' = faults + 1 /\ faults < MaxFaults
      /\ buf' = <<>> /\ event' = FALSE
      /\ gets' \in [Slots -> Request]
      /\ loops' \in [Polls -> {"off", "ask", "asking", "asleep"}]
      /\ UNCHANGED <<config, written, got, ubuf, post, late, fed, up, closed>>
    BY <1>1, RestartIs
<1>3. \A g \in Slots : gets'[g] = IF gets[g].pc \in Waiting THEN Free ELSE gets[g]
    BY <1>1, RestartIs
<1>4. \A p \in Polls : loops'[p] = IF \E g \in Slots : gets[g].by = p /\ gets[g].pc \in Waiting
                                   THEN "asleep" ELSE loops[p]
    BY <1>1, RestartIs
<1>5. faults' \in 0 .. MaxFaults /\ faults' # 0
    BY <1>1, <1>2, Constants DEF Types
<1>6. Types'
    BY <1>1, <1>2, <1>5, NothingIs DEF Types
<1>7. DownBytes'
    <2>1. UpTo(Free.data, written) /\ Len(Free.data) <= Batch
        BY FreeIs, NothingIs, Constants
    <2>2. \A h \in Slots : UpTo(gets'[h].data, written) /\ Len(gets'[h].data) <= Batch
        BY <1>1, <1>3, <2>1 DEF DownBytes
    <2> QED
        BY <1>1, <1>2, <2>2, NothingIs DEF DownBytes
<1>8. UpBytes'
    BY <1>1, <1>2 DEF UpBytes
<1>9. Requests'
    <2>1. \A p \in Polls : loops'[p] = "asking" <=> \E g \in Slots : gets'[g].by = p
        <3> SUFFICES ASSUME NEW p \in Polls
                     PROVE  loops'[p] = "asking" <=> \E g \in Slots : gets'[g].by = p
            OBVIOUS
        <3>1. p # None /\ (loops[p] = "asking" <=> \E g \in Slots : gets[g].by = p)
            BY <1>1, Constants DEF Requests
        <3>2. CASE \E g \in Slots : gets[g].by = p /\ gets[g].pc \in Waiting
            <4>1. \A h \in Slots : gets'[h].by # p
                BY <1>1, <1>3, <3>1, <3>2, FreeIs DEF Requests
            <4> QED
                BY <1>4, <3>2, <4>1
        <3>3. CASE ~\E g \in Slots : gets[g].by = p /\ gets[g].pc \in Waiting
            <4>1. \A h \in Slots : gets'[h].by = p <=> gets[h].by = p
                BY <1>3, <3>1, <3>3, FreeIs
            <4> QED
                BY <1>4, <3>1, <3>3, <4>1
        <3> QED
            BY <3>2, <3>3
    <2>2. \A h, i \in Slots : gets'[h].by = gets'[i].by /\ gets'[h].by # None => h = i
        BY <1>1, <1>3, FreeIs DEF Requests
    <2>3. \A h \in Slots : gets'[h].pc = "free" => gets'[h].by = None
        BY <1>1, <1>3, FreeIs DEF Requests
    <2>4. \A h \in Slots : gets'[h].data # <<>> => gets'[h].pc = "answer"
        BY <1>1, <1>3, FreeIs DEF Requests
    <2>5. \A p \in Polls : p > config'.polls => loops'[p] = "off"
        <3>1. ASSUME NEW p \in Polls, loops[p] = "off" PROVE loops'[p] = "off"
            BY <1>1, <1>4, <3>1 DEF Requests
        <3> QED
            BY <1>1, <1>2, <3>1 DEF Requests
    <2> QED
        BY <2>1, <2>2, <2>3, <2>4, <2>5 DEF Requests
<1>10. Smooth'
    BY <1>5 DEF Smooth
<1> QED
    BY <1>6, <1>7, <1>8, <1>9, <1>10 DEF Fine

LEMMA InitFine == Init => Fine
<1> SUFFICES ASSUME Init PROVE Fine
    OBVIOUS
<1>1. \A g \in Slots : gets[g] = Free
    BY DEF Init
<1>2. Types
    <2>1. gets \in [Slots -> Request] /\ loops \in [Polls -> {"off", "ask", "asking", "asleep"}]
        BY FreeIs DEF Init
    <2>2. written \in 0 .. MaxDown /\ up \in 0 .. MaxUp /\ faults \in 0 .. MaxFaults
        BY Constants DEF Init
    <2> QED
        BY <2>1, <2>2, NothingIs DEF Init, Types
<1>3. DownBytes /\ UpBytes
    BY <1>1, FreeIs, NothingIs, Constants DEF Init, DownBytes, UpBytes
<1>4. Requests
    BY <1>1, FreeIs, Constants DEF Init, Requests
<1>5. Smooth
    BY <1>1, FreeIs DEF Init, Smooth
<1> QED
    BY <1>2, <1>3, <1>4, <1>5 DEF Fine

LEMMA StepFine == Fine /\ [Next]_vars => Fine'
<1> SUFFICES ASSUME Fine, [Next]_vars PROVE Fine'
    OBVIOUS
<1>1. CASE ServerStep
    BY <1>1, FeedFine, MoveFine, RefuseFine DEF ServerStep
<1>2. CASE PollStep
    BY <1>2, AskFine, WakeFine, ReceiveFine, PollFailsFine, VanishFine DEF PollStep
<1>3. CASE UploadStep
    BY <1>3, WriteFine, DrainFine, PostedFine, PostFailsFine, PostLateFine DEF UploadStep
<1>4. CASE UNCHANGED vars
    BY <1>4 DEF vars, down, uploads, Fine, Types, DownBytes, UpBytes, Requests, Smooth
<1> QED
    BY <1>1, <1>2, <1>3, <1>4, CloseFine, RestartFine DEF Next

\* Every field of the session has its type, and a poll loop asks with one request
\* exactly while it waits for an answer, for any number of polls, bytes and faults
\* (http_request.py 120-145, 283-295).
THEOREM TypesHold == Spec => []TypeOK
<1>1. Spec => []Fine
    BY InitFine, StepFine, PTL DEF Spec
<1> QED
    BY <1>1, FineIsTyped, PTL


-----------------------------------------------------------------------------
(* Uploads *)

\* Before the first failure, what was written is what was fed, what is posted and what
\* the writer holds, in this order.
Uploads == faults = 0 /\ ~closed => fed \o (post \o ubuf) = Fresh(0, up)

LEMMA Reassociated ==
    ASSUME NEW a \in Seq(Nat), NEW b \in Seq(Nat), NEW c \in Seq(Nat)
    PROVE  (a \o b) \o c = a \o (b \o c)
BY ConcatAssociative

LEMMA Concats ==
    ASSUME NEW a \in Seq(Nat), NEW b \in Seq(Nat), NEW c \in Seq(Nat)
    PROVE  /\ (a \o b) \o c = a \o (b \o c) /\ a \o b \in Seq(Nat)
           /\ <<>> \o a = a /\ a \o <<>> = a
<1>1. (a \o b) \o c = a \o (b \o c)
    BY ConcatAssociative
<1>2. a \o b \in Seq(Nat)
    OBVIOUS
<1>3. <<>> \o a = a /\ a \o <<>> = a
    BY ConcatEmptySeq
<1> QED
    BY <1>1, <1>2, <1>3

LEMMA Grown ==
    ASSUME NEW w \in Nat, NEW n \in Nat
    PROVE  Fresh(0, w) \o Fresh(w, n) = Fresh(0, w + n)
<1> DEFINE a == Fresh(0, w)
           b == Fresh(w, n)
           c == Fresh(0, w + n)
<1>1. /\ a \in Seq(Nat) /\ Len(a) = w /\ \A i \in 1 .. w : a[i] = i
      /\ b \in Seq(Nat) /\ Len(b) = n /\ \A i \in 1 .. n : b[i] = w + i
      /\ c \in Seq(Nat) /\ Len(c) = w + n /\ \A i \in 1 .. w + n : c[i] = i
    <2>1. /\ a \in Seq(Nat) /\ Len(a) = w /\ \A i \in 1 .. w : a[i] = 0 + i
          /\ b \in Seq(Nat) /\ Len(b) = n /\ \A i \in 1 .. n : b[i] = w + i
        BY FreshAre
    <2>2. w + n \in Nat /\ \A i \in 1 .. w + n : 0 + i = i
        OBVIOUS
    <2>3. c \in Seq(Nat) /\ Len(c) = w + n /\ \A i \in 1 .. w + n : c[i] = 0 + i
        BY <2>2, FreshAre
    <2> HIDE DEF a, b, c
    <2> QED
        BY <2>1, <2>2, <2>3
<1> HIDE DEF a, b, c
<1>2. /\ a \o b \in Seq(Nat) /\ Len(a \o b) = w + n
      /\ \A i \in 1 .. w + n :
            \/ i \in 1 .. w /\ (a \o b)[i] = a[i]
            \/ i > w /\ i - w \in 1 .. n /\ (a \o b)[i] = b[i - w]
    <2>1. /\ a \o b \in Seq(Nat) /\ Len(a \o b) = Len(a) + Len(b)
          /\ \A i \in 1 .. Len(a \o b) :
                \/ i \in 1 .. Len(a) /\ (a \o b)[i] = a[i]
                \/ i > Len(a) /\ i - Len(a) \in 1 .. Len(b) /\ (a \o b)[i] = b[i - Len(a)]
        BY <1>1, Sides
    <2>2. Len(a) = w /\ Len(b) = n
        BY <1>1
    <2> QED
        BY <2>1, <2>2, Zenon
<1>3. \A i \in 1 .. w + n : (a \o b)[i] = c[i]
    BY <1>1, <1>2
<1>4. a \o b = c
    BY <1>1, <1>2, <1>3, SeqEqual
<1> QED
    BY <1>4 DEF a, b, c

LEMMA Halves ==
    ASSUME NEW s \in Seq(Nat), NEW n \in 0 .. Len(s)
    PROVE  SubSeq(s, 1, n) \o SubSeq(s, n + 1, Len(s)) = s
<1> DEFINE a == SubSeq(s, 1, n)
           b == SubSeq(s, n + 1, Len(s))
<1>1. /\ a \in Seq(Nat) /\ Len(a) = n /\ \A i \in 1 .. n : a[i] = s[i]
      /\ b \in Seq(Nat) /\ Len(b) = Len(s) - n /\ \A i \in 1 .. Len(s) - n : b[i] = s[n + i]
    BY Parts
<1>2. Len(s) \in Nat /\ n \in Nat /\ n <= Len(s)
    OBVIOUS
<1> HIDE DEF a, b
<1>3. /\ a \o b \in Seq(Nat) /\ Len(a \o b) = Len(s)
      /\ \A i \in 1 .. Len(s) :
            \/ i \in 1 .. n /\ (a \o b)[i] = a[i]
            \/ i > n /\ i - n \in 1 .. Len(s) - n /\ (a \o b)[i] = b[i - n]
    <2>1. /\ a \o b \in Seq(Nat) /\ Len(a \o b) = Len(a) + Len(b)
          /\ \A i \in 1 .. Len(a \o b) :
                \/ i \in 1 .. Len(a) /\ (a \o b)[i] = a[i]
                \/ i > Len(a) /\ i - Len(a) \in 1 .. Len(b) /\ (a \o b)[i] = b[i - Len(a)]
        BY <1>1, Sides
    <2>2. Len(a) = n /\ Len(b) = Len(s) - n /\ n + (Len(s) - n) = Len(s)
        BY <1>1, <1>2
    <2> QED
        BY <2>1, <2>2, Zenon
<1>4. \A i \in 1 .. Len(s) : (a \o b)[i] = s[i]
    BY <1>1, <1>2, <1>3
<1>5. a \o b = s
    BY <1>3, <1>4, SeqEqual
<1> QED
    BY <1>5 DEF a, b

LEMMA StepUploads == Fine /\ Uploads /\ [Next]_vars => Uploads'
<1> SUFFICES ASSUME Fine, Uploads, [Next]_vars, faults' = 0, ~closed'
             PROVE  (fed \o (post \o ubuf))' = Fresh(0, up')
    BY DEF Uploads
<1>1. /\ fed \in Seq(Nat) /\ post \in Seq(Nat) /\ ubuf \in Seq(Nat) /\ up \in Nat
      /\ faults \in Nat /\ Types
    BY Constants DEF Fine, Types
<1>2. CASE UNCHANGED <<fed, post, ubuf, up, faults, closed>>
    BY <1>2 DEF Uploads
<1>3. ASSUME NEW n \in 1 .. MaxUp, Write(n)
      PROVE  (fed \o (post \o ubuf))' = Fresh(0, up')
    <2>1. /\ ubuf' = ubuf \o Fresh(up, n) /\ up' = up + n
          /\ UNCHANGED <<fed, post, faults, closed>> /\ n \in Nat
        BY <1>3, Constants DEF Write, Fresh
    <2>2. fed \o (post \o ubuf) = Fresh(0, up)
        BY <2>1 DEF Uploads
    <2>3. Fresh(up, n) \in Seq(Nat)
        BY <1>1, <2>1, FreshAre
    <2>4. fed \o (post \o (ubuf \o Fresh(up, n))) = (fed \o (post \o ubuf)) \o Fresh(up, n)
        <3> DEFINE f == Fresh(up, n)
        <3>0. f \in Seq(Nat)
            BY <2>3
        <3> HIDE DEF f
        <3>1. (post \o ubuf) \o f = post \o (ubuf \o f)
            BY <1>1, <3>0, Reassociated
        <3>2. post \o ubuf \in Seq(Nat)
            BY <1>1
        <3>3. (fed \o (post \o ubuf)) \o f = fed \o ((post \o ubuf) \o f)
            BY <1>1, <3>0, <3>2, Reassociated
        <3> QED
            BY <3>1, <3>3, Zenon DEF f
    <2> QED
        BY <1>1, <2>1, <2>2, <2>4, Grown
<1>4. CASE Drain
    <2>1. PICK n \in 1 .. Len(ubuf) :
              /\ n \in 0 .. Len(ubuf)
              /\ post = <<>> /\ post' = SubSeq(ubuf, 1, n)
              /\ ubuf' = SubSeq(ubuf, n + 1, Len(ubuf))
              /\ UNCHANGED <<fed, up, faults, closed>>
        BY <1>1, <1>4, DrainIs
    <2>2. post' \o ubuf' = ubuf /\ post \o ubuf = ubuf
        BY <1>1, <2>1, Halves, Concats
    <2> QED
        BY <2>1, <2>2 DEF Uploads
<1>5. CASE Posted
    <2>1. /\ fed' = fed \o post /\ post' = <<>> /\ UNCHANGED <<ubuf, up, faults, closed>>
        BY <1>5 DEF Posted, Fine, Smooth
    <2>2. fed' \o (<<>> \o ubuf) = fed \o (post \o ubuf)
        BY <1>1, <2>1, Concats
    <2> QED
        BY <2>1, <2>2 DEF Uploads
<1>6. ~PostFails /\ ~Restart /\ ~Close
    BY <1>1 DEF PostFails, Restart, Close
<1>7. ASSUME NEW c \in late, PostLate(c) PROVE FALSE
    BY <1>7 DEF Fine, Smooth, PostLate
<1>8. CASE ServerStep
    BY <1>2, <1>8
       DEF ServerStep, FeedDown, Arrive, WaitAgain, Answer, Refuse, uploads
<1>9. CASE PollStep
    <2>1. ASSUME NEW g \in Slots, PollFails(g) PROVE FALSE
        BY <1>1, <2>1 DEF PollFails
    <2> QED
        BY <1>2, <1>9, <2>1 DEF PollStep, Ask, Wake, Receive, Vanish, uploads
<1>10. CASE UNCHANGED vars
    BY <1>2, <1>10 DEF vars, uploads
<1> QED
    BY <1>3, <1>4, <1>5, <1>6, <1>7, <1>8, <1>9, <1>10 DEF Next, UploadStep

-----------------------------------------------------------------------------
(* Uploads when requests fail *)

\* Bytes with the server, in the POST under way, in the writer and in POSTs given up:
\* each once, and those the client has in hand newer than all the others.
Shares(f, p, u, l) ==
    /\ Distinct(f) /\ Rising(p) /\ Rising(u)
    /\ Below(f, p) /\ Below(f, u) /\ Below(p, u)
    /\ \A c \in l : Distinct(c) /\ Apart(c, f) /\ Below(c, p) /\ Below(c, u)
    /\ \A c, d \in l : c # d => Apart(c, d)

LEMMA NothingBelow ==
    /\ Rising(<<>>) /\ Distinct(<<>>)
    /\ \A s : Below(<<>>, s) /\ Below(s, <<>>) /\ Apart(<<>>, s) /\ Apart(s, <<>>)
BY DEF Rising, Distinct, Below, Apart

\* A POST is given to the server.
LEMMA GivenShares ==
    ASSUME NEW f \in Seq(Nat), NEW p \in Seq(Nat), NEW u \in Seq(Nat), NEW l \in SUBSET Seq(Nat),
           Shares(f, p, u, l)
    PROVE  Shares(f \o p, <<>>, u, l)
<1>1. Distinct(f \o p) /\ Below(f \o p, u)
    BY Joined, Implied DEF Shares
<1>2. ASSUME NEW c \in l PROVE Distinct(c) /\ Apart(c, f \o p) /\ Below(c, u)
    <2>1. Apart(f, c) /\ Apart(p, c)
        BY Implied DEF Shares
    <2>2. Apart(f \o p, c)
        BY <2>1, Joined
    <2>3. f \o p \in Seq(Nat) /\ c \in Seq(Nat)
        OBVIOUS
    <2>4. Apart(c, f \o p)
        BY <2>2, <2>3, Implied
    <2> QED
        BY <2>4 DEF Shares
<1> QED
    BY <1>1, <1>2, NothingBelow DEF Shares

\* A POST is given up.
LEMMA GivenUpShares ==
    ASSUME NEW f \in Seq(Nat), NEW p \in Seq(Nat), NEW u \in Seq(Nat), NEW l \in SUBSET Seq(Nat),
           Shares(f, p, u, l)
    PROVE  Shares(f, <<>>, u, l) /\ Shares(f, <<>>, u, l \cup {p})
<1>1. Shares(f, <<>>, u, l)
    BY NothingBelow DEF Shares
<1>2. Distinct(p) /\ Apart(p, f) /\ Below(p, u)
    BY Implied DEF Shares
<1>3. \A c \in l : Apart(c, p) /\ Apart(p, c)
    BY Implied DEF Shares
<1> QED
    BY <1>1, <1>2, <1>3, NothingBelow DEF Shares

\* A POST that was given up is given to the server after all, or is lost.
LEMMA LateShares ==
    ASSUME NEW f \in Seq(Nat), NEW p \in Seq(Nat), NEW u \in Seq(Nat), NEW l \in SUBSET Seq(Nat),
           Shares(f, p, u, l), NEW c \in l
    PROVE  Shares(f, p, u, l \ {c}) /\ Shares(f \o c, p, u, l \ {c})
<1>1. Shares(f, p, u, l \ {c})
    BY DEF Shares
<1>2. c \in Seq(Nat) /\ f \o c \in Seq(Nat)
    OBVIOUS
<1>3. Apart(f, c)
    BY Implied DEF Shares
<1>4. Distinct(f \o c) /\ Below(f \o c, p) /\ Below(f \o c, u)
    BY <1>2, <1>3, Joined DEF Shares
<1>5. ASSUME NEW d \in l \ {c} PROVE Apart(d, f \o c)
    <2>1. Apart(f, d) /\ Apart(c, d)
        BY Implied DEF Shares
    <2>2. Apart(f \o c, d)
        BY <1>2, <2>1, Joined
    <2> QED
        BY <1>2, <2>2, Implied
<1> QED
    BY <1>1, <1>4, <1>5 DEF Shares

\* The writer's next chunk leaves with its POST.
LEMMA SentShares ==
    ASSUME NEW f \in Seq(Nat), NEW u \in Seq(Nat), NEW l \in SUBSET Seq(Nat),
           Shares(f, <<>>, u, l), NEW n \in 0 .. Len(u)
    PROVE  Shares(f, SubSeq(u, 1, n), SubSeq(u, n + 1, Len(u)), l)
<1> DEFINE a == SubSeq(u, 1, n)
           b == SubSeq(u, n + 1, Len(u))
<1>1. Rising(a) /\ Rising(b) /\ Below(a, b)
    BY TakenRises DEF Shares
<1>2. \A t \in Seq(Nat) : Below(t, u) => Below(t, a) /\ Below(t, b)
    BY TakenWithin
<1> HIDE DEF a, b
<1> QED
    BY <1>1, <1>2 DEF Shares, a, b

\* The client writes on.
LEMMA WrittenShares ==
    ASSUME NEW f \in Seq(Nat), NEW p \in Seq(Nat), NEW u \in Seq(Nat), NEW l \in SUBSET Seq(Nat),
           Shares(f, p, u, l), NEW w \in Nat, NEW n \in Nat,
           UpTo(f, w), UpTo(p, w), UpTo(u, w), \A c \in l : UpTo(c, w)
    PROVE  Shares(f, p, u \o Fresh(w, n), l)
<1>1. Rising(u \o Fresh(w, n))
    BY FedRises DEF Shares
<1>2. \A t \in Seq(Nat) : Below(t, u) /\ UpTo(t, w) => Below(t, u \o Fresh(w, n))
    BY FedRises
<1> DEFINE v == u \o Fresh(w, n)
<1> HIDE DEF v
<1>3. Rising(v) /\ \A t \in Seq(Nat) : Below(t, u) /\ UpTo(t, w) => Below(t, v)
    BY <1>1, <1>2 DEF v
<1> QED
    BY <1>3 DEF Shares, v

Shared == Shares(fed, post, ubuf, late)

LEMMA StepShared == Fine /\ Shared /\ [Next]_vars => Shared'
<1> SUFFICES ASSUME Fine, Shared, [Next]_vars PROVE Shared'
    OBVIOUS
<1>1. /\ fed \in Seq(Nat) /\ post \in Seq(Nat) /\ ubuf \in Seq(Nat) /\ up \in Nat /\ Types
      /\ UpTo(fed, up) /\ UpTo(post, up) /\ UpTo(ubuf, up) /\ \A c \in late : UpTo(c, up)
    BY Constants DEF Fine, Types, UpBytes
<1>2. late \in SUBSET Seq(Nat)
    BY PostIs DEF Fine, UpBytes
<1>3. CASE UNCHANGED <<fed, post, ubuf, late>>
    BY <1>3 DEF Shared
<1>4. ASSUME NEW n \in 1 .. MaxUp, Write(n) PROVE Shared'
    <2>1. ubuf' = ubuf \o Fresh(up, n) /\ UNCHANGED <<fed, post, late>> /\ n \in Nat
        BY <1>4, Constants DEF Write, Fresh
    <2>2. Shares(fed, post, ubuf \o Fresh(up, n), late)
        BY <1>1, <1>2, <2>1, WrittenShares DEF Shared
    <2> QED
        BY <2>1, <2>2 DEF Shared
<1>5. CASE Drain
    <2>1. PICK n \in 1 .. Len(ubuf) :
              /\ n \in 0 .. Len(ubuf)
              /\ post = <<>> /\ post' = SubSeq(ubuf, 1, n)
              /\ ubuf' = SubSeq(ubuf, n + 1, Len(ubuf))
              /\ UNCHANGED <<fed, late>>
        BY <1>1, <1>5, DrainIs
    <2>2. Shares(fed, SubSeq(ubuf, 1, n), SubSeq(ubuf, n + 1, Len(ubuf)), late)
        BY <1>1, <1>2, <2>1, SentShares DEF Shared
    <2> QED
        BY <2>1, <2>2 DEF Shared
<1>6. Shares(fed \o post, <<>>, ubuf, late) /\ Shares(fed, <<>>, ubuf, late)
          /\ Shares(fed, <<>>, ubuf, late \cup {post})
    BY <1>1, <1>2, GivenShares, GivenUpShares DEF Shared
<1>7. CASE Posted
    <2>1. (fed' = fed \o post \/ fed' = fed) /\ post' = <<>> /\ UNCHANGED <<ubuf, late>>
        BY <1>7 DEF Posted
    <2> QED
        BY <1>6, <2>1 DEF Shared
<1>8. CASE PostFails
    <2>1. /\ post' = <<>> /\ ubuf' = ubuf
          /\ \/ (fed' = fed \o post \/ fed' = fed) /\ late' = late
             \/ fed' = fed /\ late' = late \cup {post}
        BY <1>8 DEF PostFails
    <2> QED
        BY <1>6, <2>1 DEF Shared
<1>9. ASSUME NEW c \in late, PostLate(c) PROVE Shared'
    <2>1. /\ fed' = fed \o c \/ fed' = fed
          /\ late' = late \ {c} /\ UNCHANGED <<post, ubuf>>
        BY <1>9 DEF PostLate
    <2>2. Shares(fed, post, ubuf, late \ {c}) /\ Shares(fed \o c, post, ubuf, late \ {c})
        BY <1>1, <1>2, LateShares DEF Shared
    <2> QED
        BY <2>1, <2>2 DEF Shared
<1>10. CASE Close
    <2>1. /\ post' = <<>> /\ UNCHANGED <<ubuf, fed>>
          /\ late' = late \/ late' = late \cup {post}
        BY <1>10 DEF Close
    <2> QED
        BY <1>6, <2>1 DEF Shared
<1>11. CASE ServerStep
    BY <1>3, <1>11 DEF ServerStep, FeedDown, Arrive, WaitAgain, Answer, Refuse, uploads
<1>12. CASE PollStep
    BY <1>3, <1>12 DEF PollStep, Ask, Wake, Receive, PollFails, Vanish, uploads
<1>13. CASE Restart
    BY <1>3, <1>13 DEF Restart, uploads
<1>14. CASE UNCHANGED vars
    BY <1>3, <1>14 DEF vars, uploads
<1> QED
    BY <1>4, <1>5, <1>7, <1>8, <1>9, <1>10, <1>11, <1>12, <1>13, <1>14 DEF Next, UploadStep

\* What the client writes reaches the server whole and in order until a request fails
\* or the client closes; and whatever posts fail, arrive late or go to a server that has
\* restarted, none of it is fed twice, and none before an older byte that the client
\* still has in hand, for any number of bytes and any batch (http_request.py 70-80).
THEOREM UploadsKeepOrder == Spec => []UploadInOrder
<1>1. Init => Uploads
    <2> SUFFICES ASSUME Init PROVE fed \o (post \o ubuf) = Fresh(0, up)
        BY DEF Uploads
    <2>1. fed = <<>> /\ post = <<>> /\ ubuf = <<>> /\ up = 0
        BY DEF Init
    <2>2. Fresh(0, 0) \in Seq(Nat) /\ Len(Fresh(0, 0)) = 0
        BY FreshAre
    <2>3. Fresh(0, 0) = <<>>
        BY <2>2
    <2> QED
        BY <2>1, <2>3
<1>2. Init => Shared
    BY NothingBelow DEF Init, Shared, Shares
<1>3. Fine /\ Uploads /\ Shared => UploadInOrder
    <2> SUFFICES ASSUME Fine, Uploads, Shared PROVE UploadInOrder
        OBVIOUS
    <2>1. fed \in Seq(Nat) /\ post \in Seq(Nat) /\ ubuf \in Seq(Nat) /\ up \in Nat
        BY Constants DEF Fine, Types
    <2>2. ASSUME faults = 0, ~closed
          PROVE  fed \o post \o ubuf = [i \in 1 .. up |-> i]
        <3>1. (fed \o post) \o ubuf = fed \o (post \o ubuf)
            BY <2>1, Concats
        <3>2. fed \o (post \o ubuf) = Fresh(0, up)
            BY <2>2 DEF Uploads
        <3>3. fed \o post \o ubuf = Fresh(0, up)
            BY <3>1, <3>2, Zenon
        <3>4. \A i \in 1 .. up : 0 + i = i
            BY <2>1
        <3>5. Fresh(0, up) = [i \in 1 .. up |-> i]
            BY <3>4 DEF Fresh
        <3> QED
            BY <3>3, <3>5
    <2>3. \A i, j \in DOMAIN fed : fed[i] = fed[j] => i = j
        BY <2>1 DEF Shared, Shares, Distinct
    <2>4. ASSUME NEW i \in DOMAIN fed, NEW j \in DOMAIN Pending PROVE fed[i] < Pending[j]
        <3>1. /\ Pending \in Seq(Nat)
              /\ \A k \in 1 .. Len(Pending) :
                    \/ k \in 1 .. Len(post) /\ Pending[k] = post[k]
                    \/ k - Len(post) \in 1 .. Len(ubuf) /\ Pending[k] = ubuf[k - Len(post)]
            BY <2>1, Sides DEF Pending
        <3>2. i \in 1 .. Len(fed) /\ j \in 1 .. Len(Pending)
            BY <2>1, <3>1
        <3> QED
            BY <3>1, <3>2 DEF Shared, Shares, Below
    <2> QED
        BY <2>2, <2>3, <2>4 DEF UploadInOrder
<1> QED
    BY <1>1, <1>2, <1>3, InitFine, StepFine, StepUploads, StepShared, PTL DEF Spec


-----------------------------------------------------------------------------
(* Where a byte is *)

\* What is in the buffer was written after all that has left it; a byte that has left
\* it is in one answer, or among those the client has been given, once.
Places ==
    /\ Rising(buf) /\ Below(got, buf) /\ Distinct(got)
    /\ \A g \in Slots : /\ Rising(gets[g].data) /\ Below(gets[g].data, buf)
                        /\ Apart(gets[g].data, got)
    /\ \A g, h \in Slots : g # h => Apart(gets[g].data, gets[h].data)

\* A single poll has its answer after what the client has been given.
InTurn ==
    config.polls = 1 =>
        Rising(got) /\ \A g \in Slots : gets[g].by # None => Below(got, gets[g].data)

\* Until a request fails or the client closes, every byte is somewhere.
At(s, b) == \E i \in 1 .. Len(s) : s[i] = b
Present ==
    faults = 0 /\ ~closed => \A b \in 1 .. written :
        At(buf, b) \/ At(got, b) \/ \E g \in Slots : At(gets[g].data, b)

LEMMA Emptiness ==
    /\ Rising(<<>>) /\ Distinct(<<>>)
    /\ \A s : Below(<<>>, s) /\ Below(s, <<>>) /\ Apart(<<>>, s) /\ Apart(s, <<>>)
BY NothingIs DEF Rising, Distinct, Below, Apart

\* A step that moves no byte, and may lose some.
LEMMA SamePlaces ==
    ASSUME Places, InTurn, UNCHANGED <<config, got>>, buf' = buf \/ buf' = <<>>,
           \A g \in Slots : gets'[g].data = gets[g].data \/ gets'[g].data = <<>>,
           \A g \in Slots : gets'[g].by # None => gets[g].by # None \/ gets'[g].data = <<>>
    PROVE  Places' /\ InTurn'
<1>1. Rising(buf') /\ Below(got, buf') /\ Distinct(got)
    BY Emptiness DEF Places
<1>2. \A g \in Slots : /\ Rising(gets'[g].data) /\ Below(gets'[g].data, buf')
                       /\ Apart(gets'[g].data, got)
    <2> SUFFICES ASSUME NEW g \in Slots
                 PROVE  /\ Rising(gets'[g].data) /\ Below(gets'[g].data, buf')
                        /\ Apart(gets'[g].data, got)
        OBVIOUS
    <2>1. CASE gets'[g].data = <<>>
        BY <2>1, Emptiness
    <2>2. CASE gets'[g].data = gets[g].data /\ buf' = buf
        BY <2>2 DEF Places
    <2>3. CASE gets'[g].data = gets[g].data /\ buf' = <<>>
        BY <2>3, Emptiness DEF Places
    <2> QED
        BY <2>1, <2>2, <2>3
<1>3. \A g, h \in Slots : g # h => Apart(gets'[g].data, gets'[h].data)
    <2> SUFFICES ASSUME NEW g \in Slots, NEW h \in Slots, g # h
                 PROVE  Apart(gets'[g].data, gets'[h].data)
        OBVIOUS
    <2>1. CASE gets'[g].data = <<>> \/ gets'[h].data = <<>>
        BY <2>1, Emptiness
    <2>2. CASE gets'[g].data = gets[g].data /\ gets'[h].data = gets[h].data
        BY <2>2 DEF Places
    <2> QED
        BY <2>1, <2>2
<1>4. Places'
    BY <1>1, <1>2, <1>3 DEF Places
<1>5. InTurn'
    <2> SUFFICES ASSUME config.polls = 1
                 PROVE  Rising(got) /\ \A g \in Slots : gets'[g].by # None => Below(got, gets'[g].data)
        BY DEF InTurn
    <2>1. ASSUME NEW g \in Slots, gets'[g].by # None PROVE Below(got, gets'[g].data)
        <3>1. CASE gets'[g].data = <<>>
            BY <3>1, Emptiness
        <3>2. CASE gets'[g].data = gets[g].data /\ gets[g].by # None
            BY <3>2 DEF InTurn
        <3> QED
            BY <2>1, <3>1, <3>2
    <2> QED
        BY <2>1 DEF InTurn
<1> QED
    BY <1>4, <1>5

LEMMA TakePlaces ==
    ASSUME Fine, Places, InTurn, Present, NEW g \in Slots, Take(g), gets[g].data = <<>>,
           UNCHANGED <<config, got, closed, faults>>
    PROVE  Places' /\ InTurn' /\ Present'
<1>1. /\ Types /\ buf \in Seq(Nat) /\ got \in Seq(Nat)
      /\ \A h \in Slots : gets[h].data \in Seq(Nat)
    BY DEF Fine, Types, Request
<1>2. PICK n \in 0 .. Len(buf) :
          /\ buf' = SubSeq(buf, n + 1, Len(buf)) /\ written' = written
          /\ gets'[g].by = gets[g].by /\ gets'[g].data = SubSeq(buf, 1, n)
          /\ \A h \in Slots : h # g => gets'[h] = gets[h]
    BY <1>1, TakeIs
<1> DEFINE a == SubSeq(buf, 1, n)
           r == SubSeq(buf, n + 1, Len(buf))
<1>3. a \in Seq(Nat) /\ r \in Seq(Nat) /\ Rising(a) /\ Rising(r) /\ Below(a, r)
    BY <1>1, Parts, TakenRises DEF Places
<1>4. ASSUME NEW t \in Seq(Nat), Below(t, buf)
      PROVE  Below(t, a) /\ Below(t, r) /\ Apart(a, t) /\ Apart(t, a)
    <2>1. 0 \in Nat /\ Below(t, a) /\ Below(t, r)
        BY <1>1, <1>4, TakenWithin
    <2> QED
        BY <1>3, <2>1, Implied
<1>5. \A b : At(buf, b) => At(a, b) \/ At(r, b)
    <2>1. ASSUME NEW i \in 1 .. Len(buf)
          PROVE  \/ i \in 1 .. Len(a) /\ a[i] = buf[i]
                 \/ i - n \in 1 .. Len(r) /\ r[i - n] = buf[i]
        <3>1. /\ Len(a) = n /\ \A j \in 1 .. n : a[j] = buf[j]
              /\ Len(r) = Len(buf) - n /\ \A j \in 1 .. Len(buf) - n : r[j] = buf[n + j]
              /\ i \in 1 .. n \/ i - n \in 1 .. Len(buf) - n
            BY <1>1, Parts
        <3>2. n + (i - n) = i
            BY <1>1
        <3> HIDE DEF a, r
        <3> QED
            BY <3>1, <3>2
    <2> HIDE DEF a, r
    <2> QED
        BY <2>1 DEF At
<1>6. buf' = r /\ gets'[g].data = a
    BY <1>2
<1> HIDE DEF a, r
<1>7. Below(got, buf) /\ \A h \in Slots : Below(gets[h].data, buf)
    BY DEF Places
<1>8. /\ Below(got, a) /\ Below(got, r) /\ Apart(a, got)
      /\ \A h \in Slots : Below(gets[h].data, r) /\ Apart(a, gets[h].data) /\ Apart(gets[h].data, a)
    BY <1>1, <1>4, <1>7
<1>9. Places'
    <2>1. Rising(buf') /\ Below(got', buf') /\ Distinct(got')
        BY <1>3, <1>6, <1>8 DEF Places
    <2>2. \A h \in Slots : /\ Rising(gets'[h].data) /\ Below(gets'[h].data, buf')
                           /\ Apart(gets'[h].data, got')
        <3> SUFFICES ASSUME NEW h \in Slots
                     PROVE  /\ Rising(gets'[h].data) /\ Below(gets'[h].data, buf')
                            /\ Apart(gets'[h].data, got')
            OBVIOUS
        <3>1. CASE h = g
            BY <1>3, <1>6, <1>8, <3>1
        <3>2. CASE h # g
            BY <1>2, <1>6, <1>8, <3>2 DEF Places
        <3> QED
            BY <3>1, <3>2
    <2>3. \A h, i \in Slots : h # i => Apart(gets'[h].data, gets'[i].data)
        BY <1>2, <1>6, <1>8 DEF Places
    <2> QED
        BY <2>1, <2>2, <2>3 DEF Places
<1>10. InTurn'
    BY <1>2, <1>6, <1>8 DEF InTurn
<1>11. Present'
    <2> SUFFICES ASSUME faults = 0, ~closed, NEW b \in 1 .. written
                 PROVE  At(buf', b) \/ At(got, b) \/ \E h \in Slots : At(gets'[h].data, b)
        BY <1>2 DEF Present
    <2>1. CASE At(buf, b)
        BY <1>5, <1>6, <2>1
    <2>2. CASE At(got, b)
        BY <2>2
    <2>3. ASSUME NEW h \in Slots, At(gets[h].data, b) PROVE At(gets'[h].data, b)
        <3>1. h # g
            BY <2>3, NothingIs DEF At
        <3> QED
            BY <1>2, <2>3, <3>1
    <2> QED
        BY <2>1, <2>2, <2>3 DEF Present
<1> QED
    BY <1>9, <1>10, <1>11


\* A step that moves no byte and loses none.
LEMMA SameBytes ==
    ASSUME Places, InTurn, Present, UNCHANGED <<config, got, buf, written>>,
           faults' = 0 => faults = 0, ~closed' => ~closed,
           \A g \in Slots : gets'[g].data = gets[g].data,
           \A g \in Slots : gets'[g].by # None => gets[g].by # None \/ gets'[g].data = <<>>
    PROVE  Places' /\ InTurn' /\ Present'
<1>1. Places' /\ InTurn'
    BY SamePlaces
<1>2. Present'
    BY DEF Present
<1> QED
    BY <1>1, <1>2

LEMMA MovePlaces ==
    ASSUME Fine, Places, InTurn, Present, NEW g \in Slots, Arrive(g) \/ WaitAgain(g) \/ Answer(g)
    PROVE  Places' /\ InTurn' /\ Present'
<1>1. /\ gets[g].pc \in {"sent", "wait1", "wait2"} /\ gets[g].data = <<>> /\ Types
      /\ UNCHANGED <<config, got, closed, faults>>
    BY Moves DEF Fine, Requests
<1>2. CASE Take(g)
    BY <1>1, <1>2, TakePlaces
<1>3. CASE \E c \in Waiting : Wait(g, c)
    <2>1. /\ UNCHANGED <<buf, written>>
          /\ gets'[g].by = gets[g].by /\ gets'[g].data = gets[g].data
          /\ \A h \in Slots : h # g => gets'[h] = gets[h]
        BY <1>1, <1>3, WaitIs
    <2> QED
        BY <1>1, <2>1, SameBytes
<1> QED
    BY <1>2, <1>3, Moves

LEMMA FeedPlaces ==
    ASSUME Fine, Places, InTurn, Present, NEW n \in 1 .. MaxDown, FeedDown(n)
    PROVE  Places' /\ InTurn' /\ Present'
<1>1. /\ Types /\ DownBytes /\ buf \in Seq(Nat) /\ got \in Seq(Nat)
      /\ \A h \in Slots : gets[h].data \in Seq(Nat)
    BY DEF Fine, Types, Request
<1>2. /\ written \in Nat /\ n \in Nat /\ written' = written + n
      /\ buf' = buf \o Fresh(written, n)
      /\ \A g \in Slots : gets'[g].by = gets[g].by /\ gets'[g].data = gets[g].data
      /\ UNCHANGED <<config, got, closed, faults>>
    BY <1>1, FeedIs
<1>3. /\ UpTo(buf, written) /\ UpTo(got, written)
      /\ \A g \in Slots : UpTo(gets[g].data, written)
    BY <1>1 DEF DownBytes
<1>4. Rising(buf')
    BY <1>1, <1>2, <1>3, FedRises DEF Places
<1>5. Below(got, buf')
    BY <1>1, <1>2, <1>3, FedRises DEF Places
<1>6. ASSUME NEW g \in Slots PROVE Below(gets[g].data, buf')
    <2>1. Below(gets[g].data, buf)
        BY DEF Places
    <2> QED
        BY <1>1, <1>2, <1>3, <2>1, FedRises
<1>7. Places'
    BY <1>2, <1>4, <1>5, <1>6 DEF Places
<1>8. InTurn'
    BY <1>2 DEF InTurn
<1>9. Present'
    <2> SUFFICES ASSUME faults = 0, ~closed, NEW b \in 1 .. written + n
                 PROVE  At(buf', b) \/ At(got, b) \/ \E h \in Slots : At(gets[h].data, b)
        BY <1>2 DEF Present
    <2> DEFINE f == Fresh(written, n)
    <2>1. f \in Seq(Nat) /\ Len(f) = n /\ \A i \in 1 .. n : f[i] = written + i
        BY <1>2, FreshAre
    <2> HIDE DEF f
    <2>2. /\ \A i \in 1 .. Len(buf) : i \in 1 .. Len(buf') /\ buf'[i] = buf[i]
          /\ \A i \in 1 .. n : Len(buf) + i \in 1 .. Len(buf') /\ buf'[Len(buf) + i] = f[i]
        BY <1>1, <1>2, <2>1, Sides DEF f
    <2>3. CASE b \in 1 .. written
        BY <2>2, <2>3 DEF Present, At
    <2>4. CASE b \notin 1 .. written
        <3>1. b - written \in 1 .. n /\ written + (b - written) = b
            BY <1>2, <2>4
        <3>2. f[b - written] = b
            BY <2>1, <3>1
        <3> QED
            BY <2>2, <3>1, <3>2 DEF At
    <2> QED
        BY <2>3, <2>4
<1> QED
    BY <1>7, <1>8, <1>9

\* With one poll connection one loop asks, with one request.
LEMMA Alone ==
    ASSUME Fine, config.polls = 1, NEW g \in Slots, NEW h \in Slots,
           gets[g].by # None, gets[h].by # None
    PROVE  g = h
<1>1. ASSUME NEW i \in Slots, gets[i].by # None PROVE gets[i].by = 1
    <2>1. gets[i].by \in Polls /\ loops[gets[i].by] = "asking"
        BY <1>1 DEF Fine, Types, Request, Requests
    <2>2. ~(gets[i].by > 1)
        BY <2>1 DEF Fine, Requests
    <2> QED
        BY <2>1, <2>2, Constants DEF Polls
<1> QED
    BY <1>1 DEF Fine, Requests

LEMMA ReceivePlaces ==
    ASSUME Fine, Places, InTurn, Present, NEW g \in Slots, Receive(g)
    PROVE  Places' /\ InTurn' /\ Present'
<1> DEFINE d == gets[g].data
<1>1. /\ Types /\ buf \in Seq(Nat) /\ got \in Seq(Nat) /\ d \in Seq(Nat) /\ 0 \in Nat
      /\ \A h \in Slots : gets[h].data \in Seq(Nat)
    BY DEF Fine, Types, Request
<1>2. /\ gets[g].by # None /\ got' = got \o d
      /\ UNCHANGED <<config, written, buf, closed, faults>>
    BY DEF Receive, down
<1>3. /\ gets'[g].data = <<>> /\ gets'[g].by = None
      /\ \A h \in Slots : h # g => gets'[h] = gets[h]
    <2>1. gets' = [gets EXCEPT ![g] = Free]
        BY DEF Receive
    <2> QED
        BY <1>1, <2>1, Placed, FreeIs
<1>4. /\ Rising(buf) /\ Below(got, buf) /\ Distinct(got)
      /\ Rising(d) /\ Below(d, buf) /\ Apart(d, got)
      /\ \A h \in Slots : h # g => Apart(gets[h].data, d)
    BY DEF Places
<1>5. \A h \in Slots : Apart(gets[h].data, got)
    BY DEF Places
<1>6. Distinct(got') /\ Below(got', buf)
    <2>1. Distinct(d) /\ Apart(got, d)
        BY <1>1, <1>4, Implied
    <2> HIDE DEF d
    <2> QED
        BY <1>1, <1>2, <1>4, <2>1, Joined
<1>7. ASSUME NEW h \in Slots, h # g PROVE Apart(gets[h].data, got')
    <2> DEFINE t == gets[h].data
    <2>1. t \in Seq(Nat) /\ Apart(t, got) /\ Apart(t, d)
        BY <1>1, <1>4, <1>5, <1>7
    <2> HIDE DEF t, d
    <2>2. Apart(got, t) /\ Apart(d, t)
        BY <1>1, <2>1, Implied
    <2>3. Apart(got', t) /\ got' \in Seq(Nat)
        BY <1>1, <1>2, <2>1, <2>2, Joined, Sides
    <2>4. Apart(t, got')
        BY <2>1, <2>3, Implied
    <2> QED
        BY <2>4 DEF t
<1>8. Places'
    <2>1. \A h \in Slots : /\ Rising(gets'[h].data) /\ Below(gets'[h].data, buf)
                           /\ Apart(gets'[h].data, got')
        <3> SUFFICES ASSUME NEW h \in Slots
                     PROVE  /\ Rising(gets'[h].data) /\ Below(gets'[h].data, buf)
                            /\ Apart(gets'[h].data, got')
            OBVIOUS
        <3>1. CASE h = g
            BY <1>3, <3>1, Emptiness
        <3>2. CASE h # g
            BY <1>3, <1>7, <3>2 DEF Places
        <3> QED
            BY <3>1, <3>2
    <2>2. \A h, i \in Slots : h # i => Apart(gets'[h].data, gets'[i].data)
        BY <1>3, Emptiness DEF Places
    <2> QED
        BY <1>2, <1>4, <1>6, <2>1, <2>2 DEF Places
<1>9. InTurn'
    <2> SUFFICES ASSUME config.polls = 1
                 PROVE  Rising(got') /\ \A h \in Slots : gets'[h].by # None => Below(got', gets'[h].data)
        BY <1>2 DEF InTurn
    <2>1. Rising(got) /\ Below(got, d)
        BY <1>2 DEF InTurn
    <2>2. Rising(got')
        BY <1>1, <1>2, <1>4, <2>1, Joined
    <2>3. ASSUME NEW h \in Slots, gets'[h].by # None PROVE FALSE
        <3>1. h # g /\ gets[h].by # None
            BY <1>3, <2>3
        <3> QED
            BY <1>2, <3>1, Alone
    <2> QED
        BY <2>2, <2>3
<1>10. Present'
    <2> SUFFICES ASSUME faults = 0, ~closed, NEW b \in 1 .. written
                 PROVE  At(buf, b) \/ At(got', b) \/ \E h \in Slots : At(gets'[h].data, b)
        BY <1>2 DEF Present
    <2>1. At(got, b) \/ At(d, b) => At(got', b)
        <3>1. /\ \A i \in 1 .. Len(got) : i \in 1 .. Len(got') /\ got'[i] = got[i]
              /\ \A i \in 1 .. Len(d) : Len(got) + i \in 1 .. Len(got') /\ got'[Len(got) + i] = d[i]
            BY <1>1, <1>2, Sides
        <3> HIDE DEF d
        <3> QED
            BY <3>1 DEF At
    <2>2. \A h \in Slots : h = g \/ gets'[h].data = gets[h].data
        BY <1>3
    <2> QED
        BY <2>1, <2>2 DEF Present
<1> QED
    BY <1>8, <1>9, <1>10

LEMMA StepPlaces ==
    Fine /\ Places /\ InTurn /\ Present /\ [Next]_vars => Places' /\ InTurn' /\ Present'
<1> SUFFICES ASSUME Fine, Places, InTurn, Present, [Next]_vars
             PROVE  Places' /\ InTurn' /\ Present'
    OBVIOUS
<1>1. Types /\ Requests /\ Smooth /\ \A g \in Slots : gets[g] \in Request
    BY DEF Fine, Types
<1>2. CASE ServerStep
    <2>1. ASSUME NEW g \in Slots, Refuse(g) PROVE Places' /\ InTurn' /\ Present'
        <3>1. /\ gets' = [gets EXCEPT ![g].pc = "answer"]
              /\ UNCHANGED <<config, got, buf, written, faults, closed>>
            BY <2>1 DEF Refuse, down
        <3>2. \A h \in Slots : gets'[h].data = gets[h].data /\ gets'[h].by = gets[h].by
            BY <1>1, <3>1 DEF Types, Request
        <3> QED
            BY <3>1, <3>2, SameBytes
    <2> QED
        BY <1>2, <2>1, FeedPlaces, MovePlaces DEF ServerStep
<1>3. CASE PollStep
    <2>1. ASSUME NEW p \in Polls, Ask(p) PROVE Places' /\ InTurn' /\ Present'
        <3> DEFINE r == [pc |-> "sent", woken |-> FALSE, by |-> p, data |-> <<>>]
        <3>1. PICK g \in Slots : gets[g].pc = "free" /\ gets' = [gets EXCEPT ![g] = r]
            BY <2>1 DEF Ask
        <3>2. r \in Request /\ r.data = <<>>
            BY DEF Request
        <3> HIDE DEF r
        <3>3. gets'[g] = r /\ \A h \in Slots : h # g => gets'[h] = gets[h]
            BY <1>1, <3>1, <3>2, Placed
        <3>4. gets[g].data = <<>>
            BY <1>1, <3>1 DEF Requests
        <3>5. UNCHANGED <<config, got, buf, written, faults, closed>>
            BY <2>1 DEF Ask, down
        <3> QED
            BY <3>2, <3>3, <3>4, <3>5, SameBytes
    <2>2. ASSUME NEW p \in Polls, Wake(p) PROVE Places' /\ InTurn' /\ Present'
        BY <2>2, SameBytes DEF Wake, down
    <2>3. ASSUME NEW g \in Slots, PollFails(g) PROVE Places' /\ InTurn' /\ Present'
        <3>1. /\ gets' = [gets EXCEPT ![g].by = None] /\ faults' = faults + 1
              /\ UNCHANGED <<config, got, buf, written, closed>>
            BY <2>3 DEF PollFails, down
        <3>2. \A h \in Slots : /\ gets'[h].data = gets[h].data
                               /\ gets'[h].by # None => gets[h].by # None
            BY <1>1, <3>1 DEF Types, Request
        <3>3. faults' = 0 => faults = 0
            BY <1>1, <3>1, Constants DEF Types
        <3> QED
            BY <3>1, <3>2, <3>3, SameBytes
    <2>4. ASSUME NEW g \in Slots, Vanish(g) PROVE Places' /\ InTurn' /\ Present'
        <3>1. /\ gets[g].by = None /\ gets[g].pc # "free" /\ gets' = [gets EXCEPT ![g] = Free]
              /\ UNCHANGED <<config, got, buf, written, faults, closed>>
            BY <2>4 DEF Vanish, down
        <3>2. gets'[g] = Free /\ \A h \in Slots : h # g => gets'[h] = gets[h]
            BY <1>1, <3>1, Placed, FreeIs
        <3>3. Places' /\ InTurn'
            BY <3>1, <3>2, FreeIs, SamePlaces
        <3>4. Present'
            BY <1>1, <3>1 DEF Present, Smooth
        <3> QED
            BY <3>3, <3>4
    <2> QED
        BY <1>3, <2>1, <2>2, <2>3, <2>4, ReceivePlaces DEF PollStep
<1>4. CASE UploadStep
    <2>1. UNCHANGED <<config, got, buf, written, gets, closed>> /\ (faults' = 0 => faults = 0)
        <3>1. faults \in Nat
            BY <1>1, Constants DEF Types
        <3> QED
            BY <1>4, <3>1 DEF UploadStep, Write, Drain, Posted, PostFails, PostLate, down
    <2> QED
        BY <2>1, SameBytes
<1>5. CASE Close
    <2>1. /\ gets' = [g \in Slots |-> [gets[g] EXCEPT !.by = None]]
          /\ UNCHANGED <<config, got, buf, written, faults>> /\ closed'
        BY <1>5 DEF Close, down
    <2>2. \A h \in Slots : gets'[h].data = gets[h].data /\ gets'[h].by = None
        <3> SUFFICES ASSUME NEW h \in Slots
                     PROVE  gets'[h].data = gets[h].data /\ gets'[h].by = None
            OBVIOUS
        <3>1. gets[h] \in Request /\ gets'[h] = [gets[h] EXCEPT !.by = None]
            BY <1>1, <2>1
        <3> QED
            BY <3>1 DEF Request
    <2> QED
        BY <2>1, <2>2, SameBytes
<1>6. CASE Restart
    <2>1. /\ buf' = <<>> /\ faults' = faults + 1 /\ UNCHANGED <<config, got>>
          /\ \A h \in Slots : gets'[h] = IF gets[h].pc \in Waiting THEN Free ELSE gets[h]
        BY <1>1, <1>6, RestartIs
    <2>2. Places' /\ InTurn'
        BY <2>1, FreeIs, SamePlaces
    <2>3. faults' # 0
        BY <1>1, <2>1, Constants DEF Types
    <2> QED
        BY <2>2, <2>3 DEF Present
<1>7. CASE UNCHANGED vars
    BY <1>7, SameBytes DEF vars, down
<1> QED
    BY <1>2, <1>3, <1>4, <1>5, <1>6, <1>7 DEF Next

LEMMA PlacesAlways == Spec => [](Fine /\ Places /\ InTurn /\ Present)
<1>1. Init => Places /\ InTurn /\ Present
    <2> SUFFICES ASSUME Init PROVE Places /\ InTurn /\ Present
        OBVIOUS
    <2>1. /\ buf = <<>> /\ got = <<>> /\ written = 0
          /\ \A g \in Slots : gets[g].data = <<>>
        BY FreeIs DEF Init
    <2>2. Places /\ InTurn
        BY <2>1, Emptiness DEF Places, InTurn
    <2>3. Present
        BY <2>1 DEF Present
    <2> QED
        BY <2>2, <2>3
<1> QED
    BY <1>1, InitFine, StepFine, StepPlaces, PTL DEF Spec

\* With one poll connection the client is given what the server wrote in order, whatever
\* fails and whoever is restarted (http_request.py 236-250, 283-295).
THEOREM OnePollKeepsOrder == Spec => []InOrderAlone
<1>1. Fine /\ InTurn => InOrderAlone
    <2> SUFFICES ASSUME Fine, InTurn, config.polls = 1
                 PROVE  \A i, j \in DOMAIN got : i < j => got[i] < got[j]
        BY DEF InOrderAlone
    <2>1. DOMAIN got = 1 .. Len(got)
        BY DEF Fine, Types
    <2> QED
        BY <2>1 DEF InTurn, Rising
<1> QED
    BY <1>1, PlacesAlways, PTL


\* How often a byte is in a sequence that holds no byte twice.
LEMMA Occurrences ==
    ASSUME NEW s \in Seq(Nat), Distinct(s), NEW b
    PROVE  Cardinality({i \in DOMAIN s : s[i] = b}) = IF At(s, b) THEN 1 ELSE 0
<1>1. DOMAIN s = 1 .. Len(s)
    OBVIOUS
<1>2. CASE At(s, b)
    <2>1. PICK i \in 1 .. Len(s) : s[i] = b
        BY <1>2 DEF At
    <2>2. {j \in DOMAIN s : s[j] = b} = {i}
        BY <1>1, <2>1 DEF Distinct
    <2> QED
        BY <1>2, <2>2, FS_Singleton
<1>3. CASE ~At(s, b)
    <2>1. {j \in DOMAIN s : s[j] = b} = {}
        BY <1>1, <1>3 DEF At
    <2> QED
        BY <1>3, <2>1, FS_EmptySet
<1> QED
    BY <1>2, <1>3

LEMMA Elsewhere ==
    ASSUME NEW s \in Seq(Nat), NEW t \in Seq(Nat), Apart(s, t), NEW b
    PROVE  ~(At(s, b) /\ At(t, b))
BY DEF Apart, At

LEMMA PlacesCount ==
    ASSUME Fine, Places, Present
    PROVE  NothingLost
<1>1. /\ buf \in Seq(Nat) /\ got \in Seq(Nat)
      /\ \A g \in Slots : gets[g].data \in Seq(Nat)
    BY DEF Fine, Types, Request
<1> DEFINE Here(b) == {g \in Slots : \E i \in DOMAIN gets[g].data : gets[g].data[i] = b}
           Bufs(b) == Cardinality({i \in DOMAIN buf : buf[i] = b})
           Gots(b) == Cardinality({i \in DOMAIN got : got[i] = b})
           Gets(b) == Cardinality(Here(b))
<1> SUFFICES ASSUME NEW b \in 1 .. written
             PROVE  /\ (Bufs(b) + Gots(b)) + Gets(b) <= 1
                    /\ faults = 0 /\ ~closed => (Bufs(b) + Gots(b)) + Gets(b) = 1
    BY DEF NothingLost
<1>2. Bufs(b) = IF At(buf, b) THEN 1 ELSE 0
    <2>1. Distinct(buf)
        BY <1>1, Implied DEF Places
    <2> QED
        BY <1>1, <2>1, Occurrences
<1>3. Gots(b) = IF At(got, b) THEN 1 ELSE 0
    BY <1>1, Occurrences DEF Places
<1>4. Here(b) = {g \in Slots : At(gets[g].data, b)}
    <2>1. \A g \in Slots : DOMAIN gets[g].data = 1 .. Len(gets[g].data)
        BY <1>1
    <2> QED
        BY <2>1 DEF At
<1>5. ASSUME NEW g \in Slots, NEW h \in Slots, At(gets[g].data, b), At(gets[h].data, b)
      PROVE  g = h
    BY <1>1, <1>5, Elsewhere DEF Places
<1>6. Gets(b) = IF \E g \in Slots : At(gets[g].data, b) THEN 1 ELSE 0
    <2>1. CASE \E g \in Slots : At(gets[g].data, b)
        <3>1. PICK g \in Slots : At(gets[g].data, b)
            BY <2>1
        <3>2. Here(b) = {g}
            BY <1>4, <1>5, <3>1
        <3> QED
            BY <2>1, <3>2, FS_Singleton
    <2>2. CASE ~\E g \in Slots : At(gets[g].data, b)
        <3>1. Here(b) = {}
            BY <1>4, <2>2
        <3> QED
            BY <2>2, <3>1, FS_EmptySet
    <2> QED
        BY <2>1, <2>2
<1>7. ~(At(buf, b) /\ At(got, b))
    <2>1. Apart(got, buf)
        BY <1>1, Implied DEF Places
    <2> QED
        BY <1>1, <2>1, Elsewhere
<1>8. ASSUME NEW g \in Slots, At(gets[g].data, b) PROVE ~At(buf, b) /\ ~At(got, b)
    <2>1. Apart(gets[g].data, buf) /\ Apart(gets[g].data, got)
        BY <1>1, Implied DEF Places
    <2> QED
        BY <1>1, <1>8, <2>1, Elsewhere
<1>9. faults = 0 /\ ~closed =>
          At(buf, b) \/ At(got, b) \/ \E g \in Slots : At(gets[g].data, b)
    BY DEF Present
<1> HIDE DEF Bufs, Gots, Gets, Here
<1> QED
    BY <1>2, <1>3, <1>6, <1>7, <1>8, <1>9

\* A byte the server wrote is in one place at most, and in one exactly until a request
\* fails or the client closes: the concurrent polls neither lose nor double what they
\* share, for any number of them (http_request.py 174, 236-250, 289).
THEOREM PollsLoseNothing == Spec => []NothingLost
BY PlacesAlways, PlacesCount, PTL
=============================================================================
