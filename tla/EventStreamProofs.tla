------------------------- MODULE EventStreamProofs -------------------------
(* Proofs about EventStream, for any number of responses, chunks, pings and    *)
(* faults, and whatever chunks end a line.                                     *)
EXTENDS EventStream, TLAPS, FiniteSetTheorems, SequenceTheorems, WellFoundedInduction
-----------------------------------------------------------------------------
(* Sequences of chunks *)

Under(s, n) == \A i \in 1 .. Len(s) : s[i] <= n
Rises(s) == \A i, j \in 1 .. Len(s) : i < j /\ s[j] # Ping => s[i] < s[j]
Ahead(s, t) == \A i \in 1 .. Len(s), j \in 1 .. Len(t) : t[j] # Ping => s[i] < t[j]
Has(s, k) == \E i \in 1 .. Len(s) : s[i] = k

\* Fed, on the wire, queued: each in order and before the next.
InLine(f, w, q) ==
    /\ Rises(f) /\ Rises(w) /\ Rises(q)
    /\ Ahead(f, w) /\ Ahead(f, q) /\ Ahead(w, q)

\* The two sides of a concatenation.
LEMMA Joints ==
    ASSUME NEW s \in Seq(Nat), NEW t \in Seq(Nat)
    PROVE  /\ s \o t \in Seq(Nat) /\ Len(s \o t) = Len(s) + Len(t)
           /\ Len(s) \in Nat /\ Len(t) \in Nat
           /\ \A i \in 1 .. Len(s \o t) :
                 \/ i \in 1 .. Len(s) /\ (s \o t)[i] = s[i]
                 \/ i > Len(s) /\ i - Len(s) \in 1 .. Len(t) /\ (s \o t)[i] = t[i - Len(s)]
           /\ \A i \in 1 .. Len(s) : i \in 1 .. Len(s \o t) /\ (s \o t)[i] = s[i]
           /\ \A i \in 1 .. Len(t) : Len(s) + i \in 1 .. Len(s \o t) /\ (s \o t)[Len(s) + i] = t[i]
OBVIOUS

\* The two parts of a sequence.
LEMMA Parts ==
    ASSUME NEW s \in Seq(Nat), NEW n \in 0 .. Len(s)
    PROVE  /\ Len(SubSeq(s, 1, n)) = n /\ SubSeq(s, 1, n) \in Seq(Nat)
           /\ \A i \in 1 .. n : i \in 1 .. Len(s) /\ SubSeq(s, 1, n)[i] = s[i]
           /\ Len(SubSeq(s, n + 1, Len(s))) = Len(s) - n /\ SubSeq(s, n + 1, Len(s)) \in Seq(Nat)
           /\ \A i \in 1 .. Len(s) - n :
                 n + i \in 1 .. Len(s) /\ SubSeq(s, n + 1, Len(s))[i] = s[n + i]
           /\ \A i \in 1 .. Len(s) : i \in 1 .. n \/ i - n \in 1 .. Len(s) - n
OBVIOUS

\* A sequence is what is taken from its front and what is left.
LEMMA PartsJoin ==
    ASSUME NEW s \in Seq(Nat), NEW n \in 0 .. Len(s)
    PROVE  SubSeq(s, 1, n) \o SubSeq(s, n + 1, Len(s)) = s
<1>1. 1 \in 1 .. Len(s) + 1 /\ n \in 1 - 1 .. Len(s) /\ Len(s) \in n .. Len(s)
    OBVIOUS
<1>2. SubSeq(s, 1, n) \o SubSeq(s, n + 1, Len(s)) = SubSeq(s, 1, Len(s))
    BY <1>1, ConcatAdjacentSubSeq
<1> QED
    BY <1>2, SubSeqFull

LEMMA Associative ==
    ASSUME NEW a \in Seq(Nat), NEW b \in Seq(Nat), NEW c \in Seq(Nat)
    PROVE  (a \o b) \o c = a \o (b \o c)
BY ConcatAssociative

LEMMA HeadAndTail ==
    ASSUME NEW s \in Seq(Nat), s # <<>>
    PROVE  /\ <<Head(s)>> \o Tail(s) = s /\ Head(s) \in Nat /\ Tail(s) \in Seq(Nat)
           /\ <<Head(s)>> \in Seq(Nat)
<1>1. Head(s) \in Nat /\ Tail(s) \in Seq(Nat) /\ <<Head(s)>> \in Seq(Nat)
    OBVIOUS
<1>2. Len(<<Head(s)>> \o Tail(s)) = Len(s)
    OBVIOUS
<1>3. \A i \in 1 .. Len(s) : (<<Head(s)>> \o Tail(s))[i] = s[i]
    OBVIOUS
<1> QED
    BY <1>1, <1>2, <1>3, SeqEqual

LEMMA AppendIs ==
    ASSUME NEW s \in Seq(Nat), NEW x \in Nat
    PROVE  Append(s, x) = s \o <<x>> /\ Append(s, x) \in Seq(Nat) /\ <<x>> \in Seq(Nat)
<1>1. Append(s, x) = s \o <<x>>
    BY AppendIsConcat
<1> QED
    BY <1>1

\* What a concatenation has, and how it is ordered.
LEMMA JoinHas ==
    ASSUME NEW s \in Seq(Nat), NEW t \in Seq(Nat), NEW k
    PROVE  Has(s \o t, k) <=> Has(s, k) \/ Has(t, k)
<1> DEFINE r == s \o t
<1>1. /\ \A i \in 1 .. Len(r) :
            \/ i \in 1 .. Len(s) /\ r[i] = s[i]
            \/ i > Len(s) /\ i - Len(s) \in 1 .. Len(t) /\ r[i] = t[i - Len(s)]
      /\ \A i \in 1 .. Len(s) : i \in 1 .. Len(r) /\ r[i] = s[i]
      /\ \A i \in 1 .. Len(t) : Len(s) + i \in 1 .. Len(r) /\ r[Len(s) + i] = t[i]
    BY Joints
<1> HIDE DEF r
<1>2. Has(r, k) => Has(s, k) \/ Has(t, k)
    BY <1>1 DEF Has
<1>3. Has(s, k) => Has(r, k)
    BY <1>1 DEF Has
<1>4. Has(t, k) => Has(r, k)
    BY <1>1 DEF Has
<1> QED
    BY <1>2, <1>3, <1>4 DEF r

LEMMA JoinUnder ==
    ASSUME NEW s \in Seq(Nat), NEW t \in Seq(Nat), NEW n \in Nat
    PROVE  Under(s \o t, n) <=> Under(s, n) /\ Under(t, n)
<1> DEFINE r == s \o t
<1>1. /\ \A i \in 1 .. Len(r) :
            \/ i \in 1 .. Len(s) /\ r[i] = s[i]
            \/ i > Len(s) /\ i - Len(s) \in 1 .. Len(t) /\ r[i] = t[i - Len(s)]
      /\ \A i \in 1 .. Len(s) : i \in 1 .. Len(r) /\ r[i] = s[i]
      /\ \A i \in 1 .. Len(t) : Len(s) + i \in 1 .. Len(r) /\ r[Len(s) + i] = t[i]
    BY Joints
<1> HIDE DEF r
<1>2. ASSUME Under(s, n), Under(t, n) PROVE Under(r, n)
    BY <1>1, <1>2 DEF Under
<1>3. ASSUME Under(r, n) PROVE Under(s, n)
    BY <1>1, <1>3 DEF Under
<1>4. ASSUME Under(r, n) PROVE Under(t, n)
    <2> SUFFICES ASSUME NEW i \in 1 .. Len(t) PROVE t[i] <= n
        BY DEF Under
    <2> QED
        BY <1>1, <1>4 DEF Under
<1> QED
    BY <1>2, <1>3, <1>4 DEF r

LEMMA JoinRises ==
    ASSUME NEW s \in Seq(Nat), NEW t \in Seq(Nat)
    PROVE  Rises(s \o t) <=> Rises(s) /\ Rises(t) /\ Ahead(s, t)
<1> DEFINE r == s \o t
<1>1. /\ Len(r) \in Nat /\ Len(s) \in Nat /\ Len(t) \in Nat
      /\ \A i \in 1 .. Len(r) :
            \/ i \in 1 .. Len(s) /\ r[i] = s[i]
            \/ i > Len(s) /\ i - Len(s) \in 1 .. Len(t) /\ r[i] = t[i - Len(s)]
      /\ \A i \in 1 .. Len(s) : i \in 1 .. Len(r) /\ r[i] = s[i]
      /\ \A i \in 1 .. Len(t) : Len(s) + i \in 1 .. Len(r) /\ r[Len(s) + i] = t[i]
    BY Joints
<1> HIDE DEF r
<1>2. ASSUME Rises(s), Rises(t), Ahead(s, t) PROVE Rises(r)
    <2> SUFFICES ASSUME NEW i \in 1 .. Len(r), NEW j \in 1 .. Len(r), i < j, r[j] # Ping
                 PROVE  r[i] < r[j]
        BY DEF Rises
    <2>1. CASE i \in 1 .. Len(s) /\ r[i] = s[i] /\ j \in 1 .. Len(s) /\ r[j] = s[j]
        BY <1>2, <2>1 DEF Rises
    <2>2. CASE /\ i > Len(s) /\ i - Len(s) \in 1 .. Len(t) /\ r[i] = t[i - Len(s)]
               /\ j > Len(s) /\ j - Len(s) \in 1 .. Len(t) /\ r[j] = t[j - Len(s)]
        <3>1. i - Len(s) < j - Len(s)
            BY <1>1
        <3> QED
            BY <1>2, <2>2, <3>1 DEF Rises
    <2>3. CASE i \in 1 .. Len(s) /\ r[i] = s[i] /\ j - Len(s) \in 1 .. Len(t) /\ r[j] = t[j - Len(s)]
        BY <1>2, <2>3 DEF Ahead
    <2>4. ~(i > Len(s) /\ j \in 1 .. Len(s))
        BY <1>1
    <2> QED
        BY <1>1, <2>1, <2>2, <2>3, <2>4
<1>3. ASSUME Rises(r) PROVE Rises(s)
    <2> SUFFICES ASSUME NEW i \in 1 .. Len(s), NEW j \in 1 .. Len(s), i < j, s[j] # Ping
                 PROVE  s[i] < s[j]
        BY DEF Rises
    <2> QED
        BY <1>1, <1>3 DEF Rises
<1>4. ASSUME Rises(r) PROVE Rises(t)
    <2> SUFFICES ASSUME NEW i \in 1 .. Len(t), NEW j \in 1 .. Len(t), i < j, t[j] # Ping
                 PROVE  t[i] < t[j]
        BY DEF Rises
    <2>1. Len(s) + i < Len(s) + j
        BY <1>1
    <2> QED
        BY <1>1, <1>3, <1>4, <2>1 DEF Rises
<1>5. ASSUME Rises(r) PROVE Ahead(s, t)
    <2> SUFFICES ASSUME NEW i \in 1 .. Len(s), NEW j \in 1 .. Len(t), t[j] # Ping
                 PROVE  s[i] < t[j]
        BY DEF Ahead
    <2>1. i < Len(s) + j
        BY <1>1
    <2> QED
        BY <1>1, <1>5, <2>1 DEF Rises
<1> QED
    BY <1>2, <1>3, <1>4, <1>5 DEF r

LEMMA JoinAhead ==
    ASSUME NEW s \in Seq(Nat), NEW t \in Seq(Nat), NEW u \in Seq(Nat)
    PROVE  /\ Ahead(s \o t, u) <=> Ahead(s, u) /\ Ahead(t, u)
           /\ Ahead(u, s \o t) <=> Ahead(u, s) /\ Ahead(u, t)
<1> DEFINE r == s \o t
<1>1. /\ \A i \in 1 .. Len(r) :
            \/ i \in 1 .. Len(s) /\ r[i] = s[i]
            \/ i > Len(s) /\ i - Len(s) \in 1 .. Len(t) /\ r[i] = t[i - Len(s)]
      /\ \A i \in 1 .. Len(s) : i \in 1 .. Len(r) /\ r[i] = s[i]
      /\ \A i \in 1 .. Len(t) : Len(s) + i \in 1 .. Len(r) /\ r[Len(s) + i] = t[i]
    BY Joints
<1> HIDE DEF r
<1>2. Ahead(s, u) /\ Ahead(t, u) => Ahead(r, u)
    BY <1>1 DEF Ahead
<1>3. Ahead(r, u) => Ahead(s, u)
    BY <1>1 DEF Ahead
<1>4. Ahead(r, u) => Ahead(t, u)
    BY <1>1 DEF Ahead
<1>5. Ahead(u, s) /\ Ahead(u, t) => Ahead(u, r)
    BY <1>1 DEF Ahead
<1>6. Ahead(u, r) => Ahead(u, s)
    BY <1>1 DEF Ahead
<1>7. Ahead(u, r) => Ahead(u, t)
    BY <1>1 DEF Ahead
<1> QED
    BY <1>2, <1>3, <1>4, <1>5, <1>6, <1>7 DEF r

LEMMA Single ==
    ASSUME NEW x \in Nat, NEW s \in Seq(Nat)
    PROVE  /\ Rises(<<x>>) /\ Rises(<<>>)
           /\ Ahead(<<Ping>>, s) /\ Ahead(s, <<Ping>>) /\ Ahead(s, <<>>) /\ Ahead(<<>>, s)
           /\ \A k : Has(<<x>>, k) <=> k = x
           /\ \A k : ~Has(<<>>, k)
           /\ \A n \in Nat : /\ Under(<<x>>, n) <=> x <= n
                             /\ Under(<<>>, n)
                             /\ Under(s, n) /\ n < x => Ahead(s, <<x>>)
<1>1. Len(<<x>>) = 1 /\ <<x>>[1] = x /\ Len(<<Ping>>) = 1 /\ <<Ping>>[1] = Ping /\ Len(<<>>) = 0
    OBVIOUS
<1>2. Rises(<<x>>) /\ Rises(<<>>)
    BY <1>1 DEF Rises
<1>3. \A i \in 1 .. Len(s) : s[i] \in Nat
    OBVIOUS
<1>4. Ahead(<<Ping>>, s) /\ Ahead(s, <<Ping>>) /\ Ahead(s, <<>>) /\ Ahead(<<>>, s)
    <2>1. Ahead(<<Ping>>, s)
        BY <1>1, <1>3 DEF Ahead, Ping
    <2>2. Ahead(s, <<Ping>>)
        BY <1>1 DEF Ahead
    <2>3. Ahead(s, <<>>) /\ Ahead(<<>>, s)
        BY <1>1 DEF Ahead
    <2> QED
        BY <2>1, <2>2, <2>3
<1>5. \A k : (Has(<<x>>, k) <=> k = x) /\ ~Has(<<>>, k)
    BY <1>1 DEF Has
<1>6. \A n \in Nat : (Under(<<x>>, n) <=> x <= n) /\ Under(<<>>, n)
    BY <1>1 DEF Under
<1>7. \A n \in Nat : Under(s, n) /\ n < x => Ahead(s, <<x>>)
    BY <1>1, <1>3 DEF Ahead, Under
<1> QED
    BY <1>2, <1>4, <1>5, <1>6, <1>7

\* A chunk written goes to the end of the queue.
LEMMA LineGrows ==
    ASSUME NEW f \in Seq(Nat), NEW w \in Seq(Nat), NEW q \in Seq(Nat), NEW n \in Nat, NEW x \in Nat,
           InLine(f, w, q), Under(f, n), Under(w, n), Under(q, n), n < x
    PROVE  InLine(f, w, Append(q, x))
<1>1. Append(q, x) = q \o <<x>> /\ <<x>> \in Seq(Nat)
    BY AppendIs
<1>2. Ahead(f, <<x>>) /\ Ahead(w, <<x>>) /\ Ahead(q, <<x>>) /\ Rises(<<x>>)
    BY Single
<1>3. Rises(q \o <<x>>)
    BY <1>1, <1>2, JoinRises DEF InLine
<1>4. Ahead(f, q \o <<x>>)
    BY <1>1, <1>2, JoinAhead DEF InLine
<1>5. Ahead(w, q \o <<x>>)
    BY <1>1, <1>2, JoinAhead DEF InLine
<1> QED
    BY <1>1, <1>3, <1>4, <1>5 DEF InLine

\* A handler moves the first chunk to the wire, or loses it.
LEMMA LineTaken ==
    ASSUME NEW f \in Seq(Nat), NEW w \in Seq(Nat), NEW q \in Seq(Nat), q # <<>>, InLine(f, w, q)
    PROVE  InLine(f, w, Tail(q)) /\ InLine(f, Append(w, Head(q)), Tail(q))
<1> DEFINE h == <<Head(q)>>
           t == Tail(q)
<1>1. h \o t = q /\ h \in Seq(Nat) /\ t \in Seq(Nat) /\ Head(q) \in Nat
    BY HeadAndTail
<1>2. Append(w, Head(q)) = w \o h
    BY <1>1, AppendIs
<1> HIDE DEF h, t
<1>3. Rises(h) /\ Rises(t) /\ Ahead(h, t)
    BY <1>1, JoinRises DEF InLine
<1>4. Ahead(f, h) /\ Ahead(f, t)
    BY <1>1, JoinAhead DEF InLine
<1>5. Ahead(w, h) /\ Ahead(w, t)
    BY <1>1, JoinAhead DEF InLine
<1>6. Rises(w \o h)
    BY <1>1, <1>3, <1>5, JoinRises DEF InLine
<1>7. Ahead(f, w \o h)
    BY <1>1, <1>4, JoinAhead DEF InLine
<1>8. Ahead(w \o h, t)
    BY <1>1, <1>3, <1>5, JoinAhead
<1> QED
    BY <1>2, <1>3, <1>4, <1>5, <1>6, <1>7, <1>8 DEF InLine, t

LEMMA LinePings ==
    ASSUME NEW f \in Seq(Nat), NEW w \in Seq(Nat), NEW q \in Seq(Nat), InLine(f, w, q)
    PROVE  InLine(f, Append(w, Ping), q)
<1>1. Ping \in Nat
    BY DEF Ping
<1>2. Append(w, Ping) = w \o <<Ping>> /\ <<Ping>> \in Seq(Nat)
    BY <1>1, AppendIs
<1>3. Rises(<<Ping>>) /\ Ahead(w, <<Ping>>) /\ Ahead(f, <<Ping>>) /\ Ahead(<<Ping>>, q)
    BY <1>1, Single
<1>4. Rises(w \o <<Ping>>)
    BY <1>2, <1>3, JoinRises DEF InLine
<1>5. Ahead(f, w \o <<Ping>>)
    BY <1>2, <1>3, JoinAhead DEF InLine
<1>6. Ahead(w \o <<Ping>>, q)
    BY <1>2, <1>3, JoinAhead DEF InLine
<1> QED
    BY <1>2, <1>4, <1>5, <1>6 DEF InLine

\* The client takes the front of the wire, and feeds it or drops it.
LEMMA LineFed ==
    ASSUME NEW f \in Seq(Nat), NEW a \in Seq(Nat), NEW b \in Seq(Nat), NEW q \in Seq(Nat),
           InLine(f, a \o b, q)
    PROVE  InLine(f \o a, b, q) /\ InLine(f, b, q)
<1>1. Rises(a) /\ Rises(b) /\ Ahead(a, b)
    BY JoinRises DEF InLine
<1>2. Ahead(f, a) /\ Ahead(f, b)
    BY JoinAhead DEF InLine
<1>3. Ahead(a, q) /\ Ahead(b, q)
    BY JoinAhead DEF InLine
<1>4. Rises(f \o a)
    BY <1>1, <1>2, JoinRises DEF InLine
<1>5. Ahead(f \o a, b)
    BY <1>1, <1>2, JoinAhead
<1>6. Ahead(f \o a, q)
    BY <1>3, JoinAhead DEF InLine
<1> QED
    BY <1>1, <1>2, <1>3, <1>4, <1>5, <1>6 DEF InLine

\* What is on the wire or in the queue may be lost.
LEMMA LineBreaks ==
    ASSUME NEW f \in Seq(Nat), NEW w \in Seq(Nat), NEW q \in Seq(Nat), InLine(f, w, q)
    PROVE  InLine(f, <<>>, q) /\ InLine(f, w, <<>>) /\ InLine(f, <<>>, <<>>)
<1>1. Rises(<<>>) /\ Ahead(f, <<>>) /\ Ahead(w, <<>>) /\ Ahead(<<>>, q) /\ Ahead(<<>>, <<>>)
    <2>1. 0 \in Nat /\ <<>> \in Seq(Nat)
        OBVIOUS
    <2> QED
        BY <2>1, Single
<1> QED
    BY <1>1 DEF InLine

LEMMA LessIsWellFounded ==
    \E R : IsWellFoundedOn(R, Nat) /\ \A a, b \in Nat : a < b => <<a, b>> \in R
<1>1. \A a, b \in Nat : a < b => <<a, b>> \in OpToRel(<, Nat)
    BY DEF OpToRel
<1> QED
    BY <1>1, NatLessThanWellFounded, Zenon

LEMMA Smallest ==
    ASSUME NEW S \in SUBSET Nat, S # {}
    PROVE  \E m \in S : \A k \in S : m <= k
<1>1. PICK R : IsWellFoundedOn(R, Nat) /\ \A a, b \in Nat : a < b => <<a, b>> \in R
    BY LessIsWellFounded
<1>2. PICK m \in S : \A k \in S : <<k, m>> \notin R
    <2>1. S \subseteq Nat /\ S # {} /\ IsWellFoundedOn(R, Nat)
        BY <1>1
    <2> QED
        BY <2>1, WFMin, Zenon
<1>3. \A k \in S : ~ (k < m)
    BY <1>1, <1>2
<1>4. \A k, l \in Nat : ~ (k < l) => l <= k
    OBVIOUS
<1> QED
    BY <1>3, <1>4

\* A line ends within what has come, and is at least one chunk or ping.
LEMMA LineEndIs ==
    ASSUME NEW s \in Seq(Nat), HasLine(s)
    PROVE  LineEnd(s) \in 1 .. Len(s)
<1> DEFINE S == {i \in 1 .. Len(s) : s[i] \in lines}
<1>1. S \in SUBSET Nat /\ S # {}
    BY DEF HasLine
<1>2. PICK m \in S : \A k \in S : m <= k
    BY <1>1, Smallest
<1>3. m \in DOMAIN s /\ s[m] \in lines /\ \A j \in 1 .. m - 1 : s[j] \notin lines
    BY <1>2
<1>4. LineEnd(s) \in DOMAIN s
    BY <1>3 DEF LineEnd
<1> QED
    BY <1>4
-----------------------------------------------------------------------------
(* Types, the owner of the wire, and the order of what was written *)

Conn == [pc : {"free", "sent", "get", "over"}, wire : Seq(Nat), mine : BOOLEAN]
Stream == [buf : Seq(Nat), got : Seq(Nat), ended : BOOLEAN]

\* TypeOK without what the sequences hold and whose the responses are.
Types ==
    /\ kind \in {"sse", "body"} /\ lines \subseteq 1 .. (MaxDown + MaxUp)
    /\ task \in {"ask", "reading", "asleep", "off"}
    /\ conns \in [Conns -> Conn]
    /\ written \in 0 .. MaxDown /\ queue \in Seq(Nat)
    /\ stop \in BOOLEAN /\ pings \in 0 .. MaxPings
    /\ reader \in [Sides -> Stream]
    /\ ubuf \in Seq(Nat) /\ post \in Seq(Nat) /\ late \subseteq UpData
    /\ up \in 0 .. MaxUp
    /\ known \in BOOLEAN /\ closed \in BOOLEAN /\ faults \in 0 .. MaxFaults

\* The client has one response while its task reads, and only that one has a wire.
Owner ==
    /\ task = "reading" <=> \E c \in Conns : conns[c].mine
    /\ \A c, d \in Conns : conns[c].mine /\ conns[d].mine => c = d
    /\ \A c \in Conns : ~conns[c].mine => conns[c].wire = <<>>

\* What the sequences hold: numbers of chunks, pings, and None behind a close.
OnlyHas(s, S) == \A i \in 1 .. Len(s) : s[i] \in S
Queued == IF stop THEN 1 .. written \cup {End} ELSE 1 .. written
Values ==
    /\ OnlyHas(queue, Queued) /\ OnlyHas(Fed("client"), 0 .. written)
    /\ \A c \in Conns : OnlyHas(conns[c].wire, 0 .. written)

Line == \A c \in Conns : InLine(Fed("client"), conns[c].wire, queue)
NoPing == kind = "sse" => ~Has(Fed("client"), Ping)

Inv == Types /\ Owner /\ Values /\ Line /\ NoPing

LEMMA Constants ==
    /\ MaxConns \in Nat /\ MaxConns > 0 /\ MaxDown \in Nat /\ MaxUp \in Nat
    /\ MaxPings \in Nat /\ MaxFaults \in Nat /\ 1 \in Conns
    /\ End = MaxDown + 1 /\ Ping = 0 /\ Ping \in Nat
    /\ "client" \in Sides /\ "server" \in Sides
BY BoundsAssumption DEF Conns, End, Ping, Sides

LEMMA JoinOnlyHas ==
    ASSUME NEW s \in Seq(Nat), NEW t \in Seq(Nat), NEW S
    PROVE  OnlyHas(s \o t, S) <=> OnlyHas(s, S) /\ OnlyHas(t, S)
<1> DEFINE r == s \o t
<1>1. /\ \A i \in 1 .. Len(r) :
            \/ i \in 1 .. Len(s) /\ r[i] = s[i]
            \/ i > Len(s) /\ i - Len(s) \in 1 .. Len(t) /\ r[i] = t[i - Len(s)]
      /\ \A i \in 1 .. Len(s) : i \in 1 .. Len(r) /\ r[i] = s[i]
      /\ \A i \in 1 .. Len(t) : Len(s) + i \in 1 .. Len(r) /\ r[Len(s) + i] = t[i]
    BY Joints
<1> HIDE DEF r
<1>2. OnlyHas(s, S) /\ OnlyHas(t, S) => OnlyHas(r, S)
    BY <1>1 DEF OnlyHas
<1>3. OnlyHas(r, S) => OnlyHas(s, S)
    BY <1>1 DEF OnlyHas
<1>4. OnlyHas(r, S) => OnlyHas(t, S)
    BY <1>1 DEF OnlyHas
<1> QED
    BY <1>2, <1>3, <1>4 DEF r

LEMMA OnlyHasMore ==
    ASSUME NEW s \in Seq(Nat), NEW S, NEW T, S \subseteq T, OnlyHas(s, S)
    PROVE  OnlyHas(s, T)
BY DEF OnlyHas

LEMMA OnlyHasOne ==
    ASSUME NEW x, NEW S, x \in S
    PROVE  OnlyHas(<<x>>, S) /\ OnlyHas(<<>>, S)
<1>1. Len(<<x>>) = 1 /\ <<x>>[1] = x /\ Len(<<>>) = 0
    OBVIOUS
<1> QED
    BY <1>1 DEF OnlyHas

LEMMA OnlyHasUnder ==
    ASSUME NEW s \in Seq(Nat), NEW n \in Nat, OnlyHas(s, 0 .. n)
    PROVE  Under(s, n)
BY DEF OnlyHas, Under

\* A stream reader with another buffer, another text read or another end.
LEMMA BufIs ==
    ASSUME NEW r \in Stream, NEW b \in Seq(Nat)
    PROVE  /\ [r EXCEPT !.buf = b] \in Stream /\ [r EXCEPT !.buf = b].buf = b
           /\ [r EXCEPT !.buf = b].got = r.got /\ [r EXCEPT !.buf = b].ended = r.ended
BY DEF Stream

LEMMA GotIs ==
    ASSUME NEW r \in Stream, NEW b \in Seq(Nat)
    PROVE  /\ [r EXCEPT !.got = b] \in Stream /\ [r EXCEPT !.got = b].got = b
           /\ [r EXCEPT !.got = b].buf = r.buf /\ [r EXCEPT !.got = b].ended = r.ended
BY DEF Stream

LEMMA EndIs ==
    ASSUME NEW r \in Stream
    PROVE  /\ [r EXCEPT !.ended = TRUE] \in Stream /\ [r EXCEPT !.ended = TRUE].buf = r.buf
           /\ [r EXCEPT !.ended = TRUE].got = r.got /\ [r EXCEPT !.ended = TRUE].ended = TRUE
BY DEF Stream

\* What is fed goes to the end of what was; the other reader keeps its own.
LEMMA FeedIs ==
    ASSUME Types, NEW side \in Sides, NEW s \in Seq(Nat), Feed(side, s) \/ FeedEnd(side, s)
    PROVE  /\ reader' \in [Sides -> Stream]
           /\ Fed(side)' = Fed(side) \o s /\ Fed(side) \in Seq(Nat)
           /\ \A o \in Sides : o # side => Fed(o)' = Fed(o) /\ reader'[o].ended = reader[o].ended
           /\ Feed(side, s) => reader'[side].ended = reader[side].ended
           /\ FeedEnd(side, s) => reader'[side].ended
<1>1. /\ reader[side] \in Stream /\ reader[side].buf \in Seq(Nat) /\ reader[side].got \in Seq(Nat)
      /\ reader[side].buf \o s \in Seq(Nat)
    <2>1. reader[side] \in Stream
        BY DEF Types
    <2>2. reader[side].buf \in Seq(Nat) /\ reader[side].got \in Seq(Nat)
        BY <2>1 DEF Stream
    <2> QED
        BY <2>1, <2>2
<1>2. /\ \A o \in Sides : o # side => reader'[o] = reader[o]
      /\ reader' = [reader EXCEPT ![side] = reader'[side]]
    BY DEF Feed, FeedEnd, Types
<1>3. /\ reader'[side] \in Stream /\ reader'[side].buf = reader[side].buf \o s
      /\ reader'[side].got = reader[side].got
      /\ Feed(side, s) => reader'[side].ended = reader[side].ended
      /\ FeedEnd(side, s) => reader'[side].ended
    <2> DEFINE r == reader[side]
               b == reader[side].buf \o s
               x == [r EXCEPT !.buf = b]
    <2>1. Feed(side, s) => reader'[side] = x
        BY DEF Feed, Types
    <2>2. FeedEnd(side, s) => reader'[side] = [x EXCEPT !.ended = TRUE]
        BY DEF FeedEnd, Types
    <2>3. x \in Stream /\ x.buf = b /\ x.got = r.got /\ x.ended = r.ended
        BY <1>1, BufIs
    <2> HIDE DEF x
    <2>4. /\ [x EXCEPT !.ended = TRUE] \in Stream /\ [x EXCEPT !.ended = TRUE].buf = x.buf
          /\ [x EXCEPT !.ended = TRUE].got = x.got /\ [x EXCEPT !.ended = TRUE].ended = TRUE
        BY <1>1, <2>3, EndIs
    <2>5. CASE Feed(side, s)
        <3>1. FeedEnd(side, s) => reader'[side].ended
            BY <2>2, <2>4
        <3> QED
            BY <2>1, <2>3, <2>5, <3>1
    <2>6. CASE ~Feed(side, s)
        BY <2>2, <2>3, <2>4, <2>6
    <2> QED
        BY <2>5, <2>6
<1>4. reader' \in [Sides -> Stream]
    BY <1>2, <1>3 DEF Types
<1>5. (reader[side].got \o reader[side].buf) \o s = reader[side].got \o (reader[side].buf \o s)
    BY <1>1, Associative
<1>6. Fed(side) \in Seq(Nat)
    BY <1>1 DEF Fed
<1>7. Fed(side)' = Fed(side) \o s
    BY <1>3, <1>5 DEF Fed
<1>8. \A o \in Sides : o # side => Fed(o)' = Fed(o) /\ reader'[o].ended = reader[o].ended
    BY <1>2 DEF Fed
<1> QED
    BY <1>3, <1>4, <1>6, <1>7, <1>8

LEMMA FedIsSeq == ASSUME Types PROVE \A side \in Sides : Fed(side) \in Seq(Nat)
<1> SUFFICES ASSUME NEW side \in Sides PROVE Fed(side) \in Seq(Nat)
    OBVIOUS
<1>1. reader[side].buf \in Seq(Nat) /\ reader[side].got \in Seq(Nat)
    BY DEF Types, Stream
<1> QED
    BY <1>1 DEF Fed

\* Reading moves what is fed from one place to the other.
LEMMA ReadIs ==
    ASSUME Types, NEW side \in Sides, NEW n \in Nat, Read(side, n)
    PROVE  /\ reader' \in [Sides -> Stream]
           /\ \A o \in Sides : Fed(o)' = Fed(o) /\ reader'[o].ended = reader[o].ended
<1> DEFINE r == reader[side]
           a == SubSeq(r.buf, 1, n)
           z == SubSeq(r.buf, n + 1, Len(r.buf))
           x == [r EXCEPT !.got = r.got \o a]
<1>1. r \in Stream /\ r.buf \in Seq(Nat) /\ r.got \in Seq(Nat) /\ n \in 0 .. Len(r.buf)
    <2>1. r \in Stream
        BY DEF Types
    <2>2. r.buf \in Seq(Nat) /\ r.got \in Seq(Nat)
        BY <2>1 DEF Stream
    <2>3. n <= Len(r.buf)
        BY DEF Read
    <2> QED
        BY <2>1, <2>2, <2>3
<1>2. a \in Seq(Nat) /\ z \in Seq(Nat) /\ a \o z = r.buf
    BY <1>1, Parts, PartsJoin
<1>3. /\ reader'[side] = [x EXCEPT !.buf = SubSeq(x.buf, n + 1, Len(x.buf))]
      /\ \A o \in Sides : o # side => reader'[o] = reader[o]
      /\ reader' = [reader EXCEPT ![side] = reader'[side]]
    BY DEF Read, Types
<1>4. r.got \o a \in Seq(Nat)
    BY <1>1, <1>2
<1>5. x \in Stream /\ x.got = r.got \o a /\ x.buf = r.buf /\ x.ended = r.ended
    BY <1>1, <1>4, GotIs
<1> HIDE DEF x
<1>6. reader'[side] = [x EXCEPT !.buf = z]
    BY <1>3, <1>5
<1> HIDE DEF z
<1>7. /\ reader'[side] \in Stream /\ reader'[side].buf = z
      /\ reader'[side].got = r.got \o a /\ reader'[side].ended = r.ended
    BY <1>2, <1>5, <1>6, BufIs
<1> HIDE DEF a
<1>8. (r.got \o a) \o z = r.got \o (a \o z)
    BY <1>1, <1>2, Associative
<1>9. reader' \in [Sides -> Stream]
    BY <1>3, <1>7 DEF Types
<1>10. Fed(side)' = Fed(side)
    BY <1>2, <1>7, <1>8 DEF Fed
<1>11. \A o \in Sides : o # side => Fed(o)' = Fed(o)
    BY <1>3 DEF Fed
<1> QED
    BY <1>3, <1>7, <1>9, <1>10, <1>11
-----------------------------------------------------------------------------
(* The steps that write to the wire *)

\* One response goes on: its handler loops or ends.
LEMMA LoopIs ==
    ASSUME Types, Owner, NEW c \in Conns, NEW w \in Seq(Nat), NEW h \in BOOLEAN,
           Loop(c, w, h), ~conns[c].mine => w = <<>>
    PROVE  /\ conns' \in [Conns -> Conn]
           /\ conns'[c].wire = w /\ conns'[c].mine = conns[c].mine
           /\ h \/ conns'[c].pc = "get"
           /\ h => conns'[c].pc = IF conns[c].mine THEN "over" ELSE "free"
           /\ \A d \in Conns : d # c => conns'[d] = conns[d]
<1>1. conns[c] \in Conn
    BY DEF Types
<1>2. \A r \in Conn, p \in {"get", "over"} :
          /\ [r EXCEPT !.pc = p, !.wire = w] \in Conn
          /\ [r EXCEPT !.pc = p, !.wire = w].pc = p
          /\ [r EXCEPT !.pc = p, !.wire = w].wire = w
          /\ [r EXCEPT !.pc = p, !.wire = w].mine = r.mine
    BY DEF Conn
<1>3. Free \in Conn /\ Free.pc = "free" /\ Free.wire = <<>> /\ Free.mine = FALSE
    BY DEF Free, Conn
<1>4. conns[c].mine \in BOOLEAN
    BY <1>1 DEF Conn
<1>5. /\ \A d \in Conns : d # c => conns'[d] = conns[d]
      /\ conns' = [conns EXCEPT ![c] = conns'[c]]
      /\ conns'[c] = IF ~h THEN [conns[c] EXCEPT !.pc = "get", !.wire = w]
                     ELSE IF conns[c].mine THEN [conns[c] EXCEPT !.pc = "over", !.wire = w]
                     ELSE Free
    BY DEF Loop, Types
<1>6. /\ conns'[c] \in Conn /\ conns'[c].wire = w /\ conns'[c].mine = conns[c].mine
      /\ h \/ conns'[c].pc = "get"
      /\ h => conns'[c].pc = IF conns[c].mine THEN "over" ELSE "free"
    <2>1. CASE ~h
        <3>1. conns'[c] = [conns[c] EXCEPT !.pc = "get", !.wire = w]
            BY <1>5, <2>1
        <3> QED
            BY <1>1, <1>2, <2>1, <3>1, Zenon
    <2>2. CASE h /\ conns[c].mine
        <3>1. conns'[c] = [conns[c] EXCEPT !.pc = "over", !.wire = w]
            BY <1>5, <2>2
        <3>2. /\ [conns[c] EXCEPT !.pc = "over", !.wire = w] \in Conn
              /\ [conns[c] EXCEPT !.pc = "over", !.wire = w].pc = "over"
              /\ [conns[c] EXCEPT !.pc = "over", !.wire = w].wire = w
              /\ [conns[c] EXCEPT !.pc = "over", !.wire = w].mine = conns[c].mine
            BY <1>1, <1>2
        <3> QED
            BY <2>2, <3>1, <3>2
    <2>3. CASE h /\ ~conns[c].mine
        BY <1>3, <1>4, <1>5, <2>3
    <2> QED
        BY <2>1, <2>2, <2>3
<1>7. conns' \in [Conns -> Conn]
    BY <1>5, <1>6 DEF Types
<1> QED
    BY <1>5, <1>6, <1>7

LEMMA LoopOwner ==
    ASSUME Types, Owner, NEW c \in Conns, NEW w \in Seq(Nat), NEW h \in BOOLEAN,
           Loop(c, w, h), ~conns[c].mine => w = <<>>, task' = task
    PROVE  Owner'
<1>1. /\ conns'[c].wire = w /\ conns'[c].mine = conns[c].mine
      /\ \A d \in Conns : d # c => conns'[d] = conns[d]
    BY LoopIs
<1>2. \A d \in Conns : conns'[d].mine = conns[d].mine
    BY <1>1
<1>3. \A d \in Conns : ~conns[d].mine => conns'[d].wire = <<>>
    BY <1>1 DEF Owner
<1> QED
    BY <1>2, <1>3 DEF Owner

\* What a sequence of written chunks allows the order lemmas to use.
LEMMA Sequences ==
    ASSUME Inv, NEW c \in Conns
    PROVE  /\ Fed("client") \in Seq(Nat) /\ conns[c].wire \in Seq(Nat) /\ queue \in Seq(Nat)
           /\ InLine(Fed("client"), conns[c].wire, queue)
           /\ OnlyHas(conns[c].wire, 0 .. written) /\ OnlyHas(Fed("client"), 0 .. written)
           /\ OnlyHas(queue, Queued) /\ written \in Nat /\ written <= MaxDown
           /\ Types /\ Owner /\ NoPing
<1>1. conns[c] \in Conn
    BY DEF Inv, Types
<1>2. conns[c].wire \in Seq(Nat)
    BY <1>1 DEF Conn
<1> QED
    BY <1>2, FedIsSeq, Constants DEF Inv, Types, Values, Line

\* A step that leaves the other variables of the downstream alone.
Rest == <<kind, task, written, stop>>

\* What handler c puts on its wire is in order with the rest.
LEMMA WireMoves ==
    ASSUME Inv, Types', Owner', UNCHANGED <<Rest, reader>>, NEW c \in Conns,
           \A d \in Conns : d # c => conns'[d] = conns[d],
           OnlyHas(queue', Queued), OnlyHas(conns'[c].wire, 0 .. written),
           \A d \in Conns : InLine(Fed("client"), conns'[d].wire, queue')
    PROVE  Inv'
<1>1. /\ Fed("client")' = Fed("client") /\ Queued' = Queued /\ written' = written /\ kind' = kind
    BY DEF Fed, Queued, Rest
<1>2. Values'
    <2>1. \A d \in Conns : OnlyHas(conns'[d].wire, 0 .. written)
        BY DEF Inv, Values
    <2>2. OnlyHas(queue', Queued')
        BY <1>1
    <2>3. OnlyHas(Fed("client")', 0 .. written')
        BY <1>1 DEF Inv, Values
    <2> QED
        BY <1>1, <2>1, <2>2, <2>3 DEF Values
<1>3. Line'
    BY <1>1 DEF Line
<1>4. NoPing'
    BY <1>1 DEF Inv, NoPing
<1> QED
    BY <1>2, <1>3, <1>4 DEF Inv

\* A request arrives: its wire is empty.
LEMMA ArriveInv ==
    ASSUME Inv, NEW c \in Conns, SseArrive(c) \/ BodyArrive(c)
    PROVE  Inv'
<1>1. PICK h \in BOOLEAN : Loop(c, <<>>, h)
    <2>1. (stop \/ ~known) \in BOOLEAN /\ stop \in BOOLEAN
        BY DEF Inv, Types
    <2> QED
        BY <2>1 DEF SseArrive, BodyArrive
<1>2. /\ UNCHANGED <<kind, lines, task, down, reader, uploads, closed, faults>>
      /\ known' \in BOOLEAN
    BY DEF SseArrive, BodyArrive, Inv, Types
<1>3. Types /\ Owner /\ <<>> \in Seq(Nat)
    BY DEF Inv
<1>4. /\ conns' \in [Conns -> Conn] /\ conns'[c].wire = <<>>
      /\ \A d \in Conns : d # c => conns'[d] = conns[d]
    BY <1>1, <1>3, LoopIs
<1>5. Owner'
    BY <1>1, <1>2, <1>3, LoopOwner
<1>6. Types'
    BY <1>2, <1>3, <1>4 DEF Types, down, uploads
<1>7. \A d \in Conns : InLine(Fed("client"), conns'[d].wire, queue)
    BY <1>4, Sequences, LineBreaks
<1>8. OnlyHas(conns'[c].wire, 0 .. written) /\ OnlyHas(queue, Queued)
    <2>1. 0 \in 0 .. written
        BY Sequences
    <2> QED
        BY <1>4, <2>1, OnlyHasOne, Sequences
<1>9. queue' = queue /\ UNCHANGED <<Rest, reader>>
    BY <1>2 DEF down, Rest
<1> QED
    BY <1>4, <1>5, <1>6, <1>7, <1>8, <1>9, WireMoves

\* The chunk at the head of the queue, and the rest of it.
LEMMA HeadOfQueue ==
    ASSUME Inv, queue # <<>>
    PROVE  /\ Tail(queue) \in Seq(Nat) /\ Head(queue) \in Nat
           /\ OnlyHas(Tail(queue), Queued)
           /\ Head(queue) # End => Head(queue) \in 0 .. written
<1>1. /\ queue \in Seq(Nat) /\ OnlyHas(queue, Queued) /\ written \in Nat
    BY Sequences, Constants
<1>2. /\ <<Head(queue)>> \o Tail(queue) = queue /\ Head(queue) \in Nat
      /\ Tail(queue) \in Seq(Nat) /\ <<Head(queue)>> \in Seq(Nat)
    BY <1>1, HeadAndTail
<1>3. OnlyHas(Tail(queue), Queued)
    BY <1>1, <1>2, JoinOnlyHas
<1>4. Head(queue) = queue[1] /\ 1 \in 1 .. Len(queue)
    BY <1>1
<1>5. Head(queue) \in Queued
    BY <1>1, <1>4 DEF OnlyHas
<1>6. Head(queue) \in 1 .. written \/ Head(queue) = End
    BY <1>5 DEF Queued
<1> QED
    BY <1>1, <1>2, <1>3, <1>6

LEMMA TakeIs ==
    ASSUME Inv, NEW c \in Conns, Take(c)
    PROVE  /\ queue # <<>> /\ queue' = Tail(queue)
           /\ UNCHANGED <<kind, lines, task, written, stop, pings, reader, uploads, known, closed, faults>>
           /\ \E w \in Seq(Nat), h \in BOOLEAN :
                 /\ Loop(c, w, h)
                 /\ ~conns[c].mine => w = <<>>
                 /\ \/ w = conns[c].wire /\ (Head(queue) = End \/ ~conns[c].mine)
                    \/ /\ w = Append(conns[c].wire, Head(queue)) /\ Head(queue) # End
                       /\ conns[c].mine /\ h = stop
<1>1. /\ Types /\ Owner /\ conns[c].wire \in Seq(Nat) /\ queue # <<>>
      /\ ~conns[c].mine => conns[c].wire = <<>>
    BY Sequences DEF Owner, Take
<1>2. Head(queue) \in Nat /\ stop \in BOOLEAN /\ \A f \in BOOLEAN : (stop \/ f) \in BOOLEAN
    BY <1>1, HeadOfQueue DEF Types
<1>3. Append(conns[c].wire, Head(queue)) \in Seq(Nat)
    BY <1>1, <1>2, AppendIs
<1>4. \/ Head(queue) = End /\ Loop(c, conns[c].wire, TRUE)
      \/ Head(queue) # End /\ conns[c].mine /\ Loop(c, Append(conns[c].wire, Head(queue)), stop)
      \/ Head(queue) # End /\ ~conns[c].mine /\ \E failed \in BOOLEAN : Loop(c, <<>>, stop \/ failed)
    BY DEF Take
<1>5. \E w \in Seq(Nat), h \in BOOLEAN :
         /\ Loop(c, w, h)
         /\ ~conns[c].mine => w = <<>>
         /\ \/ w = conns[c].wire /\ (Head(queue) = End \/ ~conns[c].mine)
            \/ /\ w = Append(conns[c].wire, Head(queue)) /\ Head(queue) # End
               /\ conns[c].mine /\ h = stop
    <2>1. CASE Head(queue) = End /\ Loop(c, conns[c].wire, TRUE)
        BY <1>1, <2>1
    <2>2. CASE Head(queue) # End /\ conns[c].mine /\ Loop(c, Append(conns[c].wire, Head(queue)), stop)
        BY <1>2, <1>3, <2>2
    <2>3. CASE Head(queue) # End /\ ~conns[c].mine
               /\ \E failed \in BOOLEAN : Loop(c, <<>>, stop \/ failed)
        BY <1>1, <1>2, <2>3
    <2> QED
        BY <1>4, <2>1, <2>2, <2>3
<1> QED
    BY <1>1, <1>5 DEF Take

LEMMA TakeInv ==
    ASSUME Inv, NEW c \in Conns, Take(c)
    PROVE  Inv'
<1> DEFINE x == Head(queue)
<1>1. /\ queue # <<>> /\ queue' = Tail(queue)
      /\ UNCHANGED <<kind, lines, task, written, stop, pings, reader, uploads, known, closed, faults>>
    BY TakeIs
<1>2. PICK w \in Seq(Nat), h \in BOOLEAN :
          /\ Loop(c, w, h)
          /\ ~conns[c].mine => w = <<>>
          /\ \/ w = conns[c].wire
             \/ w = Append(conns[c].wire, x) /\ x # End
    BY TakeIs
<1>3. /\ Types /\ Owner /\ conns[c].wire \in Seq(Nat) /\ written \in Nat
      /\ OnlyHas(conns[c].wire, 0 .. written)
      /\ Tail(queue) \in Seq(Nat) /\ OnlyHas(Tail(queue), Queued)
      /\ x \in Nat
      /\ x # End => x \in 0 .. written
    BY <1>1, Sequences, HeadOfQueue
<1>4. /\ conns' \in [Conns -> Conn] /\ conns'[c].wire = w
      /\ \A d \in Conns : d # c => conns'[d] = conns[d]
    BY <1>2, <1>3, LoopIs
<1>5. Owner'
    BY <1>1, <1>2, <1>3, LoopOwner
<1>6. Types'
    BY <1>1, <1>3, <1>4 DEF Types, uploads
<1>7. \A d \in Conns : InLine(Fed("client"), conns'[d].wire, queue')
    <2>1. ASSUME NEW d \in Conns
          PROVE  /\ InLine(Fed("client"), conns[d].wire, Tail(queue))
                 /\ InLine(Fed("client"), Append(conns[d].wire, x), Tail(queue))
        BY <1>1, Sequences, LineTaken
    <2> QED
        BY <1>1, <1>2, <1>4, <2>1
<1>8. OnlyHas(w, 0 .. written)
    <2>1. CASE w = conns[c].wire
        BY <1>3, <2>1
    <2>2. CASE w = Append(conns[c].wire, x) /\ x # End
        <3>1. w = conns[c].wire \o <<x>> /\ <<x>> \in Seq(Nat)
            BY <1>3, <2>2, AppendIs
        <3>2. OnlyHas(<<x>>, 0 .. written)
            BY <1>3, <2>2, OnlyHasOne
        <3> QED
            BY <1>3, <3>1, <3>2, JoinOnlyHas
    <2> QED
        BY <1>2, <2>1, <2>2
<1>9. UNCHANGED <<Rest, reader>>
    BY <1>1 DEF Rest
<1> QED
    BY <1>1, <1>3, <1>4, <1>5, <1>6, <1>7, <1>8, <1>9, WireMoves

LEMMA TimeoutInv ==
    ASSUME Inv, NEW c \in Conns, Timeout(c)
    PROVE  Inv'
<1> DEFINE w == IF conns[c].mine THEN Append(conns[c].wire, Ping) ELSE <<>>
<1>1. /\ Types /\ Owner /\ conns[c].wire \in Seq(Nat) /\ written \in Nat
      /\ OnlyHas(conns[c].wire, 0 .. written) /\ OnlyHas(queue, Queued)
    BY Sequences
<1>2. Append(conns[c].wire, Ping) = conns[c].wire \o <<Ping>> /\ <<Ping>> \in Seq(Nat)
      /\ Append(conns[c].wire, Ping) \in Seq(Nat)
    BY <1>1, AppendIs, Constants
<1>3. w \in Seq(Nat) /\ (~conns[c].mine => w = <<>>)
    BY <1>2
<1>4. OnlyHas(w, 0 .. written)
    <2>1. OnlyHas(<<Ping>>, 0 .. written) /\ OnlyHas(<<>>, 0 .. written)
        BY <1>1, OnlyHasOne, Constants
    <2>2. OnlyHas(conns[c].wire \o <<Ping>>, 0 .. written)
        BY <1>1, <1>2, <2>1, JoinOnlyHas
    <2> QED
        BY <1>2, <2>1, <2>2
<1>5. /\ queue' = queue /\ pings' \in 0 .. MaxPings
      /\ UNCHANGED <<kind, lines, task, written, stop, reader, uploads, known, closed, faults>>
      /\ Loop(c, w, stop \/ ~conns[c].mine)
    <2>1. pings \in 0 .. MaxPings /\ MaxPings \in Nat
        BY <1>1, Constants DEF Types
    <2>2. pings' \in 0 .. MaxPings
        BY <2>1 DEF Timeout
    <2> QED
        BY <2>2 DEF Timeout
<1>6. (stop \/ ~conns[c].mine) \in BOOLEAN
    OBVIOUS
<1>7. \A d \in Conns : /\ InLine(Fed("client"), conns[d].wire, queue)
                       /\ InLine(Fed("client"), Append(conns[d].wire, Ping), queue)
                       /\ InLine(Fed("client"), <<>>, queue)
    BY Sequences, LinePings, LineBreaks
<1>8. InLine(Fed("client"), w, queue)
    BY <1>7
<1> HIDE DEF w
<1>9. /\ conns' \in [Conns -> Conn] /\ conns'[c].wire = w
      /\ \A d \in Conns : d # c => conns'[d] = conns[d]
    BY <1>1, <1>3, <1>5, <1>6, LoopIs
<1>10. Owner'
    BY <1>1, <1>3, <1>5, <1>6, LoopOwner
<1>11. Types'
    BY <1>1, <1>5, <1>9 DEF Types, uploads
<1>12. \A d \in Conns : InLine(Fed("client"), conns'[d].wire, queue')
    BY <1>5, <1>7, <1>8, <1>9
<1>13. UNCHANGED <<Rest, reader>>
    BY <1>5 DEF Rest
<1> QED
    BY <1>1, <1>4, <1>5, <1>9, <1>10, <1>11, <1>12, <1>13, WireMoves
-----------------------------------------------------------------------------
(* The steps of the server's writer and of the client *)

LEMMA SvrWriteInv ==
    ASSUME Inv, SvrWrite
    PROVE  Inv'
<1> DEFINE x == written + 1
<1>1. /\ Types /\ Owner /\ queue \in Seq(Nat) /\ OnlyHas(queue, Queued) /\ NoPing
      /\ written \in Nat /\ written < MaxDown /\ MaxDown \in Nat /\ ~stop
      /\ Fed("client") \in Seq(Nat) /\ OnlyHas(Fed("client"), 0 .. written)
    BY Sequences, Constants DEF SvrWrite
<1>2. /\ written' = x /\ queue' = Append(queue, x) /\ x \in Nat
      /\ UNCHANGED <<kind, lines, task, conns, stop, pings, reader, uploads, known, closed, faults>>
    BY <1>1 DEF SvrWrite
<1>3. Append(queue, x) = queue \o <<x>> /\ Append(queue, x) \in Seq(Nat) /\ <<x>> \in Seq(Nat)
    BY <1>1, <1>2, AppendIs
<1>4. /\ 0 .. written \subseteq 0 .. x /\ 1 .. written \subseteq 1 .. x /\ 1 .. written \subseteq 0 .. written
      /\ x \in 1 .. x /\ written < x /\ x \in 0 .. MaxDown
    BY <1>1
<1> HIDE DEF x
<1>5. Types'
    BY <1>1, <1>2, <1>3, <1>4 DEF Types, uploads
<1>6. Owner'
    BY <1>1, <1>2 DEF Owner
<1>7. Fed("client")' = Fed("client")
    BY <1>2 DEF Fed
<1>8. Values'
    <2>1. OnlyHas(queue, 1 .. x) /\ OnlyHas(<<x>>, 1 .. x)
        BY <1>1, <1>4, OnlyHasMore, OnlyHasOne DEF Queued
    <2>2. OnlyHas(queue', 1 .. x)
        BY <1>1, <1>2, <1>3, <2>1, JoinOnlyHas
    <2>3. OnlyHas(queue', Queued')
        BY <1>1, <1>2, <2>2 DEF Queued
    <2>4. OnlyHas(Fed("client")', 0 .. x)
        BY <1>1, <1>4, <1>7, OnlyHasMore
    <2>5. \A c \in Conns : OnlyHas(conns[c].wire, 0 .. x)
        BY <1>4, Sequences, OnlyHasMore
    <2> QED
        BY <1>2, <2>3, <2>4, <2>5 DEF Values
<1>9. Line'
    <2>1. ASSUME NEW c \in Conns PROVE InLine(Fed("client"), conns[c].wire, Append(queue, x))
        <3>1. /\ Under(Fed("client"), written) /\ Under(conns[c].wire, written)
            BY Sequences, OnlyHasUnder
        <3>2. Under(queue, written)
            <4>1. OnlyHas(queue, 0 .. written)
                BY <1>1, <1>4, OnlyHasMore DEF Queued
            <4> QED
                BY <1>1, <4>1, OnlyHasUnder
        <3> QED
            BY <1>1, <1>2, <1>4, <3>1, <3>2, Sequences, LineGrows
    <2> QED
        BY <1>2, <1>7, <2>1 DEF Line
<1>10. NoPing'
    BY <1>1, <1>2, <1>7 DEF NoPing
<1> QED
    BY <1>5, <1>6, <1>8, <1>9, <1>10 DEF Inv

LEMMA SvrCloseInv ==
    ASSUME Inv, SvrClose
    PROVE  Inv'
<1>1. /\ Types /\ Owner /\ queue \in Seq(Nat) /\ OnlyHas(queue, Queued) /\ NoPing
      /\ written \in Nat /\ written <= MaxDown /\ MaxDown \in Nat /\ ~stop
      /\ Fed("client") \in Seq(Nat) /\ OnlyHas(Fed("client"), 0 .. written)
    BY Sequences, Constants DEF SvrClose
<1>2. /\ stop' = TRUE /\ queue' = Append(queue, End) /\ End \in Nat
      /\ UNCHANGED <<kind, lines, task, conns, written, pings, reader, uploads, known, closed, faults>>
    BY <1>1, Constants DEF SvrClose
<1>3. /\ Append(queue, End) = queue \o <<End>> /\ Append(queue, End) \in Seq(Nat)
      /\ <<End>> \in Seq(Nat)
    BY <1>1, <1>2, AppendIs
<1>4. 1 .. written \subseteq 0 .. written /\ written < End
    BY <1>1, Constants
<1>5. Types'
    BY <1>1, <1>2, <1>3 DEF Types, uploads
<1>6. Owner'
    BY <1>1, <1>2 DEF Owner
<1>7. Fed("client")' = Fed("client")
    BY <1>2 DEF Fed
<1>8. Values'
    <2> DEFINE S == 1 .. written \cup {End}
    <2>1. OnlyHas(queue, S) /\ OnlyHas(<<End>>, S)
        BY <1>1, OnlyHasMore, OnlyHasOne DEF Queued
    <2>2. OnlyHas(queue', S)
        BY <1>1, <1>2, <1>3, <2>1, JoinOnlyHas
    <2>3. Queued' = S
        BY <1>2 DEF Queued
    <2> HIDE DEF S
    <2>4. OnlyHas(queue', Queued')
        BY <2>2, <2>3
    <2>5. \A c \in Conns : OnlyHas(conns'[c].wire, 0 .. written')
        BY <1>2, Sequences
    <2>6. OnlyHas(Fed("client")', 0 .. written')
        BY <1>1, <1>2, <1>7
    <2> QED
        BY <2>4, <2>5, <2>6 DEF Values
<1>9. Line'
    <2>1. ASSUME NEW c \in Conns PROVE InLine(Fed("client"), conns[c].wire, Append(queue, End))
        <3>1. Under(Fed("client"), written) /\ Under(conns[c].wire, written)
            BY Sequences, OnlyHasUnder
        <3>2. Under(queue, written)
            <4>1. OnlyHas(queue, 0 .. written)
                BY <1>1, <1>4, OnlyHasMore DEF Queued
            <4> QED
                BY <1>1, <4>1, OnlyHasUnder
        <3> QED
            BY <1>1, <1>2, <1>4, <3>1, <3>2, Sequences, LineGrows
    <2> QED
        BY <1>2, <1>7, <2>1 DEF Line
<1>10. NoPing'
    BY <1>1, <1>2, <1>7 DEF NoPing
<1> QED
    BY <1>5, <1>6, <1>8, <1>9, <1>10 DEF Inv

\* Wires and the queue may be lost: what is fed stays.
LEMMA LossInv ==
    ASSUME Inv, Types', Owner', UNCHANGED <<kind, written, stop>>,
           Fed("client")' = Fed("client"),
           queue' = queue \/ queue' = <<>>,
           \A c \in Conns : conns'[c].wire = conns[c].wire \/ conns'[c].wire = <<>>
    PROVE  Inv'
<1>1. 0 \in 0 .. written /\ 1 \in Conns
    BY Sequences, Constants
<1>2. OnlyHas(<<>>, 0 .. written) /\ OnlyHas(<<>>, Queued)
    <2>1. OnlyHas(<<>>, Queued)
        BY DEF OnlyHas
    <2> QED
        BY <1>1, <2>1, OnlyHasOne
<1>3. Values'
    <2>1. OnlyHas(queue', Queued')
        <3>1. Queued' = Queued
            BY DEF Queued
        <3>2. OnlyHas(queue, Queued)
            BY DEF Inv, Values
        <3> QED
            BY <1>2, <3>1, <3>2
    <2>2. \A c \in Conns : OnlyHas(conns'[c].wire, 0 .. written')
        BY <1>2 DEF Inv, Values
    <2>3. OnlyHas(Fed("client")', 0 .. written')
        BY DEF Inv, Values
    <2> QED
        BY <2>1, <2>2, <2>3 DEF Values
<1>4. Line'
    <2>1. ASSUME NEW c \in Conns
          PROVE  InLine(Fed("client"), conns'[c].wire, queue')
        <3>1. /\ InLine(Fed("client"), conns[c].wire, queue) /\ InLine(Fed("client"), <<>>, queue)
              /\ InLine(Fed("client"), conns[c].wire, <<>>) /\ InLine(Fed("client"), <<>>, <<>>)
            BY Sequences, LineBreaks
        <3> QED
            BY <3>1
    <2> QED
        BY <2>1 DEF Line
<1>5. NoPing'
    BY DEF Inv, NoPing
<1> QED
    BY <1>3, <1>4, <1>5 DEF Inv

\* The client takes a from the front of its wire and feeds it, or drops it.
LEMMA ReceiveInv ==
    ASSUME Inv, Types', Owner', UNCHANGED <<kind, written, stop, queue>>,
           NEW c \in Conns, conns[c].mine,
           NEW a \in Seq(Nat), NEW b \in Seq(Nat), conns[c].wire = a \o b, conns'[c].wire = b,
           \A d \in Conns : d # c => conns'[d] = conns[d],
           \/ Fed("client")' = Fed("client")
           \/ Fed("client")' = Fed("client") \o a /\ (kind = "sse" => ~Has(a, Ping))
    PROVE  Inv'
<1> DEFINE f == Fed("client")
<1>1. /\ f \in Seq(Nat) /\ queue \in Seq(Nat) /\ InLine(f, a \o b, queue)
      /\ OnlyHas(conns[c].wire, 0 .. written) /\ OnlyHas(f, 0 .. written) /\ NoPing
      /\ OnlyHas(queue, Queued)
    BY Sequences
<1>2. InLine(f \o a, b, queue) /\ InLine(f, b, queue)
    BY <1>1, LineFed
<1>3. InLine(f \o a, <<>>, queue) /\ InLine(f, <<>>, queue) /\ f \o a \in Seq(Nat)
    <2>1. f \o a \in Seq(Nat)
        BY <1>1
    <2> QED
        BY <1>1, <1>2, <2>1, LineBreaks
<1>4. OnlyHas(a, 0 .. written) /\ OnlyHas(b, 0 .. written)
    BY <1>1, JoinOnlyHas
<1>5. OnlyHas(f \o a, 0 .. written)
    BY <1>1, <1>4, JoinOnlyHas
<1>6. \A d \in Conns : d # c => conns'[d].wire = <<>>
    BY DEF Inv, Owner
<1>7. f' = f \/ (f' = f \o a /\ (kind = "sse" => ~Has(a, Ping)))
    OBVIOUS
<1>8. kind = "sse" /\ ~Has(a, Ping) => ~Has(f \o a, Ping)
    BY <1>1, JoinHas DEF NoPing
<1> HIDE DEF f
<1>9. Values'
    <2>1. OnlyHas(queue', Queued')
        <3>1. Queued' = Queued
            BY DEF Queued
        <3> QED
            BY <1>1, <3>1
    <2>2. \A d \in Conns : OnlyHas(conns'[d].wire, 0 .. written')
        BY <1>4 DEF Inv, Values
    <2>3. OnlyHas(f', 0 .. written')
        BY <1>1, <1>5, <1>7
    <2> QED
        BY <2>1, <2>2, <2>3 DEF Values, f
<1>10. Line'
    <2>1. \A d \in Conns : InLine(f', conns'[d].wire, queue')
        BY <1>2, <1>3, <1>6, <1>7
    <2> QED
        BY <2>1 DEF Line, f
<1>11. NoPing'
    BY <1>1, <1>7, <1>8 DEF NoPing, f
<1> QED
    BY <1>9, <1>10, <1>11 DEF Inv
-----------------------------------------------------------------------------
(* The client's receiving task *)

\* Responses of the client and slots that are free.
LEMMA FreeIs ==
    /\ Free \in Conn /\ Free.wire = <<>> /\ Free.mine = FALSE /\ Free.pc = "free"
    /\ [Free EXCEPT !.pc = "sent", !.mine = TRUE] \in Conn
    /\ [Free EXCEPT !.pc = "sent", !.mine = TRUE].wire = <<>>
    /\ [Free EXCEPT !.pc = "sent", !.mine = TRUE].mine = TRUE
    /\ [Free EXCEPT !.pc = "sent", !.mine = TRUE].pc = "sent"
<1>1. Free \in Conn
    BY DEF Free, Conn
<1>2. /\ [Free EXCEPT !.pc = "sent", !.mine = TRUE] \in Conn
      /\ [Free EXCEPT !.pc = "sent", !.mine = TRUE].wire = <<>>
      /\ [Free EXCEPT !.pc = "sent", !.mine = TRUE].mine = TRUE
      /\ [Free EXCEPT !.pc = "sent", !.mine = TRUE].pc = "sent"
    <2>1. \A r \in Conn : /\ [r EXCEPT !.pc = "sent", !.mine = TRUE] \in Conn
                          /\ [r EXCEPT !.pc = "sent", !.mine = TRUE].wire = r.wire
                          /\ [r EXCEPT !.pc = "sent", !.mine = TRUE].mine = TRUE
                          /\ [r EXCEPT !.pc = "sent", !.mine = TRUE].pc = "sent"
        BY DEF Conn
    <2>2. Free.wire = <<>>
        BY DEF Free
    <2> QED
        BY <1>1, <2>1, <2>2
<1> QED
    BY <1>1, <1>2 DEF Free

\* Nobody's wire but the client's holds anything, also when a response is lost.
LEMMA Unchanged ==
    ASSUME Inv, Types', UNCHANGED <<kind, task, written, stop>>,
           Fed("client")' = Fed("client"), UNCHANGED <<conns, queue>>
    PROVE  Inv'
<1>1. Owner'
    BY DEF Inv, Owner
<1> QED
    BY <1>1, LossInv

LEMMA AskInv ==
    ASSUME Inv, Ask
    PROVE  Inv'
<1>1. PICK c \in Conns :
          /\ conns[c].pc = "free"
          /\ conns' = [conns EXCEPT ![c] = [Free EXCEPT !.pc = "sent", !.mine = TRUE]]
    BY DEF Ask
<1>2. /\ Types /\ Owner /\ task = "ask" /\ task' = "reading"
      /\ UNCHANGED <<kind, lines, down, reader, uploads, known, closed, faults>>
    BY DEF Inv, Ask
<1>3. /\ conns' \in [Conns -> Conn] /\ conns'[c].mine = TRUE /\ conns'[c].wire = <<>>
      /\ \A d \in Conns : d # c => conns'[d] = conns[d]
    BY <1>1, <1>2, FreeIs DEF Types
<1>4. Types'
    BY <1>2, <1>3 DEF Types, down, uploads
<1>5. \A d \in Conns : ~conns[d].mine
    BY <1>2 DEF Owner
<1>6. Owner'
    BY <1>2, <1>3, <1>5 DEF Owner
<1>7. \A d \in Conns : conns'[d].wire = conns[d].wire \/ conns'[d].wire = <<>>
    BY <1>3
<1>8. /\ Fed("client")' = Fed("client") /\ queue' = queue
      /\ UNCHANGED <<kind, written, stop>>
    BY <1>2 DEF Fed, down
<1> QED
    BY <1>4, <1>6, <1>7, <1>8, LossInv

\* The client takes the front of its wire.
LEMMA WireTaken ==
    ASSUME Types, Owner, NEW c \in Conns, conns[c].mine, NEW b \in Seq(Nat), task' = task,
           conns' = [conns EXCEPT ![c].wire = b]
    PROVE  /\ conns' \in [Conns -> Conn] /\ conns'[c].wire = b /\ conns'[c].mine
           /\ \A d \in Conns : conns'[d].pc = conns[d].pc /\ conns'[d].mine = conns[d].mine
           /\ \A d \in Conns : d # c => conns'[d] = conns[d]
           /\ Owner'
<1>1. \A r \in Conn : /\ [r EXCEPT !.wire = b] \in Conn
                      /\ [r EXCEPT !.wire = b].wire = b
                      /\ [r EXCEPT !.wire = b].mine = r.mine
                      /\ [r EXCEPT !.wire = b].pc = r.pc
    BY DEF Conn
<1>2. conns[c] \in Conn
    BY DEF Types
<1>3. conns'[c] = [conns[c] EXCEPT !.wire = b]
    BY DEF Types
<1>4. \A d \in Conns : d # c => conns'[d] = conns[d]
    BY DEF Types
<1>5. conns' = [conns EXCEPT ![c] = conns'[c]]
    BY <1>3
<1>6. /\ conns'[c] \in Conn /\ conns'[c].wire = b /\ conns'[c].mine = conns[c].mine
      /\ conns'[c].pc = conns[c].pc
    BY <1>1, <1>2, <1>3
<1>7. conns' \in [Conns -> Conn]
    BY <1>5, <1>6 DEF Types
<1>8. Owner'
    <2>1. \A d \in Conns : conns'[d].mine = conns[d].mine
        BY <1>4, <1>6
    <2>2. \A d \in Conns : ~conns'[d].mine => conns'[d].wire = <<>>
        BY <1>4, <1>6 DEF Owner
    <2> QED
        BY <2>1, <2>2 DEF Owner
<1> QED
    BY <1>4, <1>6, <1>7, <1>8

LEMMA SseReceiveInv ==
    ASSUME Inv, NEW c \in Conns, SseReceive(c)
    PROVE  Inv'
<1> DEFINE w == conns[c].wire
           a == <<Head(w)>>
           b == Tail(w)
           s == IF Head(w) = Ping THEN <<>> ELSE a
<1>1. w \in Seq(Nat) /\ Types /\ Owner /\ w # <<>> /\ conns[c].mine /\ kind = "sse"
    BY Sequences DEF SseReceive
<1>2. w = a \o b /\ a \in Seq(Nat) /\ b \in Seq(Nat) /\ s \in Seq(Nat) /\ Head(w) \in Nat
    BY <1>1, HeadAndTail
<1>3. /\ Feed("client", s) /\ conns' = [conns EXCEPT ![c].wire = b]
      /\ UNCHANGED <<kind, lines, task, down, uploads, known, closed, faults>>
    BY DEF SseReceive
<1>4. /\ reader' \in [Sides -> Stream] /\ Fed("client")' = Fed("client") \o s
      /\ Fed("client") \in Seq(Nat)
    BY <1>1, <1>2, <1>3, FeedIs, Constants
<1>5. /\ conns' \in [Conns -> Conn] /\ conns'[c].wire = b
      /\ \A d \in Conns : d # c => conns'[d] = conns[d]
      /\ Owner'
    BY <1>1, <1>2, <1>3, WireTaken
<1>6. Types'
    BY <1>1, <1>3, <1>4, <1>5 DEF Types, down, uploads
<1>7. \/ Fed("client")' = Fed("client")
      \/ Fed("client")' = Fed("client") \o a /\ (kind = "sse" => ~Has(a, Ping))
    <2>1. CASE Head(w) = Ping
        BY <1>4, <2>1, ConcatEmptySeq
    <2>2. CASE Head(w) # Ping
        <3>1. ~Has(a, Ping)
            BY <1>2, <2>2, Single
        <3> QED
            BY <1>4, <2>2, <3>1
    <2> QED
        BY <2>1, <2>2
<1>8. UNCHANGED <<kind, written, stop, queue>>
    BY <1>3 DEF down
<1> HIDE DEF a, b, s
<1> QED
    BY <1>1, <1>2, <1>5, <1>6, <1>7, <1>8, ReceiveInv

LEMMA BodyReceiveInv ==
    ASSUME Inv, NEW c \in Conns, BodyReceive(c)
    PROVE  Inv'
<1> DEFINE w == conns[c].wire
           n == LineEnd(w)
           a == SubSeq(w, 1, n)
           b == SubSeq(w, n + 1, Len(w))
<1>1. w \in Seq(Nat) /\ Types /\ Owner /\ conns[c].mine /\ kind = "body" /\ HasLine(w)
    BY Sequences DEF BodyReceive
<1>2. n \in 0 .. Len(w)
    BY <1>1, LineEndIs
<1>3. /\ Feed("client", a) /\ conns' = [conns EXCEPT ![c].wire = SubSeq(@, n + 1, Len(@))]
      /\ UNCHANGED <<kind, lines, task, down, uploads, known, closed, faults>>
    BY DEF BodyReceive
<1>4. conns' = [conns EXCEPT ![c].wire = b]
    BY <1>3
<1> HIDE DEF n
<1>5. w = a \o b /\ a \in Seq(Nat) /\ b \in Seq(Nat)
    BY <1>1, <1>2, Parts, PartsJoin
<1>6. /\ reader' \in [Sides -> Stream] /\ Fed("client")' = Fed("client") \o a
    BY <1>1, <1>3, <1>5, FeedIs, Constants
<1>7. /\ conns' \in [Conns -> Conn] /\ conns'[c].wire = b
      /\ \A d \in Conns : d # c => conns'[d] = conns[d]
      /\ Owner'
    BY <1>1, <1>3, <1>4, <1>5, WireTaken
<1>8. Types'
    BY <1>1, <1>3, <1>6, <1>7 DEF Types, down, uploads
<1>9. UNCHANGED <<kind, written, stop, queue>> /\ kind # "sse"
    BY <1>1, <1>3 DEF down
<1> HIDE DEF a, b
<1> QED
    BY <1>1, <1>5, <1>6, <1>7, <1>8, <1>9, ReceiveInv

\* The client's response is gone and its task does something else.
LEMMA FreedOwner ==
    ASSUME Types, Owner, NEW c \in Conns, conns[c].mine,
           conns' \in [Conns -> Conn],
           ~conns'[c].mine, conns'[c].wire = <<>>,
           \A d \in Conns : d # c => conns'[d] = conns[d],
           task' # "reading"
    PROVE  Owner'
BY DEF Owner

LEMMA SseEndsInv ==
    ASSUME Inv, NEW c \in Conns, SseEnds(c)
    PROVE  Inv'
<1>1. /\ Types /\ Owner /\ conns[c].mine /\ conns' = [conns EXCEPT ![c] = Free] /\ task' = "ask"
      /\ UNCHANGED <<kind, lines, down, reader, uploads, known, closed, faults>>
    BY DEF Inv, SseEnds
<1>2. /\ conns' \in [Conns -> Conn] /\ conns'[c] = Free
      /\ \A d \in Conns : d # c => conns'[d] = conns[d]
    BY <1>1, FreeIs DEF Types
<1>3. Owner'
    BY <1>1, <1>2, FreeIs, FreedOwner
<1>4. Types'
    BY <1>1, <1>2 DEF Types, down, uploads
<1>5. \A d \in Conns : conns'[d].wire = conns[d].wire \/ conns'[d].wire = <<>>
    BY <1>2, FreeIs
<1>6. /\ Fed("client")' = Fed("client") /\ queue' = queue /\ UNCHANGED <<kind, written, stop>>
    BY <1>1 DEF Fed, down
<1> QED
    BY <1>3, <1>4, <1>5, <1>6, LossInv

LEMMA BodyEndsInv ==
    ASSUME Inv, NEW c \in Conns, BodyEnds(c)
    PROVE  Inv'
<1> DEFINE w == conns[c].wire
           s == IF w = <<Ping>> THEN <<>> ELSE w
<1>1. w \in Seq(Nat) /\ Types /\ Owner /\ conns[c].mine /\ kind = "body" /\ s \in Seq(Nat)
    BY Sequences DEF BodyEnds
<1>2. /\ FeedEnd("client", s) /\ conns' = [conns EXCEPT ![c] = Free] /\ task' = "off"
      /\ UNCHANGED <<kind, lines, down, uploads, known, closed, faults>>
    BY DEF BodyEnds
<1>3. /\ reader' \in [Sides -> Stream] /\ Fed("client")' = Fed("client") \o s
      /\ Fed("client") \in Seq(Nat)
    BY <1>1, <1>2, FeedIs, Constants
<1>4. /\ conns' \in [Conns -> Conn] /\ conns'[c] = Free
      /\ \A d \in Conns : d # c => conns'[d] = conns[d]
    BY <1>1, <1>2, FreeIs DEF Types
<1>5. Owner'
    BY <1>1, <1>2, <1>4, FreeIs, FreedOwner
<1>6. Types'
    BY <1>1, <1>2, <1>3, <1>4 DEF Types, down, uploads
<1>7. \/ Fed("client")' = Fed("client")
      \/ Fed("client")' = Fed("client") \o w
    <2>1. CASE w = <<Ping>>
        BY <1>3, <2>1, ConcatEmptySeq
    <2>2. CASE w # <<Ping>>
        BY <1>3, <2>2
    <2> QED
        BY <2>1, <2>2
<1>8. w = w \o <<>> /\ <<>> \in Seq(Nat) /\ conns'[c].wire = <<>>
    BY <1>1, <1>4, FreeIs, ConcatEmptySeq
<1>9. UNCHANGED <<kind, written, stop, queue>> /\ kind # "sse"
    BY <1>1, <1>2 DEF down
<1> HIDE DEF s
<1> QED
    BY <1>1, <1>4, <1>5, <1>6, <1>7, <1>8, <1>9, ReceiveInv
-----------------------------------------------------------------------------
(* Failures, closes and restarts *)

\* A response the client gives up.
LEMMA AbandonIs ==
    ASSUME Types, NEW c \in Conns
    PROVE  /\ Abandon(c) \in [Conns -> Conn]
           /\ Abandon(c)[c].wire = <<>> /\ Abandon(c)[c].mine = FALSE
           /\ Abandon(c)[c].pc = IF conns[c].pc = "over" THEN "free" ELSE conns[c].pc
           /\ \A d \in Conns : d # c => Abandon(c)[d] = conns[d]
<1>1. \A r \in Conn : /\ [r EXCEPT !.mine = FALSE, !.wire = <<>>] \in Conn
                      /\ [r EXCEPT !.mine = FALSE, !.wire = <<>>].wire = <<>>
                      /\ [r EXCEPT !.mine = FALSE, !.wire = <<>>].mine = FALSE
                      /\ [r EXCEPT !.mine = FALSE, !.wire = <<>>].pc = r.pc
    <2>1. \A r \in Conn, w \in Seq(Nat) :
              /\ [r EXCEPT !.mine = FALSE, !.wire = w] \in Conn
              /\ [r EXCEPT !.mine = FALSE, !.wire = w].wire = w
              /\ [r EXCEPT !.mine = FALSE, !.wire = w].mine = FALSE
              /\ [r EXCEPT !.mine = FALSE, !.wire = w].pc = r.pc
        BY DEF Conn
    <2>2. <<>> \in Seq(Nat)
        OBVIOUS
    <2> QED
        BY <2>1, <2>2
<1>2. conns[c] \in Conn /\ <<>> \in Seq(Nat)
    BY DEF Types
<1>3. /\ Abandon(c)[c] = IF conns[c].pc = "over" THEN Free
                         ELSE [conns[c] EXCEPT !.mine = FALSE, !.wire = <<>>]
      /\ \A d \in Conns : d # c => Abandon(c)[d] = conns[d]
      /\ Abandon(c) = [conns EXCEPT ![c] = Abandon(c)[c]]
    BY DEF Abandon, Types
<1>4. /\ Abandon(c)[c] \in Conn
      /\ Abandon(c)[c].wire = <<>> /\ Abandon(c)[c].mine = FALSE
      /\ Abandon(c)[c].pc = IF conns[c].pc = "over" THEN "free" ELSE conns[c].pc
    <2>1. CASE conns[c].pc = "over"
        BY <1>3, <2>1, FreeIs
    <2>2. CASE conns[c].pc # "over"
        <3>1. Abandon(c)[c] = [conns[c] EXCEPT !.mine = FALSE, !.wire = <<>>]
            BY <1>3, <2>2
        <3>2. /\ [conns[c] EXCEPT !.mine = FALSE, !.wire = <<>>] \in Conn
              /\ [conns[c] EXCEPT !.mine = FALSE, !.wire = <<>>].wire = <<>>
              /\ [conns[c] EXCEPT !.mine = FALSE, !.wire = <<>>].mine = FALSE
              /\ [conns[c] EXCEPT !.mine = FALSE, !.wire = <<>>].pc = conns[c].pc
            BY <1>1, <1>2
        <3> QED
            BY <2>2, <3>1, <3>2
    <2> QED
        BY <2>1, <2>2
<1>5. Abandon(c) \in [Conns -> Conn]
    BY <1>3, <1>4 DEF Types
<1> QED
    BY <1>3, <1>4, <1>5

LEMMA BreakInv ==
    ASSUME Inv, NEW c \in Conns, Break(c)
    PROVE  Inv'
<1>1. /\ Types /\ Owner /\ conns[c].mine /\ conns' = Abandon(c) /\ faults' \in 0 .. MaxFaults
      /\ task' \in {"asleep", "off"}
      /\ UNCHANGED <<kind, lines, down, uploads, known, closed>>
      /\ reader' = reader \/ FeedEnd("client", <<>>)
    <2>1. faults' \in 0 .. MaxFaults
        BY Constants DEF Break, Inv, Types
    <2> QED
        BY <2>1 DEF Inv, Break
<1>2. /\ reader' \in [Sides -> Stream] /\ Fed("client")' = Fed("client")
    <2>1. CASE reader' = reader
        BY <1>1, <2>1 DEF Fed, Types
    <2>2. CASE FeedEnd("client", <<>>)
        <3>1. <<>> \in Seq(Nat)
            OBVIOUS
        <3>2. /\ reader' \in [Sides -> Stream] /\ Fed("client")' = Fed("client") \o <<>>
              /\ Fed("client") \in Seq(Nat)
            BY <1>1, <2>2, <3>1, FeedIs, Constants
        <3> QED
            BY <3>2, ConcatEmptySeq
    <2> QED
        BY <1>1, <2>1, <2>2
<1>3. /\ conns' \in [Conns -> Conn] /\ conns'[c].wire = <<>> /\ ~conns'[c].mine
      /\ \A d \in Conns : d # c => conns'[d] = conns[d]
    BY <1>1, AbandonIs
<1>4. Owner'
    BY <1>1, <1>3, FreedOwner
<1>5. Types'
    BY <1>1, <1>2, <1>3 DEF Types, down, uploads
<1>6. \A d \in Conns : conns'[d].wire = conns[d].wire \/ conns'[d].wire = <<>>
    BY <1>3
<1>7. queue' = queue /\ UNCHANGED <<kind, written, stop>>
    BY <1>1 DEF down
<1> QED
    BY <1>2, <1>4, <1>5, <1>6, <1>7, LossInv

LEMMA VanishInv ==
    ASSUME Inv, NEW c \in Conns, Vanish(c)
    PROVE  Inv'
<1>1. /\ Types /\ Owner /\ ~conns[c].mine /\ conns' = [conns EXCEPT ![c] = Free]
      /\ UNCHANGED <<kind, lines, task, down, reader, uploads, known, closed, faults>>
    BY DEF Inv, Vanish
<1>2. /\ conns' \in [Conns -> Conn] /\ conns'[c] = Free
      /\ \A d \in Conns : d # c => conns'[d] = conns[d]
    BY <1>1, FreeIs DEF Types
<1>3. Owner'
    BY <1>1, <1>2, FreeIs DEF Owner
<1>4. Types'
    BY <1>1, <1>2 DEF Types, down, uploads
<1>5. \A d \in Conns : conns'[d].wire = conns[d].wire \/ conns'[d].wire = <<>>
    BY <1>2, FreeIs
<1>6. /\ Fed("client")' = Fed("client") /\ queue' = queue /\ UNCHANGED <<kind, written, stop>>
    BY <1>1 DEF Fed, down
<1> QED
    BY <1>3, <1>4, <1>5, <1>6, LossInv

\* The client closes: it is without a response.
LEMMA CloseIs ==
    ASSUME Types, conns' = [c \in Conns |-> IF conns[c].mine THEN Abandon(c)[c] ELSE conns[c]]
    PROVE  /\ conns' \in [Conns -> Conn]
           /\ \A c \in Conns : /\ conns[c].mine => /\ conns'[c].wire = <<>> /\ ~conns'[c].mine
                                                   /\ conns'[c] = Abandon(c)[c]
                               /\ ~conns[c].mine => conns'[c] = conns[c]
<1>1. \A c \in Conns : conns'[c] = IF conns[c].mine THEN Abandon(c)[c] ELSE conns[c]
    OBVIOUS
<1>2. \A c \in Conns : /\ Abandon(c)[c] \in Conn /\ Abandon(c)[c].wire = <<>>
                       /\ Abandon(c)[c].mine = FALSE
    BY AbandonIs
<1>3. \A c \in Conns : conns'[c] \in Conn
    BY <1>1, <1>2 DEF Types
<1> QED
    BY <1>1, <1>2, <1>3

LEMMA CloseOwner ==
    ASSUME Types, Owner, task' = "off",
           conns' = [c \in Conns |-> IF conns[c].mine THEN Abandon(c)[c] ELSE conns[c]]
    PROVE  Owner'
<1>1. \A c \in Conns : ~conns'[c].mine
    BY CloseIs
<1>2. \A c \in Conns : conns'[c].wire = <<>>
    BY CloseIs DEF Owner
<1> QED
    BY <1>1, <1>2 DEF Owner

LEMMA CloseInv ==
    ASSUME Inv, SseClose \/ BodyClose, late' \subseteq UpData
    PROVE  Inv'
<1>1. /\ Types /\ Owner /\ task' = "off" /\ closed' = TRUE
      /\ conns' = [c \in Conns |-> IF conns[c].mine THEN Abandon(c)[c] ELSE conns[c]]
      /\ UNCHANGED <<kind, lines, down, reader, ubuf, up, known, faults>>
      /\ post' \in Seq(Nat)
    <2>1. CASE SseClose
        BY <2>1 DEF Inv, Types, SseClose
    <2>2. CASE BodyClose
        BY <2>2 DEF Inv, Types, BodyClose, uploads
    <2> QED
        BY <2>1, <2>2
<1>2. conns' \in [Conns -> Conn]
    BY <1>1, CloseIs
<1>3. Owner'
    BY <1>1, CloseOwner
<1>4. Types'
    BY <1>1, <1>2 DEF Types, down
<1>5. \A d \in Conns : conns'[d].wire = conns[d].wire \/ conns'[d].wire = <<>>
    BY <1>1, CloseIs
<1>6. /\ Fed("client")' = Fed("client") /\ queue' = queue /\ UNCHANGED <<kind, written, stop>>
    BY <1>1 DEF Fed, down
<1> QED
    BY <1>3, <1>4, <1>5, <1>6, LossInv

\* The server's handlers are gone; a client whose response breaks is told.
LEMMA RestartIs ==
    ASSUME Types, Restart
    PROVE  /\ conns' \in [Conns -> Conn]
           /\ \A c \in Conns : /\ conns[c].pc = "get" => conns'[c] = Free
                               /\ conns[c].pc # "get" => conns'[c] = conns[c]
           /\ \/ reader' = reader
              \/ FeedEnd("client", <<>>)
           /\ (\E c \in Conns : conns[c].mine /\ conns[c].pc = "get")
                   => task' \in {"asleep", "off"}
           /\ ~(\E c \in Conns : conns[c].mine /\ conns[c].pc = "get") => task' = task
           /\ kind = "body" /\ task # "off" /\ task' # "off" => task' = task
           /\ faults' = faults + 1 /\ faults' \in 0 .. MaxFaults /\ queue' = <<>> /\ known' = FALSE
           /\ UNCHANGED <<kind, lines, written, stop, pings, uploads, closed>>
<1>1. conns' = [c \in Conns |-> IF conns[c].pc = "get" THEN Free ELSE conns[c]]
    BY DEF Restart
<1>2. \A c \in Conns : /\ conns[c].pc = "get" => conns'[c] = Free
                       /\ conns[c].pc # "get" => conns'[c] = conns[c]
    BY <1>1
<1>3. \A c \in Conns : conns'[c] \in Conn
    BY <1>2, FreeIs DEF Types
<1>4. conns' \in [Conns -> Conn]
    BY <1>1, <1>3
<1>5. faults' \in 0 .. MaxFaults
    BY Constants DEF Restart, Types
<1>6. /\ \/ reader' = reader
         \/ FeedEnd("client", <<>>)
      /\ (\E c \in Conns : conns[c].mine /\ conns[c].pc = "get") => task' \in {"asleep", "off"}
      /\ ~(\E c \in Conns : conns[c].mine /\ conns[c].pc = "get") => task' = task
      /\ kind = "body" /\ task # "off" /\ task' # "off" => task' = task
    BY DEF Restart
<1> QED
    BY <1>2, <1>4, <1>5, <1>6 DEF Restart

LEMMA RestartInv ==
    ASSUME Inv, Restart
    PROVE  Inv'
<1>1. /\ Types /\ Owner
      /\ conns' \in [Conns -> Conn]
      /\ \A c \in Conns : /\ conns[c].pc = "get" => conns'[c] = Free
                          /\ conns[c].pc # "get" => conns'[c] = conns[c]
      /\ \/ reader' = reader
         \/ FeedEnd("client", <<>>)
      /\ (\E c \in Conns : conns[c].mine /\ conns[c].pc = "get") => task' \in {"asleep", "off"}
      /\ ~(\E c \in Conns : conns[c].mine /\ conns[c].pc = "get") => task' = task
      /\ faults' \in 0 .. MaxFaults /\ queue' = <<>> /\ known' = FALSE
      /\ UNCHANGED <<kind, lines, written, stop, pings, uploads, closed>>
    BY RestartIs DEF Inv
<1>2. reader' \in [Sides -> Stream] /\ Fed("client")' = Fed("client")
    <2>1. CASE reader' = reader
        BY <1>1, <2>1 DEF Fed, Types
    <2>2. CASE FeedEnd("client", <<>>)
        <3>1. <<>> \in Seq(Nat)
            OBVIOUS
        <3>2. /\ reader' \in [Sides -> Stream] /\ Fed("client")' = Fed("client") \o <<>>
              /\ Fed("client") \in Seq(Nat)
            BY <1>1, <2>2, <3>1, FeedIs, Constants
        <3> QED
            BY <3>2, ConcatEmptySeq
    <2> QED
        BY <1>1, <2>1, <2>2
<1>3. task' \in {"ask", "reading", "asleep", "off"} /\ <<>> \in Seq(Nat)
    <2>1. task' = task \/ task' \in {"asleep", "off"}
        BY <1>1
    <2> QED
        BY <1>1, <2>1 DEF Types
<1>4. Types'
    BY <1>1, <1>2, <1>3 DEF Types, uploads
<1>5. \A c \in Conns : conns'[c].mine => conns[c].mine /\ conns[c].pc # "get"
    BY <1>1, FreeIs
<1>6. Owner'
    <2>1. task' = "reading" <=> \E c \in Conns : conns'[c].mine
        <3>1. CASE \E c \in Conns : conns[c].mine /\ conns[c].pc = "get"
            <4>1. task' # "reading"
                BY <1>1, <3>1
            <4>2. ~ \E c \in Conns : conns'[c].mine
                BY <1>5, <3>1 DEF Owner, Inv
            <4> QED
                BY <4>1, <4>2
        <3>2. CASE ~ \E c \in Conns : conns[c].mine /\ conns[c].pc = "get"
            <4>1. task' = task /\ \A c \in Conns : conns[c].mine => conns'[c] = conns[c]
                BY <1>1, <3>2
            <4> QED
                BY <1>1, <1>5, <4>1 DEF Owner
        <3> QED
            BY <3>1, <3>2
    <2>2. \A c, d \in Conns : conns'[c].mine /\ conns'[d].mine => c = d
        BY <1>1, <1>5 DEF Owner
    <2>3. \A c \in Conns : ~conns'[c].mine => conns'[c].wire = <<>>
        BY <1>1, FreeIs DEF Owner
    <2> QED
        BY <2>1, <2>2, <2>3 DEF Owner
<1>7. \A d \in Conns : conns'[d].wire = conns[d].wire \/ conns'[d].wire = <<>>
    BY <1>1, FreeIs
<1> QED
    BY <1>1, <1>2, <1>4, <1>6, <1>7, LossInv
-----------------------------------------------------------------------------
(* The upload *)

Numbered(s) == \A i \in 1 .. Len(s) : s[i] = i

UpValues ==
    /\ OnlyHas(ubuf, 1 .. up) /\ OnlyHas(post, 1 .. up)
    /\ kind = "body" => late = {}

\* While nothing breaks, what the client wrote is fed, in the request and in its
\* writer, in this order.
Posts == kind = "sse" /\ faults = 0 /\ ~closed
Flowing == Posts \/ (kind = "body" /\ ~reader["server"].ended /\ task # "off")
Up ==
    /\ Posts => known /\ late = {}
    /\ Flowing => /\ Numbered((Fed("server") \o post) \o ubuf)
                  /\ Len((Fed("server") \o post) \o ubuf) = up
    /\ kind = "body" /\ ~reader["server"].ended =>
           Numbered(Fed("server") \o post) /\ Len(Fed("server") \o post) <= up
    /\ kind = "body" => Numbered(Fed("server")) /\ Len(Fed("server")) <= up

LEMMA JoinNumbered ==
    ASSUME NEW s \in Seq(Nat), NEW t \in Seq(Nat), Numbered(s \o t)
    PROVE  Numbered(s) /\ Len(s) <= Len(s \o t)
<1>1. /\ Len(s \o t) = Len(s) + Len(t) /\ Len(s) \in Nat /\ Len(t) \in Nat
      /\ \A i \in 1 .. Len(s) : i \in 1 .. Len(s \o t) /\ (s \o t)[i] = s[i]
    BY Joints
<1> QED
    BY <1>1 DEF Numbered

LEMMA NumberedNext ==
    ASSUME NEW s \in Seq(Nat), NEW n \in Nat, Numbered(s), Len(s) = n
    PROVE  Numbered(s \o <<n + 1>>) /\ Len(s \o <<n + 1>>) = n + 1
<1> DEFINE t == <<n + 1>>
<1>1. t \in Seq(Nat) /\ Len(t) = 1 /\ t[1] = n + 1
    OBVIOUS
<1> HIDE DEF t
<1>2. /\ Len(s \o t) = n + 1
      /\ \A i \in 1 .. Len(s \o t) :
            \/ i \in 1 .. Len(s) /\ (s \o t)[i] = s[i]
            \/ i > Len(s) /\ i - Len(s) \in 1 .. Len(t) /\ (s \o t)[i] = t[i - Len(s)]
    <2>1. /\ Len(s \o t) = Len(s) + Len(t)
          /\ \A i \in 1 .. Len(s \o t) :
                \/ i \in 1 .. Len(s) /\ (s \o t)[i] = s[i]
                \/ i > Len(s) /\ i - Len(s) \in 1 .. Len(t) /\ (s \o t)[i] = t[i - Len(s)]
        BY <1>1, Joints
    <2> QED
        BY <1>1, <2>1
<1>3. ASSUME NEW i \in 1 .. Len(s \o t) PROVE (s \o t)[i] = i
    <2>1. CASE i \in 1 .. Len(s) /\ (s \o t)[i] = s[i]
        BY <2>1 DEF Numbered
    <2>2. CASE i > Len(s) /\ i - Len(s) \in 1 .. Len(t) /\ (s \o t)[i] = t[i - Len(s)]
        <3>1. i - Len(s) = 1 /\ i = n + 1
            BY <1>1, <2>2
        <3> QED
            BY <1>1, <2>2, <3>1
    <2> QED
        BY <1>2, <2>1, <2>2
<1> QED
    BY <1>2, <1>3 DEF Numbered, t

\* A step that leaves the upload alone.
LEMMA UpKept ==
    ASSUME Up, UpValues, UNCHANGED <<kind, ubuf, post, late, up>>,
           Fed("server")' = Fed("server"), reader'["server"].ended = reader["server"].ended,
           Posts' => Posts /\ known',
           kind = "body" /\ task' # "off" => task # "off"
    PROVE  Up' /\ UpValues'
<1>1. Flowing' => Flowing
    BY DEF Flowing
<1> QED
    BY <1>1 DEF Up, UpValues

LEMMA UpSeqs ==
    ASSUME Inv
    PROVE  /\ Fed("server") \in Seq(Nat) /\ post \in Seq(Nat) /\ ubuf \in Seq(Nat)
           /\ Fed("server") \o post \in Seq(Nat) /\ up \in Nat /\ Types
BY FedIsSeq, Constants DEF Inv, Types

LEMMA WriteUp ==
    ASSUME Inv, Up, UpValues, Write
    PROVE  Inv' /\ Up' /\ UpValues'
<1> DEFINE x == up + 1
<1>1. /\ Types /\ ubuf \in Seq(Nat) /\ post \in Seq(Nat) /\ up \in Nat /\ up < MaxUp /\ x \in Nat
      /\ Fed("server") \o post \in Seq(Nat) /\ MaxUp \in Nat /\ Fed("server") \in Seq(Nat)
    BY UpSeqs, Constants DEF Write
<1>2. /\ up' = x /\ ubuf' = Append(ubuf, x)
      /\ UNCHANGED <<kind, lines, task, conns, down, reader, post, late, known, closed, faults>>
    BY DEF Write
<1>3. Append(ubuf, x) = ubuf \o <<x>> /\ Append(ubuf, x) \in Seq(Nat) /\ <<x>> \in Seq(Nat)
    BY <1>1, AppendIs
<1>4. 1 .. up \subseteq 1 .. x /\ x \in 1 .. x /\ x \in 0 .. MaxUp
    BY <1>1
<1>5. Types'
    BY <1>1, <1>2, <1>3, <1>4 DEF Types, down
<1>6. \A o \in Sides : Fed(o)' = Fed(o) /\ reader' = reader
    BY <1>2 DEF Fed
<1>7. Inv'
    BY <1>2, <1>5, <1>6, Constants, Unchanged DEF down
<1>8. UpValues'
    <2>1. OnlyHas(ubuf, 1 .. x) /\ OnlyHas(post, 1 .. x) /\ OnlyHas(<<x>>, 1 .. x)
        BY <1>1, <1>4, OnlyHasMore, OnlyHasOne DEF UpValues
    <2> QED
        BY <1>1, <1>2, <1>3, <2>1, JoinOnlyHas DEF UpValues
<1>9. Up'
    <2> DEFINE s == Fed("server") \o post
    <2>1. s' = s /\ Fed("server")' = Fed("server") /\ reader' = reader
        BY <1>2, <1>6, Constants
    <2>2. s \o ubuf' = (s \o ubuf) \o <<x>> /\ s \o ubuf \in Seq(Nat)
        BY <1>1, <1>2, <1>3, Associative
    <2>3. Len(s) \in Nat /\ Len(Fed("server")) \in Nat
        BY <1>1
    <2>4. Flowing => Numbered(s \o ubuf) /\ Len(s \o ubuf) = up
        BY DEF Up
    <2>5. kind = "body" /\ ~reader["server"].ended => Numbered(s) /\ Len(s) <= up
        BY DEF Up
    <2> HIDE DEF s
    <2>6. Flowing => Numbered((s \o ubuf) \o <<x>>) /\ Len((s \o ubuf) \o <<x>>) = x
        BY <1>1, <2>2, <2>4, NumberedNext
    <2>7. Flowing' <=> Flowing
        BY <1>2 DEF Flowing, Posts
    <2>8. Flowing' => Numbered(s \o ubuf') /\ Len(s \o ubuf') = up'
        BY <1>2, <2>2, <2>6, <2>7
    <2>9. kind' = "body" /\ ~reader'["server"].ended => Numbered(s) /\ Len(s) <= up'
        BY <1>1, <1>2, <2>3, <2>5
    <2>10. kind' = "body" => Numbered(Fed("server")) /\ Len(Fed("server")) <= up'
        BY <1>1, <1>2, <2>3 DEF Up
    <2>11. Posts' => known' /\ late' = {}
        BY <1>2 DEF Up, Posts
    <2> QED
        BY <2>1, <2>8, <2>9, <2>10, <2>11 DEF Up, s
<1> QED
    BY <1>7, <1>8, <1>9

\* The sse client's drain takes a chunk from its writer to a POST.
LEMMA SseDrainUp ==
    ASSUME Inv, Up, UpValues, SseDrain
    PROVE  Inv' /\ Up' /\ UpValues'
<1> DEFINE a == <<Head(ubuf)>>
           b == Tail(ubuf)
<1>1. /\ Types /\ ubuf \in Seq(Nat) /\ post = <<>> /\ up \in Nat /\ kind = "sse" /\ ubuf # <<>>
      /\ Fed("server") \in Seq(Nat)
    BY UpSeqs DEF SseDrain
<1>2. /\ post' = a /\ ubuf' = b
      /\ UNCHANGED <<kind, lines, task, conns, down, reader, late, up, known, closed, faults>>
    BY DEF SseDrain
<1>3. a \o b = ubuf /\ a \in Seq(Nat) /\ b \in Seq(Nat)
    BY <1>1, HeadAndTail
<1> HIDE DEF a, b
<1>4. Types'
    BY <1>1, <1>2, <1>3 DEF Types, down
<1>5. \A o \in Sides : Fed(o)' = Fed(o)
    BY <1>2 DEF Fed
<1>6. Inv'
    BY <1>2, <1>4, <1>5, Constants, Unchanged DEF down
<1>7. UpValues'
    BY <1>1, <1>2, <1>3, JoinOnlyHas DEF UpValues
<1>8. (Fed("server") \o post') \o ubuf' = (Fed("server") \o post) \o ubuf
    <2>1. (Fed("server") \o a) \o b = Fed("server") \o (a \o b)
        BY <1>1, <1>3, Associative
    <2>2. Fed("server") \o <<>> = Fed("server")
        BY <1>1, ConcatEmptySeq
    <2> QED
        BY <1>1, <1>2, <1>3, <2>1, <2>2
<1>9. Up'
    <2>1. Fed("server")' = Fed("server") /\ kind' # "body" /\ (Flowing' <=> Flowing) /\ up' = up
        BY <1>1, <1>2, <1>5, Constants DEF Flowing, Posts
    <2>2. Posts' => known' /\ late' = {}
        BY <1>2 DEF Up, Posts
    <2> QED
        BY <1>8, <2>1, <2>2 DEF Up
<1> QED
    BY <1>6, <1>7, <1>9

\* Something is fed to the server, or nothing.
LEMMA ServerFed ==
    ASSUME Inv, NEW s \in Seq(Nat), Feed("server", s) \/ FeedEnd("server", s)
    PROVE  /\ reader' \in [Sides -> Stream] /\ Fed("client")' = Fed("client")
           /\ Fed("server")' = Fed("server") \o s
           /\ Feed("server", s) => reader'["server"].ended = reader["server"].ended
           /\ FeedEnd("server", s) => reader'["server"].ended
<1>1. Types /\ "client" # "server"
    BY DEF Inv
<1> QED
    BY <1>1, FeedIs, Constants

LEMMA SsePostedUp ==
    ASSUME Inv, Up, UpValues, SsePosted
    PROVE  Inv' /\ Up' /\ UpValues'
<1> DEFINE s == IF known THEN post ELSE <<>>
<1>1. /\ Types /\ ubuf \in Seq(Nat) /\ post \in Seq(Nat) /\ kind = "sse" /\ s \in Seq(Nat)
      /\ Fed("server") \in Seq(Nat) /\ <<>> \in Seq(Nat)
    BY UpSeqs DEF SsePosted
<1>2. /\ Feed("server", s) /\ post' = <<>>
      /\ UNCHANGED <<kind, lines, task, conns, down, ubuf, late, up, known, closed, faults>>
    BY DEF SsePosted
<1>3. /\ reader' \in [Sides -> Stream] /\ Fed("client")' = Fed("client")
      /\ Fed("server")' = Fed("server") \o s
    BY <1>1, <1>2, ServerFed
<1>4. Types'
    BY <1>1, <1>2, <1>3 DEF Types, down
<1>5. Inv'
    BY <1>2, <1>3, <1>4, Unchanged DEF down
<1>6. UpValues'
    BY <1>2 DEF UpValues, OnlyHas
<1>7. Up'
    <2>1. kind' # "body" /\ (Flowing' <=> Posts) /\ (Flowing <=> Posts) /\ (Posts' <=> Posts)
        BY <1>1, <1>2 DEF Flowing, Posts
    <2>2. ASSUME Posts
          PROVE  /\ Numbered((Fed("server")' \o post') \o ubuf')
                 /\ Len((Fed("server")' \o post') \o ubuf') = up'
        <3>1. Fed("server")' = Fed("server") \o post
            BY <1>3, <2>2 DEF Up
        <3>2. Fed("server") \o post \in Seq(Nat)
            BY <1>1
        <3>3. (Fed("server") \o post) \o <<>> = Fed("server") \o post
            BY <3>2, ConcatEmptySeq
        <3> QED
            BY <1>2, <2>1, <2>2, <3>1, <3>3 DEF Up
    <2>3. Posts' => known' /\ late' = {}
        BY <1>2, <2>1 DEF Up
    <2> QED
        BY <2>1, <2>2, <2>3 DEF Up
<1> QED
    BY <1>5, <1>6, <1>7

\* A step of the sse client's in which nothing flows afterwards.
LEMMA Stopped ==
    ASSUME kind' = "sse", ~Posts'
    PROVE  Up'
BY DEF Up, Flowing

LEMMA SsePostFailsUp ==
    ASSUME Inv, Up, UpValues, SsePostFails
    PROVE  Inv' /\ Up' /\ UpValues'
<1> DEFINE s == IF known THEN post ELSE <<>>
<1>1. /\ Types /\ post \in Seq(Nat) /\ kind = "sse" /\ s \in Seq(Nat) /\ post # <<>>
      /\ up \in Nat /\ up <= MaxUp /\ MaxUp \in Nat
    BY UpSeqs, Constants DEF SsePostFails, Types
<1>2. /\ post' = <<>> /\ faults' = faults + 1 /\ faults < MaxFaults
      /\ \/ Feed("server", s) /\ UNCHANGED late
         \/ late' = late \cup {Head(post)} /\ UNCHANGED reader
      /\ UNCHANGED <<kind, lines, task, conns, down, ubuf, up, known, closed>>
    BY DEF SsePostFails
<1>3. Head(post) \in UpData
    <2>1. Head(post) = post[1] /\ 1 \in 1 .. Len(post)
        BY <1>1
    <2>2. Head(post) \in 1 .. up
        BY <2>1 DEF UpValues, OnlyHas
    <2> QED
        BY <1>1, <2>2 DEF UpData
<1>4. /\ reader' \in [Sides -> Stream] /\ Fed("client")' = Fed("client")
      /\ late' \subseteq UpData
    <2>1. CASE Feed("server", s) /\ UNCHANGED late
        BY <1>1, <2>1, ServerFed DEF Types
    <2>2. CASE late' = late \cup {Head(post)} /\ UNCHANGED reader
        BY <1>1, <1>3, <2>2 DEF Types, Fed
    <2> QED
        BY <1>2, <2>1, <2>2
<1>5. faults' \in 0 .. MaxFaults /\ faults' # 0
    BY <1>1, <1>2, Constants DEF Types
<1>6. Types'
    BY <1>1, <1>2, <1>4, <1>5 DEF Types, down
<1>7. Inv'
    BY <1>2, <1>4, <1>6, Unchanged DEF down
<1>8. UpValues'
    BY <1>1, <1>2 DEF UpValues, OnlyHas
<1>9. Up'
    BY <1>1, <1>2, <1>5, Stopped DEF Posts
<1> QED
    BY <1>7, <1>8, <1>9

LEMMA SsePostLateUp ==
    ASSUME Inv, Up, UpValues, NEW x \in late, SsePostLate(x)
    PROVE  Inv' /\ Up' /\ UpValues'
<1> DEFINE s == IF known THEN <<x>> ELSE <<>>
<1>1. Types /\ late \subseteq UpData /\ x \in Nat
    BY DEF Inv, Types, UpData
<1>2. /\ late' = late \ {x} /\ (Feed("server", s) \/ UNCHANGED reader)
      /\ UNCHANGED <<kind, lines, task, conns, down, ubuf, post, up, known, closed, faults>>
    BY DEF SsePostLate
<1>3. s \in Seq(Nat)
    BY <1>1
<1>4. /\ reader' \in [Sides -> Stream] /\ Fed("client")' = Fed("client")
      /\ reader'["server"].ended = reader["server"].ended
    <2>1. CASE Feed("server", s)
        BY <1>3, <2>1, ServerFed
    <2>2. CASE UNCHANGED reader
        BY <1>1, <2>2 DEF Types, Fed
    <2> QED
        BY <1>2, <2>1, <2>2
<1>5. Types'
    BY <1>1, <1>2, <1>4 DEF Types, down
<1>6. Inv'
    BY <1>2, <1>4, <1>5, Unchanged DEF down
<1>7. UpValues'
    BY <1>2 DEF UpValues
<1>8. Up'
    <2>1. ~Posts
        BY DEF Up
    <2>2. ~Posts'
        BY <1>2, <2>1 DEF Posts
    <2>3. kind = "sse"
        BY <1>1 DEF UpValues, Types
    <2> QED
        BY <1>2, <2>2, <2>3, Stopped
<1> QED
    BY <1>6, <1>7, <1>8

LEMMA BodyDrainUp ==
    ASSUME Inv, Up, UpValues, BodyDrain
    PROVE  Inv' /\ Up' /\ UpValues'
<1> DEFINE f == Fed("server")
<1>1. /\ Types /\ ubuf \in Seq(Nat) /\ post \in Seq(Nat) /\ kind = "body" /\ f \in Seq(Nat)
      /\ f \o post \in Seq(Nat) /\ <<>> \in Seq(Nat)
    BY UpSeqs DEF BodyDrain
<1>2. /\ ubuf' = <<>> /\ post' = IF task = "off" THEN post ELSE post \o ubuf
      /\ UNCHANGED <<kind, lines, task, conns, down, reader, late, up, known, closed, faults>>
    BY DEF BodyDrain
<1>3. post' \in Seq(Nat)
    BY <1>1, <1>2
<1>4. Types'
    BY <1>1, <1>2, <1>3 DEF Types, down
<1>5. Fed("client")' = Fed("client") /\ f' = f
    BY <1>2 DEF Fed
<1>6. Inv'
    BY <1>2, <1>4, <1>5, Unchanged DEF down
<1>7. UpValues'
    <2>1. OnlyHas(post', 1 .. up)
        BY <1>1, <1>2, JoinOnlyHas DEF UpValues
    <2>2. OnlyHas(<<>>, 1 .. up)
        BY DEF OnlyHas
    <2> QED
        BY <1>2, <2>1, <2>2 DEF UpValues
<1>8. Up'
    <2> HIDE DEF f
    <2>1. CASE task = "off"
        BY <1>1, <1>2, <1>5, <2>1 DEF Up, Flowing, Posts, f
    <2>2. CASE task # "off"
        <3>1. f \o post' = (f \o post) \o ubuf
            BY <1>1, <1>2, <2>2, Associative
        <3>2. f \o post' \in Seq(Nat)
            BY <1>1, <1>3
        <3>3. (f \o post') \o ubuf' = f \o post'
            BY <1>2, <3>2, ConcatEmptySeq
        <3>4. /\ Flowing' <=> Flowing
              /\ ~reader["server"].ended => Flowing
              /\ ~Posts'
            BY <1>1, <1>2, <2>2 DEF Flowing, Posts
        <3>5. Flowing => /\ Numbered((f \o post) \o ubuf)
                         /\ Len((f \o post) \o ubuf) = up
            BY DEF Up, f
        <3>6. up <= up
            BY UpSeqs
        <3> QED
            BY <1>1, <1>2, <1>5, <3>1, <3>3, <3>4, <3>5, <3>6 DEF Up, f
    <2> QED
        BY <2>1, <2>2
<1> QED
    BY <1>6, <1>7, <1>8

LEMMA BodyUploadUp ==
    ASSUME Inv, Up, UpValues, BodyUpload
    PROVE  Inv' /\ Up' /\ UpValues'
<1> DEFINE f == Fed("server")
           n == LineEnd(post)
           a == SubSeq(post, 1, n)
           b == SubSeq(post, n + 1, Len(post))
<1>1. /\ Types /\ ubuf \in Seq(Nat) /\ post \in Seq(Nat) /\ kind = "body" /\ f \in Seq(Nat)
      /\ f \o post \in Seq(Nat) /\ HasLine(post) /\ up \in Nat /\ ~reader["server"].ended
    BY UpSeqs DEF BodyUpload
<1>2. /\ Feed("server", a) /\ post' = b
      /\ UNCHANGED <<kind, lines, task, conns, down, ubuf, late, up, known, closed, faults>>
    BY DEF BodyUpload
<1>3. n \in 0 .. Len(post)
    BY <1>1, LineEndIs
<1> HIDE DEF n
<1>4. a \o b = post /\ a \in Seq(Nat) /\ b \in Seq(Nat)
    BY <1>1, <1>3, Parts, PartsJoin
<1> HIDE DEF a, b
<1>5. /\ reader' \in [Sides -> Stream] /\ Fed("client")' = Fed("client")
      /\ f' = f \o a /\ reader'["server"].ended = reader["server"].ended
    BY <1>2, <1>4, ServerFed
<1>6. Types'
    BY <1>1, <1>2, <1>4, <1>5 DEF Types, down
<1>7. Inv'
    BY <1>2, <1>5, <1>6, Unchanged DEF down
<1>8. UpValues'
    BY <1>1, <1>2, <1>4, JoinOnlyHas DEF UpValues
<1>9. Up'
    <2>1. Numbered(f \o post) /\ Len(f \o post) <= up
        BY <1>1 DEF Up
    <2>2. f \o a \in Seq(Nat) /\ (f \o a) \o b = f \o (a \o b)
        <3>1. (f \o a) \o b = f \o (a \o b)
            BY <1>1, <1>4, Associative
        <3>2. f \o a \in Seq(Nat)
            BY <1>1, <1>4
        <3> QED
            BY <3>1, <3>2
    <2>3. f' \o post' = f \o post
        BY <1>2, <1>4, <1>5, <2>2
    <2>4. f' \in Seq(Nat) /\ post' \in Seq(Nat) /\ f' \o post' \in Seq(Nat)
        BY <1>1, <1>2, <1>4, <1>5, <2>2, <2>3
    <2>5. Numbered(f') /\ Len(f') <= Len(f' \o post')
        BY <2>1, <2>3, <2>4, JoinNumbered
    <2>6. Len(f') \in Nat /\ Len(f' \o post') \in Nat
        BY <2>4
    <2>7. (Flowing' <=> Flowing) /\ ~Posts'
        BY <1>1, <1>2, <1>5 DEF Flowing, Posts
    <2>8. Flowing => Numbered((f \o post) \o ubuf) /\ Len((f \o post) \o ubuf) = up
        BY DEF Up
    <2> HIDE DEF f
    <2>9. Flowing' => Numbered((f' \o post') \o ubuf') /\ Len((f' \o post') \o ubuf') = up'
        BY <1>2, <2>3, <2>7, <2>8
    <2>10. Numbered(f' \o post') /\ Len(f' \o post') <= up'
        BY <1>2, <2>1, <2>3
    <2>11. Numbered(f') /\ Len(f') <= up'
        BY <1>1, <1>2, <2>1, <2>3, <2>5, <2>6
    <2> QED
        BY <2>7, <2>9, <2>10, <2>11 DEF Up, f
<1> QED
    BY <1>7, <1>8, <1>9

LEMMA BodyUploadEndsUp ==
    ASSUME Inv, Up, UpValues, BodyUploadEnds
    PROVE  Inv' /\ Up' /\ UpValues'
<1>1. /\ Types /\ kind = "body" /\ <<>> \in Seq(Nat) /\ Fed("server") \in Seq(Nat)
    BY UpSeqs DEF BodyUploadEnds
<1>2. /\ FeedEnd("server", <<>>) /\ post' = <<>>
      /\ UNCHANGED <<kind, lines, task, conns, down, ubuf, late, up, known, closed, faults>>
    BY DEF BodyUploadEnds
<1>3. /\ reader' \in [Sides -> Stream] /\ Fed("client")' = Fed("client")
      /\ Fed("server")' = Fed("server") \o <<>> /\ reader'["server"].ended
    BY <1>1, <1>2, ServerFed
<1>4. Fed("server")' = Fed("server")
    BY <1>1, <1>3, ConcatEmptySeq
<1>5. Types'
    BY <1>1, <1>2, <1>3 DEF Types, down
<1>6. Inv'
    BY <1>2, <1>3, <1>5, Unchanged DEF down
<1>7. UpValues'
    BY <1>2 DEF UpValues, OnlyHas
<1>8. Up'
    BY <1>1, <1>2, <1>3, <1>4 DEF Up, Flowing, Posts
<1> QED
    BY <1>6, <1>7, <1>8

LEMMA CloseUp ==
    ASSUME Inv, Up, UpValues, SseClose \/ BodyClose
    PROVE  Inv' /\ Up' /\ UpValues'
<1>1. late' \subseteq UpData
    <2>1. Types /\ up \in Nat /\ up <= MaxUp /\ MaxUp \in Nat
        BY Constants DEF Inv, Types
    <2>2. ToSet(post) \subseteq 1 .. up
        BY <2>1 DEF ToSet, UpValues, OnlyHas, Types
    <2>3. ToSet(post) \subseteq UpData
        BY <2>1, <2>2 DEF UpData
    <2> QED
        BY <2>1, <2>3 DEF SseClose, BodyClose, uploads, Types
<1>2. Inv'
    BY <1>1, CloseInv
<1>3. UpValues'
    BY DEF SseClose, BodyClose, uploads, UpValues, OnlyHas
<1>4. Up'
    <2>1. CASE SseClose
        <3>1. kind' = "sse" /\ ~Posts'
            BY <2>1 DEF SseClose, Posts
        <3> QED
            BY <3>1, Stopped
    <2>2. CASE BodyClose
        <3>1. /\ UNCHANGED <<kind, ubuf, post, late, up>> /\ reader' = reader /\ ~Posts'
              /\ task' = "off"
            BY <2>2 DEF BodyClose, uploads, Posts
        <3>2. Fed("server")' = Fed("server")
            BY <3>1 DEF Fed
        <3> QED
            BY <3>1, <3>2, UpKept
    <2> QED
        BY <2>1, <2>2
<1> QED
    BY <1>2, <1>3, <1>4
-----------------------------------------------------------------------------
(* Every step *)

LEMMA InitInv ==
    ASSUME Init
    PROVE  Inv /\ Up /\ UpValues
<1> DEFINE r == [buf |-> <<>>, got |-> <<>>, ended |-> FALSE]
<1>1. <<>> \in Seq(Nat) /\ <<>> \o <<>> = <<>> /\ Len(<<>>) = 0
    BY ConcatEmptySeq
<1>2. r \in Stream /\ r.buf = <<>> /\ r.got = <<>> /\ r.ended = FALSE
    BY <1>1 DEF Stream
<1>3. reader = [s \in Sides |-> r]
    BY DEF Init
<1> HIDE DEF r
<1>4. /\ reader \in [Sides -> Stream]
      /\ \A s \in Sides : Fed(s) = <<>> /\ reader[s].ended = FALSE
    BY <1>1, <1>2, <1>3 DEF Fed
<1>5. conns \in [Conns -> Conn] /\ \A c \in Conns : conns[c] = Free
    BY FreeIs DEF Init
<1>6. lines \subseteq 1 .. (MaxDown + MaxUp)
    <2>1. lines \subseteq Data \cup UpData
        BY DEF Init
    <2>2. Data \cup UpData \subseteq 1 .. (MaxDown + MaxUp)
        BY Constants DEF Data, UpData
    <2> QED
        BY <2>1, <2>2
<1>7. Types
    <2>1. /\ kind \in {"sse", "body"} /\ task = "ask" /\ written = 0 /\ queue = <<>>
          /\ stop = FALSE /\ pings = 0 /\ ubuf = <<>> /\ post = <<>> /\ late = {} /\ up = 0
          /\ closed = FALSE /\ faults = 0
        BY DEF Init
    <2>2. known \in BOOLEAN
        BY DEF Init
    <2>3. written \in 0 .. MaxDown /\ pings \in 0 .. MaxPings /\ up \in 0 .. MaxUp /\ faults \in 0 .. MaxFaults
        BY <2>1, Constants
    <2>4. /\ kind \in {"sse", "body"} /\ task \in {"ask", "reading", "asleep", "off"}
          /\ queue \in Seq(Nat) /\ ubuf \in Seq(Nat) /\ post \in Seq(Nat) /\ late \subseteq UpData
          /\ stop \in BOOLEAN /\ closed \in BOOLEAN
        BY <1>1, <2>1
    <2> QED
        BY <1>4, <1>5, <1>6, <2>2, <2>3, <2>4 DEF Types
<1>8. Owner
    BY <1>5, FreeIs DEF Init, Owner
<1>9. Values
    BY <1>1, <1>4, <1>5, FreeIs, Constants DEF Init, Values, OnlyHas
<1>10. Line
    BY <1>1, <1>4, <1>5, FreeIs, Constants DEF Init, Line, InLine, Rises, Ahead
<1>11. NoPing
    BY <1>1, <1>4, Constants DEF NoPing, Has
<1>12. Up
    <2>1. Fed("server") = <<>> /\ post = <<>> /\ ubuf = <<>> /\ up = 0 /\ late = {}
        BY <1>4, Constants DEF Init
    <2>2. kind = "sse" => known
        BY DEF Init
    <2> QED
        BY <1>1, <2>1, <2>2 DEF Up, Numbered, Posts
<1>13. UpValues
    BY <1>1 DEF Init, UpValues, OnlyHas
<1> QED
    BY <1>7, <1>8, <1>9, <1>10, <1>11, <1>12, <1>13 DEF Inv

\* Nothing but the upload's own steps touches the upload, but for its end.
LEMMA DownUp ==
    ASSUME Inv, Up, UpValues, UNCHANGED <<kind, uploads>>, closed' = closed,
           \/ reader' = reader
           \/ \E s \in Seq(Nat) : Feed("client", s) \/ FeedEnd("client", s),
           faults' = 0 => faults = 0 /\ (known => known'),
           kind = "body" /\ task' # "off" => task # "off"
    PROVE  Up' /\ UpValues'
<1>1. Fed("server")' = Fed("server") /\ reader'["server"].ended = reader["server"].ended
    <2>1. CASE reader' = reader
        BY <2>1 DEF Fed
    <2>2. CASE \E s \in Seq(Nat) : Feed("client", s) \/ FeedEnd("client", s)
        <3>1. Types /\ "client" # "server"
            BY DEF Inv
        <3>2. PICK s \in Seq(Nat) : Feed("client", s) \/ FeedEnd("client", s)
            BY <2>2
        <3> QED
            BY <3>1, <3>2, FeedIs, Constants
    <2> QED
        BY <2>1, <2>2
<1>2. Posts' => Posts /\ known'
    BY DEF Posts, Up
<1>3. UNCHANGED <<kind, ubuf, post, late, up>>
    BY DEF uploads
<1> QED
    BY <1>1, <1>2, <1>3, UpKept

LEMMA ServerInv ==
    ASSUME Inv, Up, UpValues, ServerStep
    PROVE  Inv' /\ Up' /\ UpValues'
<1>1. CASE SvrWrite
    <2>1. Up' /\ UpValues'
        BY <1>1, DownUp DEF SvrWrite
    <2> QED
        BY <1>1, <2>1, SvrWriteInv
<1>2. CASE SvrClose
    <2>1. Up' /\ UpValues'
        BY <1>2, DownUp DEF SvrClose
    <2> QED
        BY <1>2, <2>1, SvrCloseInv
<1>3. CASE Restart
    <2>1. /\ kind = "body" /\ task # "off" /\ task' # "off" => task' = task
          /\ \/ reader' = reader
             \/ FeedEnd("client", <<>>)
          /\ faults' = faults + 1
          /\ UNCHANGED <<kind, uploads, closed>>
        BY <1>3, RestartIs DEF Inv
    <2>2. faults' # 0 /\ <<>> \in Seq(Nat)
        BY <2>1, Constants DEF Inv, Types
    <2>3. kind = "body" /\ task' # "off" => task # "off"
        BY <1>3 DEF Restart
    <2>4. Up' /\ UpValues'
        BY <2>1, <2>2, <2>3, DownUp
    <2> QED
        BY <1>3, <2>4, RestartInv
<1>4. ASSUME NEW c \in Conns, SseArrive(c) \/ BodyArrive(c) PROVE Inv' /\ Up' /\ UpValues'
    <2>1. Up' /\ UpValues'
        BY <1>4, DownUp DEF SseArrive, BodyArrive
    <2> QED
        BY <1>4, <2>1, ArriveInv
<1>5. ASSUME NEW c \in Conns, Take(c) PROVE Inv' /\ Up' /\ UpValues'
    <2>1. Up' /\ UpValues'
        BY <1>5, DownUp DEF Take
    <2> QED
        BY <1>5, <2>1, TakeInv
<1>6. ASSUME NEW c \in Conns, Timeout(c) PROVE Inv' /\ Up' /\ UpValues'
    <2>1. Up' /\ UpValues'
        BY <1>6, DownUp DEF Timeout
    <2> QED
        BY <1>6, <2>1, TimeoutInv
<1> QED
    BY <1>1, <1>2, <1>3, <1>4, <1>5, <1>6 DEF ServerStep

LEMMA ReceiveStepInv ==
    ASSUME Inv, Up, UpValues, ReceiveStep
    PROVE  Inv' /\ Up' /\ UpValues'
<1>1. CASE Ask
    <2>1. Up' /\ UpValues'
        BY <1>1, DownUp DEF Ask
    <2> QED
        BY <1>1, <2>1, AskInv
<1>2. CASE Wake
    <2>1. Up' /\ UpValues'
        BY <1>2, DownUp DEF Wake
    <2>2. /\ task' = "ask" /\ task = "asleep" /\ Types /\ Owner
          /\ UNCHANGED <<kind, lines, conns, down, reader, uploads, known, closed, faults>>
        BY <1>2 DEF Wake, Inv
    <2>3. Types'
        BY <2>2 DEF Types, down, uploads
    <2>4. Owner'
        BY <2>2 DEF Owner
    <2>5. Fed("client")' = Fed("client") /\ UNCHANGED <<kind, written, stop, queue>>
        BY <2>2 DEF Fed, down
    <2>6. Inv'
        BY <2>2, <2>3, <2>4, <2>5, LossInv
    <2> QED
        BY <2>1, <2>6
<1>3. ASSUME NEW c \in Conns, SseReceive(c) PROVE Inv' /\ Up' /\ UpValues'
    <2>1. \E s \in Seq(Nat) : Feed("client", s)
        <3>1. conns[c].wire \in Seq(Nat) /\ conns[c].wire # <<>>
            BY <1>3, Sequences DEF SseReceive
        <3>2. <<Head(conns[c].wire)>> \in Seq(Nat) /\ <<>> \in Seq(Nat)
            BY <3>1, HeadAndTail
        <3>3. (IF Head(conns[c].wire) = Ping THEN <<>> ELSE <<Head(conns[c].wire)>>) \in Seq(Nat)
            BY <3>2
        <3>4. Feed("client", IF Head(conns[c].wire) = Ping THEN <<>> ELSE <<Head(conns[c].wire)>>)
            BY <1>3 DEF SseReceive
        <3> QED
            BY <3>3, <3>4
    <2>2. Up' /\ UpValues'
        BY <1>3, <2>1, DownUp DEF SseReceive
    <2> QED
        BY <1>3, <2>2, SseReceiveInv
<1>4. ASSUME NEW c \in Conns, SseEnds(c) PROVE Inv' /\ Up' /\ UpValues'
    <2>1. Up' /\ UpValues'
        BY <1>4, DownUp DEF SseEnds
    <2> QED
        BY <1>4, <2>1, SseEndsInv
<1>5. ASSUME NEW c \in Conns, BodyReceive(c) PROVE Inv' /\ Up' /\ UpValues'
    <2> DEFINE w == conns[c].wire
               a == SubSeq(w, 1, LineEnd(w))
    <2>1. w \in Seq(Nat) /\ HasLine(w) /\ Feed("client", a)
        BY <1>5, Sequences DEF BodyReceive
    <2>2. LineEnd(w) \in 0 .. Len(w)
        BY <2>1, LineEndIs
    <2>3. a \in Seq(Nat)
        BY <2>1, <2>2, Parts
    <2>4. \E s \in Seq(Nat) : Feed("client", s)
        BY <2>1, <2>3
    <2>5. Up' /\ UpValues'
        BY <1>5, <2>4, DownUp DEF BodyReceive
    <2> QED
        BY <1>5, <2>5, BodyReceiveInv
<1>6. ASSUME NEW c \in Conns, BodyEnds(c) PROVE Inv' /\ Up' /\ UpValues'
    <2> DEFINE w == conns[c].wire
               s == IF w = <<Ping>> THEN <<>> ELSE w
    <2>1. w \in Seq(Nat) /\ <<>> \in Seq(Nat) /\ FeedEnd("client", s)
        BY <1>6, Sequences DEF BodyEnds
    <2>2. s \in Seq(Nat)
        BY <2>1
    <2>3. \E t \in Seq(Nat) : FeedEnd("client", t)
        BY <2>1, <2>2
    <2>4. Up' /\ UpValues'
        BY <1>6, <2>3, DownUp DEF BodyEnds
    <2> QED
        BY <1>6, <2>4, BodyEndsInv
<1>7. ASSUME NEW c \in Conns, Break(c) PROVE Inv' /\ Up' /\ UpValues'
    <2>1. /\ faults' = faults + 1 /\ UNCHANGED <<kind, uploads>> /\ closed' = closed
          /\ \/ reader' = reader
             \/ FeedEnd("client", <<>>)
          /\ kind = "body" => task' = "off"
        BY <1>7 DEF Break, Inv, Types
    <2>2. faults' # 0 /\ <<>> \in Seq(Nat)
        BY <2>1, Constants DEF Inv, Types
    <2>3. Up' /\ UpValues'
        BY <2>1, <2>2, DownUp
    <2> QED
        BY <1>7, <2>3, BreakInv
<1>8. ASSUME NEW c \in Conns, Vanish(c) PROVE Inv' /\ Up' /\ UpValues'
    <2>1. Up' /\ UpValues'
        BY <1>8, DownUp DEF Vanish
    <2> QED
        BY <1>8, <2>1, VanishInv
<1> QED
    BY <1>1, <1>2, <1>3, <1>4, <1>5, <1>6, <1>7, <1>8 DEF ReceiveStep

LEMMA ReadInv ==
    ASSUME Inv, Up, UpValues, ReadStep
    PROVE  Inv' /\ Up' /\ UpValues'
<1>1. PICK side \in Sides, n \in 1 .. (MaxDown + MaxPings + MaxUp) : Read(side, n)
    BY DEF ReadStep
<1>2. n \in Nat
    BY Constants
<1>3. /\ reader' \in [Sides -> Stream]
      /\ \A o \in Sides : Fed(o)' = Fed(o) /\ reader'[o].ended = reader[o].ended
      /\ Types
    BY <1>1, <1>2, ReadIs DEF Inv
<1>4. UNCHANGED <<kind, lines, task, conns, down, uploads, known, closed, faults>>
    BY <1>1 DEF Read
<1>5. Types'
    BY <1>3, <1>4 DEF Types, down, uploads
<1>6. Inv'
    BY <1>3, <1>4, <1>5, Constants, Unchanged DEF down
<1>7. Up' /\ UpValues'
    <2>1. Posts' => Posts /\ known'
        BY <1>4 DEF Posts, Up
    <2>2. Fed("server")' = Fed("server") /\ reader'["server"].ended = reader["server"].ended
        BY <1>3, Constants
    <2> QED
        BY <1>4, <2>1, <2>2, UpKept DEF uploads
<1> QED
    BY <1>6, <1>7

LEMMA NextInv ==
    ASSUME Inv, Up, UpValues, [Next]_vars
    PROVE  Inv' /\ Up' /\ UpValues'
<1>1. CASE SendStep
    BY <1>1, WriteUp, SseDrainUp, SsePostedUp, SsePostFailsUp, SsePostLateUp, BodyDrainUp,
       BodyUploadUp, BodyUploadEndsUp, CloseUp DEF SendStep
<1>2. CASE UNCHANGED vars
    <2>1. UNCHANGED <<kind, lines, task, conns, reader, known, closed, faults,
                      written, queue, stop, pings, ubuf, post, late, up>>
        BY <1>2 DEF vars, down, uploads
    <2>2. Types' /\ \A o \in Sides : Fed(o)' = Fed(o)
        BY <2>1 DEF Inv, Types, Fed
    <2>3. Inv'
        BY <2>1, <2>2, Constants, Unchanged
    <2>4. Up' /\ UpValues'
        BY <2>1, <2>2, Constants DEF Up, UpValues, Flowing, Posts
    <2> QED
        BY <2>3, <2>4
<1> QED
    BY <1>1, <1>2, ServerInv, ReceiveStepInv, ReadInv DEF Next

LEMMA Always == Spec => [](Inv /\ Up /\ UpValues)
BY InitInv, NextInv, PTL DEF Spec
-----------------------------------------------------------------------------
(* What the invariant says *)

LEMMA Typed ==
    ASSUME NEW s \in Seq(Nat), NEW S, OnlyHas(s, S)
    PROVE  s \in Seq(S)
BY DEF OnlyHas

LEMMA InvIsTyped == Inv /\ UpValues => TypeOK
<1> SUFFICES ASSUME Inv, UpValues PROVE TypeOK
    OBVIOUS
<1>1. /\ Types /\ Owner /\ Values /\ written \in Nat /\ written <= MaxDown /\ MaxDown \in Nat
      /\ up \in Nat /\ up <= MaxUp /\ MaxUp \in Nat
    BY Constants DEF Inv, Types
<1>2. queue \in Seq(Data \cup {End})
    <2>1. Queued \subseteq Data \cup {End}
        BY <1>1 DEF Queued, Data
    <2>2. OnlyHas(queue, Data \cup {End})
        BY <1>1, <2>1, OnlyHasMore DEF Types, Values
    <2> QED
        BY <1>1, <2>2, Typed DEF Types
<1>3. conns \in [Conns -> [pc : {"free", "sent", "get", "over"},
                           wire : Seq(Data \cup {Ping}), mine : BOOLEAN]]
    <2>1. 0 .. written \subseteq Data \cup {Ping}
        BY <1>1, Constants DEF Data
    <2>2. ASSUME NEW c \in Conns
          PROVE  conns[c] \in [pc : {"free", "sent", "get", "over"},
                               wire : Seq(Data \cup {Ping}), mine : BOOLEAN]
        <3>1. conns[c] \in Conn
            BY <1>1 DEF Types
        <3>2. conns[c].wire \in Seq(Nat)
            BY <3>1 DEF Conn
        <3>3. OnlyHas(conns[c].wire, 0 .. written)
            BY <1>1 DEF Values
        <3>4. OnlyHas(conns[c].wire, Data \cup {Ping})
            BY <2>1, <3>2, <3>3, OnlyHasMore
        <3>5. conns[c].wire \in Seq(Data \cup {Ping})
            BY <3>2, <3>4, Typed
        <3> QED
            BY <3>1, <3>5 DEF Conn
    <2> QED
        BY <1>1, <2>2 DEF Types
<1>4. ubuf \in Seq(UpData) /\ post \in Seq(UpData)
    <2>1. 1 .. up \subseteq UpData
        BY <1>1 DEF UpData
    <2>2. OnlyHas(ubuf, UpData) /\ OnlyHas(post, UpData)
        BY <1>1, <2>1, OnlyHasMore DEF Types, UpValues
    <2> QED
        BY <1>1, <2>2, Typed DEF Types
<1>5. Cardinality({c \in Conns : conns[c].mine}) = IF task = "reading" THEN 1 ELSE 0
    <2>1. CASE task = "reading"
        <3>1. PICK c \in Conns : conns[c].mine
            BY <1>1, <2>1 DEF Owner
        <3>2. {d \in Conns : conns[d].mine} = {c}
            BY <1>1, <3>1 DEF Owner
        <3> QED
            BY <2>1, <3>2, FS_Singleton
    <2>2. CASE task # "reading"
        <3>1. {d \in Conns : conns[d].mine} = {}
            BY <1>1, <2>2 DEF Owner
        <3> QED
            BY <2>2, <3>1, FS_EmptySet
    <2> QED
        BY <2>1, <2>2
<1> QED
    BY <1>1, <1>2, <1>3, <1>4, <1>5 DEF TypeOK, Types, Stream

\* Every variable of a streaming session keeps its type, a response under way of
\* the client's is one at most and there is one exactly while its task reads.
THEOREM TypesHold == Spec => []TypeOK
BY Always, InvIsTyped, PTL

\* What is fed is in order: whatever breaks, restarts or is closed, and however
\* many handlers of old responses still take from the queue, the client is given
\* no chunk twice or out of order (http_request_sse.py 137-151, 258-280).
THEOREM ChunksKeepOrder == Spec => []DownInOrder
<1>1. Inv => DownInOrder
    <2> SUFFICES ASSUME Inv PROVE DownInOrder
        OBVIOUS
    <2>1. /\ Fed("client") \in Seq(Nat) /\ Rises(Fed("client")) /\ NoPing
        BY Sequences, Constants DEF InLine
    <2>2. Increasing(Fed("client"))
        BY <2>1 DEF Increasing, Rises
    <2>3. kind = "sse" => Ping \notin ToSet(Fed("client"))
        BY <2>1 DEF NoPing, Has, ToSet
    <2> QED
        BY <2>2, <2>3 DEF DownInOrder
<1> QED
    BY <1>1, Always, PTL
-----------------------------------------------------------------------------
(* The upload when requests fail *)

\* Of n chunks written: what the server has been given, each once, what the client
\* still has in hand, and posts given up; what is in hand is newer than the rest.
Once(s) == \A i, j \in 1 .. Len(s) : s[i] = s[j] => i = j
Shares(f, q, l, n) ==
    /\ Once(f) /\ Under(f, n)
    /\ Rises(q) /\ OnlyHas(q, 1 .. n) /\ Ahead(f, q)
    /\ \A x \in l : x <= n /\ ~Has(f, x) /\ Ahead(<<x>>, q)

LEMMA JoinOnce ==
    ASSUME NEW s \in Seq(Nat), NEW t \in Seq(Nat), Once(s), Once(t),
           \A i \in 1 .. Len(s), j \in 1 .. Len(t) : s[i] # t[j]
    PROVE  Once(s \o t)
<1> DEFINE r == s \o t
<1>1. /\ Len(r) \in Nat /\ Len(s) \in Nat /\ Len(t) \in Nat
      /\ \A i \in 1 .. Len(r) :
            \/ i \in 1 .. Len(s) /\ r[i] = s[i]
            \/ i > Len(s) /\ i - Len(s) \in 1 .. Len(t) /\ r[i] = t[i - Len(s)]
    BY Joints
<1> HIDE DEF r
<1> SUFFICES ASSUME NEW i \in 1 .. Len(r), NEW j \in 1 .. Len(r), r[i] = r[j]
             PROVE  i = j
    BY DEF Once, r
<1>2. CASE i \in 1 .. Len(s) /\ r[i] = s[i] /\ j \in 1 .. Len(s) /\ r[j] = s[j]
    BY <1>2 DEF Once
<1>3. CASE /\ i > Len(s) /\ i - Len(s) \in 1 .. Len(t) /\ r[i] = t[i - Len(s)]
           /\ j > Len(s) /\ j - Len(s) \in 1 .. Len(t) /\ r[j] = t[j - Len(s)]
    <2>1. i - Len(s) = j - Len(s)
        BY <1>3 DEF Once
    <2> QED
        BY <1>1, <2>1
<1> QED
    BY <1>1, <1>2, <1>3

\* Sequences of chunks that rise have each once, and none of those before them.
LEMMA RisesOnce ==
    ASSUME NEW s \in Seq(Nat), NEW t \in Seq(Nat), NEW n, Rises(t), OnlyHas(t, 1 .. n)
    PROVE  /\ Once(t)
           /\ Ahead(s, t) => \A i \in 1 .. Len(s), j \in 1 .. Len(t) : s[i] # t[j]
<1>1. \A i \in 1 .. Len(t) : t[i] \in Nat /\ t[i] # Ping
    BY DEF OnlyHas, Ping
<1>2. \A i \in 1 .. Len(s) : s[i] \in Nat
    OBVIOUS
<1>3. Once(t)
    <2> SUFFICES ASSUME NEW i \in 1 .. Len(t), NEW j \in 1 .. Len(t), t[i] = t[j], i # j
                 PROVE  FALSE
        BY DEF Once
    <2>1. i < j \/ j < i
        OBVIOUS
    <2> QED
        BY <1>1, <2>1 DEF Rises
<1> QED
    BY <1>1, <1>2, <1>3 DEF Ahead

\* The front of what the client has in hand is given to the server, given up, or lost;
\* or the rest is lost.
LEMMA FrontShares ==
    ASSUME NEW f \in Seq(Nat), NEW a \in Seq(Nat), NEW b \in Seq(Nat), NEW l \in SUBSET Nat,
           NEW n \in Nat, Shares(f, a \o b, l, n)
    PROVE  /\ Shares(f \o a, b, l, n) /\ Shares(f, b, l, n) /\ Shares(f, a, l, n)
           /\ \A k \in SUBSET Nat : (\A x \in k : Has(a, x)) => Shares(f, b, l \cup k, n)
<1>1. /\ Rises(a) /\ Rises(b) /\ Ahead(a, b) /\ Ahead(f, a) /\ Ahead(f, b)
      /\ OnlyHas(a, 1 .. n) /\ OnlyHas(b, 1 .. n) /\ Once(f) /\ Under(f, n)
    BY JoinRises, JoinAhead, JoinOnlyHas DEF Shares
<1>2. ASSUME NEW x \in l
      PROVE  x <= n /\ ~Has(f, x) /\ Ahead(<<x>>, a) /\ Ahead(<<x>>, b)
    <2>1. <<x>> \in Seq(Nat) /\ Ahead(<<x>>, a \o b) /\ x <= n /\ ~Has(f, x)
        BY DEF Shares
    <2> QED
        BY <2>1, JoinAhead
<1>3. Shares(f, b, l, n) /\ Shares(f, a, l, n)
    BY <1>1, <1>2 DEF Shares
<1>4. Once(a) /\ \A i \in 1 .. Len(f), j \in 1 .. Len(a) : f[i] # a[j]
    BY <1>1, RisesOnce
<1>5. Under(a, n)
    BY <1>1 DEF OnlyHas, Under
<1>6. Shares(f \o a, b, l, n)
    <2>1. Once(f \o a)
        BY <1>1, <1>4, JoinOnce
    <2>2. Under(f \o a, n) /\ Ahead(f \o a, b)
        BY <1>1, <1>5, JoinUnder, JoinAhead
    <2>3. ASSUME NEW x \in l PROVE ~Has(f \o a, x)
        <3>1. ~Has(a, x)
            <4> SUFFICES ASSUME NEW i \in 1 .. Len(a), a[i] = x PROVE FALSE
                BY DEF Has
            <4>1. a[i] # Ping /\ a[i] \in Nat
                BY <1>1 DEF OnlyHas, Ping
            <4>2. Ahead(<<x>>, a) /\ Len(<<x>>) = 1 /\ <<x>>[1] = x
                BY <1>2
            <4>3. x < a[i]
                BY <4>1, <4>2 DEF Ahead
            <4> QED
                BY <4>1, <4>3
        <3> QED
            BY <1>2, <3>1, JoinHas
    <2> QED
        BY <1>1, <1>2, <2>1, <2>2, <2>3 DEF Shares
<1>7. ASSUME NEW k \in SUBSET Nat, \A x \in k : Has(a, x)
      PROVE  Shares(f, b, l \cup k, n)
    <2>1. ASSUME NEW x \in k PROVE x <= n /\ ~Has(f, x) /\ Ahead(<<x>>, b)
        <3>1. PICK i \in 1 .. Len(a) : a[i] = x
            BY <1>7 DEF Has
        <3>2. ~Has(f, x)
            BY <1>4, <3>1 DEF Has
        <3>3. \A j \in 1 .. Len(b) : b[j] # Ping => x < b[j]
            BY <1>1, <3>1 DEF Ahead
        <3>4. Len(<<x>>) = 1 /\ <<x>>[1] = x
            OBVIOUS
        <3>5. Ahead(<<x>>, b)
            BY <3>3, <3>4 DEF Ahead
        <3>6. x <= n
            BY <1>5, <3>1 DEF Under
        <3> QED
            BY <3>2, <3>5, <3>6
    <2> QED
        BY <1>3, <2>1 DEF Shares
<1> QED
    BY <1>3, <1>6, <1>7

\* A post that was given up arrives after all, or never.
LEMMA LateShares ==
    ASSUME NEW f \in Seq(Nat), NEW q \in Seq(Nat), NEW l \in SUBSET Nat, NEW n \in Nat,
           Shares(f, q, l, n), NEW x \in l
    PROVE  Shares(f, q, l \ {x}, n) /\ Shares(f \o <<x>>, q, l \ {x}, n)
<1>1. Shares(f, q, l \ {x}, n)
    BY DEF Shares
<1>2. /\ <<x>> \in Seq(Nat) /\ Len(<<x>>) = 1 /\ <<x>>[1] = x /\ x \in Nat
      /\ x <= n /\ ~Has(f, x) /\ Ahead(<<x>>, q)
    BY DEF Shares
<1>3. Once(<<x>>) /\ \A i \in 1 .. Len(f), j \in 1 .. Len(<<x>>) : f[i] # <<x>>[j]
    BY <1>2 DEF Once, Has
<1>4. Once(f \o <<x>>)
    BY <1>2, <1>3, JoinOnce DEF Shares
<1>5. Under(f \o <<x>>, n) /\ Ahead(f \o <<x>>, q)
    <2>1. Under(<<x>>, n)
        BY <1>2 DEF Under
    <2> QED
        BY <1>2, <2>1, JoinUnder, JoinAhead DEF Shares
<1>6. ASSUME NEW y \in l \ {x} PROVE ~Has(f \o <<x>>, y)
    <2>1. ~Has(f, y)
        BY DEF Shares
    <2>2. ~Has(<<x>>, y)
        BY <1>2 DEF Has
    <2> QED
        BY <1>2, <2>1, <2>2, JoinHas
<1> QED
    BY <1>1, <1>4, <1>5, <1>6 DEF Shares

\* The client writes one more chunk.
LEMMA WrittenShares ==
    ASSUME NEW f \in Seq(Nat), NEW q \in Seq(Nat), NEW l \in SUBSET Nat, NEW n \in Nat,
           Shares(f, q, l, n)
    PROVE  Shares(f, q \o <<n + 1>>, l, n + 1)
<1> DEFINE m == n + 1
<1>1. m \in Nat /\ n < m /\ <<m>> \in Seq(Nat) /\ m \in 1 .. m /\ 1 .. n \subseteq 1 .. m
    OBVIOUS
<1>2. /\ Once(f) /\ Under(f, n) /\ Rises(q) /\ OnlyHas(q, 1 .. n) /\ Ahead(f, q)
      /\ \A x \in l : x <= n /\ ~Has(f, x) /\ Ahead(<<x>>, q)
    BY DEF Shares
<1> HIDE DEF m
<1>3. Under(q, n) /\ Under(f, m)
    BY <1>1, <1>2 DEF OnlyHas, Under
<1>4. Ahead(f, <<m>>) /\ Ahead(q, <<m>>) /\ Rises(<<m>>)
    BY <1>1, <1>2, <1>3, Single
<1>5. Rises(q \o <<m>>) /\ Ahead(f, q \o <<m>>)
    BY <1>1, <1>2, <1>4, JoinRises, JoinAhead
<1>6. OnlyHas(q \o <<m>>, 1 .. m)
    <2>1. OnlyHas(q, 1 .. m) /\ OnlyHas(<<m>>, 1 .. m)
        BY <1>1, <1>2, OnlyHasMore, OnlyHasOne
    <2> QED
        BY <1>1, <2>1, JoinOnlyHas
<1>7. ASSUME NEW x \in l PROVE x <= m /\ Ahead(<<x>>, q \o <<m>>)
    <2>1. <<x>> \in Seq(Nat) /\ x <= n /\ x < m /\ x <= m /\ Len(<<x>>) = 1 /\ <<x>>[1] = x
          /\ Ahead(<<x>>, q)
        BY <1>1, <1>2
    <2>2. Under(<<x>>, n)
        BY <2>1 DEF Under
    <2>3. Ahead(<<x>>, <<m>>)
        BY <1>1, <2>1, <2>2, Single
    <2> QED
        BY <1>1, <2>1, <2>3, JoinAhead
<1> QED
    BY <1>2, <1>3, <1>5, <1>6, <1>7 DEF Shares, m

Shared == Shares(Fed("server"), post \o ubuf, late, up)

LEMMA SharedKept ==
    ASSUME Shared, UNCHANGED <<post, ubuf, late, up>>, Fed("server")' = Fed("server")
    PROVE  Shared'
BY DEF Shared

\* Steps of the upload that move chunks from the front of what is in hand.
LEMMA UploadShares ==
    ASSUME Inv, Shared, SseDrain \/ SsePosted \/ SsePostFails \/ SseClose
    PROVE  Shared'
<1> DEFINE f == Fed("server")
<1>1. /\ f \in Seq(Nat) /\ post \in Seq(Nat) /\ ubuf \in Seq(Nat) /\ up \in Nat /\ Types
      /\ late \in SUBSET Nat /\ <<>> \in Seq(Nat) /\ <<>> \o ubuf = ubuf
    <2>1. late \in SUBSET Nat
        BY DEF Inv, Types, UpData
    <2>2. <<>> \o ubuf = ubuf
        BY UpSeqs, ConcatEmptySeq
    <2> QED
        BY <2>1, <2>2, UpSeqs
<1>2. /\ Shares(f \o post, ubuf, late, up) /\ Shares(f, ubuf, late, up)
      /\ \A k \in SUBSET Nat : (\A x \in k : Has(post, x)) => Shares(f, ubuf, late \cup k, up)
    BY <1>1, FrontShares DEF Shared
<1>3. f \o <<>> = f
    BY <1>1, ConcatEmptySeq
<1>4. CASE SseDrain
    <2>1. /\ post = <<>> /\ post' = <<Head(ubuf)>> /\ ubuf' = Tail(ubuf) /\ ubuf # <<>>
          /\ UNCHANGED <<reader, late, up>>
        BY <1>4 DEF SseDrain
    <2>2. post' \o ubuf' = post \o ubuf
        BY <1>1, <2>1, HeadAndTail
    <2>3. Fed("server")' = Fed("server")
        BY <2>1 DEF Fed
    <2> QED
        BY <2>1, <2>2, <2>3 DEF Shared
<1>5. ASSUME Feed("server", IF known THEN post ELSE <<>>), post' = <<>>, UNCHANGED <<ubuf, late, up>>
      PROVE  Shared'
    <2>1. (IF known THEN post ELSE <<>>) \in Seq(Nat)
        BY <1>1
    <2>2. f' = f \o (IF known THEN post ELSE <<>>)
        BY <1>5, <2>1, ServerFed
    <2>3. f' = f \o post \/ f' = f
        BY <1>3, <2>2
    <2>4. post' \o ubuf' = ubuf
        BY <1>1, <1>5
    <2> QED
        BY <1>2, <1>5, <2>3, <2>4 DEF Shared
<1>6. ASSUME NEW k \in SUBSET Nat, \A x \in k : Has(post, x), late' = late \cup k,
             post' = <<>>, UNCHANGED <<reader, ubuf, up>>
      PROVE  Shared'
    <2>1. f' = f
        BY <1>6 DEF Fed
    <2>2. post' \o ubuf' = ubuf
        BY <1>1, <1>6
    <2> QED
        BY <1>2, <1>6, <2>1, <2>2 DEF Shared
<1>7. CASE SsePosted
    BY <1>5, <1>7 DEF SsePosted
<1>8. CASE SsePostFails
    <2>1. CASE Feed("server", IF known THEN post ELSE <<>>) /\ UNCHANGED late
        BY <1>5, <1>8, <2>1 DEF SsePostFails
    <2>2. CASE late' = late \cup {Head(post)} /\ UNCHANGED reader
        <3>1. post # <<>> /\ post' = <<>> /\ UNCHANGED <<ubuf, up>>
            BY <1>8 DEF SsePostFails
        <3>2. Head(post) = post[1] /\ 1 \in 1 .. Len(post) /\ Head(post) \in Nat
            BY <1>1, <3>1
        <3>3. Has(post, Head(post))
            BY <3>2 DEF Has
        <3>4. {Head(post)} \in SUBSET Nat /\ \A x \in {Head(post)} : Has(post, x)
            BY <3>2, <3>3
        <3> QED
            BY <1>6, <2>2, <3>1, <3>4
    <2> QED
        BY <1>8, <2>1, <2>2 DEF SsePostFails
<1>9. CASE SseClose
    <2>1. late' = late \cup ToSet(post) /\ post' = <<>> /\ UNCHANGED <<reader, ubuf, up>>
        BY <1>9 DEF SseClose
    <2>2. ToSet(post) \in SUBSET Nat /\ \A x \in ToSet(post) : Has(post, x)
        BY <1>1 DEF ToSet, Has
    <2> QED
        BY <1>6, <2>1, <2>2
<1> QED
    BY <1>4, <1>7, <1>8, <1>9

\* A body client's writer and request.
LEMMA BodyShares ==
    ASSUME Inv, Shared, BodyDrain \/ BodyUpload \/ BodyUploadEnds
    PROVE  Shared'
<1> DEFINE f == Fed("server")
<1>1. /\ f \in Seq(Nat) /\ post \in Seq(Nat) /\ ubuf \in Seq(Nat) /\ up \in Nat /\ Types
      /\ late \in SUBSET Nat /\ <<>> \in Seq(Nat) /\ <<>> \o ubuf = ubuf
      /\ post \o <<>> = post /\ post \o ubuf \in Seq(Nat)
      /\ (post \o ubuf) \o <<>> = post \o ubuf /\ f \o <<>> = f
    <2>1. late \in SUBSET Nat
        BY DEF Inv, Types, UpData
    <2>2. post \o ubuf \in Seq(Nat)
        BY UpSeqs
    <2>3. /\ <<>> \o ubuf = ubuf /\ post \o <<>> = post /\ f \o <<>> = f
          /\ (post \o ubuf) \o <<>> = post \o ubuf
        BY <2>2, UpSeqs, ConcatEmptySeq
    <2> QED
        BY <2>1, <2>2, <2>3, UpSeqs
<1>2. Shares(f, ubuf, late, up) /\ Shares(f, post, late, up)
    BY <1>1, FrontShares DEF Shared
<1>3. CASE BodyDrain
    <2>1. /\ ubuf' = <<>> /\ (post' = post \/ post' = post \o ubuf) /\ UNCHANGED <<reader, late, up>>
        BY <1>3 DEF BodyDrain
    <2>2. post' \o ubuf' = post \/ post' \o ubuf' = post \o ubuf
        BY <1>1, <2>1
    <2>3. f' = f
        BY <2>1 DEF Fed
    <2> QED
        BY <1>2, <2>1, <2>2, <2>3 DEF Shared
<1>4. CASE BodyUpload
    <2> DEFINE n == LineEnd(post)
               a == SubSeq(post, 1, n)
               b == SubSeq(post, n + 1, Len(post))
    <2>1. /\ HasLine(post) /\ Feed("server", a) /\ post' = b /\ UNCHANGED <<ubuf, late, up>>
        BY <1>4 DEF BodyUpload
    <2>2. n \in 0 .. Len(post)
        BY <1>1, <2>1, LineEndIs
    <2> HIDE DEF n
    <2>3. a \o b = post /\ a \in Seq(Nat) /\ b \in Seq(Nat)
        BY <1>1, <2>2, Parts, PartsJoin
    <2> HIDE DEF a, b
    <2>4. f' = f \o a
        BY <2>1, <2>3, ServerFed
    <2>5. a \o (b \o ubuf) = post \o ubuf /\ b \o ubuf \in Seq(Nat)
        <3>0. a \in Seq(Nat) /\ b \in Seq(Nat) /\ ubuf \in Seq(Nat)
            BY <1>1, <2>3
        <3>1. (a \o b) \o ubuf = a \o (b \o ubuf)
            BY <3>0, Associative
        <3>2. b \o ubuf \in Seq(Nat)
            BY <3>0
        <3> QED
            BY <2>3, <3>1, <3>2
    <2>6. Shares(f, a \o (b \o ubuf), late, up)
        BY <2>5 DEF Shared
    <2>7. Shares(f \o a, b \o ubuf, late, up)
        BY <1>1, <2>3, <2>5, <2>6, FrontShares
    <2> QED
        BY <2>1, <2>4, <2>7 DEF Shared
<1>5. CASE BodyUploadEnds
    <2>1. FeedEnd("server", <<>>) /\ post' = <<>> /\ UNCHANGED <<ubuf, late, up>>
        BY <1>5 DEF BodyUploadEnds
    <2>2. f' = f \o <<>>
        BY <1>1, <2>1, ServerFed
    <2>3. f' = f /\ post' \o ubuf' = ubuf
        BY <1>1, <2>1, <2>2
    <2> QED
        BY <1>2, <2>1, <2>3 DEF Shared
<1> QED
    BY <1>3, <1>4, <1>5

LEMMA SendShares ==
    ASSUME Inv, Shared, SendStep
    PROVE  Shared'
<1> DEFINE f == Fed("server")
<1>1. /\ f \in Seq(Nat) /\ post \in Seq(Nat) /\ ubuf \in Seq(Nat) /\ up \in Nat /\ Types
      /\ late \in SUBSET Nat /\ post \o ubuf \in Seq(Nat)
    <2>1. late \in SUBSET Nat
        BY DEF Inv, Types, UpData
    <2>2. post \o ubuf \in Seq(Nat)
        BY UpSeqs
    <2> QED
        BY <2>1, <2>2, UpSeqs
<1>2. CASE Write
    <2>1. up' = up + 1 /\ ubuf' = Append(ubuf, up + 1) /\ UNCHANGED <<reader, post, late>>
        BY <1>2 DEF Write
    <2>2. Append(ubuf, up + 1) = ubuf \o <<up + 1>> /\ <<up + 1>> \in Seq(Nat)
        BY <1>1, AppendIs
    <2>3. post \o (ubuf \o <<up + 1>>) = (post \o ubuf) \o <<up + 1>>
        BY <1>1, <2>2, Associative
    <2>4. f' = f
        BY <2>1 DEF Fed
    <2>5. Shares(f, (post \o ubuf) \o <<up + 1>>, late, up + 1)
        BY <1>1, WrittenShares DEF Shared
    <2> QED
        BY <2>1, <2>2, <2>3, <2>4, <2>5 DEF Shared
<1>3. ASSUME NEW x \in late, SsePostLate(x) PROVE Shared'
    <2>1. /\ late' = late \ {x} /\ UNCHANGED <<ubuf, post, up>>
          /\ Feed("server", IF known THEN <<x>> ELSE <<>>) \/ UNCHANGED reader
        BY <1>3 DEF SsePostLate
    <2>2. Shares(f, post \o ubuf, late \ {x}, up) /\ Shares(f \o <<x>>, post \o ubuf, late \ {x}, up)
        BY <1>1, LateShares DEF Shared
    <2>3. f' = f \o <<x>> \/ f' = f
        <3>1. CASE UNCHANGED reader
            BY <3>1 DEF Fed
        <3>2. CASE Feed("server", IF known THEN <<x>> ELSE <<>>)
            <4>1. (IF known THEN <<x>> ELSE <<>>) \in Seq(Nat)
                BY <1>1
            <4>2. f' = f \o (IF known THEN <<x>> ELSE <<>>)
                BY <3>2, <4>1, ServerFed
            <4>3. f \o <<>> = f
                BY <1>1, ConcatEmptySeq
            <4> QED
                BY <4>2, <4>3
        <3> QED
            BY <2>1, <3>1, <3>2
    <2> QED
        BY <2>1, <2>2, <2>3 DEF Shared
<1>4. CASE BodyClose
    <2>1. UNCHANGED <<reader, ubuf, post, late, up>>
        BY <1>4 DEF BodyClose, uploads
    <2>2. Fed("server")' = Fed("server")
        BY <2>1 DEF Fed
    <2> QED
        BY <2>1, <2>2, SharedKept
<1> QED
    BY <1>2, <1>3, <1>4, UploadShares, BodyShares DEF SendStep

LEMMA NextShares ==
    ASSUME Inv, Shared, [Next]_vars
    PROVE  Shared'
<1>1. Types /\ "client" # "server" /\ <<>> \in Seq(Nat)
    BY DEF Inv
<1>2. ASSUME UNCHANGED uploads,
             \/ reader' = reader
             \/ \E s \in Seq(Nat) : Feed("client", s) \/ FeedEnd("client", s)
      PROVE  Shared'
    <2>1. Fed("server")' = Fed("server")
        <3>1. CASE reader' = reader
            BY <3>1 DEF Fed
        <3>2. CASE \E s \in Seq(Nat) : Feed("client", s) \/ FeedEnd("client", s)
            <4>1. PICK s \in Seq(Nat) : Feed("client", s) \/ FeedEnd("client", s)
                BY <3>2
            <4> QED
                BY <1>1, <4>1, FeedIs, Constants
        <3> QED
            BY <1>2, <3>1, <3>2
    <2> QED
        BY <1>2, <2>1, SharedKept DEF uploads
<1>3. CASE ServerStep
    <2>1. CASE Restart
        <3>1. UNCHANGED uploads /\ (reader' = reader \/ FeedEnd("client", <<>>))
            BY <2>1 DEF Restart
        <3> QED
            BY <1>1, <1>2, <3>1
    <2> QED
        BY <1>2, <1>3, <2>1
           DEF ServerStep, SvrWrite, SvrClose, SseArrive, BodyArrive, Take, Timeout
<1>4. CASE ReceiveStep
    <2>1. ASSUME NEW c \in Conns, SseReceive(c) PROVE Shared'
        <3> DEFINE s == IF Head(conns[c].wire) = Ping THEN <<>> ELSE <<Head(conns[c].wire)>>
        <3>1. UNCHANGED uploads /\ Feed("client", s) /\ conns[c].wire # <<>>
            BY <2>1 DEF SseReceive
        <3>2. conns[c].wire \in Seq(Nat)
            BY Sequences
        <3>3. <<Head(conns[c].wire)>> \in Seq(Nat)
            BY <3>1, <3>2, HeadAndTail
        <3>4. s \in Seq(Nat)
            BY <1>1, <3>3
        <3> QED
            BY <1>2, <3>1, <3>4
    <2>2. ASSUME NEW c \in Conns, BodyReceive(c) PROVE Shared'
        <3> DEFINE w == conns[c].wire
                   s == SubSeq(w, 1, LineEnd(w))
        <3>1. UNCHANGED uploads /\ Feed("client", s) /\ HasLine(w) /\ w \in Seq(Nat)
            BY <2>2, Sequences DEF BodyReceive
        <3>2. LineEnd(w) \in 0 .. Len(w)
            BY <3>1, LineEndIs
        <3>3. s \in Seq(Nat)
            BY <3>1, <3>2, Parts
        <3> QED
            BY <1>2, <3>1, <3>3
    <2>3. ASSUME NEW c \in Conns, BodyEnds(c) PROVE Shared'
        <3> DEFINE w == conns[c].wire
                   s == IF w = <<Ping>> THEN <<>> ELSE w
        <3>1. UNCHANGED uploads /\ FeedEnd("client", s) /\ w \in Seq(Nat)
            BY <2>3, Sequences DEF BodyEnds
        <3>2. s \in Seq(Nat)
            BY <1>1, <3>1
        <3> QED
            BY <1>2, <3>1, <3>2
    <2>4. ASSUME NEW c \in Conns, Break(c) PROVE Shared'
        <3>1. UNCHANGED uploads /\ (reader' = reader \/ FeedEnd("client", <<>>))
            BY <2>4 DEF Break
        <3> QED
            BY <1>1, <1>2, <3>1
    <2> QED
        BY <1>2, <1>4, <2>1, <2>2, <2>3, <2>4 DEF ReceiveStep, Ask, Wake, SseEnds, Vanish
<1>5. CASE ReadStep
    <2>1. PICK side \in Sides, n \in 1 .. (MaxDown + MaxPings + MaxUp) : Read(side, n)
        BY <1>5 DEF ReadStep
    <2>2. n \in Nat
        BY Constants
    <2>3. Fed("server")' = Fed("server") /\ UNCHANGED uploads
        BY <1>1, <2>1, <2>2, ReadIs, Constants DEF Read
    <2> QED
        BY <2>3, SharedKept DEF uploads
<1>6. CASE UNCHANGED vars
    BY <1>2, <1>6 DEF vars
<1> QED
    BY <1>3, <1>4, <1>5, <1>6, SendShares DEF Next

LEMMA InitShares ==
    ASSUME Init
    PROVE  Shared
<1>1. /\ post = <<>> /\ ubuf = <<>> /\ late = {} /\ up = 0
      /\ reader["server"] = [buf |-> <<>>, got |-> <<>>, ended |-> FALSE]
    BY Constants DEF Init
<1>2. <<>> \o <<>> = <<>> /\ <<>> \in Seq(Nat) /\ Len(<<>>) = 0
    BY ConcatEmptySeq
<1>3. Fed("server") = <<>>
    BY <1>1, <1>2 DEF Fed
<1>4. Shares(<<>>, <<>>, {}, 0)
    BY <1>2 DEF Shares, Once, Under, Rises, OnlyHas, Ahead
<1> QED
    BY <1>1, <1>2, <1>3, <1>4 DEF Shared

\* The server is given a prefix of what the client wrote, by a body request whatever
\* fails and by posts until one does; and whatever posts fail or arrive late, whatever
\* closes or restarts, no chunk is fed twice and none before an older one that the
\* client still has in hand (http_request_sse.py 67-77, http_request_body.py 191-198,
\* 288-297).
THEOREM UploadsKeepOrder == Spec => []UploadInOrder
<1>1. ASSUME Inv, Up, kind = "body" \/ (faults = 0 /\ ~closed)
      PROVE  IsPrefix(Fed("server"), [i \in 1 .. up |-> i])
    <2> DEFINE f == Fed("server")
               t == [i \in 1 .. up |-> i]
    <2>1. f \in Seq(Nat) /\ post \in Seq(Nat) /\ ubuf \in Seq(Nat) /\ f \o post \in Seq(Nat)
          /\ up \in Nat /\ Types
        BY <1>1, UpSeqs
    <2>2. Numbered(f) /\ Len(f) <= up
        <3>1. CASE kind = "body"
            BY <1>1, <3>1 DEF Up
        <3>2. CASE kind # "body"
            <4>1. Posts /\ Flowing
                BY <1>1, <2>1, <3>2 DEF Posts, Flowing, Types
            <4>2. Numbered((f \o post) \o ubuf) /\ Len((f \o post) \o ubuf) = up
                BY <1>1, <4>1 DEF Up
            <4> HIDE DEF f
            <4>3. Numbered(f \o post) /\ Len(f \o post) <= up
                BY <2>1, <4>2, JoinNumbered
            <4>4. Numbered(f) /\ Len(f) <= Len(f \o post)
                BY <2>1, <4>3, JoinNumbered
            <4> QED
                BY <2>1, <4>3, <4>4
        <3> QED
            BY <3>1, <3>2
    <2>3. t \in Seq(Nat) /\ Len(t) = up /\ \A i \in 1 .. up : t[i] = i
        BY <2>1
    <2> HIDE DEF f, t
    <2>4. Len(f) \in Nat /\ Len(f) \in 0 .. Len(f) /\ Len(f) \in 0 .. Len(t)
        BY <2>1, <2>2, <2>3
    <2>5. /\ SubSeq(f, 1, Len(f)) \in Seq(Nat) /\ SubSeq(t, 1, Len(f)) \in Seq(Nat)
          /\ Len(SubSeq(f, 1, Len(f))) = Len(f) /\ Len(SubSeq(t, 1, Len(f))) = Len(f)
          /\ \A i \in 1 .. Len(f) : SubSeq(f, 1, Len(f))[i] = f[i] /\ SubSeq(t, 1, Len(f))[i] = t[i]
        BY <2>1, <2>3, <2>4, Parts
    <2>6. \A i \in 1 .. Len(f) : f[i] = t[i]
        BY <2>1, <2>2, <2>3 DEF Numbered
    <2>7. SubSeq(f, 1, Len(f)) = SubSeq(t, 1, Len(f))
        BY <2>5, <2>6, SeqEqual
    <2> QED
        BY <2>2, <2>3, <2>7 DEF IsPrefix, f, t
<1>2. ASSUME Inv, Shared
      PROVE  /\ \A i, j \in DOMAIN Fed("server") : Fed("server")[i] = Fed("server")[j] => i = j
             /\ \A x \in ToSet(Fed("server")), y \in ToSet(post \o ubuf) : x < y
    <2> DEFINE f == Fed("server")
               q == post \o ubuf
    <2>1. f \in Seq(Nat) /\ q \in Seq(Nat)
        BY <1>2, UpSeqs
    <2>2. Once(f) /\ Ahead(f, q) /\ OnlyHas(q, 1 .. up)
        BY <1>2 DEF Shared, Shares
    <2> HIDE DEF f, q
    <2>3. \A i, j \in DOMAIN f : f[i] = f[j] => i = j
        BY <2>1, <2>2 DEF Once
    <2>4. ASSUME NEW x \in ToSet(f), NEW y \in ToSet(q) PROVE x < y
        <3>1. PICK i \in 1 .. Len(f) : x = f[i]
            BY <2>1 DEF ToSet
        <3>2. PICK j \in 1 .. Len(q) : y = q[j]
            BY <2>1 DEF ToSet
        <3>3. q[j] # Ping
            BY <2>2 DEF OnlyHas, Ping
        <3> QED
            BY <2>2, <3>1, <3>2, <3>3 DEF Ahead
    <2> QED
        BY <2>3, <2>4 DEF f, q
<1>3. Inv /\ Up /\ Shared => UploadInOrder
    BY <1>1, <1>2 DEF UploadInOrder
<1>4. Init => Shared
    BY InitShares
<1>5. Inv /\ Shared /\ [Next]_vars => Shared'
    BY NextShares
<1> QED
    BY <1>3, <1>4, <1>5, Always, PTL DEF Spec
-----------------------------------------------------------------------------
(* Nothing is lost *)

\* Without failures and closes the client has every response that is under way, and
\* a chunk the server wrote is somewhere between it and the client.
Quiet == faults = 0 /\ ~closed
Somewhere(k) ==
    \/ Has(Fed("client"), k) \/ Has(queue, k)
    \/ \E c \in Conns : Has(conns[c].wire, k)
Present ==
    Quiet =>
        /\ kind = "sse" => known
        /\ \A c \in Conns : /\ ~conns[c].mine => conns[c].pc = "free"
                            /\ conns[c].pc = "sent" => conns[c].wire = <<>>
        /\ ~stop => /\ \A c \in Conns : conns[c].pc # "over"
                    /\ \A k \in 1 .. written : Somewhere(k)

LEMMA NotQuiet == ASSUME ~Quiet' PROVE Present'
BY DEF Present

LEMMA PresentKept ==
    ASSUME Present, UNCHANGED <<kind, conns, written, queue, stop>>,
           Fed("client")' = Fed("client"), Quiet' => Quiet /\ (known => known')
    PROVE  Present'
BY DEF Present, Somewhere

\* The responses, when a handler goes on.
LEMMA LoopPresent ==
    ASSUME Inv, Present, Quiet, NEW c \in Conns, conns[c].pc \in {"sent", "get"},
           NEW w \in Seq(Nat), NEW h \in BOOLEAN, Loop(c, w, h),
           conns[c].pc = "sent" => w = <<>>
    PROVE  /\ conns[c].mine
           /\ \A d \in Conns : /\ ~conns'[d].mine => conns'[d].pc = "free"
                               /\ conns'[d].pc = "sent" => conns'[d].wire = <<>>
           /\ ~h /\ ~stop => \A d \in Conns : conns'[d].pc # "over"
           /\ conns'[c].wire = w /\ \A d \in Conns : d # c => conns'[d] = conns[d]
<1>1. conns[c].mine /\ Types /\ Owner
    BY DEF Inv, Present
<1>2. /\ conns'[c].wire = w /\ conns'[c].mine = conns[c].mine
      /\ h \/ conns'[c].pc = "get"
      /\ h => conns'[c].pc = IF conns[c].mine THEN "over" ELSE "free"
      /\ \A d \in Conns : d # c => conns'[d] = conns[d]
    BY <1>1, LoopIs
<1>3. \A d \in Conns : /\ ~conns'[d].mine => conns'[d].pc = "free"
                       /\ conns'[d].pc = "sent" => conns'[d].wire = <<>>
    BY <1>1, <1>2 DEF Present
<1>4. ~h /\ ~stop => \A d \in Conns : conns'[d].pc # "over"
    BY <1>2 DEF Present
<1> QED
    BY <1>1, <1>2, <1>3, <1>4

LEMMA SvrWritePresent ==
    ASSUME Inv, Present, SvrWrite
    PROVE  Present'
<1>1. /\ queue \in Seq(Nat) /\ written \in Nat /\ Fed("client") \in Seq(Nat)
    BY Sequences, Constants
<1>2. /\ written' = written + 1 /\ queue' = Append(queue, written + 1)
      /\ UNCHANGED <<kind, conns, stop, reader, known, closed, faults>>
    BY DEF SvrWrite
<1>3. Append(queue, written + 1) = queue \o <<written + 1>> /\ <<written + 1>> \in Seq(Nat)
    BY <1>1, AppendIs
<1>4. ASSUME Quiet, ~stop, NEW k \in 1 .. written + 1 PROVE Somewhere(k)'
    <2>1. Fed("client")' = Fed("client")
        BY <1>2 DEF Fed
    <2>2. Has(queue', k) <=> Has(queue, k) \/ Has(<<written + 1>>, k)
        <3>1. Has(queue \o <<written + 1>>, k) <=> Has(queue, k) \/ Has(<<written + 1>>, k)
            BY <1>1, <1>3, JoinHas
        <3> QED
            BY <1>2, <1>3, <3>1
    <2>3. CASE k = written + 1
        <3>1. Has(<<written + 1>>, k)
            BY <1>1, <2>3, Single
        <3> QED
            BY <2>2, <3>1 DEF Somewhere
    <2>4. CASE k \in 1 .. written
        BY <1>2, <1>4, <2>1, <2>2, <2>4 DEF Somewhere, Present
    <2> QED
        BY <1>1, <2>3, <2>4
<1> QED
    BY <1>2, <1>4 DEF Present, Quiet

LEMMA SvrClosePresent ==
    ASSUME Inv, Present, SvrClose
    PROVE  Present'
BY DEF SvrClose, Present, Quiet

LEMMA ArrivePresent ==
    ASSUME Inv, Present, NEW c \in Conns, SseArrive(c) \/ BodyArrive(c)
    PROVE  Present'
<1>1. CASE ~Quiet
    <2>1. ~Quiet'
        BY <1>1 DEF SseArrive, BodyArrive, Quiet
    <2> QED
        BY <2>1, NotQuiet
<1>2. CASE Quiet
    <2>1. PICK h \in BOOLEAN : Loop(c, <<>>, h) /\ (h => stop)
        <3>1. kind = "sse" => known
            BY <1>2 DEF Present
        <3>2. stop \in BOOLEAN /\ (stop \/ ~known) \in BOOLEAN
            BY DEF Inv, Types
        <3> QED
            BY <3>1, <3>2 DEF SseArrive, BodyArrive
    <2>2. /\ UNCHANGED <<kind, lines, task, down, reader, uploads, closed, faults>>
          /\ known => known'
          /\ conns[c].pc = "sent" /\ <<>> \in Seq(Nat)
        BY DEF SseArrive, BodyArrive
    <2>3. /\ \A d \in Conns : /\ ~conns'[d].mine => conns'[d].pc = "free"
                              /\ conns'[d].pc = "sent" => conns'[d].wire = <<>>
          /\ ~h /\ ~stop => \A d \in Conns : conns'[d].pc # "over"
          /\ conns'[c].wire = <<>> /\ \A d \in Conns : d # c => conns'[d] = conns[d]
        BY <1>2, <2>1, <2>2, LoopPresent
    <2>4. conns[c].wire = <<>>
        BY <1>2, <2>2 DEF Present
    <2>5. \A d \in Conns : conns'[d].wire = conns[d].wire
        BY <2>3, <2>4
    <2>6. /\ Fed("client")' = Fed("client") /\ queue' = queue /\ written' = written
          /\ kind' = kind /\ stop' = stop
        BY <2>2 DEF Fed, down
    <2>7. \A k \in 1 .. written : Somewhere(k) => Somewhere(k)'
        BY <2>5, <2>6 DEF Somewhere
    <2> QED
        BY <1>2, <2>1, <2>2, <2>3, <2>6, <2>7 DEF Present
<1> QED
    BY <1>1, <1>2

LEMMA TakePresent ==
    ASSUME Inv, Present, NEW c \in Conns, Take(c)
    PROVE  Present'
<1>1. CASE ~Quiet
    <2>1. ~Quiet'
        BY <1>1 DEF Take, Quiet
    <2> QED
        BY <2>1, NotQuiet
<1>2. CASE Quiet
    <2> DEFINE x == Head(queue)
    <2>1. /\ queue # <<>> /\ queue' = Tail(queue) /\ conns[c].pc = "get"
          /\ UNCHANGED <<kind, lines, task, written, stop, pings, reader, uploads, known, closed, faults>>
        BY TakeIs DEF Take
    <2>2. conns[c].mine
        BY <1>2, <2>1 DEF Present
    <2>3. PICK w \in Seq(Nat), h \in BOOLEAN :
              /\ Loop(c, w, h)
              /\ \/ w = conns[c].wire /\ x = End
                 \/ w = Append(conns[c].wire, x) /\ h = stop
        BY <2>2, TakeIs
    <2>4. /\ \A d \in Conns : /\ ~conns'[d].mine => conns'[d].pc = "free"
                              /\ conns'[d].pc = "sent" => conns'[d].wire = <<>>
          /\ ~h /\ ~stop => \A d \in Conns : conns'[d].pc # "over"
          /\ conns'[c].wire = w /\ \A d \in Conns : d # c => conns'[d] = conns[d]
        BY <1>2, <2>1, <2>3, LoopPresent
    <2>5. /\ queue \in Seq(Nat) /\ conns[c].wire \in Seq(Nat) /\ written \in Nat /\ written <= MaxDown
          /\ OnlyHas(queue, Queued) /\ MaxDown \in Nat
        BY Sequences, Constants
    <2>6. /\ <<x>> \o Tail(queue) = queue /\ x \in Nat /\ Tail(queue) \in Seq(Nat)
          /\ <<x>> \in Seq(Nat)
        BY <2>1, <2>5, HeadAndTail
    <2>7. ASSUME ~stop PROVE x # End
        <3>1. OnlyHas(<<x>>, Queued)
            BY <2>5, <2>6, JoinOnlyHas
        <3>2. Len(<<x>>) = 1 /\ <<x>>[1] = x
            OBVIOUS
        <3>3. x \in Queued
            BY <3>1, <3>2 DEF OnlyHas
        <3> QED
            BY <2>5, <2>7, <3>3, Constants DEF Queued
    <2>8. ASSUME ~stop, NEW k \in 1 .. written, Somewhere(k) PROVE Somewhere(k)'
        <3>1. conns'[c].wire = conns[c].wire \o <<x>>
            BY <2>3, <2>4, <2>5, <2>6, <2>7, <2>8, AppendIs
        <3>2. Has(conns'[c].wire, k) <=> Has(conns[c].wire, k) \/ Has(<<x>>, k)
            <4>1. Has(conns[c].wire \o <<x>>, k) <=> Has(conns[c].wire, k) \/ Has(<<x>>, k)
                BY <2>5, <2>6, JoinHas
            <4> QED
                BY <3>1, <4>1
        <3>3. Has(queue, k) <=> Has(<<x>>, k) \/ Has(queue', k)
            <4>1. Has(<<x>> \o Tail(queue), k) <=> Has(<<x>>, k) \/ Has(Tail(queue), k)
                BY <2>6, JoinHas
            <4> QED
                BY <2>1, <2>6, <4>1
        <3>4. Fed("client")' = Fed("client")
            BY <2>1 DEF Fed
        <3>5. CASE Has(Fed("client"), k)
            BY <3>4, <3>5 DEF Somewhere
        <3>6. CASE Has(queue, k)
            BY <3>2, <3>3, <3>6 DEF Somewhere
        <3>7. CASE \E d \in Conns : Has(conns[d].wire, k)
            BY <2>4, <3>2, <3>7 DEF Somewhere
        <3> QED
            BY <2>8, <3>5, <3>6, <3>7 DEF Somewhere
    <2>9. ~stop => ~h
        BY <2>3, <2>7
    <2> QED
        BY <1>2, <2>1, <2>4, <2>8, <2>9 DEF Present
<1> QED
    BY <1>1, <1>2

LEMMA TimeoutPresent ==
    ASSUME Inv, Present, NEW c \in Conns, Timeout(c)
    PROVE  Present'
<1>1. CASE ~Quiet
    <2>1. ~Quiet'
        BY <1>1 DEF Timeout, Quiet
    <2> QED
        BY <2>1, NotQuiet
<1>2. CASE Quiet
    <2> DEFINE w == Append(conns[c].wire, Ping)
    <2>1. /\ conns[c].pc = "get" /\ queue' = queue
          /\ UNCHANGED <<kind, lines, task, written, stop, reader, uploads, known, closed, faults>>
        BY DEF Timeout
    <2>2. conns[c].mine
        BY <1>2, <2>1 DEF Present
    <2>3. Loop(c, w, stop)
        <3>1. Loop(c, w, stop \/ ~conns[c].mine)
            BY <2>2 DEF Timeout
        <3> HIDE DEF w
        <3> QED
            BY <2>2, <3>1 DEF Loop
    <2>4. /\ conns[c].wire \in Seq(Nat) /\ stop \in BOOLEAN
        BY Sequences DEF Inv, Types
    <2>5. w = conns[c].wire \o <<Ping>> /\ w \in Seq(Nat) /\ <<Ping>> \in Seq(Nat)
        BY <2>4, AppendIs, Constants
    <2> HIDE DEF w
    <2>6. /\ \A d \in Conns : /\ ~conns'[d].mine => conns'[d].pc = "free"
                              /\ conns'[d].pc = "sent" => conns'[d].wire = <<>>
          /\ ~stop => \A d \in Conns : conns'[d].pc # "over"
          /\ conns'[c].wire = w /\ \A d \in Conns : d # c => conns'[d] = conns[d]
        BY <1>2, <2>1, <2>3, <2>4, <2>5, LoopPresent
    <2>7. ASSUME NEW k \in 1 .. written, Somewhere(k) PROVE Somewhere(k)'
        <3>1. Has(conns'[c].wire, k) <=> Has(conns[c].wire, k) \/ Has(<<Ping>>, k)
            <4>1. Has(conns[c].wire \o <<Ping>>, k) <=> Has(conns[c].wire, k) \/ Has(<<Ping>>, k)
                BY <2>4, <2>5, JoinHas
            <4> QED
                BY <2>5, <2>6, <4>1
        <3>2. Fed("client")' = Fed("client")
            BY <2>1 DEF Fed
        <3>3. \A d \in Conns : Has(conns[d].wire, k) => Has(conns'[d].wire, k)
            BY <2>6, <3>1
        <3> QED
            BY <2>1, <2>7, <3>2, <3>3 DEF Somewhere
    <2> QED
        BY <1>2, <2>1, <2>6, <2>7 DEF Present
<1> QED
    BY <1>1, <1>2

LEMMA AskPresent ==
    ASSUME Inv, Present, Ask
    PROVE  Present'
<1>1. CASE ~Quiet
    <2>1. ~Quiet'
        BY <1>1 DEF Ask, Quiet
    <2> QED
        BY <2>1, NotQuiet
<1>2. CASE Quiet
    <2>1. PICK c \in Conns :
              /\ conns[c].pc = "free"
              /\ conns' = [conns EXCEPT ![c] = [Free EXCEPT !.pc = "sent", !.mine = TRUE]]
        BY DEF Ask
    <2>2. /\ Types /\ Owner /\ task = "ask"
          /\ UNCHANGED <<kind, lines, down, reader, uploads, known, closed, faults>>
        BY DEF Inv, Ask
    <2>3. /\ conns'[c].mine = TRUE /\ conns'[c].wire = <<>> /\ conns'[c].pc = "sent"
          /\ \A d \in Conns : d # c => conns'[d] = conns[d]
        BY <2>1, <2>2, FreeIs DEF Types
    <2>4. conns[c].wire = <<>>
        BY <2>2 DEF Owner
    <2>5. \A d \in Conns : conns'[d].wire = conns[d].wire
        BY <2>3, <2>4
    <2>6. /\ Fed("client")' = Fed("client") /\ queue' = queue /\ written' = written
          /\ kind' = kind /\ stop' = stop
        BY <2>2 DEF Fed, down
    <2>7. \A k \in 1 .. written : Somewhere(k) => Somewhere(k)'
        BY <2>5, <2>6 DEF Somewhere
    <2> QED
        BY <1>2, <2>2, <2>3, <2>6, <2>7 DEF Present
<1> QED
    BY <1>1, <1>2

\* What the client takes from its wire it is fed, unless it is a ping.
LEMMA ReceivePresent ==
    ASSUME Inv, Present, UNCHANGED <<kind, written, stop, queue, known, closed, faults>>,
           NEW c \in Conns, conns[c].wire # <<>>,
           NEW a \in Seq(Nat), NEW b \in Seq(Nat), conns[c].wire = a \o b, conns'[c].wire = b,
           \A d \in Conns : conns'[d].pc = conns[d].pc /\ conns'[d].mine = conns[d].mine,
           \A d \in Conns : d # c => conns'[d] = conns[d],
           NEW s \in Seq(Nat), Fed("client")' = Fed("client") \o s,
           \A k \in 1 .. written : Has(a, k) => Has(s, k)
    PROVE  Present'
<1>1. CASE ~Quiet
    <2>1. ~Quiet'
        BY <1>1 DEF Quiet
    <2> QED
        BY <2>1, NotQuiet
<1>2. CASE Quiet
    <2>1. Fed("client") \in Seq(Nat)
        BY Sequences
    <2>2. ASSUME NEW k \in 1 .. written, Somewhere(k) PROVE Somewhere(k)'
        <3>1. Has(Fed("client")', k) <=> Has(Fed("client"), k) \/ Has(s, k)
            <4>1. Has(Fed("client") \o s, k) <=> Has(Fed("client"), k) \/ Has(s, k)
                BY <2>1, JoinHas
            <4> QED
                BY <4>1
        <3>2. Has(conns[c].wire, k) <=> Has(a, k) \/ Has(conns'[c].wire, k)
            <4>1. Has(a \o b, k) <=> Has(a, k) \/ Has(b, k)
                BY JoinHas
            <4> QED
                BY <4>1
        <3>3. \A d \in Conns : Has(conns[d].wire, k) => Has(conns'[d].wire, k) \/ Has(s, k)
            BY <3>2
        <3> QED
            BY <2>2, <3>1, <3>3 DEF Somewhere
    <2>3. \A d \in Conns : /\ ~conns'[d].mine => conns'[d].pc = "free"
                           /\ conns'[d].pc = "sent" => conns'[d].wire = <<>>
        BY <1>2 DEF Present
    <2> QED
        BY <1>2, <2>2, <2>3 DEF Present
<1> QED
    BY <1>1, <1>2

LEMMA SseReceivePresent ==
    ASSUME Inv, Present, NEW c \in Conns, SseReceive(c)
    PROVE  Present'
<1> DEFINE w == conns[c].wire
           a == <<Head(w)>>
           b == Tail(w)
           s == IF Head(w) = Ping THEN <<>> ELSE a
<1>1. w \in Seq(Nat) /\ Types /\ Owner /\ w # <<>> /\ conns[c].mine
    BY Sequences DEF SseReceive
<1>2. a \o b = w /\ a \in Seq(Nat) /\ b \in Seq(Nat) /\ s \in Seq(Nat) /\ Head(w) \in Nat
    BY <1>1, HeadAndTail
<1>3. /\ Feed("client", s) /\ conns' = [conns EXCEPT ![c].wire = b]
      /\ UNCHANGED <<kind, lines, task, down, uploads, known, closed, faults>>
    BY DEF SseReceive
<1>4. Fed("client")' = Fed("client") \o s
    BY <1>1, <1>2, <1>3, FeedIs, Constants
<1>5. /\ conns'[c].wire = b
      /\ \A d \in Conns : conns'[d].pc = conns[d].pc /\ conns'[d].mine = conns[d].mine
      /\ \A d \in Conns : d # c => conns'[d] = conns[d]
    BY <1>1, <1>2, <1>3, WireTaken
<1>6. \A k \in 1 .. written : Has(a, k) => Has(s, k)
    <2>1. ASSUME NEW k \in 1 .. written, Has(a, k) PROVE s = a
        <3>1. k = Head(w)
            BY <1>2, <2>1, Single
        <3> QED
            BY <2>1, <3>1, Constants
    <2> QED
        BY <2>1
<1>7. UNCHANGED <<kind, written, stop, queue, known, closed, faults>>
    BY <1>3 DEF down
<1> HIDE DEF a, b, s
<1> QED
    BY <1>1, <1>2, <1>4, <1>5, <1>6, <1>7, ReceivePresent

LEMMA BodyReceivePresent ==
    ASSUME Inv, Present, NEW c \in Conns, BodyReceive(c)
    PROVE  Present'
<1> DEFINE w == conns[c].wire
           n == LineEnd(w)
           a == SubSeq(w, 1, n)
           b == SubSeq(w, n + 1, Len(w))
<1>1. w \in Seq(Nat) /\ Types /\ Owner /\ conns[c].mine /\ HasLine(w)
    BY Sequences DEF BodyReceive
<1>2. n \in 0 .. Len(w) /\ w # <<>>
    <2>1. n \in 1 .. Len(w)
        BY <1>1, LineEndIs
    <2> QED
        BY <1>1, <2>1
<1>3. /\ Feed("client", a) /\ conns' = [conns EXCEPT ![c].wire = SubSeq(@, n + 1, Len(@))]
      /\ UNCHANGED <<kind, lines, task, down, uploads, known, closed, faults>>
    BY DEF BodyReceive
<1>4. conns' = [conns EXCEPT ![c].wire = b]
    BY <1>3
<1> HIDE DEF n
<1>5. w = a \o b /\ a \in Seq(Nat) /\ b \in Seq(Nat)
    BY <1>1, <1>2, Parts, PartsJoin
<1>6. Fed("client")' = Fed("client") \o a
    BY <1>1, <1>3, <1>5, FeedIs, Constants
<1>7. /\ conns'[c].wire = b
      /\ \A d \in Conns : conns'[d].pc = conns[d].pc /\ conns'[d].mine = conns[d].mine
      /\ \A d \in Conns : d # c => conns'[d] = conns[d]
    BY <1>1, <1>3, <1>4, <1>5, WireTaken
<1>8. UNCHANGED <<kind, written, stop, queue, known, closed, faults>>
    BY <1>3 DEF down
<1> HIDE DEF a, b
<1> QED
    BY <1>2, <1>5, <1>6, <1>7, <1>8, ReceivePresent

\* A response that is over is free again: while nothing is closed none is over.
LEMMA EndsPresent ==
    ASSUME Inv, Present, NEW c \in Conns, SseEnds(c) \/ BodyEnds(c)
    PROVE  Present'
<1>1. /\ conns[c].pc = "over" /\ conns' = [conns EXCEPT ![c] = Free]
      /\ UNCHANGED <<kind, lines, down, uploads, known, closed, faults>>
      /\ Types
    BY DEF SseEnds, BodyEnds, Inv
<1>2. /\ conns'[c] = Free /\ \A d \in Conns : d # c => conns'[d] = conns[d]
    BY <1>1 DEF Types
<1>3. Quiet => stop
    BY <1>1 DEF Present, Inv, Types
<1>4. Quiet' => Quiet /\ stop'
    BY <1>1, <1>3 DEF Quiet, down
<1> QED
    BY <1>1, <1>2, <1>4, FreeIs DEF Present, down

LEMMA NextPresent ==
    ASSUME Inv, Present, [Next]_vars
    PROVE  Present'
<1>1. CASE SvrWrite \/ SvrClose
    BY <1>1, SvrWritePresent, SvrClosePresent
<1>2. CASE Restart
    <2>1. faults' # 0
        BY <1>2, Constants DEF Restart, Inv, Types
    <2> QED
        BY <2>1, NotQuiet DEF Quiet
<1>3. ASSUME NEW c \in Conns, SseArrive(c) \/ BodyArrive(c) \/ Take(c) \/ Timeout(c)
      PROVE  Present'
    BY <1>3, ArrivePresent, TakePresent, TimeoutPresent
<1>4. CASE Ask
    BY <1>4, AskPresent
<1>5. CASE Wake
    <2>1. Fed("client")' = Fed("client")
        BY <1>5 DEF Wake, Fed
    <2> QED
        BY <1>5, <2>1, PresentKept DEF Wake, down, Quiet
<1>6. ASSUME NEW c \in Conns, SseReceive(c) \/ SseEnds(c) \/ BodyReceive(c) \/ BodyEnds(c)
      PROVE  Present'
    BY <1>6, SseReceivePresent, BodyReceivePresent, EndsPresent
<1>7. ASSUME NEW c \in Conns, Break(c) PROVE Present'
    <2>1. faults' # 0
        BY <1>7, Constants DEF Break, Inv, Types
    <2> QED
        BY <2>1, NotQuiet DEF Quiet
<1>8. ASSUME NEW c \in Conns, Vanish(c) PROVE Present'
    <2>1. ~Quiet
        BY <1>8 DEF Vanish, Present
    <2>2. ~Quiet'
        BY <1>8, <2>1 DEF Vanish, Quiet
    <2> QED
        BY <2>2, NotQuiet
<1>9. CASE SseClose \/ BodyClose
    <2>1. ~Quiet'
        BY <1>9 DEF SseClose, BodyClose, Quiet
    <2> QED
        BY <2>1, NotQuiet
<1>10. CASE SsePostFails
    <2>1. faults' # 0
        BY <1>10, Constants DEF SsePostFails, Inv, Types
    <2> QED
        BY <2>1, NotQuiet DEF Quiet
<1>11. CASE \/ Write \/ SseDrain \/ SsePosted \/ BodyDrain \/ BodyUpload \/ BodyUploadEnds
            \/ \E x \in late : SsePostLate(x)
    <2>1. UNCHANGED <<kind, conns, down, known, closed, faults>>
        BY <1>11 DEF Write, SseDrain, SsePosted, BodyDrain, BodyUpload, BodyUploadEnds, SsePostLate
    <2>2. \/ reader' = reader
          \/ \E s : Feed("server", s) \/ FeedEnd("server", s)
        BY <1>11 DEF Write, SseDrain, SsePosted, BodyDrain, BodyUpload, BodyUploadEnds, SsePostLate
    <2>3. reader'["client"] = reader["client"]
        BY <2>2, Constants DEF Feed, FeedEnd, Inv, Types
    <2>4. Fed("client")' = Fed("client")
        BY <2>3 DEF Fed
    <2> QED
        BY <2>1, <2>4, PresentKept DEF down, Quiet
<1>12. CASE ReadStep
    <2>1. PICK side \in Sides, n \in 1 .. (MaxDown + MaxPings + MaxUp) : Read(side, n)
        BY <1>12 DEF ReadStep
    <2>2. n \in Nat
        BY Constants
    <2>3. Fed("client")' = Fed("client")
        BY <2>1, <2>2, ReadIs, Constants DEF Inv
    <2>4. UNCHANGED <<kind, conns, down, known, closed, faults>>
        BY <2>1 DEF Read
    <2> QED
        BY <2>3, <2>4, PresentKept DEF down, Quiet
<1>13. CASE UNCHANGED vars
    <2>1. Fed("client")' = Fed("client")
        BY <1>13 DEF vars, Fed
    <2> QED
        BY <1>13, <2>1, PresentKept DEF vars, down, Quiet
<1> QED
    BY <1>1, <1>2, <1>3, <1>4, <1>5, <1>6, <1>7, <1>8, <1>9, <1>10, <1>11, <1>12, <1>13
       DEF Next, ServerStep, ReceiveStep, SendStep

LEMMA InitPresent == ASSUME Init PROVE Present
<1>1. \A c \in Conns : conns[c] = Free
    BY DEF Init
<1>2. written = 0 /\ (kind = "sse" => known)
    BY DEF Init
<1> QED
    BY <1>1, <1>2, FreeIs DEF Present

\* The wire of NothingLost is that of a response whose chunks are in line.
LEMMA WireIs ==
    ASSUME Inv
    PROVE  /\ Wire \in Seq(Nat) /\ OnlyHas(Wire, 0 .. written)
           /\ InLine(Fed("client"), Wire, queue)
           /\ \A c \in Conns : \A k : Has(conns[c].wire, k) => Has(Wire, k)
<1> DEFINE mine == {c \in Conns : conns[c].mine}
<1>1. CASE mine = {}
    <2>1. Wire = <<>>
        BY <1>1 DEF Wire
    <2>2. InLine(Fed("client"), <<>>, queue)
        BY Sequences, LineBreaks, Constants
    <2>3. OnlyHas(<<>>, 0 .. written)
        BY DEF OnlyHas
    <2>4. \A c \in Conns : conns[c].wire = <<>>
        BY <1>1 DEF Inv, Owner
    <2> QED
        BY <2>1, <2>2, <2>3, <2>4
<1>2. CASE mine # {}
    <2>1. PICK c \in Conns : conns[c].mine /\ Wire = conns[c].wire
        <3>1. (CHOOSE c \in mine : TRUE) \in mine
            BY <1>2
        <3> QED
            BY <1>2, <3>1 DEF Wire
    <2>2. \A d \in Conns : d # c => conns[d].wire = <<>>
        BY <2>1 DEF Inv, Owner
    <2>3. \A k : ~Has(<<>>, k)
        BY DEF Has
    <2>4. \A d \in Conns : \A k : Has(conns[d].wire, k) => Has(Wire, k)
        BY <2>1, <2>2, <2>3
    <2> QED
        BY <2>1, <2>4, Sequences
<1> QED
    BY <1>1, <1>2

\* Between the server's writer and the client's reader no chunk is lost or doubled:
\* until something fails or is closed, what is fed, on the wire and in the queue is
\* exactly what was written, in order (http_request_sse.py 141-148, 258-276,
\* http_request_body.py 126-133).
THEOREM NoChunkIsLost == Spec => []NothingLost
<1>1. Inv /\ Present => NothingLost
    <2> SUFFICES ASSUME Inv, Present, Quiet, ~stop
                 PROVE  LET chunks == Fed("client") \o Wire \o queue
                        IN Increasing(chunks) /\ ToSet(chunks) \ {Ping} = 1 .. written
        BY DEF NothingLost, Quiet
    <2> DEFINE f == Fed("client")
               r == (f \o Wire) \o queue
    <2>1. /\ f \in Seq(Nat) /\ queue \in Seq(Nat) /\ written \in Nat /\ OnlyHas(f, 0 .. written)
          /\ OnlyHas(queue, 1 .. written)
        BY Sequences, Constants DEF Queued
    <2>2. /\ Wire \in Seq(Nat) /\ OnlyHas(Wire, 0 .. written) /\ InLine(f, Wire, queue)
          /\ \A c \in Conns : \A k : Has(conns[c].wire, k) => Has(Wire, k)
        BY WireIs
    <2> HIDE DEF f
    <2>3. f \o Wire \in Seq(Nat) /\ r \in Seq(Nat)
        BY <2>1, <2>2
    <2>4. Rises(r)
        <3>1. Rises(f \o Wire)
            BY <2>1, <2>2, JoinRises DEF InLine
        <3>2. Ahead(f \o Wire, queue)
            BY <2>1, <2>2, JoinAhead DEF InLine
        <3> QED
            BY <2>1, <2>2, <2>3, <3>1, <3>2, JoinRises DEF InLine
    <2>5. OnlyHas(r, 0 .. written)
        <3>1. OnlyHas(f \o Wire, 0 .. written)
            BY <2>1, <2>2, JoinOnlyHas
        <3>2. 1 .. written \subseteq 0 .. written
            BY <2>1
        <3>3. OnlyHas(queue, 0 .. written)
            BY <2>1, <3>2, OnlyHasMore
        <3> QED
            BY <2>1, <2>3, <3>1, <3>3, JoinOnlyHas
    <2>6. ASSUME NEW k \in 1 .. written PROVE Has(r, k)
        <3>1. Has(f \o Wire, k) <=> Has(f, k) \/ Has(Wire, k)
            BY <2>1, <2>2, JoinHas
        <3>2. Has(r, k) <=> Has(f \o Wire, k) \/ Has(queue, k)
            BY <2>1, <2>3, JoinHas
        <3>3. Somewhere(k)
            BY <2>6 DEF Present
        <3> QED
            BY <2>2, <3>1, <3>2, <3>3 DEF Somewhere, f
    <2> HIDE DEF r
    <2>7. Increasing(r)
        <3>1. DOMAIN r = 1 .. Len(r)
            BY <2>3
        <3>2. \A i, j \in 1 .. Len(r) : i < j /\ r[j] # Ping => r[i] < r[j]
            BY <2>4 DEF Rises
        <3>3. \A i, j \in DOMAIN r : i < j /\ r[j] # Ping => r[i] < r[j]
            BY <3>1, <3>2
        <3> QED
            BY <3>3 DEF Increasing
    <2>8. ToSet(r) \ {Ping} = 1 .. written
        <3>1. \A i \in 1 .. Len(r) : r[i] # Ping => r[i] \in 1 .. written
            BY <2>1, <2>5, Constants DEF OnlyHas
        <3>2. \A k \in 1 .. written : \E i \in 1 .. Len(r) : r[i] = k
            BY <2>6 DEF Has
        <3>3. ToSet(r) = {r[i] : i \in 1 .. Len(r)}
            BY <2>3 DEF ToSet
        <3>4. Ping \notin 1 .. written
            BY <2>1, Constants
        <3> QED
            BY <3>1, <3>2, <3>3, <3>4
    <2> QED
        BY <2>7, <2>8 DEF r, f
<1> QED
    BY <1>1, Always, InitPresent, NextPresent, PTL DEF Spec
=============================================================================
