------------------------------ MODULE GnpProofs ------------------------------
(***************************************************************************)
(* Proofs about Gnp, for any lengths of the settings and of the user agent *)
(* and any number of payload items and of changes of the client's row.     *)
(***************************************************************************)
EXTENDS Gnp, TLAPS

Kinds == {"AUTH", "PUBKEY", "KEY", "CFG", "TCP", "MUX", "DATA"}
Item == [kind : Kinds, n : Nat]
Frame == Seq(Item) \ {<<>>}

\* Every frame holds something.
Frames ==
    raw \in Seq(Item) /\ out \in Seq(Item) /\ c2s \in Seq(Frame) /\ s2c \in Seq(Frame)

\* A frame of one or two messages, and one of payload.
LEMMA ItemsAre ==
    /\ \A x \in Item : <<x>> \in Seq(Item) /\ <<x>> # <<>>
    /\ \A x, y \in Item : <<x, y>> \in Seq(Item) /\ <<x, y>> # <<>>
OBVIOUS

LEMMA MessageIs ==
    ASSUME NEW k \in Kinds
    PROVE  Plain(<<k>>) = <<[kind |-> k, n |-> 0]>> /\ Plain(<<k>>) \in Frame
<1>1. Plain(<<k>>) = <<[kind |-> k, n |-> 0]>>
    BY DEF Plain
<1>2. [kind |-> k, n |-> 0] \in Item
    BY DEF Item
<1> QED
    BY <1>1, <1>2, ItemsAre DEF Frame

LEMMA HeadersAre ==
    ASSUME NEW k \in Kinds, NEW l \in Kinds
    PROVE  Plain(<<k, l>>) \in Frame
<1>1. Plain(<<k, l>>) = <<[kind |-> k, n |-> 0], [kind |-> l, n |-> 0]>>
    BY DEF Plain
<1>2. [kind |-> k, n |-> 0] \in Item /\ [kind |-> l, n |-> 0] \in Item
    BY DEF Item
<1> QED
    BY <1>1, <1>2, ItemsAre DEF Frame

LEMMA ChunkIs ==
    ASSUME NEW a \in Nat, NEW b \in Nat, a <= b + 1
    PROVE  /\ Chunk(a, b) \in Seq(Item) /\ Len(Chunk(a, b)) = b - a + 1
           /\ \A i \in 1 .. b - a + 1 : Chunk(a, b)[i] = [kind |-> "DATA", n |-> a + i - 1]
<1> DEFINE m == b - a + 1
<1>1. m \in Nat /\ \A i \in 1 .. m : a + i - 1 \in Nat
    OBVIOUS
<1>2. Chunk(a, b) = [i \in 1 .. m |-> [kind |-> "DATA", n |-> a + i - 1]]
    BY DEF Chunk
<1>3. \A i \in 1 .. m : [kind |-> "DATA", n |-> a + i - 1] \in Item
    BY <1>1 DEF Item, Kinds
<1> HIDE DEF m
<1>4. Chunk(a, b) \in [1 .. m -> Item]
    BY <1>2, <1>3
<1>5. Chunk(a, b) \in Seq(Item) /\ Len(Chunk(a, b)) = m
    <2>1. DOMAIN Chunk(a, b) = 1 .. m
        BY <1>2
    <2>2. Chunk(a, b) \in Seq(Item)
        BY <1>1, <1>4
    <2> QED
        BY <1>1, <2>1, <2>2
<1> QED
    BY <1>2, <1>5 DEF m

LEMMA Messages ==
    /\ Plain(<<"AUTH">>) \in Frame /\ Plain(<<"PUBKEY">>) \in Frame /\ Plain(<<"KEY">>) \in Frame
    /\ Plain(<<"CFG">>) \in Frame /\ Plain(<<"TCP">>) \in Frame
    /\ Plain(<<"CFG", "MUX">>) \in Frame
<1>1. /\ "AUTH" \in Kinds /\ "PUBKEY" \in Kinds /\ "KEY" \in Kinds /\ "CFG" \in Kinds
      /\ "TCP" \in Kinds /\ "MUX" \in Kinds
    BY DEF Kinds
<1> QED
    BY <1>1, MessageIs, HeadersAre

\* What goes into a channel, and what comes out of it.
LEMMA Channels ==
    ASSUME NEW c \in Seq(Frame)
    PROVE  /\ \A f \in Frame : Append(c, f) \in Seq(Frame)
           /\ c # <<>> => Head(c) \in Frame /\ Tail(c) \in Seq(Frame)
           /\ \A i \in 0 .. Len(c) : SubSeq(c, 1, i) \in Seq(Frame)
OBVIOUS

LEMMA Items ==
    /\ <<>> \in Seq(Item)
    /\ \A f \in Frame : f \in Seq(Item) /\ f # <<>> /\ Tail(f) \in Seq(Item)
    /\ \A s, t \in Seq(Item) : s \o t \in Seq(Item)
BY DEF Frame

LEMMA ClientFrames == ASSUME Frames, TypeOK, ClientStep PROVE Frames'
<1>1. CASE ClientAuth
    BY <1>1, Messages, Channels DEF ClientAuth, Awaits, Frames, server
<1>2. CASE ClientPubkey
    BY <1>2, Messages, Channels DEF ClientPubkey, Frames, server
<1>3. CASE ClientKey
    BY <1>3, Channels DEF ClientKey, Awaits, Frames, server
<1>4. CASE ClientFail
    BY <1>4 DEF ClientFail, Frames, server
<1>5. CASE ClientOpen
    <2>1. s2c' \in Seq(Frame)
        BY <1>5, Channels DEF ClientOpen, Frames
    <2>2. c2s' \in Seq(Frame)
        BY <1>5, Messages, Channels DEF ClientOpen, Frames
    <2> QED
        BY <1>5, <2>1, <2>2 DEF ClientOpen, Frames, server
<1>6. ASSUME NEW n \in 1 .. 2, ClientSend(n) PROVE Frames'
    <2>1. sent \in Nat /\ sent + 1 \in Nat /\ sent + n \in Nat /\ n > 0
        BY BoundsAssumption DEF TypeOK
    <2>2. Chunk(sent + 1, sent + n) \in Seq(Item) /\ Len(Chunk(sent + 1, sent + n)) = n
        BY <2>1, ChunkIs
    <2>3. Chunk(sent + 1, sent + n) \in Frame
        BY <2>1, <2>2 DEF Frame
    <2> QED
        BY <1>6, <2>3, Channels DEF ClientSend, Frames, server
<1> QED
    BY <1>1, <1>2, <1>3, <1>4, <1>5, <1>6 DEF ClientStep

LEMMA ServerFrames == ASSUME Frames, TypeOK, ServerStep PROVE Frames'
<1>1. CASE ServerHello
    BY <1>1, Messages, Channels DEF ServerHello, Frames
<1>2. CASE ServerAuth
    BY <1>2, Channels DEF ServerAuth, Awaits, Frames
<1>3. CASE ServerRow
    BY <1>3, Items DEF ServerRow, Close, Frames
<1>4. CASE ServerKey
    BY <1>4, Messages, Channels DEF ServerKey, Awaits, Frames
<1>5. CASE ServerCfg
    BY <1>5, Messages, Channels, Items DEF ServerCfg, Close, Frames
<1>6. CASE ServerRead
    BY <1>6, Channels, Items DEF ServerRead, Frames
<1>7. CASE ServerParse
    BY <1>7, Items DEF ServerParse, Close, Frames
<1>8. CASE ServerCheck \/ ServerDial
    <2>1. raw # <<>> => Tail(raw) \in Seq(Item)
        BY DEF Frames
    <2>2. raw # <<>>
        BY <1>8 DEF ServerCheck, ServerDial, TypeOK
    <2> QED
        BY <1>8, <2>1, <2>2, Items DEF ServerCheck, ServerDial, Close, Frames
<1>9. CASE ServerForward
    BY <1>9, Channels, Items DEF ServerForward, Frames
<1>10. CASE ServerEof
    BY <1>10, Items DEF ServerEof, Close, Frames
<1> QED
    BY <1>1, <1>2, <1>3, <1>4, <1>5, <1>6, <1>7, <1>8, <1>9, <1>10 DEF ServerStep

LEMMA NextFrames == ASSUME Frames, TypeOK, [Next]_vars PROVE Frames'
<1>1. CASE Cut
    BY <1>1, Channels DEF Cut, Frames, server
<1>2. CASE Toggle \/ UNCHANGED vars
    BY <1>2 DEF Toggle, vars, Frames, server
<1> QED
    BY <1>1, <1>2, ClientFrames, ServerFrames DEF Next

LEMMA ClientTypes == ASSUME TypeOK, ClientStep PROVE TypeOK'
<1> USE DEF TypeOK, ClientPC, config, server
<1>1. CASE ClientAuth \/ ClientPubkey \/ ClientKey \/ ClientFail \/ ClientOpen
    BY <1>1 DEF ClientAuth, ClientPubkey, ClientKey, ClientFail, ClientOpen
<1>2. ASSUME NEW n \in 1 .. 2, ClientSend(n) PROVE TypeOK'
    BY <1>2, BoundsAssumption DEF ClientSend
<1> QED
    BY <1>1, <1>2 DEF ClientStep

LEMMA ServerTypes == ASSUME TypeOK, Frames, ServerStep PROVE TypeOK'
<1>1. UNCHANGED <<config, enabled, toggles, client, cut>>
    BY DEF ServerStep, ServerHello, ServerAuth, ServerRow, ServerKey, ServerCfg, ServerRead,
       ServerParse, ServerCheck, ServerDial, ServerForward, ServerEof
<1>2. spc' \in ServerPC /\ (spc' \in {"parse", "check", "dial"} => raw' # <<>>)
    <2> USE DEF TypeOK, ServerPC, Close
    <2>1. CASE ServerHello \/ ServerAuth \/ ServerRow \/ ServerKey \/ ServerCfg
        BY <2>1 DEF ServerHello, ServerAuth, ServerRow, ServerKey, ServerCfg
    <2>2. CASE ServerRead
        BY <2>2, Channels, Items DEF ServerRead, Frames
    <2>3. CASE ServerParse
        BY <2>3 DEF ServerParse
    <2>4. CASE ServerCheck \/ ServerDial
        BY <2>4 DEF ServerCheck, ServerDial
    <2>5. CASE ServerForward \/ ServerEof
        BY <2>5 DEF ServerForward, ServerEof
    <2> QED
        BY <2>1, <2>2, <2>3, <2>4, <2>5 DEF ServerStep
<1> QED
    BY <1>1, <1>2 DEF TypeOK, config, client

LEMMA NextTypes == ASSUME TypeOK, Frames, [Next]_vars PROVE TypeOK'
<1>1. CASE Toggle
    BY <1>1, BoundsAssumption DEF Toggle, TypeOK, config, client, server
<1>2. CASE Cut
    BY <1>2 DEF Cut, TypeOK, config, client, server
<1>3. CASE UNCHANGED vars
    BY <1>3 DEF vars, TypeOK, config, client, server
<1> QED
    BY <1>1, <1>2, <1>3, ClientTypes, ServerTypes DEF Next

LEMMA InitTypes == Init => TypeOK /\ Frames
<1> SUFFICES ASSUME Init PROVE TypeOK /\ Frames
    OBVIOUS
<1>1. TypeOK
    <2>1. mode \in {"pool", "direct"}
        BY ModesAssumption DEF Init
    <2>2. 0 \in 0 .. MaxToggles /\ 0 \in 0 .. MaxPayload
        BY BoundsAssumption
    <2> QED
        BY <2>1, <2>2 DEF Init, TypeOK, ClientPC, ServerPC
<1>2. Frames
    BY Items DEF Init, Frames
<1> QED
    BY <1>1, <1>2

LEMMA TypesAndFrames == Spec => [](TypeOK /\ Frames)
<1>1. TypeOK /\ Frames /\ [Next]_vars => (TypeOK /\ Frames)'
    BY NextTypes, NextFrames
<1> QED
    BY InitTypes, <1>1, PTL DEF Spec

\* A handler past its read has an item to look at, and every variable its type
\* (handler.py 107-161).
THEOREM TypesHold == Spec => []TypeOK
BY TypesAndFrames, PTL
-----------------------------------------------------------------------------
(* The payload of a single connection *)

Opening == <<"AUTH", "PUBKEY", "TCP">>

\* How much of the opening the client has sent, and the server has read.
Given == CASE cpc = "hello" -> 0 [] cpc = "pubkey" -> 1 [] cpc \in {"key", "cfg"} -> 2
           [] OTHER -> 3
Taken == CASE spc \in {"hello", "auth"} -> 0 [] spc \in {"row", "pubkey"} -> 1
           [] spc \in {"cfg", "read"} -> 2 [] OTHER -> 3

Sound == mode = "direct" /\ ~cut /\ ~HungUp

\* The frames under way are what is left of the opening, and then payload; what the
\* handler looks at is the header alone.
Lined ==
    /\ cpc # "failed" /\ spc # "mux"
    /\ IF cpc = "open" THEN Len(c2s) + Taken >= 3 ELSE Len(c2s) + Taken = Given /\ sent = 0
    /\ \A i \in 1 .. Len(c2s) :
          IF i + Taken <= 3 THEN c2s[i] = Plain(<<Opening[i + Taken]>>)
          ELSE Head(c2s[i]).kind = "DATA"
    /\ spc \in {"parse", "check", "dial"} => raw = Plain(<<"TCP">>)
    /\ spc \notin {"parse", "check", "dial", "tcp"} => raw = <<>>
    /\ spc # "tcp" => out = <<>>

LEMMA TakenIs == Taken \in 0 .. 3 /\ Given \in 0 .. 3
BY DEF Taken, Given

\* The queue after a frame was appended, and after its first was taken.
LEMMA AppendIs ==
    ASSUME NEW q \in Seq(Frame), NEW f \in Frame
    PROVE  /\ Append(q, f) \in Seq(Frame) /\ Len(Append(q, f)) = Len(q) + 1 /\ Len(q) \in Nat
           /\ \A i \in 1 .. Len(q) : Append(q, f)[i] = q[i]
           /\ Append(q, f)[Len(q) + 1] = f
OBVIOUS

LEMMA TailIs ==
    ASSUME NEW q \in Seq(Frame), q # <<>>
    PROVE  /\ Tail(q) \in Seq(Frame) /\ Len(q) \in Nat \ {0} /\ Len(Tail(q)) = Len(q) - 1
           /\ Head(q) = q[1] /\ Head(q) \in Frame
           /\ \A i \in 1 .. Len(q) - 1 : Tail(q)[i] = q[i + 1]
OBVIOUS

\* A message of the client's opening joins the queue.
LEMMA OpeningGiven ==
    ASSUME Frames, Lined, cpc # "open", NEW k \in Kinds, k = Opening[Given + 1], Given < 3,
           c2s' = Append(c2s, Plain(<<k>>)), UNCHANGED <<server, sent>>,
           Given' = Given + 1, cpc' # "failed", cpc' = "open" => Given' = 3
    PROVE  Lined'
<1>1. Plain(<<k>>) \in Frame /\ c2s \in Seq(Frame)
    BY MessageIs DEF Frames
<1>2. /\ spc' = spc /\ raw' = raw /\ out' = out /\ sent' = sent /\ Taken' = Taken
    BY DEF server, Taken
<1>3. /\ Len(c2s') = Len(c2s) + 1 /\ Len(c2s) \in Nat
      /\ \A i \in 1 .. Len(c2s) : c2s'[i] = c2s[i]
      /\ c2s'[Len(c2s) + 1] = Plain(<<k>>)
    BY <1>1, AppendIs
<1>4. Len(c2s) + Taken = Given /\ sent = 0
    BY DEF Lined
<1>5. \A i \in 1 .. Len(c2s') :
          IF i + Taken' <= 3 THEN c2s'[i] = Plain(<<Opening[i + Taken']>>)
          ELSE Head(c2s'[i]).kind = "DATA"
    <2> SUFFICES ASSUME NEW i \in 1 .. Len(c2s')
                 PROVE  IF i + Taken' <= 3 THEN c2s'[i] = Plain(<<Opening[i + Taken']>>)
                        ELSE Head(c2s'[i]).kind = "DATA"
        OBVIOUS
    <2>1. CASE i \in 1 .. Len(c2s)
        BY <1>2, <1>3, <2>1 DEF Lined
    <2>2. CASE i = Len(c2s) + 1
        <3>1. i + Taken' = Given + 1 /\ Given + 1 <= 3
            BY <1>2, <1>3, <1>4, <2>2, TakenIs
        <3> QED
            BY <1>3, <2>2, <3>1
    <2> QED
        BY <1>3, <2>1, <2>2
<1>6. IF cpc' = "open" THEN Len(c2s') + Taken' >= 3
      ELSE Len(c2s') + Taken' = Given' /\ sent' = 0
    BY <1>2, <1>3, <1>4, TakenIs
<1> QED
    BY <1>2, <1>5, <1>6 DEF Lined

\* The handler takes the next frame of the opening.
LEMMA OpeningTaken ==
    ASSUME Frames, Lined, c2s # <<>>, c2s' = Tail(c2s), Taken' = Taken + 1 \/ (Taken = 3 /\ Taken' = 3),
           UNCHANGED client
    PROVE  /\ IF cpc' = "open" THEN Len(c2s') + Taken' >= 3
              ELSE Len(c2s') + Taken' = Given' /\ sent' = 0
           /\ \A i \in 1 .. Len(c2s') :
                 IF i + Taken' <= 3 THEN c2s'[i] = Plain(<<Opening[i + Taken']>>)
                 ELSE Head(c2s'[i]).kind = "DATA"
           /\ Taken < 3 => Head(c2s) = Plain(<<Opening[1 + Taken]>>)
           /\ Taken = 3 => Head(Head(c2s)).kind = "DATA"
<1>1. c2s \in Seq(Frame)
    BY DEF Frames
<1>2. /\ Len(c2s) \in Nat \ {0} /\ Len(c2s') = Len(c2s) - 1 /\ Head(c2s) = c2s[1]
      /\ \A i \in 1 .. Len(c2s) - 1 : c2s'[i] = c2s[i + 1]
    BY <1>1, TailIs
<1>3. cpc' = cpc /\ sent' = sent /\ Given' = Given
    BY DEF client, Given
<1>4. Taken < 3 => Head(c2s) = Plain(<<Opening[1 + Taken]>>)
    BY <1>2, TakenIs DEF Lined
<1>5. Taken = 3 => Head(Head(c2s)).kind = "DATA"
    <2>1. 1 \in 1 .. Len(c2s) /\ (Taken = 3 => ~(1 + Taken <= 3))
        BY <1>2
    <2> QED
        BY <1>2, <2>1 DEF Lined
<1>6. CASE Taken' = Taken + 1
    <2>1. \A i \in 1 .. Len(c2s') : i + 1 \in 1 .. Len(c2s) /\ i + Taken' = (i + 1) + Taken
        BY <1>2, <1>6, TakenIs
    <2>2. \A i \in 1 .. Len(c2s') : c2s'[i] = c2s[i + 1]
        BY <1>2
    <2>3. \A i \in 1 .. Len(c2s') :
                 IF i + Taken' <= 3 THEN c2s'[i] = Plain(<<Opening[i + Taken']>>)
                 ELSE Head(c2s'[i]).kind = "DATA"
        BY <2>1, <2>2 DEF Lined
    <2>4. Len(c2s') + Taken' = Len(c2s) + Taken
        BY <1>2, <1>6, TakenIs
    <2> QED
        BY <1>3, <1>4, <1>5, <2>3, <2>4 DEF Lined
<1>7. CASE Taken = 3 /\ Taken' = 3
    <2>1. \A i \in 1 .. Len(c2s') : i + 1 \in 1 .. Len(c2s) /\ ~((i + 1) + Taken <= 3) /\ ~(i + Taken' <= 3)
        BY <1>2, <1>7
    <2>2. \A i \in 1 .. Len(c2s') : c2s'[i] = c2s[i + 1]
        BY <1>2
    <2>3. \A i \in 1 .. Len(c2s') : Head(c2s'[i]).kind = "DATA"
        BY <2>1, <2>2 DEF Lined
    <2>4. cpc = "open"
        <3>1. CASE cpc # "open"
            BY <1>2, <1>7, <3>1, TakenIs DEF Lined
        <3> QED
            BY <3>1
    <2> QED
        BY <1>2, <1>3, <1>4, <1>5, <1>7, <2>1, <2>3, <2>4
<1> QED
    BY <1>6, <1>7

LEMMA ClientLined ==
    ASSUME Frames, TypeOK, Sound, Lined, ClientStep
    PROVE  Lined'
<1>1. ~cut /\ ~HungUp /\ mode = "direct" /\ UNCHANGED server /\ Taken' = Taken
    BY DEF Sound, ClientStep, ClientAuth, ClientPubkey, ClientKey, ClientFail, ClientOpen,
       ClientSend, server, Taken
<1>2. CASE ClientAuth
    BY <1>1, <1>2, OpeningGiven DEF ClientAuth, Given, Opening, Kinds
<1>3. CASE ClientPubkey
    BY <1>1, <1>3, OpeningGiven DEF ClientPubkey, Given, Opening, Kinds
<1>4. CASE ClientKey
    <2>1. Given' = Given /\ cpc' # "open" /\ cpc # "open" /\ c2s' = c2s /\ sent' = sent /\ cpc' # "failed"
        BY <1>4 DEF ClientKey, Given
    <2> QED
        BY <1>1, <2>1 DEF Lined, server
<1>5. CASE ClientFail
    BY <1>1, <1>5 DEF ClientFail
<1>6. CASE ClientOpen
    <2>1. /\ c2s' = Append(c2s, Plain(<<"TCP">>)) /\ cpc = "cfg" /\ cpc' = "open" /\ sent' = sent
          /\ Given = 2 /\ Given' = 3
        BY <1>1, <1>6 DEF ClientOpen, Given
    <2>2. "TCP" \in Kinds /\ "TCP" = Opening[Given + 1]
        BY <2>1 DEF Kinds, Opening
    <2> QED
        BY <1>1, <2>1, <2>2, OpeningGiven
<1>7. ASSUME NEW n \in 1 .. 2, ClientSend(n) PROVE Lined'
    <2> DEFINE f == Chunk(sent + 1, sent + n)
    <2>1. sent \in Nat /\ sent + 1 \in Nat /\ sent + n \in Nat /\ n > 0
        BY BoundsAssumption DEF TypeOK
    <2>2. f \in Seq(Item) /\ Len(f) = n /\ f[1] = [kind |-> "DATA", n |-> sent + 1]
        <3>1. sent + 1 <= (sent + n) + 1 /\ (sent + n) - (sent + 1) + 1 = n /\ (sent + 1) + 1 - 1 = sent + 1
            BY <2>1
        <3>2. f \in Seq(Item) /\ Len(f) = n
            BY <2>1, <3>1, ChunkIs
        <3>3. 1 \in 1 .. (sent + n) - (sent + 1) + 1
            BY <2>1
        <3>4. f[1] = [kind |-> "DATA", n |-> (sent + 1) + 1 - 1]
            BY <2>1, <3>1, <3>3, ChunkIs
        <3> QED
            BY <3>1, <3>2, <3>4
    <2>3. f \in Frame /\ Head(f).kind = "DATA"
        BY <2>1, <2>2 DEF Frame
    <2>4. cpc = "open" /\ cpc' = "open" /\ c2s' = Append(c2s, f) /\ c2s \in Seq(Frame)
        BY <1>7 DEF ClientSend, Frames
    <2> HIDE DEF f
    <2>5. /\ Len(c2s') = Len(c2s) + 1 /\ Len(c2s) \in Nat
          /\ \A i \in 1 .. Len(c2s) : c2s'[i] = c2s[i]
          /\ c2s'[Len(c2s) + 1] = f
        BY <2>3, <2>4, AppendIs
    <2>6. Len(c2s) + Taken >= 3
        BY <2>4 DEF Lined
    <2>7. \A i \in 1 .. Len(c2s') :
              IF i + Taken' <= 3 THEN c2s'[i] = Plain(<<Opening[i + Taken']>>)
              ELSE Head(c2s'[i]).kind = "DATA"
        <3> SUFFICES ASSUME NEW i \in 1 .. Len(c2s')
                     PROVE  IF i + Taken' <= 3 THEN c2s'[i] = Plain(<<Opening[i + Taken']>>)
                            ELSE Head(c2s'[i]).kind = "DATA"
            OBVIOUS
        <3>1. CASE i \in 1 .. Len(c2s)
            BY <1>1, <2>5, <3>1 DEF Lined
        <3>2. CASE i = Len(c2s) + 1
            BY <1>1, <2>3, <2>5, <2>6, <3>2, TakenIs
        <3> QED
            BY <2>5, <3>1, <3>2
    <2>8. Len(c2s') + Taken' >= 3
        BY <1>1, <2>5, <2>6, TakenIs
    <2> QED
        BY <1>1, <2>4, <2>7, <2>8 DEF Lined, server
<1> QED
    BY <1>2, <1>3, <1>4, <1>5, <1>6, <1>7 DEF ClientStep

LEMMA ServerLined ==
    ASSUME Frames, TypeOK, Sound', Sound, Lined, ServerStep
    PROVE  Lined'
<1>1. UNCHANGED client /\ ~HungUp'
    BY DEF Sound, ServerStep, ServerHello, ServerAuth, ServerRow, ServerKey, ServerCfg,
       ServerRead, ServerParse, ServerCheck, ServerDial, ServerForward, ServerEof
<1>2. cpc' = cpc /\ sent' = sent /\ Given' = Given
    BY <1>1 DEF client, Given
<1>3. CASE ServerHello \/ ServerRow \/ ServerCfg
    <2>1. /\ c2s' = c2s /\ raw' = raw /\ out' = out /\ Taken' = Taken
          /\ spc \in {"hello", "row", "cfg"} /\ spc' \in {"auth", "pubkey", "read"}
        BY <1>1, <1>3 DEF ServerHello, ServerRow, ServerCfg, Close, HungUp, Taken
    <2> QED
        BY <1>2, <2>1 DEF Lined
<1>4. CASE ServerAuth \/ ServerKey
    <2>1. /\ c2s # <<>> /\ c2s' = Tail(c2s) /\ raw' = raw /\ out' = out /\ Taken' = Taken + 1
          /\ spc \in {"auth", "pubkey"} /\ spc' \in {"row", "cfg"}
        BY <1>4 DEF ServerAuth, ServerKey, Awaits, Taken
    <2> QED
        BY <1>1, <1>2, <2>1, OpeningTaken DEF Lined
<1>5. CASE ServerRead
    <2>1. /\ c2s # <<>> /\ c2s' = Tail(c2s) /\ raw' = Head(c2s) /\ out' = out
          /\ Taken = 2 /\ Taken' = Taken + 1 /\ spc = "read" /\ spc' = "parse"
        BY <1>5 DEF ServerRead, Taken
    <2>2. raw' = Plain(<<"TCP">>)
        BY <1>1, <2>1, OpeningTaken DEF Opening
    <2> QED
        BY <1>1, <1>2, <2>1, <2>2, OpeningTaken DEF Lined
<1>6. CASE ServerParse \/ ServerCheck
    <2>1. raw = Plain(<<"TCP">>) /\ Head(raw).kind = "TCP" /\ out = <<>>
        <3>1. raw = Plain(<<"TCP">>) /\ out = <<>>
            BY <1>6 DEF ServerParse, ServerCheck, Lined
        <3>2. Plain(<<"TCP">>) = <<[kind |-> "TCP", n |-> 0]>>
            BY MessageIs DEF Kinds
        <3> QED
            BY <3>1, <3>2
    <2>2. /\ c2s' = c2s /\ raw' = raw /\ out' = out /\ Taken' = 3 /\ Taken = 3
          /\ spc' \in {"check", "dial"}
        BY <1>1, <1>6, <2>1 DEF ServerParse, ServerCheck, Close, HungUp, Headers, Taken
    <2> QED
        BY <1>2, <2>1, <2>2 DEF Lined
<1>7. CASE ServerDial
    <2>1. /\ c2s' = c2s /\ Taken' = 3 /\ Taken = 3 /\ spc' = "tcp"
        BY <1>1, <1>7 DEF ServerDial, HungUp, Taken
    <2> QED
        BY <1>2, <2>1 DEF Lined
<1>8. CASE ServerForward
    <2>1. /\ spc = "tcp" /\ c2s # <<>> /\ c2s' = Tail(c2s) /\ Taken' = 3 /\ Taken = 3 /\ spc' = "tcp"
        BY <1>8 DEF ServerForward, Taken, Lined
    <2> QED
        BY <1>1, <1>2, <2>1, OpeningTaken DEF Lined
<1>9. CASE ServerEof
    BY <1>9 DEF ServerEof, Sound
<1> QED
    BY <1>3, <1>4, <1>5, <1>6, <1>7, <1>8, <1>9 DEF ServerStep

LEMMA NextLined ==
    ASSUME Frames, TypeOK, Sound => Lined, [Next]_vars
    PROVE  Sound' => Sound /\ Lined'
<1> SUFFICES ASSUME Sound' PROVE Sound /\ Lined'
    OBVIOUS
<1>1. CASE ClientStep
    <2>1. Sound
        BY <1>1 DEF Sound, HungUp, ClientStep, ClientAuth, ClientPubkey, ClientKey, ClientFail,
           ClientOpen, ClientSend, server, config
    <2> QED
        BY <1>1, <2>1, ClientLined
<1>2. CASE ServerStep
    <2>1. Sound
        BY <1>2 DEF Sound, HungUp, ServerStep, ServerHello, ServerAuth, ServerRow, ServerKey,
           ServerCfg, ServerRead, ServerParse, ServerCheck, ServerDial, ServerForward, ServerEof,
           config
    <2> QED
        BY <1>2, <2>1, ServerLined
<1>3. CASE Toggle \/ UNCHANGED vars
    BY <1>3 DEF Toggle, vars, Sound, HungUp, Lined, Taken, Given, client, server, config
<1>4. CASE Cut
    BY <1>4 DEF Cut, Sound
<1> QED
    BY <1>1, <1>2, <1>3, <1>4 DEF Next

\* The queue q carries the items that follow those of o, up to n.
Carries(o, q, n, at) ==
    /\ at \in [0 .. Len(q) -> 0 .. n]
    /\ o = Chunk(1, at[0]) /\ at[Len(q)] = n
    /\ \A i \in 1 .. Len(q) : at[i - 1] <= at[i] /\ Payload(q[i]) = Chunk(at[i - 1] + 1, at[i])

LEMMA ChunkNone == \A a \in Nat : Chunk(a + 1, a) = <<>>
<1> SUFFICES ASSUME NEW a \in Nat PROVE Chunk(a + 1, a) = <<>>
    OBVIOUS
<1>1. Chunk(a + 1, a) \in Seq(Item) /\ Len(Chunk(a + 1, a)) = a - (a + 1) + 1
    BY ChunkIs
<1> QED
    BY <1>1

LEMMA ChunkFrom ==
    ASSUME NEW a \in Nat, NEW b \in Nat, a <= b
    PROVE  /\ Chunk(a + 1, b) \in Seq(Item) /\ Len(Chunk(a + 1, b)) = b - a
           /\ \A i \in 1 .. b - a : Chunk(a + 1, b)[i] = [kind |-> "DATA", n |-> a + i]
<1>1. a + 1 \in Nat /\ a + 1 <= b + 1 /\ b - (a + 1) + 1 = b - a
    OBVIOUS
<1>2. /\ Chunk(a + 1, b) \in Seq(Item) /\ Len(Chunk(a + 1, b)) = b - (a + 1) + 1
      /\ \A i \in 1 .. b - (a + 1) + 1 :
            Chunk(a + 1, b)[i] = [kind |-> "DATA", n |-> (a + 1) + i - 1]
    BY <1>1, ChunkIs, Zenon
<1>3. ASSUME NEW i \in 1 .. b - a
      PROVE  Chunk(a + 1, b)[i] = [kind |-> "DATA", n |-> a + i]
    <2>1. i \in 1 .. b - (a + 1) + 1 /\ (a + 1) + i - 1 = a + i
        BY <1>1
    <2> QED
        BY <1>2, <2>1
<1> QED
    BY <1>1, <1>2, <1>3

LEMMA ChunkFromOne ==
    ASSUME NEW b \in Nat
    PROVE  /\ Chunk(1, b) \in Seq(Item) /\ Len(Chunk(1, b)) = b
           /\ \A i \in 1 .. b : Chunk(1, b)[i] = [kind |-> "DATA", n |-> i]
<1>1. 0 + 1 = 1 /\ b - 0 = b /\ 0 <= b /\ 0 \in Nat /\ \A i \in 1 .. b : 0 + i = i
    OBVIOUS
<1> QED
    BY <1>1, ChunkFrom

LEMMA ChunkJoin ==
    ASSUME NEW a \in Nat, NEW b \in Nat, a <= b
    PROVE  Chunk(1, a) \o Chunk(a + 1, b) = Chunk(1, b)
<1> DEFINE s == Chunk(1, a)
           t == Chunk(a + 1, b)
           r == Chunk(1, b)
<1>1. s \in Seq(Item) /\ Len(s) = a /\ \A i \in 1 .. a : s[i] = [kind |-> "DATA", n |-> i]
    BY ChunkFromOne
<1>2. r \in Seq(Item) /\ Len(r) = b /\ \A i \in 1 .. b : r[i] = [kind |-> "DATA", n |-> i]
    BY ChunkFromOne
<1>3. /\ t \in Seq(Item) /\ Len(t) = b - a
      /\ \A i \in 1 .. b - a : t[i] = [kind |-> "DATA", n |-> a + i]
    BY ChunkFrom
<1> HIDE DEF s, t, r
<1>4. s \o t \in Seq(Item) /\ Len(s \o t) = b
    BY <1>1, <1>3
<1>5. \A i \in 1 .. b : (s \o t)[i] = r[i]
    <2> SUFFICES ASSUME NEW i \in 1 .. b PROVE (s \o t)[i] = r[i]
        OBVIOUS
    <2>1. CASE i <= a
        BY <1>1, <1>2, <1>3, <2>1
    <2>2. CASE i > a
        <3>1. (s \o t)[i] = t[i - a] /\ i - a \in 1 .. b - a /\ a + (i - a) = i
            BY <1>1, <1>3, <2>2
        <3> QED
            BY <1>2, <1>3, <3>1
    <2>3. i <= a \/ i > a
        OBVIOUS
    <2> QED
        BY <2>1, <2>2, <2>3, Zenon
<1>6. s \o t = r
    BY <1>2, <1>4, <1>5
<1> QED
    BY <1>6 DEF s, t, r

\* A frame that follows on joins the queue, and the first one is taken from it.
LEMMA Joins ==
    ASSUME NEW q \in Seq(Frame), NEW f \in Frame, NEW n \in Nat, NEW m \in Nat, NEW o, NEW at,
           Carries(o, q, n, at), n <= m, Payload(f) = Chunk(n + 1, m)
    PROVE  \E nxt : Carries(o, Append(q, f), m, nxt)
<1> DEFINE k == Len(q)
           nxt == [i \in 0 .. k + 1 |-> IF i = k + 1 THEN m ELSE at[i]]
<1>1. /\ k \in Nat /\ Len(Append(q, f)) = k + 1
      /\ \A i \in 1 .. k : Append(q, f)[i] = q[i]
      /\ Append(q, f)[k + 1] = f
    BY AppendIs
<1>2. /\ at \in [0 .. k -> 0 .. n] /\ o = Chunk(1, at[0]) /\ at[k] = n
      /\ \A i \in 1 .. k : at[i - 1] <= at[i] /\ Payload(q[i]) = Chunk(at[i - 1] + 1, at[i])
    BY DEF Carries
<1> HIDE DEF k
<1>3. /\ \A i \in 0 .. k : nxt[i] = at[i]
      /\ nxt[k + 1] = m /\ nxt \in [0 .. k + 1 -> 0 .. m]
    BY <1>1, <1>2
<1> HIDE DEF nxt
<1>4. nxt[0] = at[0]
    BY <1>1, <1>3
<1>5. ASSUME NEW i \in 1 .. k + 1
      PROVE  nxt[i - 1] <= nxt[i] /\ Payload(Append(q, f)[i]) = Chunk(nxt[i - 1] + 1, nxt[i])
    <2>1. CASE i \in 1 .. k
        <3>1. i - 1 \in 0 .. k /\ i \in 0 .. k
            BY <1>1, <2>1
        <3> QED
            BY <1>1, <1>2, <1>3, <2>1, <3>1
    <2>2. CASE i = k + 1
        <3>1. i - 1 = k /\ k \in 0 .. k
            BY <1>1, <2>2
        <3> QED
            BY <1>1, <1>2, <1>3, <2>2, <3>1
    <2> QED
        BY <1>1, <2>1, <2>2
<1>6. Carries(o, Append(q, f), m, nxt)
    BY <1>1, <1>2, <1>3, <1>4, <1>5 DEF Carries
<1> QED
    BY <1>6

LEMMA Leaves ==
    ASSUME NEW q \in Seq(Frame), q # <<>>, NEW n \in Nat, NEW o, NEW at, Carries(o, q, n, at)
    PROVE  \E nxt : Carries(o \o Payload(Head(q)), Tail(q), n, nxt)
<1> DEFINE k == Len(q) - 1
           nxt == [i \in 0 .. k |-> at[i + 1]]
<1>1. /\ k \in Nat /\ Len(q) = k + 1 /\ Len(Tail(q)) = k /\ Head(q) = q[1]
      /\ \A i \in 1 .. k : Tail(q)[i] = q[i + 1]
    BY TailIs
<1>2. /\ at \in [0 .. k + 1 -> 0 .. n] /\ o = Chunk(1, at[0]) /\ at[k + 1] = n
      /\ \A i \in 1 .. k + 1 : at[i - 1] <= at[i] /\ Payload(q[i]) = Chunk(at[i - 1] + 1, at[i])
    BY <1>1 DEF Carries
<1> HIDE DEF k
<1>3. /\ \A i \in 0 .. k : i + 1 \in 0 .. k + 1 /\ nxt[i] = at[i + 1]
      /\ nxt \in [0 .. k -> 0 .. n]
    BY <1>1, <1>2
<1> HIDE DEF nxt
<1>4. nxt[0] = at[1] /\ nxt[k] = n
    BY <1>1, <1>2, <1>3
<1>5. o \o Payload(Head(q)) = Chunk(1, nxt[0])
    <2>1. /\ at[0] \in Nat /\ at[1] \in Nat /\ at[0] <= at[1]
          /\ Payload(q[1]) = Chunk(at[0] + 1, at[1])
        BY <1>1, <1>2
    <2>2. Chunk(1, at[0]) \o Chunk(at[0] + 1, at[1]) = Chunk(1, at[1])
        BY <2>1, ChunkJoin
    <2> QED
        BY <1>1, <1>2, <1>4, <2>1, <2>2
<1>6. ASSUME NEW i \in 1 .. k
      PROVE  nxt[i - 1] <= nxt[i] /\ Payload(Tail(q)[i]) = Chunk(nxt[i - 1] + 1, nxt[i])
    <2>1. i - 1 \in 0 .. k /\ i \in 0 .. k /\ i + 1 \in 1 .. k + 1 /\ (i - 1) + 1 = i /\ (i + 1) - 1 = i
        BY <1>1
    <2>2. nxt[i - 1] = at[i] /\ nxt[i] = at[i + 1]
        BY <1>3, <2>1
    <2>3. at[i] <= at[i + 1] /\ Payload(q[i + 1]) = Chunk(at[i] + 1, at[i + 1])
        BY <1>2, <2>1
    <2> QED
        BY <1>1, <2>2, <2>3
<1>7. Carries(o \o Payload(Head(q)), Tail(q), n, nxt)
    BY <1>1, <1>3, <1>4, <1>5, <1>6 DEF Carries
<1> QED
    BY <1>7

Intact == \E at : Carries(out, c2s, sent, at)

\* A message carries no payload, a frame of payload nothing else.
LEMMA PayloadIs ==
    /\ \A k \in Kinds \ {"DATA"} : Payload(Plain(<<k>>)) = <<>>
    /\ \A f \in Frame : Head(f).kind = "DATA" => Payload(f) = f
<1>1. ASSUME NEW k \in Kinds \ {"DATA"} PROVE Payload(Plain(<<k>>)) = <<>>
    <2> DEFINE x == [kind |-> k, n |-> 0]
    <2>1. Plain(<<k>>) = <<x>> /\ x.kind # "DATA"
        BY <1>1, MessageIs
    <2> HIDE DEF x
    <2>2. Head(<<x>>) = x /\ Tail(<<x>>) = <<>> /\ <<x>> # <<>>
        OBVIOUS
    <2> QED
        BY <2>1, <2>2 DEF Payload
<1> QED
    BY <1>1 DEF Payload

\* The client's frames follow on: its opening has no payload, and its payload is
\* numbered on.
LEMMA ClientIntact ==
    ASSUME Frames, TypeOK, Sound, Lined, Intact, ClientStep
    PROVE  Intact'
<1>1. PICK at : Carries(out, c2s, sent, at)
    BY DEF Intact
<1>2. /\ sent \in Nat /\ c2s \in Seq(Frame) /\ out' = out
    BY BoundsAssumption DEF TypeOK, Frames, ClientStep, ClientAuth, ClientPubkey, ClientKey,
       ClientFail, ClientOpen, ClientSend, server
<1>3. ASSUME NEW k \in Kinds \ {"DATA"}, c2s' = Append(c2s, Plain(<<k>>)), sent' = sent
      PROVE  Intact'
    <2>1. Plain(<<k>>) \in Frame /\ Payload(Plain(<<k>>)) = <<>>
        BY MessageIs, PayloadIs
    <2>2. Payload(Plain(<<k>>)) = Chunk(sent + 1, sent) /\ sent <= sent
        BY <1>2, <2>1, ChunkNone
    <2>3. \E nxt : Carries(out, Append(c2s, Plain(<<k>>)), sent, nxt)
        BY <1>1, <1>2, <2>1, <2>2, Joins
    <2> QED
        BY <1>2, <1>3, <2>3 DEF Intact
<1>4. CASE ClientKey \/ ClientFail
    <2>1. c2s' = c2s /\ sent' = sent
        BY <1>4 DEF ClientKey, ClientFail
    <2> QED
        BY <1>1, <1>2, <2>1 DEF Intact
<1>5. CASE ClientAuth \/ ClientPubkey \/ ClientOpen
    <2>1. /\ sent' = sent
          /\ \/ c2s' = Append(c2s, Plain(<<"AUTH">>))
             \/ c2s' = Append(c2s, Plain(<<"PUBKEY">>))
             \/ c2s' = Append(c2s, Plain(<<"TCP">>))
        BY <1>5 DEF ClientAuth, ClientPubkey, ClientOpen, Sound
    <2>2. {"AUTH", "PUBKEY", "TCP"} \subseteq Kinds \ {"DATA"}
        BY DEF Kinds
    <2> QED
        BY <1>3, <2>1, <2>2
<1>6. ASSUME NEW n \in 1 .. 2, ClientSend(n) PROVE Intact'
    <2> DEFINE f == Chunk(sent + 1, sent + n)
    <2>1. sent + 1 \in Nat /\ sent + n \in Nat /\ n > 0 /\ sent <= sent + n
        BY <1>2
    <2>2. f \in Seq(Item) /\ Len(f) = n /\ f[1] = [kind |-> "DATA", n |-> sent + 1]
        <3>1. /\ sent + 1 <= (sent + n) + 1 /\ (sent + n) - (sent + 1) + 1 = n
              /\ (sent + 1) + 1 - 1 = sent + 1
            BY <1>2, <2>1
        <3>2. f \in Seq(Item) /\ Len(f) = n
            BY <2>1, <3>1, ChunkIs
        <3>3. 1 \in 1 .. (sent + n) - (sent + 1) + 1
            BY <1>2, <2>1
        <3>4. f[1] = [kind |-> "DATA", n |-> (sent + 1) + 1 - 1]
            BY <2>1, <3>1, <3>3, ChunkIs
        <3> QED
            BY <3>1, <3>2, <3>4
    <2>3. f \in Frame /\ Head(f).kind = "DATA"
        BY <2>1, <2>2 DEF Frame
    <2>4. Payload(f) = f
        BY <2>3, PayloadIs
    <2>5. \E nxt : Carries(out, Append(c2s, f), sent + n, nxt)
        BY <1>1, <1>2, <2>1, <2>3, <2>4, Joins
    <2>6. c2s' = Append(c2s, f) /\ sent' = sent + n
        BY <1>6 DEF ClientSend
    <2> QED
        BY <1>2, <2>5, <2>6 DEF Intact
<1> QED
    BY <1>4, <1>5, <1>6 DEF ClientStep

\* The handler takes the opening, which has no payload, then hands on what it takes.
LEMMA ServerIntact ==
    ASSUME Frames, TypeOK, Sound, Sound', Lined, Intact, ServerStep
    PROVE  Intact'
<1>1. PICK at : Carries(out, c2s, sent, at)
    BY DEF Intact
<1>2. sent \in Nat /\ c2s \in Seq(Frame) /\ sent' = sent
    BY BoundsAssumption DEF TypeOK, Frames, ServerStep, ServerHello, ServerAuth, ServerRow,
       ServerKey, ServerCfg, ServerRead, ServerParse, ServerCheck, ServerDial, ServerForward,
       ServerEof, client
<1>3. ASSUME c2s # <<>>, c2s' = Tail(c2s), out' = out \o Payload(Head(c2s)) PROVE Intact'
    <2>1. \E nxt : Carries(out \o Payload(Head(c2s)), Tail(c2s), sent, nxt)
        BY <1>1, <1>2, <1>3, Leaves
    <2> QED
        BY <1>2, <1>3, <2>1 DEF Intact
<1>4. out \in Seq(Item) /\ out \o <<>> = out
    BY DEF Frames
<1>5. CASE ServerHello \/ ServerRow \/ ServerCfg \/ ServerParse \/ ServerCheck \/ ServerDial
    <2>1. c2s' = c2s
        BY <1>5 DEF ServerHello, ServerRow, ServerCfg, ServerParse, ServerCheck, ServerDial
    <2>2. out' = out
        <3>1. CASE ServerHello \/ ServerRow \/ ServerCfg \/ ServerParse
            BY <3>1 DEF ServerHello, ServerRow, ServerCfg, ServerParse, Close
        <3>2. CASE ServerCheck \/ ServerDial
            <4>1. raw = Plain(<<"TCP">>) /\ out = <<>>
                BY <3>2 DEF Lined, ServerCheck, ServerDial
            <4>2. Plain(<<"TCP">>) = <<[kind |-> "TCP", n |-> 0]>>
                BY MessageIs DEF Kinds
            <4>3. Tail(raw) = <<>> /\ Head(raw).kind = "TCP"
                <5> DEFINE x == [kind |-> "TCP", n |-> 0]
                <5>1. raw = <<x>> /\ x.kind = "TCP"
                    BY <4>1, <4>2
                <5> HIDE DEF x
                <5> QED
                    BY <5>1
            <4> QED
                BY <3>2, <4>1, <4>3 DEF ServerCheck, ServerDial, Close
        <3> QED
            BY <1>5, <3>1, <3>2
    <2> QED
        BY <1>1, <1>2, <2>1, <2>2 DEF Intact
<1>6. CASE ServerAuth \/ ServerKey \/ ServerRead
    <2>1. c2s # <<>> /\ c2s' = Tail(c2s) /\ out' = out
        BY <1>6 DEF ServerAuth, ServerKey, ServerRead, Awaits
    <2>2. PICK k \in Kinds \ {"DATA"} : Head(c2s) = Plain(<<k>>)
        <3>1. CASE ServerAuth \/ ServerKey
            BY <3>1 DEF ServerAuth, ServerKey, Awaits, Kinds
        <3>2. CASE ServerRead
            <4>1. Taken = 2 /\ 1 \in 1 .. Len(c2s) /\ Head(c2s) = c2s[1]
                BY <1>2, <2>1, <3>2, TailIs DEF ServerRead, Taken
            <4>2. c2s[1] = Plain(<<Opening[3]>>)
                BY <4>1 DEF Lined
            <4> QED
                BY <4>1, <4>2 DEF Opening, Kinds
        <3> QED
            BY <1>6, <3>1, <3>2
    <2>3. Payload(Head(c2s)) = <<>>
        BY <2>2, PayloadIs
    <2> QED
        BY <1>3, <1>4, <2>1, <2>3
<1>7. CASE ServerForward
    <2>1. c2s # <<>> /\ c2s' = Tail(c2s) /\ out' = out \o Head(c2s) /\ spc = "tcp"
        BY <1>7 DEF ServerForward, Lined
    <2>2. Taken = 3 /\ 1 \in 1 .. Len(c2s) /\ Head(c2s) = c2s[1] /\ Head(c2s) \in Frame
        BY <1>2, <2>1, TailIs DEF Taken
    <2>3. ~(1 + Taken <= 3)
        BY <2>2
    <2>4. Head(Head(c2s)).kind = "DATA"
        BY <2>2, <2>3 DEF Lined
    <2>5. Payload(Head(c2s)) = Head(c2s)
        BY <2>2, <2>4, PayloadIs
    <2> QED
        BY <1>3, <2>1, <2>5
<1>8. CASE ServerEof
    BY <1>8 DEF ServerEof, Sound
<1> QED
    BY <1>5, <1>6, <1>7, <1>8 DEF ServerStep

LEMMA NextIntact ==
    ASSUME Frames, TypeOK, Sound => Lined /\ Intact, [Next]_vars
    PROVE  Sound' => Lined' /\ Intact'
<1> SUFFICES ASSUME Sound' PROVE Lined' /\ Intact'
    OBVIOUS
<1>1. Sound /\ Lined' /\ Lined /\ Intact
    BY NextLined
<1>2. CASE Toggle \/ UNCHANGED vars
    <2>1. out' = out /\ c2s' = c2s /\ sent' = sent
        BY <1>2 DEF Toggle, vars, client, server
    <2> QED
        BY <1>1, <2>1 DEF Intact
<1>3. CASE Cut
    BY <1>3 DEF Cut, Sound
<1> QED
    BY <1>1, <1>2, <1>3, ClientIntact, ServerIntact DEF Next

LEMMA InitIntact == Init => (Sound => Lined /\ Intact)
<1> SUFFICES ASSUME Init PROVE Lined /\ Intact
    OBVIOUS
<1>1. /\ cpc = "hello" /\ spc = "hello" /\ sent = 0 /\ raw = <<>> /\ out = <<>> /\ c2s = <<>>
    BY DEF Init
<1>2. Lined
    BY <1>1 DEF Lined, Taken, Given
<1>3. Intact
    <2> DEFINE at == [i \in 0 .. 0 |-> 0]
    <2>1. at \in [0 .. Len(c2s) -> 0 .. sent] /\ at[0] = 0 /\ Len(c2s) = 0
        BY <1>1
    <2>2. Chunk(1, 0) = <<>>
        <3>1. 0 \in Nat /\ 0 + 1 = 1
            OBVIOUS
        <3> QED
            BY <3>1, ChunkNone
    <2>3. Carries(out, c2s, sent, at)
        BY <1>1, <2>1, <2>2 DEF Carries
    <2> QED
        BY <2>3 DEF Intact
<1> QED
    BY <1>2, <1>3

\* What a single connection sends after its header reaches the target as it was sent:
\* what the target got, what the read of the header left over and what is under way
\* are the payload so far, in order, for any split into frames (handler.py 107-161).
THEOREM PayloadArrivesIntact == Spec => []PayloadIntact
<1>1. TypeOK /\ Frames /\ (Sound => Lined /\ Intact) => PayloadIntact
    <2> SUFFICES ASSUME Sound, Lined, Intact, Frames PROVE PayloadIntact
        BY DEF PayloadIntact, Sound
    <2>1. PICK at : Carries(out, c2s, sent, at)
        BY DEF Intact
    <2>2. Unread = <<>>
        <3>1. CASE spc = "tcp"
            BY <3>1 DEF Unread
        <3>2. CASE spc \in {"parse", "check", "dial"}
            BY <3>2, PayloadIs DEF Unread, Lined, Kinds
        <3>3. CASE spc \notin {"parse", "check", "dial", "tcp"}
            BY <3>3 DEF Unread, Lined, Payload
        <3> QED
            BY <3>1, <3>2, <3>3
    <2>3. out \o Unread = out
        BY <2>2 DEF Frames
    <2> QED
        BY <2>1, <2>3 DEF PayloadIntact, Carries
<1>2. TypeOK /\ Frames /\ (Sound => Lined /\ Intact) /\ [Next]_vars => (Sound => Lined /\ Intact)'
    BY NextIntact
<1> QED
    BY TypesAndFrames, InitIntact, <1>1, <1>2, PTL DEF Spec
=============================================================================
