----------------------------- MODULE PoolProofs -----------------------------
(* Proofs about Pool, for any size of the pool and any number of sessions, *)
(* connections and failures.                                               *)
EXTENDS Pool, FiniteSetTheorems, TLAPS

Entry == [st : {"none", "run", "over"}, slot : Slots, dead : BOOLEAN, active : Nat]
Tunnel == [pc : {"hello", "open", "dial", "reply", "relay", "lost", "done"},
           via : Sessions \cup {None}, up : BOOLEAN, dn : BOOLEAN, deaf : BOOLEAN]

Types ==
    /\ started \in BOOLEAN /\ stopped \in BOOLEAN /\ faults \in 0 .. MaxFaults
    /\ worker \in [Slots -> {"off", "connect", "poll", "delay"}]
    /\ cur \in [Slots -> Sessions \cup {None}]
    /\ sess \in [Sessions -> Entry]
    /\ conns \in [Conns -> Tunnel]

-----------------------------------------------------------------------------
(* The entries of the slots *)

Clean == faults = 0 /\ ~stopped

\* The workers run exactly when the pool is started; without them it has no entries.
Working ==
    /\ \A s \in Slots : (worker[s] # "off") = started
    /\ ~started => \A s \in Slots : cur[s] = None

\* An entry is that of a session of its own slot.
OwnSlot == \A s \in Slots : cur[s] # None => sess[cur[s]].slot = s /\ sess[cur[s]].st # "none"

\* A worker leaves its entry only when that is dead, and a session that runs is the
\* one its slot has: else its watcher would mark another.
Leaves == Clean => \A s \in Slots :
    worker[s] \in {"connect", "delay"} => cur[s] = None \/ sess[cur[s]].dead
Latest == Clean => \A i \in Sessions : sess[i].st = "run" => cur[sess[i].slot] = i

Entries == Types /\ Working /\ OwnSlot /\ Leaves /\ Latest /\ EntryMatchesSession

LEMMA Bounds == /\ None \notin Sessions /\ Sessions \subseteq Nat
                /\ 1 \in Slots /\ MaxFaults \in Nat
BY SizeAssumption DEF None, Sessions, Slots

LEMMA InitEntries == Init => Entries
<1> SUFFICES ASSUME Init PROVE Entries
    OBVIOUS
<1>1. Types
    <2>1. Unused \in Entry
        BY Bounds DEF Unused, Entry
    <2>2. NewConn \in Tunnel
        BY DEF NewConn, Tunnel
    <2>3. 0 \in 0 .. MaxFaults
        BY Bounds
    <2> QED
        BY <2>1, <2>2, <2>3 DEF Init, Types
<1> QED
    BY <1>1, Bounds DEF Init, Entries, Working, OwnSlot, Leaves, Latest, EntryMatchesSession,
                        Unused, Clean

\* A step of a connection that touches nothing of an entry but its count.
LEMMA CountsKeepEntries ==
    ASSUME Entries, UNCHANGED <<started, worker, cur, faults, stopped>>,
           sess' \in [Sessions -> Entry], conns' \in [Conns -> Tunnel],
           \A i \in Sessions : /\ sess'[i].st = sess[i].st
                               /\ sess'[i].slot = sess[i].slot
                               /\ sess'[i].dead = sess[i].dead
    PROVE  Entries'
<1>1. Types'
    BY DEF Entries, Types
<1>2. \A s \in Slots : cur[s] \in Sessions \cup {None}
    BY DEF Entries, Types
<1>3. \A i \in Sessions : sess[i].slot \in Slots
    BY DEF Entries, Types, Entry
<1>4. Working'
    BY DEF Entries, Working
<1>5. OwnSlot' /\ EntryMatchesSession'
    BY <1>2 DEF Entries, OwnSlot, EntryMatchesSession
<1>6. Leaves' /\ Latest'
    BY <1>2, <1>3 DEF Entries, Leaves, Latest, Clean
<1> QED
    BY <1>1, <1>4, <1>5, <1>6 DEF Entries

LEMMA AddsType ==
    ASSUME Types, NEW i \in Sessions
    PROVE  /\ Adds(i, 1) \in [Sessions -> Entry]
           /\ \A j \in Sessions : /\ Adds(i, 1)[j].st = sess[j].st
                                  /\ Adds(i, 1)[j].slot = sess[j].slot
                                  /\ Adds(i, 1)[j].dead = sess[j].dead
BY DEF Types, Entry, Adds

LEMMA DropsType ==
    ASSUME Types, NEW i \in Sessions \cup {None}
    PROVE  /\ Drops(i) \in [Sessions -> Entry]
           /\ \A j \in Sessions : /\ Drops(i)[j].st = sess[j].st
                                  /\ Drops(i)[j].slot = sess[j].slot
                                  /\ Drops(i)[j].dead = sess[j].dead
<1>1. CASE i = None
    BY <1>1 DEF Types, Drops
<1>2. CASE i # None
    BY <1>2 DEF Types, Entry, Drops
<1> QED
    BY <1>1, <1>2

LEMMA ConnectEntries ==
    ASSUME Entries, NEW s \in Slots, Connect(s)
    PROVE  Entries'
<1> DEFINE i == CHOOSE j \in Sessions : ~InUse(j)
           new == [Unused EXCEPT !.st = "run", !.slot = s]
<1>1. i \in Sessions /\ ~InUse(i)
    BY DEF Connect
<1>2. /\ sess' = [sess EXCEPT ![i] = new]
      /\ cur' = [cur EXCEPT ![s] = i]
      /\ worker[s] = "connect" /\ worker' = [worker EXCEPT ![s] = "poll"]
      /\ UNCHANGED <<started, conns, faults, stopped>>
    BY DEF Connect
<1>3. new \in Entry /\ new.st = "run" /\ new.slot = s /\ ~new.dead /\ new.active = 0
    BY DEF Unused, Entry
<1>4. sess[i].st # "run" /\ \A t \in Slots : cur[t] # i
    BY <1>1 DEF InUse
<1> HIDE DEF i, new
<1>6. Types'
    BY <1>1, <1>2, <1>3 DEF Entries, Types
<1>7. started /\ Working'
    BY <1>2 DEF Entries, Types, Working
<1>8. i # None
    BY <1>1, Bounds
<1>9. OwnSlot'
    BY <1>1, <1>2, <1>3, <1>4 DEF Entries, Types, OwnSlot
<1>10. Leaves'
    BY <1>1, <1>2, <1>3, <1>4 DEF Entries, Types, Leaves, Clean
<1>11. ASSUME Clean', NEW j \in Sessions, sess'[j].st = "run"
       PROVE  cur'[sess'[j].slot] = j
    <2>1. CASE j = i
        BY <1>1, <1>2, <1>3, <2>1 DEF Entries, Types
    <2>2. CASE j # i
        <3>1. /\ sess'[j] = sess[j] /\ Clean /\ sess[j].slot \in Slots
              /\ cur[sess[j].slot] = j
            BY <1>2, <1>11, <2>2 DEF Entries, Types, Entry, Latest, Clean
        <3>2. sess[j].slot # s
            <4> SUFFICES ASSUME sess[j].slot = s PROVE FALSE
                OBVIOUS
            <4>1. cur[s] = j /\ j # None
                BY <3>1, Bounds
            <4>2. sess[j].dead
                BY <1>2, <3>1, <4>1 DEF Entries, Leaves
            <4>3. sess[j].st = "over"
                BY <3>1, <4>1, <4>2 DEF Entries, EntryMatchesSession, Clean
            <4> QED
                BY <1>11, <3>1, <4>3
        <3> QED
            BY <1>2, <3>1, <3>2 DEF Entries, Types
    <2> QED
        BY <2>1, <2>2
<1>12. Latest'
    BY <1>11 DEF Latest
<1>13. EntryMatchesSession'
    BY <1>1, <1>2, <1>3, <1>4 DEF Entries, Types, EntryMatchesSession
<1> QED
    BY <1>6, <1>7, <1>9, <1>10, <1>12, <1>13 DEF Entries

\* The other steps of a worker.
LEMMA WorkerEntries ==
    ASSUME Entries, NEW s \in Slots, ConnectFails(s) \/ Poll(s) \/ Delay(s)
    PROVE  Entries'
<1>1. /\ UNCHANGED <<started, cur, sess, conns, faults, stopped>>
      /\ worker[s] # "off"
      /\ \E w \in {"connect", "delay"} : worker' = [worker EXCEPT ![s] = w]
      /\ worker[s] \notin {"connect", "delay"} => cur[s] = None \/ sess[cur[s]].dead
    BY DEF ConnectFails, Poll, Delay
<1>2. PICK w \in {"connect", "delay"} : worker' = [worker EXCEPT ![s] = w]
    BY <1>1
<1>3. Types' /\ Working'
    BY <1>1, <1>2 DEF Entries, Types, Working
<1>4. OwnSlot' /\ Latest' /\ EntryMatchesSession'
    BY <1>1 DEF Entries, OwnSlot, Latest, EntryMatchesSession, Clean
<1>5. Leaves'
    BY <1>1, <1>2 DEF Entries, Types, Leaves, Clean
<1> QED
    BY <1>3, <1>4, <1>5 DEF Entries

LEMMA SessionEndsEntries ==
    ASSUME Entries, NEW i \in Sessions, SessionEnds(i)
    PROVE  Entries'
<1> DEFINE k == cur[sess[i].slot]
<1>1. /\ sess[i].st = "run"
      /\ sess' = [j \in Sessions |-> [sess[j] EXCEPT !.st = IF j = i THEN "over" ELSE @,
                                                     !.dead = @ \/ j = k]]
      /\ UNCHANGED <<started, worker, cur, conns, faults, stopped>>
    BY DEF SessionEnds
<1>2. sess[i].slot \in Slots /\ k \in Sessions \cup {None}
    BY DEF Entries, Types, Entry
<1> HIDE DEF k
<1>3. \A j \in Sessions : /\ sess'[j].slot = sess[j].slot
                          /\ sess'[j].active = sess[j].active
                          /\ sess'[j].st = IF j = i THEN "over" ELSE sess[j].st
                          /\ sess'[j].dead = (sess[j].dead \/ j = k)
    BY <1>1 DEF Entries, Types, Entry
<1>4. Types'
    <2>1. sess' \in [Sessions -> Entry]
        BY <1>1 DEF Entries, Types, Entry
    <2> QED
        BY <1>1, <2>1 DEF Entries, Types
<1>5. Working'
    BY <1>1 DEF Entries, Working
<1>6. \A s \in Slots : cur[s] # None => cur[s] \in Sessions
    BY DEF Entries, Types
<1>7. OwnSlot'
    <2> SUFFICES ASSUME NEW s \in Slots, cur[s] # None
                 PROVE  sess'[cur[s]].slot = s /\ sess'[cur[s]].st # "none"
        BY <1>1 DEF OwnSlot
    <2>1. sess[cur[s]].slot = s /\ sess[cur[s]].st # "none"
        BY DEF Entries, OwnSlot
    <2> QED
        BY <1>3, <1>6, <2>1
<1>8. Leaves' /\ Latest'
    <2>1. ASSUME Clean, NEW s \in Slots, worker[s] \in {"connect", "delay"}, cur[s] # None
          PROVE  sess'[cur[s]].dead
        <3>1. sess[cur[s]].dead
            BY <2>1 DEF Entries, Leaves
        <3> QED
            BY <1>3, <1>6, <2>1, <3>1
    <2>2. ASSUME Clean, NEW j \in Sessions, sess'[j].st = "run"
          PROVE  cur[sess'[j].slot] = j
        <3>1. sess[j].st = "run" /\ sess'[j].slot = sess[j].slot
            BY <1>3, <2>2
        <3> QED
            BY <2>2, <3>1 DEF Entries, Latest
    <2> QED
        BY <1>1, <2>1, <2>2 DEF Leaves, Latest, Clean
<1>9. ASSUME NEW s \in Slots, cur[s] # None
      PROVE  /\ ~sess'[cur[s]].dead => sess'[cur[s]].st = "run"
             /\ Clean => (sess'[cur[s]].dead => sess'[cur[s]].st = "over")
    <2>1. cur[s] \in Sessions /\ sess[cur[s]].slot = s
        BY <1>9 DEF Entries, Types, OwnSlot
    <2>2. cur[s] = i => cur[s] = k
        BY <2>1 DEF k
    <2>3. ASSUME Clean PROVE k = i
        BY <1>1, <2>3 DEF Entries, Latest, k
    <2>4. /\ ~sess[cur[s]].dead => sess[cur[s]].st = "run"
          /\ Clean => (sess[cur[s]].dead => sess[cur[s]].st = "over")
        BY <1>9 DEF Entries, EntryMatchesSession, Clean
    <2> QED
        BY <1>3, <2>1, <2>2, <2>3, <2>4
<1>10. EntryMatchesSession'
    BY <1>1, <1>9 DEF EntryMatchesSession, Clean
<1> QED
    BY <1>4, <1>5, <1>7, <1>8, <1>10 DEF Entries

LEMMA StopEntries ==
    ASSUME Entries, Stop
    PROVE  Entries'
<1>1. Types'
    BY DEF Entries, Types, Stop
<1> QED
    BY <1>1 DEF Entries, Stop, Types, Working, OwnSlot, Leaves, Latest, EntryMatchesSession, Clean
-----------------------------------------------------------------------------
(* The connections *)

\* Only a connection that has a stream, or had one, refers to a session; the stdio
\* bridge reads until its connection is dropped.
Streams == \A c \in Conns :
    /\ conns[c].pc \in {"hello", "dial"} => conns[c].via = None
    /\ conns[c].pc = "open" => conns[c].via # None
    /\ conns[c].via # None => sess[conns[c].via].st # "none"
    /\ c \in Stdio /\ conns[c].pc = "relay" => conns[c].up

Inv == Entries /\ Streams /\ ActiveCountsStreams

\* Only connection c changes.
Only(c) == conns' \in [Conns -> Tunnel] /\ \A d \in Conns \ {c} : conns'[d] = conns[d]

LEMMA CountedFinite == ASSUME NEW i \in Sessions
                       PROVE  IsFiniteSet(Counted(i)) /\ Cardinality(Counted(i)) \in Nat
<1>1. IsFiniteSet(Conns)
    BY ConnsAssumption, FS_Union DEF Conns
<1>2. Counted(i) \in SUBSET Conns
    BY DEF Counted
<1>3. IsFiniteSet(Counted(i))
    BY <1>1, <1>2, FS_Subset
<1> QED
    BY <1>3, FS_CardinalityType

\* How the number of streams of a session follows a step of one connection.
LEMMA CountedAfter ==
    ASSUME NEW c \in Conns, Only(c), NEW i \in Sessions
    PROVE  /\ (Counts(conns[c], i) <=> Counts(conns[c], i)') => Counted(i)' = Counted(i)
           /\ ~Counts(conns[c], i) /\ Counts(conns[c], i)'
                 => Cardinality(Counted(i))' = Cardinality(Counted(i)) + 1
           /\ Counts(conns[c], i) /\ ~Counts(conns[c], i)'
                 => /\ Cardinality(Counted(i)) > 0
                    /\ Cardinality(Counted(i))' = Cardinality(Counted(i)) - 1
<1>1. \A d \in Conns \ {c} : d \in Counted(i)' <=> d \in Counted(i)
    BY DEF Only, Counted, Counts
<1>2. /\ c \in Counted(i) <=> Counts(conns[c], i)
      /\ c \in Counted(i)' <=> Counts(conns[c], i)'
      /\ Counted(i) \subseteq Conns /\ Counted(i)' \subseteq Conns
    BY DEF Counted
<1>3. CASE (Counts(conns[c], i) <=> Counts(conns[c], i)')
    <2>1. Counted(i)' = Counted(i)
        BY <1>1, <1>2, <1>3
    <2> QED
        BY <1>3, <2>1
<1>4. CASE ~Counts(conns[c], i) /\ Counts(conns[c], i)'
    <2>1. Counted(i)' = Counted(i) \cup {c} /\ c \notin Counted(i)
        BY <1>1, <1>2, <1>4
    <2>2. Cardinality(Counted(i))' = Cardinality(Counted(i)) + 1
        BY <2>1, CountedFinite, FS_AddElement
    <2> QED
        BY <1>4, <2>2
<1>5. CASE Counts(conns[c], i) /\ ~Counts(conns[c], i)'
    <2>1. Counted(i)' = Counted(i) \ {c} /\ c \in Counted(i)
        BY <1>1, <1>2, <1>5
    <2>2. Cardinality(Counted(i))' = Cardinality(Counted(i)) - 1
        BY <2>1, CountedFinite, FS_RemoveElement
    <2>3. Cardinality(Counted(i)) # 0
        BY <2>1, CountedFinite, FS_EmptySet
    <2>4. Cardinality(Counted(i)) > 0
        BY <2>3, CountedFinite
    <2> QED
        BY <1>5, <2>2, <2>4
<1> QED
    BY <1>3, <1>4, <1>5

\* A step after which a connection counts where it did, and sess is as it was.
LEMMA QuietStep ==
    ASSUME Inv, NEW c \in Conns, Only(c), UNCHANGED <<started, worker, cur, sess, faults, stopped>>,
           \A i \in Sessions : (Counts(conns[c], i) <=> Counts(conns[c], i)'),
           Streams'
    PROVE  Inv'
<1>1. Entries'
    <2>1. sess' \in [Sessions -> Entry] /\ conns' \in [Conns -> Tunnel]
        BY DEF Inv, Entries, Types, Only
    <2> QED
        BY <2>1, CountsKeepEntries DEF Inv
<1>2. ActiveCountsStreams'
    BY CountedAfter DEF Inv, ActiveCountsStreams
<1> QED
    BY <1>1, <1>2 DEF Inv

\* A step in which the stream of a connection is closed and counted off.
LEMMA DropStep ==
    ASSUME Inv, NEW c \in Conns, Only(c), UNCHANGED <<started, worker, cur, faults, stopped>>,
           sess' = Drops(conns[c].via),
           \A i \in Sessions : /\ Counts(conns[c], i) <=> conns[c].via = i
                               /\ ~Counts(conns[c], i)',
           Streams'
    PROVE  Inv'
<1> DEFINE v == conns[c].via
<1>1. v \in Sessions \cup {None} /\ Types
    BY DEF Inv, Entries, Types, Tunnel
<1>2. Entries'
    <2>1. conns' \in [Conns -> Tunnel]
        BY DEF Only
    <2> QED
        BY <1>1, <2>1, DropsType, CountsKeepEntries DEF Inv
<1>3. ASSUME NEW i \in Sessions
      PROVE  sess'[i].active = Cardinality(Counted(i))'
    <2>1. sess[i].active = Cardinality(Counted(i))
        BY DEF Inv, ActiveCountsStreams
    <2>2. CASE v = i
        <3>1. i # None
            BY Bounds
        <3>2. sess'[i].active = IF sess[i].active > 0 THEN sess[i].active - 1 ELSE 0
            BY <1>1, <2>2, <3>1 DEF Drops, Types, Entry
        <3> QED
            BY <2>1, <2>2, <3>2, CountedAfter
    <2>3. CASE v # i
        <3>1. sess'[i] = sess[i]
            BY <1>1, <2>3 DEF Drops, Types
        <3>2. ~Counts(conns[c], i) /\ ~Counts(conns[c], i)'
            BY <2>3
        <3>3. Counted(i)' = Counted(i)
            BY <3>2, CountedAfter
        <3> QED
            BY <2>1, <3>1, <3>3
    <2> QED
        BY <2>2, <2>3
<1>4. ActiveCountsStreams'
    BY <1>3 DEF ActiveCountsStreams
<1> QED
    BY <1>2, <1>4 DEF Inv

\* The steps that neither open nor close a stream.
LEMMA OtherConnSteps ==
    ASSUME Inv, NEW c \in Conns,
           Refuse(c) \/ Opened(c) \/ Dial(c) \/ Reply(c) \/ DownEnds(c) \/ Finish(c) \/ StdioEnds(c)
    PROVE  Inv'
<1>1. /\ conns \in [Conns -> Tunnel]
      /\ \A i \in Sessions : i # None
      /\ c \in Socks => c \notin Stdio
    BY Bounds, ConnsAssumption DEF Inv, Entries, Types
<1>2. /\ conns[c].pc \in {"hello", "dial"} => conns[c].via = None
      /\ conns[c].via # None => sess[conns[c].via].st # "none"
      /\ c \in Stdio /\ conns[c].pc = "relay" => conns[c].up
    BY DEF Inv, Streams
<1>3. UNCHANGED <<started, worker, cur, sess, faults, stopped>>
    BY DEF Refuse, Opened, Dial, Reply, DownEnds, Finish, StdioEnds
<1>4. /\ Only(c)
      /\ conns[c]'.via \in {conns[c].via, None}
      /\ conns[c]'.pc \notin {"hello", "dial", "open"}
      /\ c \in Stdio /\ conns[c]'.pc = "relay" => conns[c]'.up
      /\ \A i \in Sessions : (Counts(conns[c], i) <=> Counts(conns[c], i)')
    <2>1. CASE Refuse(c)
        BY <1>1, <1>2, <2>1 DEF Refuse, Only, Counts, Tunnel
    <2>2. CASE Opened(c)
        BY <1>1, <1>2, <2>2 DEF Opened, Ready, Only, Counts, Tunnel, Conns
    <2>3. CASE Dial(c)
        <3>1. conns[c].pc = "dial" /\ conns[c].via = None
            BY <1>2, <2>3 DEF Dial
        <3>2. CASE conns' = [conns EXCEPT ![c] = Ready(c)]
            BY <1>1, <3>1, <3>2 DEF Ready, Only, Counts, Tunnel, Conns
        <3>3. CASE conns' = [conns EXCEPT ![c].pc = "done"]
            BY <1>1, <3>1, <3>3 DEF Only, Counts, Tunnel
        <3> QED
            BY <2>3, <3>2, <3>3 DEF Dial
    <2>4. CASE Reply(c)
        <3>1. conns[c].pc = "reply"
            BY <2>4 DEF Reply
        <3>2. CASE conns' = [conns EXCEPT ![c] = [@ EXCEPT !.pc = "relay", !.up = TRUE, !.dn = TRUE]]
            BY <1>1, <3>1, <3>2 DEF Only, Counts, Tunnel
        <3>3. CASE conns' = [conns EXCEPT ![c].pc = IF conns[c].via # None THEN "lost" ELSE "done"]
            BY <1>1, <3>1, <3>3 DEF Only, Counts, Tunnel
        <3> QED
            BY <2>4, <3>2, <3>3 DEF Reply
    <2>5. CASE DownEnds(c)
        BY <1>1, <1>2, <2>5 DEF DownEnds, Only, Counts, Tunnel
    <2>6. CASE Finish(c)
        BY <1>1, <1>2, <2>6, Bounds DEF Finish, NewConn, Only, Counts, Tunnel
    <2>7. CASE StdioEnds(c)
        BY <1>1, <1>2, <2>7 DEF StdioEnds, Only, Counts, Tunnel
    <2> QED
        BY <2>1, <2>2, <2>3, <2>4, <2>5, <2>6, <2>7
<1>5. Streams'
    BY <1>2, <1>3, <1>4 DEF Inv, Streams, Only
<1> QED
    BY <1>3, <1>4, <1>5, QuietStep

LEMMA CloseSteps ==
    ASSUME Inv, NEW c \in Conns, UpEnds(c) \/ StdioClose(c)
    PROVE  Inv'
<1>1. /\ conns \in [Conns -> Tunnel] /\ Types
      /\ conns[c].via \in Sessions \cup {None}
      /\ \A i \in Sessions : i # None
      /\ c \in Socks => c \notin Stdio
    BY Bounds, ConnsAssumption DEF Inv, Entries, Types, Tunnel
<1>2. /\ c \in Stdio /\ conns[c].pc = "relay" => conns[c].up
      /\ conns[c].via # None => sess[conns[c].via].st # "none"
    BY DEF Inv, Streams
<1>3. UNCHANGED <<started, worker, cur, faults, stopped>> /\ sess' = Drops(conns[c].via)
    BY DEF UpEnds, StdioClose
<1>4. /\ Only(c)
      /\ conns[c]'.via \in {conns[c].via, None}
      /\ conns[c]'.pc \notin {"hello", "dial", "open"}
      /\ c \in Stdio => conns[c]'.pc # "relay"
      /\ \A i \in Sessions : /\ Counts(conns[c], i) <=> conns[c].via = i
                             /\ ~Counts(conns[c], i)'
    <2>1. CASE UpEnds(c)
        <3>1. PICK deaf \in BOOLEAN : conns' = [conns EXCEPT ![c].up = FALSE, ![c].deaf = deaf]
            BY <2>1 DEF UpEnds
        <3> QED
            BY <1>1, <2>1, <3>1 DEF UpEnds, Only, Counts, Tunnel
    <2>2. CASE StdioClose(c)
        BY <1>1, <1>2, <2>2, Bounds DEF StdioClose, NewConn, Only, Counts, Tunnel
    <2> QED
        BY <2>1, <2>2
<1>5. \A i \in Sessions : sess'[i].st = sess[i].st
    BY <1>1, <1>3, DropsType
<1>6. Streams'
    <2>1. \A d \in Conns : conns'[d].via # None => /\ conns'[d].via \in Sessions
                                                  /\ sess[conns'[d].via].st # "none"
        BY <1>1, <1>2, <1>4 DEF Inv, Streams, Only, Tunnel
    <2> QED
        BY <1>4, <1>5, <2>1 DEF Inv, Streams, Only
<1> QED
    BY <1>3, <1>4, <1>6, DropStep

LEMMA OpenSteps ==
    ASSUME Inv, NEW c \in Conns, Open(c)
    PROVE  Inv'
<1>1. /\ conns \in [Conns -> Tunnel] /\ Types
      /\ \A i \in Sessions : i # None
      /\ conns[c].pc = "hello" /\ conns[c].via = None
      /\ UNCHANGED <<cur, faults, stopped>>
    BY Bounds DEF Inv, Entries, Types, Streams, Open
<1>2. \A i \in Live : i \in Sessions /\ sess[i].st # "none" /\ started
    BY DEF Inv, Entries, Types, Working, OwnSlot, Live
<1>3. CASE Live = {}
    <2>1. /\ conns' = [conns EXCEPT ![c].pc = "dial"] /\ sess' = sess
          /\ started' = TRUE
          /\ worker' = IF started THEN worker ELSE [s \in Slots |-> "connect"]
        BY <1>3 DEF Open
    <2>2. Only(c) /\ conns[c]'.pc = "dial" /\ conns[c]'.via = None
        BY <1>1, <2>1 DEF Only, Tunnel
    <2>3. Streams'
        BY <2>1, <2>2 DEF Inv, Streams, Only
    <2>4. Entries'
        <3>1. Types'
            BY <1>1, <2>1, <2>2 DEF Types, Only
        <3>2. Working'
            BY <1>1, <2>1 DEF Inv, Entries, Working
        <3>3. Leaves'
            BY <1>1, <2>1 DEF Inv, Entries, Working, Leaves, Clean
        <3> QED
            BY <1>1, <2>1, <3>1, <3>2, <3>3
            DEF Inv, Entries, OwnSlot, Latest, EntryMatchesSession, Clean
    <2>5. \A i \in Sessions : Counted(i)' = Counted(i)
        <3>1. \A i \in Sessions : ~Counts(conns[c], i) /\ ~Counts(conns[c], i)'
            BY <1>1, <2>2 DEF Counts
        <3> QED
            BY <2>2, <3>1, CountedAfter
    <2> QED
        BY <2>1, <2>3, <2>4, <2>5 DEF Inv, ActiveCountsStreams
<1>4. CASE Live # {}
    <2>1. PICK i \in Live : /\ sess' = Adds(i, 1)
                            /\ conns' = [conns EXCEPT ![c].pc = "open", ![c].via = i]
        BY <1>4 DEF Open
    <2>2. i \in Sessions /\ i # None /\ sess[i].st # "none" /\ UNCHANGED <<started, worker>>
        BY <1>1, <1>2, <1>4 DEF Open
    <2>3. Only(c) /\ conns[c]'.pc = "open" /\ conns[c]'.via = i
        BY <1>1, <2>1, <2>2 DEF Only, Tunnel
    <2>4. /\ sess' \in [Sessions -> Entry]
          /\ \A j \in Sessions : /\ sess'[j].st = sess[j].st
                                 /\ sess'[j].slot = sess[j].slot
                                 /\ sess'[j].dead = sess[j].dead
        BY <1>1, <2>1, <2>2, AddsType
    <2>5. Entries'
        BY <1>1, <2>2, <2>3, <2>4, CountsKeepEntries DEF Inv, Only
    <2>6. Streams'
        BY <1>1, <2>2, <2>3, <2>4 DEF Inv, Streams, Only, Tunnel
    <2>7. ASSUME NEW j \in Sessions
          PROVE  sess'[j].active = Cardinality(Counted(j))'
        <3>1. sess[j].active = Cardinality(Counted(j)) /\ ~Counts(conns[c], j)
            BY <1>1 DEF Inv, ActiveCountsStreams, Counts
        <3>2. CASE j = i
            <4>1. Counts(conns[c], j)'
                BY <2>3, <3>2 DEF Counts
            <4>2. sess'[j].active = sess[j].active + 1
                BY <1>1, <2>1, <2>2, <3>2 DEF Adds, Types, Entry
            <4> QED
                BY <2>3, <3>1, <4>1, <4>2, CountedAfter
        <3>3. CASE j # i
            <4>1. ~Counts(conns[c], j)'
                BY <2>3, <3>3 DEF Counts
            <4>2. sess'[j] = sess[j]
                BY <1>1, <2>1, <3>3 DEF Adds, Types
            <4>3. Counted(j)' = Counted(j)
                BY <2>3, <3>1, <4>1, CountedAfter
            <4> QED
                BY <3>1, <4>2, <4>3
        <3> QED
            BY <3>2, <3>3
    <2> QED
        BY <2>5, <2>6, <2>7 DEF Inv, ActiveCountsStreams
<1> QED
    BY <1>3, <1>4

\* The entry of a failed open is dead, whatever its slot has by now.
LEMMA OpenFailsSteps ==
    ASSUME Inv, NEW c \in Conns, OpenFails(c)
    PROVE  Inv'
<1> DEFINE i == conns[c].via
           d == Drops(i)
<1>1. /\ conns \in [Conns -> Tunnel] /\ Types
      /\ \A j \in Sessions : j # None
      /\ conns[c].pc = "open" /\ i # None
      /\ sess[i].st = "run" => faults < MaxFaults
      /\ faults' = IF sess[i].st = "run" THEN faults + 1 ELSE faults
      /\ sess' = [d EXCEPT ![i].dead = TRUE]
      /\ conns' = [conns EXCEPT ![c].pc = "dial", ![c].via = None]
      /\ UNCHANGED <<started, worker, cur, stopped>>
    BY Bounds DEF Inv, Entries, Types, Streams, OpenFails
<1>2. i \in Sessions /\ sess[i].st \in {"run", "over"} /\ faults \in 0 .. MaxFaults
    BY <1>1 DEF Inv, Streams, Types, Tunnel, Entry
<1>3. /\ d \in [Sessions -> Entry]
      /\ \A j \in Sessions : /\ d[j].st = sess[j].st
                             /\ d[j].slot = sess[j].slot
                             /\ d[j].dead = sess[j].dead
                             /\ d[j].active = IF j = i /\ sess[i].active > 0 THEN sess[i].active - 1
                                              ELSE sess[j].active
    <2>1. \A j \in Sessions : d[j].active = IF j = i /\ sess[i].active > 0 THEN sess[i].active - 1
                                              ELSE sess[j].active
        BY <1>1, <1>2 DEF Types, Entry, Drops
    <2> QED
        BY <1>1, <1>2, <2>1, DropsType
<1>4. Only(c) /\ conns[c]'.pc = "dial" /\ conns[c]'.via = None
    BY <1>1 DEF Only, Tunnel
<1> HIDE DEF i, d
<1>5. /\ sess' \in [Sessions -> Entry]
      /\ \A j \in Sessions : /\ sess'[j].st = sess[j].st
                             /\ sess'[j].slot = sess[j].slot
                             /\ sess'[j].dead = (sess[j].dead \/ j = i)
                             /\ sess'[j].active = d[j].active
    BY <1>1, <1>2, <1>3 DEF Entry
<1>6. /\ faults' \in 0 .. MaxFaults
      /\ Clean' => Clean /\ sess[i].st = "over"
    BY <1>1, <1>2, Bounds DEF Clean
<1>7. \A s \in Slots : cur[s] # None => cur[s] \in Sessions
    BY <1>1 DEF Types
<1>8. Entries'
    <2>1. Types'
        BY <1>1, <1>4, <1>5, <1>6 DEF Types, Only
    <2>2. Working'
        BY <1>1 DEF Inv, Entries, Working
    <2>3. OwnSlot'
        BY <1>1, <1>5, <1>7 DEF Inv, Entries, OwnSlot
    <2>4. Leaves'
        BY <1>1, <1>5, <1>6, <1>7 DEF Inv, Entries, Leaves
    <2>5. Latest'
        BY <1>1, <1>5, <1>6 DEF Inv, Entries, Latest
    <2>6. ASSUME NEW s \in Slots, cur[s] # None
          PROVE  /\ ~sess'[cur[s]].dead => sess'[cur[s]].st = "run"
                 /\ Clean' => (sess'[cur[s]].dead => sess'[cur[s]].st = "over")
        <3>1. /\ ~sess[cur[s]].dead => sess[cur[s]].st = "run"
              /\ Clean => (sess[cur[s]].dead => sess[cur[s]].st = "over")
            BY <2>6 DEF Inv, Entries, EntryMatchesSession, Clean
        <3> QED
            BY <1>5, <1>6, <1>7, <2>6, <3>1
    <2>7. EntryMatchesSession'
        BY <1>1, <2>6 DEF EntryMatchesSession, Clean
    <2> QED
        BY <2>1, <2>2, <2>3, <2>4, <2>5, <2>7 DEF Entries
<1>9. Streams'
    BY <1>4, <1>5 DEF Inv, Entries, Types, Streams, Only, Tunnel
<1>10. ASSUME NEW j \in Sessions
       PROVE  sess'[j].active = Cardinality(Counted(j))'
    <2>1. sess[j].active = Cardinality(Counted(j)) /\ ~Counts(conns[c], j)'
        BY <1>1, <1>4 DEF Inv, ActiveCountsStreams, Counts
    <2>2. CASE j = i
        <3>1. Counts(conns[c], j)
            BY <1>1, <2>2 DEF Counts, i
        <3> QED
            BY <1>3, <1>4, <1>5, <2>1, <2>2, <3>1, CountedAfter
    <2>3. CASE j # i
        <3>1. ~Counts(conns[c], j)
            BY <2>3 DEF Counts, i
        <3>2. Counted(j)' = Counted(j)
            BY <1>4, <2>1, <3>1, CountedAfter
        <3> QED
            BY <1>3, <1>5, <2>1, <2>3, <3>2
    <2> QED
        BY <2>2, <2>3
<1>11. ActiveCountsStreams'
    BY <1>10 DEF ActiveCountsStreams
<1> QED
    BY <1>8, <1>9, <1>11 DEF Inv

\* A new session begins with no stream counted.
LEMMA ConnectSteps ==
    ASSUME Inv, NEW s \in Slots, Connect(s)
    PROVE  Inv'
<1> DEFINE i == CHOOSE j \in Sessions : ~InUse(j)
           new == [Unused EXCEPT !.st = "run", !.slot = s]
<1>1. i \in Sessions /\ ~InUse(i)
    BY DEF Connect
<1>2. sess' = [sess EXCEPT ![i] = new] /\ conns' = conns
    BY DEF Connect
<1>3. new.st = "run" /\ new.active = 0
    BY DEF Unused
<1>4. \A c \in Conns : conns[c].via # i
    BY <1>1 DEF InUse
<1> HIDE DEF i, new
<1>5. sess \in [Sessions -> Entry] /\ conns \in [Conns -> Tunnel]
    BY DEF Inv, Entries, Types
<1>6. Streams'
    BY <1>2, <1>4, <1>5 DEF Inv, Streams, Tunnel
<1>7. ASSUME NEW j \in Sessions
      PROVE  sess'[j].active = Cardinality(Counted(j))'
    <2>1. Counted(j)' = Counted(j)
        BY <1>2 DEF Counted
    <2>2. sess[j].active = Cardinality(Counted(j))
        BY DEF Inv, ActiveCountsStreams
    <2>3. CASE j = i
        <3>1. Counted(j) = {}
            BY <1>4, <2>3 DEF Counted, Counts
        <3> QED
            BY <1>2, <1>3, <1>5, <2>1, <2>3, <3>1, FS_EmptySet
    <2>4. CASE j # i
        BY <1>2, <1>5, <2>1, <2>2, <2>4
    <2> QED
        BY <2>3, <2>4
<1>8. Entries'
    BY ConnectEntries DEF Inv
<1> QED
    BY <1>6, <1>7, <1>8 DEF Inv, ActiveCountsStreams

\* The other steps of the pool leave streams and their counts alone.
LEMMA PoolSteps ==
    ASSUME Inv,
           \/ \E s \in Slots : ConnectFails(s) \/ Poll(s) \/ Delay(s)
           \/ \E i \in Sessions : SessionEnds(i)
           \/ Stop
    PROVE  Inv'
<1>1. Entries'
    BY WorkerEntries, SessionEndsEntries, StopEntries DEF Inv
<1>2. /\ conns' = conns
      /\ \A j \in Sessions : /\ sess'[j].st = sess[j].st \/ sess'[j].st = "over"
                             /\ sess'[j].active = sess[j].active
    <2>1. CASE \E s \in Slots : ConnectFails(s) \/ Poll(s) \/ Delay(s)
        BY <2>1 DEF ConnectFails, Poll, Delay
    <2>2. CASE \E i \in Sessions : SessionEnds(i)
        <3>1. PICK i \in Sessions : SessionEnds(i)
            BY <2>2
        <3>2. sess \in [Sessions -> Entry]
            BY DEF Inv, Entries, Types
        <3> QED
            BY <3>1, <3>2 DEF SessionEnds, Entry
    <2>3. CASE Stop
        BY <2>3 DEF Stop
    <2> QED
        BY <2>1, <2>2, <2>3
<1>3. conns \in [Conns -> Tunnel]
    BY DEF Inv, Entries, Types
<1>4. Streams'
    BY <1>2, <1>3 DEF Inv, Streams, Tunnel
<1>5. ActiveCountsStreams'
    <2>1. \A j \in Sessions : Counted(j)' = Counted(j)
        BY <1>2 DEF Counted
    <2> QED
        BY <1>2, <2>1 DEF Inv, ActiveCountsStreams
<1> QED
    BY <1>1, <1>4, <1>5 DEF Inv

LEMMA InitInv == Init => Inv
<1> SUFFICES ASSUME Init PROVE Inv
    OBVIOUS
<1>1. Streams
    BY DEF Init, Streams, NewConn
<1>2. ASSUME NEW i \in Sessions PROVE sess[i].active = Cardinality(Counted(i))
    <2>1. Counted(i) = {}
        BY DEF Init, NewConn, Counted, Counts
    <2> QED
        BY <2>1, FS_EmptySet DEF Init, Unused
<1> QED
    BY <1>1, <1>2, InitEntries DEF Inv, ActiveCountsStreams

LEMMA StepInv == Inv /\ [Next]_vars => Inv'
<1> SUFFICES ASSUME Inv, [Next]_vars PROVE Inv'
    OBVIOUS
<1>1. CASE PoolStep
    BY <1>1, ConnectSteps, PoolSteps DEF PoolStep
<1>2. CASE ConnStep
    BY <1>2, OtherConnSteps, CloseSteps, OpenSteps, OpenFailsSteps DEF ConnStep
<1>3. CASE UNCHANGED vars
    <2>1. \A i \in Sessions : Counted(i)' = Counted(i)
        BY <1>3 DEF vars, Counted
    <2> QED
        BY <1>3, <2>1 DEF vars, Inv, Entries, Types, Working, OwnSlot, Leaves, Latest, Clean,
                          EntryMatchesSession, Streams, ActiveCountsStreams
<1> QED
    BY <1>1, <1>2, <1>3 DEF Next

LEMMA InvAlways == Spec => []Inv
BY InitInv, StepInv, PTL DEF Spec

\* The bound on the counts is that of the streams there can be.
LEMMA InvTypes == Inv => TypeOK
<1> SUFFICES ASSUME Inv PROVE TypeOK
    OBVIOUS
<1>1. IsFiniteSet(Conns)
    BY ConnsAssumption, FS_Union DEF Conns
<1>2. ASSUME NEW i \in Sessions PROVE sess[i].active \in 0 .. Cardinality(Conns)
    <2>1. Counted(i) \in SUBSET Conns
        BY DEF Counted
    <2>2. Cardinality(Counted(i)) <= Cardinality(Conns) /\ Cardinality(Conns) \in Nat
        BY <1>1, <2>1, FS_Subset, FS_CardinalityType
    <2> QED
        BY <2>2, CountedFinite DEF Inv, ActiveCountsStreams
<1>3. sess \in [Sessions -> [st : {"none", "run", "over"}, slot : Slots,
                             dead : BOOLEAN, active : 0 .. Cardinality(Conns)]]
    BY <1>2 DEF Inv, Entries, Types, Entry
<1> QED
    BY <1>3 DEF Inv, Entries, Types, Tunnel, Working, OwnSlot, TypeOK

-----------------------------------------------------------------------------

\* Every field of the pool has its type; a slot has a worker exactly while the pool
\* is started, and its entry is that of a session of its own (pool.py 31-54).
THEOREM TypesHold == Spec => []TypeOK
BY InvAlways, InvTypes, PTL

\* A live entry is that of a session that runs, for any number of slots, sessions
\* and failed opens (pool.py 50-54, 125-130).
THEOREM NoStreamOnDeadSession == Spec => []EntryMatchesSession
<1>1. Inv => EntryMatchesSession
    BY DEF Inv, Entries
<1> QED
    BY <1>1, InvAlways, PTL

\* The count that _pick compares is the number of streams open on the session, for
\* any number of connections (pool.py 62-80).
THEOREM CountsAreExact == Spec => []ActiveCountsStreams
<1>1. Inv => ActiveCountsStreams
    BY DEF Inv
<1> QED
    BY <1>1, InvAlways, PTL
=============================================================================
