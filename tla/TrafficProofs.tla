--------------------------- MODULE TrafficProofs ---------------------------
(***************************************************************************)
(* What holds of Traffic for any clients, connections, limits, chunk sizes *)
(* and panel requests.                                                     *)
(***************************************************************************)
EXTENDS Traffic, TLAPS

USE OwnerAssumption, LimitsAssumption, SizesAssumption, BoundsAssumption

\* Between the add and the next pop the flush holds no bytes.
FlyIsSpent == fpc \in {"read", "disable"} => fly = NoBytes

Ledger == TypeOK /\ Conservation /\ FlyIsSpent

LEMMA InitLedger == Init => Ledger
  BY DEF Init, Ledger, TypeOK, Conservation, FlyIsSpent, InFlight, NoBytes,
         Dirs, Row, FlushPC, ConnPC, Half

LEMMA StutterLedger == Ledger /\ UNCHANGED vars => Ledger'
  BY DEF vars, Ledger, TypeOK, Conservation, FlyIsSpent, InFlight

\* The fields of a row keep their types under the panel's updates.
LEMMA RowUpdates ==
  ASSUME NEW r \in Row
  PROVE  /\ [r EXCEPT !.live = "gone"] \in Row
         /\ \A l \in Limits : [r EXCEPT !.limit = l] \in Row
  <1>1. /\ r = [live |-> r.live, enabled |-> r.enabled,
                expired |-> r.expired, limit |-> r.limit]
        /\ r.live \in {"unborn", "live", "gone"} /\ r.enabled \in BOOLEAN
        /\ r.expired \in BOOLEAN /\ r.limit \in Nat
    BY DEF Row
  <1>2. [r EXCEPT !.live = "gone"] = [live |-> "gone", enabled |-> r.enabled,
                                     expired |-> r.expired, limit |-> r.limit]
    BY <1>1
  <1>3. ASSUME NEW l \in Limits
        PROVE  [r EXCEPT !.limit = l] = [live |-> r.live, enabled |-> r.enabled,
                                        expired |-> r.expired, limit |-> l]
    BY <1>1
  <1> QED
    BY <1>1, <1>2, <1>3 DEF Row

\* Setting the columns of a row to zero and taking them off its bytes due.
LEMMA ZeroColumns ==
  ASSUME Ledger, NEW c \in Clients,
         used' = [d \in Dirs |-> [used[d] EXCEPT ![c] = 0]],
         due' = [d \in Dirs |-> [due[d] EXCEPT ![c] = @ - used[d][c]]],
         UNCHANGED <<pending, fpc, cur, fly>>
  PROVE  /\ used' \in [Dirs -> [Clients -> Nat]]
         /\ due' \in [Dirs -> [Clients -> Nat]]
         /\ Conservation'
  <1>1. used' \in [Dirs -> [Clients -> Nat]]
    BY DEF Ledger, TypeOK
  <1>2. ASSUME NEW d \in Dirs, NEW x \in Clients
        PROVE  /\ due'[d][x] = pending'[d][x] + InFlight(d, x)' + used'[d][x]
               /\ due'[d][x] \in Nat
    BY DEF Ledger, TypeOK, Conservation, InFlight
  <1>3. due' \in [Dirs -> [Clients -> Nat]]
    BY <1>2 DEF Ledger, TypeOK
  <1> QED
    BY <1>1, <1>2, <1>3 DEF Conservation

\* The flush's bytes reach the row, or are taken off the bytes due.
LEMMA LandFly ==
  ASSUME Ledger, fpc = "add", fpc' # "add",
         UNCHANGED <<pending, cur>>,
         \/ AddTraffic
         \/ /\ due' = [d \in Dirs |-> [due[d] EXCEPT ![cur] = @ - fly[d]]]
            /\ UNCHANGED used
  PROVE  /\ used' \in [Dirs -> [Clients -> Nat]]
         /\ due' \in [Dirs -> [Clients -> Nat]]
         /\ Conservation'
  <1>1. cur \in Clients /\ fly \in [Dirs -> Nat]
    BY DEF Ledger, TypeOK
  <1>2. \A d \in Dirs, x \in Clients : InFlight(d, x)' = 0
    BY DEF InFlight
  <1>3. CASE /\ used' = [d \in Dirs |-> [used[d] EXCEPT ![cur] = @ + fly[d]]]
             /\ UNCHANGED due
    <2>1. used' \in [Dirs -> [Clients -> Nat]] /\ due' \in [Dirs -> [Clients -> Nat]]
      BY <1>1, <1>3 DEF Ledger, TypeOK
    <2>2. ASSUME NEW d \in Dirs, NEW x \in Clients
          PROVE  due'[d][x] = pending'[d][x] + InFlight(d, x)' + used'[d][x]
      BY <1>1, <1>2, <1>3 DEF Ledger, TypeOK, Conservation, InFlight
    <2> QED
      BY <2>1, <2>2 DEF Conservation
  <1>4. CASE /\ due' = [d \in Dirs |-> [due[d] EXCEPT ![cur] = @ - fly[d]]]
             /\ UNCHANGED used
    <2>1. ASSUME NEW d \in Dirs, NEW x \in Clients
          PROVE  /\ due'[d][x] = pending'[d][x] + InFlight(d, x)' + used'[d][x]
                 /\ due'[d][x] \in Nat
      BY <1>1, <1>2, <1>4 DEF Ledger, TypeOK, Conservation, InFlight
    <2>2. due' \in [Dirs -> [Clients -> Nat]]
      BY <2>1, <1>4 DEF Ledger, TypeOK
    <2> QED
      BY <2>1, <2>2, <1>4 DEF Conservation, Ledger, TypeOK
  <1> QED
    BY <1>3, <1>4 DEF AddTraffic

\* Closing every registered writer of a client.
LEMMA KillTypes ==
  ASSUME TypeOK, NEW c \in Clients, KillStreams(c)
  PROVE  wopen' \in [Conns -> BOOLEAN] /\ streams' \in [Clients -> SUBSET Conns]
  <1>1. \A k \in Conns : (wopen[k] /\ k \notin streams[c]) \in BOOLEAN
    OBVIOUS
  <1> QED
    BY <1>1 DEF TypeOK, KillStreams

LEMMA HandlerLedger ==
  ASSUME Ledger, NEW k \in Conns, Handler(k)
  PROVE  Ledger'
  <1> USE DEF Ledger, FlyIsSpent, InFlight
  <1>1. CASE Accept(k)
    BY <1>1 DEF Accept, TypeOK, Conservation, db, ctrl, flush, relay, ConnPC
  <1>2. CASE CheckClient(k)
    <2>1. pc' \in [Conns -> ConnPC] /\ wopen' \in [Conns -> BOOLEAN]
      BY <1>2 DEF CheckClient, Leave, TypeOK, ConnPC
    <2>2. UNCHANGED <<db, ctrl, flush, relay, streams, kills, faults, due>>
      BY <1>2 DEF CheckClient
    <2> QED
      BY <2>1, <2>2 DEF TypeOK, Conservation, db, ctrl, flush, relay
  <1>3. CASE CheckDisable(k)
    BY <1>3 DEF CheckDisable, SetEnabled, Leave, TypeOK, Conservation, db, ctrl, flush, relay, ConnPC, Row
  <1>4. CASE CheckFault(k)
    BY <1>4 DEF CheckFault, Leave, TypeOK, Conservation, db, ctrl, flush, relay, ConnPC
  <1>5. CASE DialOk(k)
    BY <1>5 DEF DialOk, TypeOK, Conservation, db, ctrl, flush, relay, ConnPC
  <1>6. CASE DialFail(k)
    BY <1>6 DEF DialFail, Leave, TypeOK, Conservation, db, ctrl, flush, relay, ConnPC
  <1>7. CASE LeadOk(k)
    BY <1>7 DEF LeadOk, TypeOK, Conservation, db, ctrl, flush, ConnPC, Half
  <1>8. CASE LeadFail(k)
    BY <1>8 DEF LeadFail, TypeOK, Conservation, db, ctrl, flush, relay, ConnPC
  <1>9. CASE Finish(k)
    BY <1>9 DEF Finish, Leave, TypeOK, Conservation, db, ctrl, flush, ConnPC, Half
  <1>10. ASSUME NEW d \in Dirs, Send(k, d) PROVE Ledger'
    BY <1>10 DEF Send, TypeOK, Conservation, db, ctrl, flush, Half
  <1>11. ASSUME NEW d \in Dirs, RecordBytes(k, d) PROVE Ledger'
    BY <1>11 DEF RecordBytes, TypeOK, Conservation, db, flush, Half
  <1>12. ASSUME NEW d \in Dirs, HalfEnd(k, d) PROVE Ledger'
    BY <1>12 DEF HalfEnd, TypeOK, Conservation, db, ctrl, flush, Half
  <1> QED
    BY <1>1, <1>2, <1>3, <1>4, <1>5, <1>6, <1>7, <1>8, <1>9, <1>10, <1>11, <1>12
    DEF Handler

LEMMA PanelLedger ==
  ASSUME Ledger, NEW c \in Clients, PanelStep(c)
  PROVE  Ledger'
  <1> USE DEF Ledger, FlyIsSpent, InFlight
  <1>1. CASE CreateClient(c)
    BY <1>1 DEF CreateClient, TypeOK, Conservation, ctrl, flush, relay, Row
  <1>2. CASE EnableClient(c)
    BY <1>2 DEF EnableClient, TypeOK, Conservation, ctrl, flush, relay, Row
  <1>3. CASE DisableClient(c)
    BY <1>3 DEF DisableClient, TypeOK, Conservation, ctrl, flush, relay, Row
  <1>4. CASE BulkDisable(c)
    BY <1>4 DEF BulkDisable, TypeOK, Conservation, ctrl, flush, relay, Row
  <1>5. CASE DeleteClient(c)
    <2>1. used' \in [Dirs -> [Clients -> Nat]] /\ due' \in [Dirs -> [Clients -> Nat]]
          /\ Conservation'
      BY <1>5, ZeroColumns DEF DeleteClient, ctrl, flush
    <2>2. row' \in [Clients -> Row]
      <3>1. [row[c] EXCEPT !.live = "gone"] \in Row
        BY RowUpdates DEF TypeOK
      <3> QED
        BY <1>5, <3>1 DEF DeleteClient, TypeOK
    <2> QED
      BY <1>5, <2>1, <2>2 DEF DeleteClient, TypeOK, ctrl, flush, relay
  <1>6. CASE ResetTraffic(c)
    <2>1. used' \in [Dirs -> [Clients -> Nat]] /\ due' \in [Dirs -> [Clients -> Nat]]
          /\ Conservation'
      BY <1>6, ZeroColumns DEF ResetTraffic, ctrl, flush
    <2> QED
      BY <1>6, <2>1 DEF ResetTraffic, TypeOK, ctrl, flush, relay
  <1>7. CASE SetLimit(c)
    <2>1. PICK l \in Limits : row' = [row EXCEPT ![c].limit = l]
      BY <1>7 DEF SetLimit
    <2>2. row' \in [Clients -> Row]
      <3>1. [row[c] EXCEPT !.limit = l] \in Row
        BY RowUpdates DEF TypeOK
      <3> QED
        BY <2>1, <3>1 DEF TypeOK
    <2> QED
      BY <1>7, <2>2 DEF SetLimit, TypeOK, Conservation, ctrl, flush, relay
  <1>8. CASE SetExpired(c)
    BY <1>8 DEF SetExpired, TypeOK, Conservation, ctrl, flush, relay, Row
  <1>9. CASE PanelKill(c)
    <2>1. wopen' \in [Conns -> BOOLEAN] /\ streams' \in [Clients -> SUBSET Conns]
      BY <1>9, KillTypes DEF PanelKill, TypeOK
    <2> QED
      BY <1>9, <2>1 DEF PanelKill, TypeOK, Conservation, db, ctrl, flush, relay
  <1>10. CASE PanelFault(c)
    BY <1>10 DEF PanelFault, TypeOK, Conservation, db, ctrl, flush, relay
  <1> QED
    BY <1>1, <1>2, <1>3, <1>4, <1>5, <1>6, <1>7, <1>8, <1>9, <1>10 DEF PanelStep

LEMMA FlushLedger == Ledger /\ (Flush \/ FlushFault) => Ledger'
  <1> SUFFICES ASSUME Ledger, Flush \/ FlushFault PROVE Ledger'
    OBVIOUS
  <1> USE DEF Ledger, FlyIsSpent, InFlight
  <1>1. CASE FlushWake
    BY <1>1 DEF FlushWake, TypeOK, Conservation, db, ctrl, relay, FlushPC
  <1>2. ASSUME NEW c \in Clients, FlushPop(c) PROVE Ledger'
    BY <1>2 DEF FlushPop, TypeOK, Conservation, db, relay, FlushPC
  <1>3. CASE FlushEnd
    BY <1>3 DEF FlushEnd, TypeOK, Conservation, db, ctrl, relay, FlushPC
  <1>4. CASE FlushAdd
    <2>1. used' \in [Dirs -> [Clients -> Nat]] /\ due' \in [Dirs -> [Clients -> Nat]]
          /\ Conservation'
      BY <1>4, LandFly DEF FlushAdd, ctrl
    <2> QED
      BY <1>4, <2>1 DEF FlushAdd, TypeOK, ctrl, relay, FlushPC, NoBytes
  <1>5. CASE FlushRead
    BY <1>5 DEF FlushRead, TypeOK, Conservation, db, ctrl, relay, FlushPC
  <1>6. CASE FlushDisable
    BY <1>6 DEF FlushDisable, SetEnabled, TypeOK, Conservation, ctrl, relay, FlushPC, Row
  <1>7. CASE FlushKill
    BY <1>7 DEF FlushKill, KillStreams, TypeOK, Conservation, db, ctrl, relay, FlushPC
  <1>8. CASE FlushFault
    <2>1. CASE fpc = "add"
      <3>1. used' \in [Dirs -> [Clients -> Nat]] /\ due' \in [Dirs -> [Clients -> Nat]]
            /\ Conservation'
        BY <1>8, <2>1, LandFly DEF FlushFault, ctrl
      <3> QED
        BY <1>8, <3>1 DEF FlushFault, TypeOK, ctrl, relay, FlushPC, NoBytes
    <2>2. CASE fpc \in {"read", "disable"}
      <3>1. \A d \in Dirs : fly[d] = 0
        BY <2>2 DEF NoBytes
      <3>2. UNCHANGED <<used, due>>
        BY <1>8, <2>2, <3>1 DEF FlushFault, TypeOK
      <3> QED
        BY <1>8, <2>2, <3>1, <3>2
        DEF FlushFault, TypeOK, Conservation, ctrl, relay, FlushPC, NoBytes
    <2> QED
      BY <1>8, <2>1, <2>2 DEF FlushFault
  <1> QED
    BY <1>1, <1>2, <1>3, <1>4, <1>5, <1>6, <1>7, <1>8 DEF Flush

\* The type invariant and the conservation of recorded bytes: neither is
\* inductive alone, since due may only be lowered by bytes it contains.
THEOREM LedgerInvariant == Spec => []Ledger
  <1>1. Ledger /\ [Next]_vars => Ledger'
    BY HandlerLedger, PanelLedger, FlushLedger, StutterLedger DEF Next
  <1> QED
    BY InitLedger, <1>1, PTL DEF Spec

THEOREM TypeCorrect == Spec => []TypeOK
  BY LedgerInvariant, PTL DEF Ledger

THEOREM BytesConserved == Spec => []Conservation
  BY LedgerInvariant, PTL DEF Ledger
-----------------------------------------------------------------------------
(* The registry: a kill reaches every open relay of its client *)

LEMMA KillKeepsRegistry ==
  ASSUME TypeOK, RelayIsRegistered, NEW c \in Clients, KillStreams(c), UNCHANGED pc
  PROVE  RelayIsRegistered'
  <1> SUFFICES ASSUME NEW k \in Conns, pc[k] \in {"lead", "relay"}, wopen'[k]
               PROVE  k \in streams'[Owner[k]]
    BY DEF RelayIsRegistered
  <1>1. wopen[k] /\ k \notin streams[c]
    BY DEF KillStreams
  <1>2. Owner[k] \in Clients /\ Owner[k] # c
    BY <1>1 DEF RelayIsRegistered
  <1> QED
    BY <1>1, <1>2 DEF RelayIsRegistered, KillStreams, TypeOK

LEMMA HandlerRegistry ==
  ASSUME TypeOK, RelayIsRegistered, NEW k \in Conns, Handler(k)
  PROVE  RelayIsRegistered'
  <1> USE DEF TypeOK, RelayIsRegistered
  <1>1. CASE Accept(k)
    BY <1>1 DEF Accept
  <1>2. CASE CheckClient(k)
    <2>1. /\ UNCHANGED streams
          /\ \A x \in Conns : pc'[x] \in {"lead", "relay"} /\ wopen'[x] =>
                 pc[x] \in {"lead", "relay"} /\ wopen[x]
      BY <1>2 DEF CheckClient, Leave
    <2> QED
      BY <2>1
  <1>3. CASE CheckDisable(k)
    BY <1>3 DEF CheckDisable, Leave
  <1>4. CASE CheckFault(k)
    BY <1>4 DEF CheckFault, Leave
  <1>5. CASE DialOk(k)
    BY <1>5 DEF DialOk
  <1>6. CASE DialFail(k)
    BY <1>6 DEF DialFail, Leave
  <1>7. CASE LeadOk(k)
    BY <1>7 DEF LeadOk
  <1>8. CASE LeadFail(k)
    BY <1>8 DEF LeadFail
  <1>9. CASE Finish(k)
    BY <1>9 DEF Finish, Leave
  <1>10. ASSUME NEW d \in Dirs, Send(k, d) \/ RecordBytes(k, d) PROVE RelayIsRegistered'
    BY <1>10 DEF Send, RecordBytes
  <1>11. ASSUME NEW d \in Dirs, HalfEnd(k, d) PROVE RelayIsRegistered'
    BY <1>11 DEF HalfEnd
  <1> QED
    BY <1>1, <1>2, <1>3, <1>4, <1>5, <1>6, <1>7, <1>8, <1>9, <1>10, <1>11
    DEF Handler

\* Whatever kills, unregistrations and failures interleave, a relay whose
\* writer is open is in the set kill_client_streams walks.
THEOREM RelaysAreRegistered == Spec => []RelayIsRegistered
  <1>1. Init => RelayIsRegistered
    BY DEF Init, RelayIsRegistered
  <1>2. ASSUME TypeOK, RelayIsRegistered, [Next]_vars PROVE RelayIsRegistered'
    <2>1. CASE \E k \in Conns : Handler(k)
      BY <1>2, <2>1, HandlerRegistry
    <2>2. CASE FlushKill
      BY <1>2, <2>2, KillKeepsRegistry DEF FlushKill, TypeOK
    <2>3. CASE (Flush /\ ~FlushKill) \/ FlushFault
      BY <1>2, <2>3
      DEF Flush, FlushWake, FlushPop, FlushEnd, FlushAdd, FlushRead, FlushDisable,
          FlushFault, RelayIsRegistered
    <2>4. ASSUME NEW c \in Clients, PanelStep(c) PROVE RelayIsRegistered'
      <3>1. CASE PanelKill(c)
        BY <1>2, <3>1, KillKeepsRegistry DEF PanelKill, RelayIsRegistered
      <3>2. CASE ~PanelKill(c)
        BY <1>2, <2>4, <3>2
        DEF PanelStep, CreateClient, EnableClient, DisableClient, BulkDisable,
            DeleteClient, ResetTraffic, SetLimit, SetExpired, PanelFault, RelayIsRegistered
      <3> QED
        BY <3>1, <3>2
    <2>5. CASE UNCHANGED vars
      BY <1>2, <2>5 DEF vars, RelayIsRegistered
    <2> QED
      BY <1>2, <2>1, <2>2, <2>3, <2>4, <2>5 DEF Next
  <1> QED
    BY <1>1, <1>2, TypeCorrect, PTL DEF Spec

\* No byte waits in the dictionaries under a key the flush does not visit.
THEOREM PendingReachable == Spec => []PendingIsReachable
  <1>1. Init => PendingIsReachable
    BY DEF Init, PendingIsReachable
  <1>2. ASSUME TypeOK, PendingIsReachable, [Next]_vars PROVE PendingIsReachable'
    <2>1. ASSUME NEW k \in Conns, NEW d \in Dirs, RecordBytes(k, d)
          PROVE  PendingIsReachable'
      BY <1>2, <2>1 DEF RecordBytes, TypeOK, PendingIsReachable
    <2>2. ASSUME NEW c \in Clients, FlushPop(c) PROVE PendingIsReachable'
      BY <1>2, <2>2 DEF FlushPop, TypeOK, PendingIsReachable
    <2>3. ASSUME UNCHANGED <<pending, keys>> PROVE PendingIsReachable'
      BY <1>2, <2>3 DEF PendingIsReachable
    <2>4. \/ \E k \in Conns, d \in Dirs : RecordBytes(k, d)
          \/ \E c \in Clients : FlushPop(c)
          \/ UNCHANGED <<pending, keys>>
      BY <1>2
      DEF Next, vars, ctrl, Handler, Accept, CheckClient, CheckDisable, CheckFault,
          DialOk, DialFail, LeadOk, LeadFail, Finish, Send, HalfEnd,
          Flush, FlushWake, FlushEnd, FlushAdd, FlushRead, FlushDisable, FlushKill,
          FlushFault, PanelStep, CreateClient, EnableClient, DisableClient, BulkDisable,
          DeleteClient, ResetTraffic, SetLimit, SetExpired, PanelKill, PanelFault
    <2> QED
      BY <2>1, <2>2, <2>3, <2>4
  <1> QED
    BY <1>1, <1>2, TypeCorrect, PTL DEF Spec
-----------------------------------------------------------------------------
(* Enforcement: an enabled client over its limit is the flush's next victim *)

NoRow == \A c \in Clients, d \in Dirs : ~Live(c) => used[d][c] = 0

Quota == NoRow /\ QuotaEnforced

\* Steps that leave the counters and the flush alone and neither enable a
\* client, give it a row nor change its limit.
LEMMA QuietQuota ==
  ASSUME TypeOK, Quota, UNCHANGED <<used, fpc, cur>>,
         \A c \in Clients :
            /\ Live(c)' = Live(c)
            /\ Live(c) => row'[c].limit = row[c].limit
            /\ Live(c) /\ row'[c].enabled => row[c].enabled
  PROVE  Quota'
  <1>1. NoRow'
    BY DEF Quota, NoRow
  <1>2. QuotaEnforced'
    BY DEF Quota, QuotaEnforced, OverLimit
  <1> QED
    BY <1>1, <1>2 DEF Quota

\* SetEnabled(c, FALSE) is such an update.
LEMMA DisableIsQuiet ==
  ASSUME TypeOK, NEW x \in Clients, SetEnabled(x, FALSE)
  PROVE  \A c \in Clients :
            /\ Live(c)' = Live(c)
            /\ row'[c].limit = row[c].limit
            /\ row'[c].enabled => row[c].enabled
            /\ c # x => row'[c] = row[c]
            /\ c = x /\ Live(c) => ~row'[c].enabled
  BY DEF TypeOK, SetEnabled, Live, Row

LEMMA HandlerQuota ==
  ASSUME TypeOK, Quota, NEW k \in Conns, Handler(k)
  PROVE  Quota'
  <1>1. CASE CheckDisable(k)
    BY <1>1, QuietQuota, DisableIsQuiet, Owner[k] \in Clients DEF CheckDisable, flush
  <1>2. CASE ~CheckDisable(k)
    <2>1. UNCHANGED <<row, used, fpc, cur>>
      BY <1>2
      DEF Handler, Accept, CheckClient, CheckFault, DialOk, DialFail, LeadOk, LeadFail,
          Finish, Send, RecordBytes, HalfEnd, db, flush
    <2> QED
      BY <2>1, QuietQuota DEF Live
  <1> QED
    BY <1>1, <1>2

LEMMA PanelQuota ==
  ASSUME TypeOK, Quota, NEW c \in Clients, PanelStep(c)
  PROVE  Quota'
  <1>1. CASE CreateClient(c)
    <2>1. used["up"][c] = 0 /\ used["down"][c] = 0
      BY <1>1 DEF CreateClient, Quota, NoRow, Live, Dirs
    <2>2. \A x \in Clients : x # c => row'[x] = row[x]
      BY <1>1 DEF CreateClient, TypeOK
    <2>3. UNCHANGED <<used, fpc, cur>>
      BY <1>1 DEF CreateClient, flush
    <2>4. row'[c].limit \in Nat
      BY <1>1 DEF CreateClient, TypeOK
    <2>5. ~OverLimit(c)'
      BY <2>1, <2>3, <2>4 DEF OverLimit
    <2>6. NoRow'
      BY <2>1, <2>2, <2>3 DEF Quota, NoRow, Live, Dirs
    <2>7. QuotaEnforced'
      BY <2>2, <2>3, <2>5 DEF Quota, QuotaEnforced, Live, OverLimit
    <2> QED
      BY <2>6, <2>7 DEF Quota
  <1>2. CASE EnableClient(c)
    BY <1>2 DEF EnableClient, Quota, NoRow, QuotaEnforced, TypeOK, Live, flush
  <1>3. CASE DisableClient(c) \/ BulkDisable(c)
    <2>1. SetEnabled(c, FALSE) /\ UNCHANGED <<used, fpc, cur>>
      BY <1>3 DEF DisableClient, BulkDisable, SetEnabled, flush
    <2> QED
      BY <2>1, QuietQuota, DisableIsQuiet
  <1>4. CASE DeleteClient(c)
    <2>1. \A x \in Clients : x # c => row'[x] = row[x]
      BY <1>4 DEF DeleteClient, TypeOK
    <2>2. ~Live(c)'
      BY <1>4 DEF DeleteClient, TypeOK, Live
    <2>3. UNCHANGED <<fpc, cur>>
      BY <1>4 DEF DeleteClient, flush
    <2>4. \A d \in Dirs, x \in Clients : used'[d][x] = IF x = c THEN 0 ELSE used[d][x]
      BY <1>4 DEF DeleteClient, TypeOK
    <2>5. NoRow'
      BY <2>1, <2>4 DEF Quota, NoRow, Live
    <2>6. QuotaEnforced'
      BY <2>1, <2>2, <2>3, <2>4 DEF Quota, QuotaEnforced, Live, OverLimit, Dirs
    <2> QED
      BY <2>5, <2>6 DEF Quota
  <1>5. CASE ResetTraffic(c)
    <2>1. \A d \in Dirs, x \in Clients : used'[d][x] = IF x = c THEN 0 ELSE used[d][x]
      BY <1>5 DEF ResetTraffic, TypeOK
    <2>2. UNCHANGED <<row, fpc, cur>>
      BY <1>5 DEF ResetTraffic, flush
    <2>3. NoRow'
      BY <2>1, <2>2 DEF Quota, NoRow, Live
    <2>4. ASSUME NEW x \in Clients, OverLimit(x)' PROVE OverLimit(x)
      <3>1. row[x].limit \in Nat /\ row'[x] = row[x]
        BY <2>2 DEF TypeOK, Row
      <3>2. CASE x = c
        BY <2>1, <2>4, <3>1, <3>2 DEF OverLimit, Dirs
      <3>3. CASE x # c
        BY <2>1, <2>4, <3>1, <3>3 DEF OverLimit, Dirs
      <3> QED
        BY <3>2, <3>3
    <2>5. QuotaEnforced'
      BY <2>2, <2>4 DEF Quota, QuotaEnforced, Live
    <2> QED
      BY <2>3, <2>5 DEF Quota
  <1>6. CASE SetLimit(c)
    BY <1>6 DEF SetLimit, Quota, NoRow, QuotaEnforced, TypeOK, Live, flush
  <1>7. CASE SetExpired(c)
    <2>1. \A x \in Clients : /\ row'[x].live = row[x].live
                             /\ row'[x].limit = row[x].limit
                             /\ row'[x].enabled = row[x].enabled
      BY <1>7 DEF SetExpired, TypeOK, Row
    <2> QED
      BY <1>7, <2>1, QuietQuota DEF SetExpired, Live, flush
  <1>8. CASE PanelKill(c) \/ PanelFault(c)
    BY <1>8, QuietQuota DEF PanelKill, PanelFault, db, flush, Live
  <1> QED
    BY <1>1, <1>2, <1>3, <1>4, <1>5, <1>6, <1>7, <1>8 DEF PanelStep

LEMMA FlushQuota ==
  ASSUME TypeOK, Quota, Flush \/ FlushFault
  PROVE  Quota'
  <1>1. CASE FlushWake \/ FlushEnd \/ FlushKill \/ \E c \in Clients : FlushPop(c)
    <2>1. UNCHANGED <<row, used>> /\ fpc \in {"sleep", "next", "kill"}
      BY <1>1 DEF FlushWake, FlushEnd, FlushKill, FlushPop, db
    <2> QED
      BY <2>1 DEF Quota, NoRow, QuotaEnforced, Live, OverLimit
  <1>2. CASE FlushAdd
    <2>1. UNCHANGED <<row, cur>> /\ fpc' = "read" /\ fpc = "add"
      BY <1>2 DEF FlushAdd
    <2>2. \A d \in Dirs, x \in Clients :
             x # cur \/ ~Live(x) => used'[d][x] = used[d][x]
      BY <1>2 DEF FlushAdd, AddTraffic, TypeOK
    <2>3. NoRow'
      BY <2>1, <2>2 DEF Quota, NoRow, Live
    <2>4. \A x \in Clients : x # cur => OverLimit(x)' = OverLimit(x)
      BY <2>1, <2>2 DEF OverLimit, Dirs
    <2>5. QuotaEnforced'
      BY <2>1, <2>4 DEF Quota, QuotaEnforced, Live
    <2> QED
      BY <2>3, <2>5 DEF Quota
  <1>3. CASE FlushRead
    BY <1>3 DEF FlushRead, Quota, NoRow, QuotaEnforced, Live, OverLimit, db
  <1>4. CASE FlushDisable
    <2>1. cur \in Clients /\ UNCHANGED <<used, cur>> /\ fpc = "disable"
      BY <1>4 DEF FlushDisable, TypeOK
    <2>2. \A c \in Clients :
            /\ Live(c)' = Live(c)
            /\ c # cur => row'[c] = row[c]
            /\ c = cur /\ Live(c) => ~row'[c].enabled
      BY <1>4, <2>1, DisableIsQuiet DEF FlushDisable
    <2>3. NoRow'
      BY <2>1, <2>2 DEF Quota, NoRow
    <2>4. QuotaEnforced'
      BY <2>1, <2>2 DEF Quota, QuotaEnforced, OverLimit
    <2> QED
      BY <2>3, <2>4 DEF Quota
  <1>5. CASE FlushFault
    <2>1. UNCHANGED row /\ fpc' = "dead"
      BY <1>5 DEF FlushFault
    <2>2. \A d \in Dirs, x \in Clients : ~Live(x) => used'[d][x] = used[d][x]
      BY <1>5 DEF FlushFault, AddTraffic, TypeOK
    <2> QED
      BY <2>1, <2>2 DEF Quota, NoRow, QuotaEnforced, Live
  <1> QED
    BY <1>1, <1>2, <1>3, <1>4, <1>5 DEF Flush

\* With a panel that neither re-enables clients nor changes limits, an enabled
\* client over its limit is one the flush is about to disable.
THEOREM QuotaIsEnforced == Spec => []QuotaEnforced
  <1>1. Init => Quota
    BY DEF Init, Quota, NoRow, QuotaEnforced, Live, OverLimit
  <1>2. TypeOK /\ Quota /\ [Next]_vars => Quota'
    <2> SUFFICES ASSUME TypeOK, Quota, [Next]_vars PROVE Quota'
      OBVIOUS
    <2>1. CASE UNCHANGED vars
      BY <2>1, QuietQuota DEF vars, Live
    <2> QED
      BY <2>1, HandlerQuota, PanelQuota, FlushQuota DEF Next
  <1>3. Quota => QuotaEnforced
    BY DEF Quota
  <1> QED
    BY <1>1, <1>2, <1>3, TypeCorrect, PTL DEF Spec
============================================================================
