----------------------------- MODULE AdminProofs -----------------------------
(***************************************************************************)
(* Proofs about Admin, for any inbounds and contents of the tables and any *)
(* number of jobs, requests, Xray processes and faults.                    *)
(***************************************************************************)
EXTENDS Admin, TLAPS, FiniteSetTheorems, WellFoundedInduction
-----------------------------------------------------------------------------
(* Numbers and queues *)

LEMMA LessIsWellFounded ==
    \E R : IsWellFoundedOn(R, Nat) /\ \A a, b \in Nat : a < b => <<a, b>> \in R
<1>1. \A a, b \in Nat : a < b => <<a, b>> \in OpToRel(<, Nat)
    BY DEF OpToRel
<1> QED
    BY <1>1, NatLessThanWellFounded, Zenon

LEMMA Smallest ==
    ASSUME NEW S \in SUBSET Nat, S # {}
    PROVE  \E m \in S : \A k \in S : m <= k
<1>1. PICK R : IsWellFoundedOn(R, Nat) /\ \A a, b \in Nat : a < b => <<a, b>> \in R
    BY LessIsWellFounded
<1>2. PICK m \in S : \A k \in S : <<k, m>> \notin R
    <2>1. S \subseteq Nat /\ S # {} /\ IsWellFoundedOn(R, Nat)
        BY <1>1
    <2> QED
        BY <2>1, WFMin, Zenon
<1>3. \A k \in S : ~ (k < m)
    BY <1>1, <1>2
<1>4. \A k, l \in Nat : ~ (k < l) => l <= k
    OBVIOUS
<1> QED
    BY <1>3, <1>4

LEMMA MinIs ==
    ASSUME NEW S \in SUBSET Nat, S # {}
    PROVE  Min(S) \in S
<1>1. PICK m \in S : \A k \in S : m <= k
    BY Smallest
<1> QED
    BY <1>1 DEF Min

\* A set of numbers with a bound has a largest, the smallest of its bounds.
LEMMA MaxIs ==
    ASSUME NEW S \in SUBSET Nat, S # {}, NEW n \in Nat, \A k \in S : k <= n
    PROVE  Max(S) \in S /\ \A k \in S : k <= Max(S)
<1> DEFINE B == {b \in Nat : \A k \in S : k <= b}
<1>1. PICK b \in B : \A k \in B : b <= k
    <2>1. n \in B /\ B \in SUBSET Nat
        OBVIOUS
    <2> QED
        BY <2>1, Smallest
<1>2. b \in S
    <2> SUFFICES ASSUME b \notin S PROVE FALSE
        OBVIOUS
    <2>1. PICK k \in S : TRUE
        OBVIOUS
    <2>2. b \in Nat /\ k \in Nat /\ k <= b /\ k # b
        BY <1>1, <2>1
    <2>3. b - 1 \in Nat
        BY <2>2
    <2>4. \A l \in S : l <= b - 1
        BY <1>1, <2>2
    <2>5. b - 1 \in B
        BY <2>3, <2>4
    <2> QED
        BY <1>1, <2>2, <2>5
<1>3. \A k \in S : k <= b
    BY <1>1
<1> QED
    BY <1>2, <1>3 DEF Max

Has(s, x) == \E i \in 1 .. Len(s) : s[i] = x
Distinct(s) == \A i, k \in 1 .. Len(s) : s[i] = s[k] => i = k

LEMMA QueueGrows ==
    ASSUME NEW s \in Seq(Slots), NEW x \in Slots
    PROVE  /\ Append(s, x) \in Seq(Slots)
           /\ \A y : Has(Append(s, x), y) <=> Has(s, y) \/ y = x
           /\ Distinct(s) /\ ~Has(s, x) => Distinct(Append(s, x))
<1>1. /\ Append(s, x) \in Seq(Slots) /\ Len(Append(s, x)) = Len(s) + 1 /\ Len(s) \in Nat
      /\ \A i \in 1 .. Len(s) : Append(s, x)[i] = s[i]
      /\ Append(s, x)[Len(s) + 1] = x
    OBVIOUS
<1>2. \A i \in 1 .. Len(s) + 1 : i \in 1 .. Len(s) \/ i = Len(s) + 1
    BY <1>1
<1>3. 1 .. Len(s) \subseteq 1 .. Len(s) + 1 /\ Len(s) + 1 \in 1 .. Len(s) + 1
    BY <1>1
<1> QED
    BY <1>1, <1>2, <1>3 DEF Has, Distinct

LEMMA QueueShrinks ==
    ASSUME NEW s \in Seq(Slots), s # <<>>
    PROVE  /\ Head(s) \in Slots /\ Tail(s) \in Seq(Slots) /\ Has(s, Head(s))
           /\ \A y : Has(s, y) <=> Has(Tail(s), y) \/ y = Head(s)
           /\ Distinct(s) => Distinct(Tail(s)) /\ ~Has(Tail(s), Head(s))
<1>1. /\ Head(s) \in Slots /\ Tail(s) \in Seq(Slots) /\ Len(s) \in Nat \ {0}
      /\ Len(Tail(s)) = Len(s) - 1 /\ Head(s) = s[1]
      /\ \A i \in 1 .. Len(s) - 1 : Tail(s)[i] = s[i + 1]
    OBVIOUS
<1>2. /\ \A i \in 1 .. Len(s) : i = 1 \/ (i - 1 \in 1 .. Len(s) - 1 /\ (i - 1) + 1 = i)
      /\ \A i \in 1 .. Len(s) - 1 : i + 1 \in 1 .. Len(s) /\ i + 1 # 1
      /\ 1 \in 1 .. Len(s)
    BY <1>1
<1>3. Has(s, Head(s))
    BY <1>1, <1>2 DEF Has
<1>4. \A y : Has(Tail(s), y) => Has(s, y)
    BY <1>1, <1>2 DEF Has
<1>5. \A y : Has(s, y) => Has(Tail(s), y) \/ y = Head(s)
    <2> SUFFICES ASSUME NEW i \in 1 .. Len(s), i # 1 PROVE Has(Tail(s), s[i])
        BY <1>1 DEF Has
    <2>1. i - 1 \in 1 .. Len(Tail(s)) /\ Tail(s)[i - 1] = s[i]
        BY <1>1, <1>2
    <2> QED
        BY <2>1 DEF Has
<1>6. ASSUME Distinct(s) PROVE Distinct(Tail(s)) /\ ~Has(Tail(s), Head(s))
    <2>1. Distinct(Tail(s))
        BY <1>1, <1>2, <1>6 DEF Distinct
    <2>2. ~Has(Tail(s), Head(s))
        BY <1>1, <1>2, <1>6 DEF Distinct, Has
    <2> QED
        BY <2>1, <2>2
<1> QED
    BY <1>1, <1>3, <1>4, <1>5, <1>6

LEMMA QueueEmpty == <<>> \in Seq(Slots) /\ Distinct(<<>>) /\ \A y : ~Has(<<>>, y)
BY DEF Distinct, Has
-----------------------------------------------------------------------------
(* Programs of jobs *)

\* A program goes from step to step to its end; the reload is the end of an edit of
\* the routing tables, an inbound is deleted without one.
Linked(t, to) == \A i \in 1 .. Len(t) - 1 : t[i + 1] \in to[t[i]]

Hops == {"reload", "toggle"}
RSteps == (RouterStatements \ {"delete_inbound_rules", "delete_inbound"}) \cup Hops
RTo ==
    [s \in RSteps |->
        CASE s = "order_rule" -> {"order_rule", "commit"}
          [] s = "get_rule" -> {"toggle"}
          [] s = "toggle" -> {"toggle_rule"}
          [] s = "commit" -> {"rowid", "reload"}
          [] s = "rowid" -> {"reload"}
          [] s = "reload" -> {"get_rules"}
          [] s = "get_rules" -> {"get_outbounds"}
          [] s = "get_outbounds" -> {}
          [] OTHER -> {"commit"}]
RProgram(t) ==
    t \in Seq(RSteps) /\ t # <<>> /\ Linked(t, RTo) /\ t[Len(t)] = "get_outbounds"

DSteps == {"delete_inbound_rules", "delete_inbound", "commit"}
DTo ==
    [s \in DSteps |->
        CASE s = "delete_inbound_rules" -> {"delete_inbound"}
          [] s = "delete_inbound" -> {"commit"}
          [] OTHER -> {}]
DProgram(t) ==
    t \in Seq(DSteps) /\ t # <<>> /\ Linked(t, DTo) /\ t[Len(t)] = "commit"

XTo ==
    [s \in XSteps |->
        CASE s = "x_edit" -> {"x_commit"}
          [] s = "x_commit" -> {"check"}
          [] s \in {"stop", "wait"} -> {"start"}
          [] s = "start" -> {"x_inbounds"}
          [] s = "x_inbounds" -> {"x_outbounds"}
          [] s = "x_outbounds" -> {"x_clients"}
          [] OTHER -> {}]
XProgram(t) ==
    /\ t \in Seq(XSteps) /\ t # <<>> /\ Linked(t, XTo)
    /\ t[Len(t)] \in {"check", "x_clients", "stop", "wait"}

Program(t) == RProgram(t) \/ DProgram(t) \/ XProgram(t)

LEMMA HeadAndRest ==
    ASSUME NEW S, NEW t \in Seq(S), t # <<>>
    PROVE  /\ Head(t) = t[1] /\ Head(t) \in S /\ Tail(t) \in Seq(S) /\ Len(t) \in Nat \ {0}
           /\ Len(Tail(t)) = Len(t) - 1
           /\ \A i \in 1 .. Len(t) - 1 : Tail(t)[i] = t[i + 1]
           /\ (Tail(t) = <<>>) <=> (Len(t) = 1)
<1>1. /\ Head(t) = t[1] /\ Head(t) \in S /\ Tail(t) \in Seq(S) /\ Len(t) \in Nat \ {0}
      /\ Len(Tail(t)) = Len(t) - 1
      /\ \A i \in 1 .. Len(t) - 1 : Tail(t)[i] = t[i + 1]
    OBVIOUS
<1>2. \A s \in Seq(S) : s = <<>> <=> Len(s) = 0
    OBVIOUS
<1>3. Tail(t) = <<>> <=> Len(Tail(t)) = 0
    BY <1>1, <1>2
<1> QED
    BY <1>1, <1>3

LEMMA RestLinked ==
    ASSUME NEW S, NEW t \in Seq(S), t # <<>>, NEW to, Linked(t, to), Tail(t) # <<>>
    PROVE  /\ Linked(Tail(t), to) /\ Head(Tail(t)) \in to[Head(t)] /\ Head(Tail(t)) = t[2]
           /\ Tail(t)[Len(Tail(t))] = t[Len(t)]
<1>1. /\ Head(t) = t[1] /\ Tail(t) \in Seq(S) /\ Len(t) \in Nat \ {0, 1}
      /\ Len(Tail(t)) = Len(t) - 1
      /\ \A i \in 1 .. Len(t) - 1 : Tail(t)[i] = t[i + 1]
    BY HeadAndRest
<1>2. Head(Tail(t)) = Tail(t)[1] /\ Tail(t)[1] = t[2]
    BY <1>1
<1>3. t[2] \in to[t[1]]
    BY <1>1 DEF Linked
<1>4. ASSUME NEW i \in 1 .. Len(Tail(t)) - 1 PROVE Tail(t)[i + 1] \in to[Tail(t)[i]]
    <2>1. /\ i \in 1 .. Len(t) - 1 /\ i + 1 \in 1 .. Len(t) - 1
        BY <1>1
    <2>2. Tail(t)[i + 1] = t[(i + 1) + 1] /\ Tail(t)[i] = t[i + 1]
        BY <1>1, <2>1
    <2> QED
        BY <2>1, <2>2 DEF Linked
<1>5. Tail(t)[Len(Tail(t))] = t[Len(t)]
    <2>1. Len(Tail(t)) \in 1 .. Len(t) - 1 /\ Len(Tail(t)) + 1 = Len(t)
        BY <1>1
    <2> QED
        BY <1>1, <2>1
<1> QED
    BY <1>1, <1>2, <1>3, <1>4, <1>5 DEF Linked

\* What follows the first step of a program.
LEMMA RRest ==
    ASSUME NEW t, RProgram(t)
    PROVE  /\ Head(t) \in RSteps /\ (Head(t) = "get_outbounds" <=> Tail(t) = <<>>)
           /\ Tail(t) # <<>> => RProgram(Tail(t)) /\ Head(Tail(t)) \in RTo[Head(t)]
<1>1. t \in Seq(RSteps) /\ t # <<>> /\ Linked(t, RTo) /\ t[Len(t)] = "get_outbounds"
    BY DEF RProgram
<1>2. /\ Head(t) = t[1] /\ Head(t) \in RSteps /\ Tail(t) \in Seq(RSteps)
      /\ (Tail(t) = <<>>) <=> (Len(t) = 1)
    BY <1>1, HeadAndRest
<1>3. Tail(t) = <<>> => Head(t) = "get_outbounds"
    BY <1>1, <1>2
<1>4. ASSUME Tail(t) # <<>> PROVE RProgram(Tail(t)) /\ Head(Tail(t)) \in RTo[Head(t)]
    BY <1>1, <1>2, <1>4, RestLinked DEF RProgram
<1>5. Tail(t) # <<>> => Head(t) # "get_outbounds"
    <2>1. "get_outbounds" \in RSteps /\ RTo["get_outbounds"] = {}
        BY DEF RSteps, RouterStatements, Hops, RTo
    <2> QED
        BY <1>4, <2>1
<1> QED
    BY <1>2, <1>3, <1>4, <1>5

LEMMA DRest ==
    ASSUME NEW t, DProgram(t)
    PROVE  /\ Head(t) \in DSteps /\ (Tail(t) = <<>> => Head(t) = "commit")
           /\ Tail(t) # <<>> => DProgram(Tail(t)) /\ Head(Tail(t)) \in DTo[Head(t)]
<1>1. t \in Seq(DSteps) /\ t # <<>> /\ Linked(t, DTo) /\ t[Len(t)] = "commit"
    BY DEF DProgram
<1>2. /\ Head(t) = t[1] /\ Head(t) \in DSteps /\ Tail(t) \in Seq(DSteps)
      /\ (Tail(t) = <<>>) <=> (Len(t) = 1)
    BY <1>1, HeadAndRest
<1>3. Tail(t) = <<>> => Head(t) = "commit"
    BY <1>1, <1>2
<1>4. ASSUME Tail(t) # <<>> PROVE DProgram(Tail(t)) /\ Head(Tail(t)) \in DTo[Head(t)]
    BY <1>1, <1>2, <1>4, RestLinked DEF DProgram
<1> QED
    BY <1>2, <1>3, <1>4

LEMMA XRest ==
    ASSUME NEW t, XProgram(t)
    PROVE  /\ Head(t) \in XSteps
           /\ Tail(t) = <<>> => Head(t) \in {"check", "x_clients", "stop", "wait"}
           /\ Tail(t) # <<>> => XProgram(Tail(t)) /\ Head(Tail(t)) \in XTo[Head(t)]
<1>1. /\ t \in Seq(XSteps) /\ t # <<>> /\ Linked(t, XTo)
      /\ t[Len(t)] \in {"check", "x_clients", "stop", "wait"}
    BY DEF XProgram
<1>2. /\ Head(t) = t[1] /\ Head(t) \in XSteps /\ Tail(t) \in Seq(XSteps)
      /\ (Tail(t) = <<>>) <=> (Len(t) = 1)
    BY <1>1, HeadAndRest
<1>3. Tail(t) = <<>> => Head(t) \in {"check", "x_clients", "stop", "wait"}
    BY <1>1, <1>2
<1>4. ASSUME Tail(t) # <<>> PROVE XProgram(Tail(t)) /\ Head(Tail(t)) \in XTo[Head(t)]
    BY <1>1, <1>2, <1>4, RestLinked DEF XProgram
<1> QED
    BY <1>2, <1>3, <1>4

\* The steps of an Xray job one by one.
LEMMA XToIs ==
    /\ XTo["x_edit"] = {"x_commit"} /\ XTo["x_commit"] = {"check"} /\ XTo["check"] = {}
    /\ XTo["stop"] = {"start"} /\ XTo["wait"] = {"start"} /\ XTo["start"] = {"x_inbounds"}
    /\ XTo["x_inbounds"] = {"x_outbounds"} /\ XTo["x_outbounds"] = {"x_clients"}
    /\ XTo["x_clients"] = {}
<1>1. XSteps = {"x_edit", "x_commit", "x_inbounds", "x_outbounds", "x_clients",
                "check", "stop", "wait", "start"}
    BY DEF XSteps, XStatements, Handling
<1> QED
    BY <1>1 DEF XTo

\* stop becomes wait; after either, the start of a restart is left out.
LEMMA StopRest ==
    ASSUME NEW t, XProgram(t), Head(t) \in {"stop", "wait"}
    PROVE  /\ XProgram([t EXCEPT ![1] = "wait"]) /\ Head([t EXCEPT ![1] = "wait"]) = "wait"
           /\ Tail(t) # <<>> => /\ XProgram(Tail(Tail(t))) /\ Tail(Tail(t)) # <<>>
                                /\ Head(Tail(Tail(t))) = "x_inbounds"
<1> DEFINE w == [t EXCEPT ![1] = "wait"]
<1>1. /\ t \in Seq(XSteps) /\ t # <<>> /\ Linked(t, XTo)
      /\ t[Len(t)] \in {"check", "x_clients", "stop", "wait"}
    BY DEF XProgram
<1>2. Head(t) = t[1] /\ Len(t) \in Nat \ {0}
    BY <1>1
<1>3. /\ w \in Seq(XSteps) /\ Len(w) = Len(t) /\ w[1] = "wait" /\ w # <<>> /\ Head(w) = w[1]
      /\ \A i \in 2 .. Len(t) : w[i] = t[i]
    BY <1>1 DEF XSteps, Handling
<1> HIDE DEF w
<1>4. ASSUME NEW i \in 1 .. Len(w) - 1 PROVE w[i + 1] \in XTo[w[i]]
    <2>1. /\ i \in 1 .. Len(t) - 1 /\ i + 1 \in 2 .. Len(t) /\ (i = 1 \/ i \in 2 .. Len(t))
        BY <1>2, <1>3
    <2>2. t[i + 1] \in XTo[t[i]] /\ w[i + 1] = t[i + 1]
        BY <1>1, <1>3, <2>1 DEF Linked
    <2>3. i = 1 => XTo[t[i]] = XTo[w[i]]
        BY <1>2, <1>3, XToIs
    <2> QED
        BY <1>3, <2>1, <2>2, <2>3
<1>5. w[Len(w)] \in {"check", "x_clients", "stop", "wait"}
    BY <1>1, <1>2, <1>3
<1>6. XProgram(w)
    BY <1>3, <1>4, <1>5 DEF XProgram, Linked
<1>7. ASSUME Tail(t) # <<>>
      PROVE  /\ XProgram(Tail(Tail(t))) /\ Tail(Tail(t)) # <<>>
             /\ Head(Tail(Tail(t))) = "x_inbounds"
    <2>1. XProgram(Tail(t)) /\ Head(Tail(t)) = "start"
        BY <1>7, XRest, XToIs
    <2>2. Tail(Tail(t)) # <<>>
        BY <2>1, XRest
    <2> QED
        BY <2>1, <2>2, XRest, XToIs
<1> QED
    BY <1>3, <1>6, <1>7 DEF w
-----------------------------------------------------------------------------
(* The invariant of types *)

IsJob(r) ==
    r = [todo |-> r.todo, id |-> r.id, new |-> r.new, seen |-> r.seen, ok |-> r.ok]

Jobs ==
    /\ jobs = [j \in Slots |-> jobs[j]]
    /\ \A j \in Slots : IsJob(jobs[j]) /\ (jobs[j].todo = <<>> \/ Program(jobs[j].todo))

\* A job is in the line of the connection, or of the event loop, exactly while it
\* waits for a statement; it is there once.
Lines ==
    /\ fifo \in Seq(Slots) /\ ready \in Seq(Slots) /\ Distinct(fifo) /\ Distinct(ready)
    /\ \A j \in Slots : ~(Has(fifo, j) /\ Has(ready, j))
    /\ \A j \in Slots : Has(fifo, j) \/ Has(ready, j) <=> At(j, Statements)

\* What a job is about is of the kind that its statements expect.
Wants ==
    \A j \in Slots :
        /\ At(j, {"delete_inbound_rules", "delete_inbound"}) => jobs[j].new \in InboundTags
        /\ At(j, {"x_edit"}) => jobs[j].new \in XTables

\* The reads of an Xray job are answered one by one.
Reads ==
    [s \in {"x_inbounds", "x_outbounds", "x_clients"} |->
        CASE s = "x_inbounds" -> 0 [] s = "x_outbounds" -> 1 [] OTHER -> 2]
Reading ==
    \A j \in Slots :
        /\ At(j, XSteps) => jobs[j].ok
        /\ At(j, DOMAIN Reads) =>
              /\ jobs[j].seen \in Seq(Nat)
              /\ Len(jobs[j].seen) = Reads[Head(jobs[j].todo)] + (IF Has(ready, j) THEN 1 ELSE 0)

\* Each edit of an Xray table was asked for.
Editing == {j \in Slots : Has(fifo, j) /\ At(j, {"x_edit"})}
Counted ==
    /\ xtab \in [XTables -> Nat]
    /\ \A t \in XTables : xtab[t] + Cardinality(Editing) <= requests

Kids ==
    /\ kids \in Seq([st : {"run", "term", "dead"}, cfg : [XTables -> Int]])
    /\ Len(kids) <= MaxKids /\ handle \in 0 .. Len(kids) /\ file \in [XTables -> Int]

\* The rows: no two outbounds have a tag, no two rules an id, and every rule names an
\* outbound.
IsRule(r) == r = [id |-> r.id, ord |-> r.ord, tag |-> r.tag, inb |-> r.inb, on |-> r.on]
Rows ==
    /\ IsFiniteSet(outbounds) /\ \A o, p \in outbounds : o.tag = p.tag => o = p
    /\ IsFiniteSet(rules) /\ \A r, s \in rules : r.id = s.id => r = s
    /\ \A r \in rules : IsRule(r) /\ r.id \in Nat /\ \E o \in outbounds : o.tag = r.tag
    /\ \E n \in Nat : \A r \in rules : r.id <= n

Scalars ==
    /\ gone \subseteq InboundTags /\ requests \in 0 .. MaxRequests
    /\ unloaded \in BOOLEAN /\ overlap \in BOOLEAN /\ missed \in BOOLEAN /\ faults \in 0 .. MaxFaults

Inv == Jobs /\ Lines /\ Wants /\ Reading /\ Counted /\ Kids /\ Rows /\ Scalars
-----------------------------------------------------------------------------
(* What the steps do to the jobs *)

LEMMA Steps ==
    /\ Statements \cap XSteps = XStatements /\ RSteps \subseteq RouterStatements \cup Hops
    /\ Hops \cap Statements = {} /\ Hops \cap XSteps = {}
    /\ DSteps \subseteq RouterStatements /\ RouterStatements \subseteq Statements
    /\ XStatements \subseteq Statements /\ XStatements \subseteq XSteps
    /\ RouterStatements \cap XSteps = {}
    /\ XStatements = {"x_edit", "x_commit", "x_inbounds", "x_outbounds", "x_clients"}
    /\ XSteps \ XStatements = {"check", "stop", "wait", "start"}
BY DEF Statements, XSteps, XStatements, Handling, RouterStatements, RSteps, DSteps, Hops

LEMMA ProgramHead ==
    ASSUME NEW t, Program(t)
    PROVE  /\ t # <<>> /\ Head(t) \in RouterStatements \cup Hops \cup XSteps
           /\ Head(t) \in XSteps <=> XProgram(t)
           /\ Head(t) \in Hops => RProgram(t)
           /\ Head(t) \notin Statements \cup Hops =>
                  XProgram(t) /\ Head(t) \in {"check", "stop", "wait", "start"}
           /\ Tail(t) = <<>> \/ Program(Tail(t))
<1>1. t # <<>>
    BY DEF Program, RProgram, DProgram, XProgram
<1>2. CASE RProgram(t)
    BY <1>1, <1>2, RRest, XRest, Steps DEF Program
<1>3. CASE DProgram(t)
    BY <1>1, <1>3, DRest, XRest, Steps DEF Program, DSteps, Hops
<1>4. CASE XProgram(t)
    BY <1>1, <1>4, XRest, Steps DEF Program, Statements
<1> QED
    BY <1>2, <1>3, <1>4 DEF Program

\* The connection answers the first job in its line.
LEMMA AnswerIs ==
    ASSUME Jobs, Lines, fifo # <<>>, NEW ok, NEW read, Answer(ok, read), NEW h, h = Head(fifo)
    PROVE  /\ h \in Slots /\ Has(fifo, h) /\ ~Has(ready, h) /\ At(h, Statements)
           /\ jobs'[h] = [todo |-> jobs[h].todo, id |-> jobs[h].id, new |-> jobs[h].new,
                          seen |-> jobs[h].seen \o read, ok |-> ok]
           /\ \A j \in Slots : j # h => jobs'[j] = jobs[j]
           /\ \A j \in Slots : jobs'[j].todo = jobs[j].todo /\ jobs'[j].new = jobs[j].new
           /\ \A y : Has(fifo', y) <=> Has(fifo, y) /\ y # h
           /\ \A y : Has(ready', y) <=> Has(ready, y) \/ y = h
           /\ UNCHANGED <<router, requests, handle, kids, file, unloaded, overlap, missed, faults>>
<1>1. /\ jobs' = [jobs EXCEPT ![h].ok = ok, ![h].seen = @ \o read]
      /\ fifo' = Tail(fifo) /\ ready' = Append(ready, h)
      /\ UNCHANGED <<router, requests, handle, kids, file, unloaded, overlap, missed, faults>>
    BY DEF Answer, xray, history
<1>2. /\ fifo \in Seq(Slots) /\ ready \in Seq(Slots) /\ Distinct(fifo) /\ Distinct(ready)
    BY DEF Lines
<1>3. /\ h \in Slots /\ Has(fifo, h)
      /\ \A y : Has(fifo', y) <=> Has(fifo, y) /\ y # h
      /\ \A y : Has(ready', y) <=> Has(ready, y) \/ y = h
    BY <1>1, <1>2, QueueShrinks, QueueGrows
<1>4. ~Has(ready, h) /\ At(h, Statements)
    BY <1>3 DEF Lines
<1>5. jobs = [j \in Slots |-> jobs[j]] /\ IsJob(jobs[h])
    BY <1>3 DEF Jobs
<1>6. jobs'[h] = [[jobs[h] EXCEPT !.ok = ok] EXCEPT !.seen = jobs[h].seen \o read]
    BY <1>1, <1>3, <1>5 DEF IsJob
<1>7. jobs'[h] = [todo |-> jobs[h].todo, id |-> jobs[h].id, new |-> jobs[h].new,
                  seen |-> jobs[h].seen \o read, ok |-> ok]
    BY <1>5, <1>6 DEF IsJob
<1>8. \A j \in Slots : j # h => jobs'[j] = jobs[j]
    BY <1>1, <1>3, <1>5
<1>9. \A j \in Slots : jobs'[j].todo = jobs[j].todo /\ jobs'[j].new = jobs[j].new
    BY <1>7, <1>8
<1> QED
    BY <1>1, <1>3, <1>4, <1>7, <1>8, <1>9

LEMMA AnswerKeeps ==
    ASSUME Inv, fifo # <<>>, NEW ok, NEW read, Answer(ok, read)
    PROVE  Jobs' /\ Lines' /\ Wants' /\ Kids'
<1> DEFINE h == Head(fifo)
<1>1. /\ h \in Slots /\ Has(fifo, h) /\ ~Has(ready, h) /\ At(h, Statements)
      /\ jobs'[h] = [todo |-> jobs[h].todo, id |-> jobs[h].id, new |-> jobs[h].new,
                     seen |-> jobs[h].seen \o read, ok |-> ok]
      /\ \A j \in Slots : j # h => jobs'[j] = jobs[j]
      /\ \A j \in Slots : jobs'[j].todo = jobs[j].todo /\ jobs'[j].new = jobs[j].new
      /\ \A y : Has(fifo', y) <=> Has(fifo, y) /\ y # h
      /\ \A y : Has(ready', y) <=> Has(ready, y) \/ y = h
      /\ UNCHANGED <<router, requests, handle, kids, file, unloaded, overlap, missed, faults>>
    BY AnswerIs DEF Inv
<1>2. /\ fifo \in Seq(Slots) /\ ready \in Seq(Slots) /\ Distinct(fifo) /\ Distinct(ready)
      /\ fifo' = Tail(fifo) /\ ready' = Append(ready, h)
      /\ jobs' = [jobs EXCEPT ![h].ok = ok, ![h].seen = @ \o read]
      /\ jobs = [j \in Slots |-> jobs[j]]
    BY DEF Answer, Inv, Lines, Jobs
<1>3. \A j \in Slots : \A S : At(j, S)' <=> At(j, S)
    BY <1>1 DEF At, Busy
<1> HIDE DEF h
<1>4. Jobs'
    <2>1. jobs' = [j \in Slots |-> jobs'[j]]
        BY <1>1, <1>2
    <2>2. IsJob(jobs'[h])
        BY <1>1 DEF IsJob
    <2> QED
        BY <1>1, <2>1, <2>2 DEF Inv, Jobs
<1>5. Lines'
    <2>1. fifo' \in Seq(Slots) /\ ready' \in Seq(Slots) /\ Distinct(fifo') /\ Distinct(ready')
        BY <1>1, <1>2, QueueShrinks, QueueGrows
    <2>2. \A j \in Slots : ~(Has(fifo', j) /\ Has(ready', j))
        BY <1>1 DEF Inv, Lines
    <2>3. \A j \in Slots : Has(fifo', j) \/ Has(ready', j) <=> Has(fifo, j) \/ Has(ready, j)
        BY <1>1
    <2>4. \A j \in Slots : Has(fifo', j) \/ Has(ready', j) <=> At(j, Statements)'
        BY <1>3, <2>3 DEF Inv, Lines
    <2> QED
        BY <2>1, <2>2, <2>4 DEF Lines
<1>6. Wants'
    BY <1>1, <1>3 DEF Inv, Wants
<1>7. Kids'
    BY <1>1 DEF Inv, Kids
<1> QED
    BY <1>4, <1>5, <1>6, <1>7

\* The step after a step: none is an edit of an Xray table, and only the deletion of
\* its rules is followed by that of an inbound.
LEMMA NextStep ==
    ASSUME NEW t, Program(t), Tail(t) # <<>>
    PROVE  /\ Head(Tail(t)) \notin {"x_edit", "delete_inbound_rules"}
           /\ Head(Tail(t)) = "delete_inbound" => Head(t) = "delete_inbound_rules"
           /\ Head(Tail(t)) \in XSteps <=> Head(t) \in XSteps
<1>1. CASE RProgram(t)
    <2>1. Head(t) \in RSteps /\ Head(Tail(t)) \in RSteps
        BY <1>1, RRest
    <2> QED
        BY <2>1 DEF RSteps, RouterStatements, Hops, XSteps, XStatements, Handling
<1>2. CASE DProgram(t)
    <2>1. Head(t) \in DSteps /\ Head(Tail(t)) \in DTo[Head(t)]
        BY <1>2, DRest
    <2> QED
        BY <2>1 DEF DSteps, DTo, XSteps, XStatements, Handling
<1>3. CASE XProgram(t)
    <2>1. /\ Head(t) \in XSteps /\ XProgram(Tail(t)) /\ Head(Tail(t)) \in XSteps
          /\ Head(Tail(t)) \in XTo[Head(t)]
        BY <1>3, XRest
    <2>2. XSteps = {"x_edit", "x_commit", "x_inbounds", "x_outbounds", "x_clients",
                    "check", "stop", "wait", "start"}
        BY DEF XSteps, XStatements, Handling
    <2> QED
        BY <2>1, <2>2, XToIs
<1> QED
    BY <1>1, <1>2, <1>3 DEF Program

LEMMA JobGoesOn ==
    ASSUME NEW r, IsJob(r), NEW todo, NEW seen
    PROVE  [r EXCEPT !.todo = todo, !.seen = seen]
               = [todo |-> todo, id |-> r.id, new |-> r.new, seen |-> seen, ok |-> r.ok]
<1> DEFINE x == [r EXCEPT !.todo = todo]
<1>1. x = [todo |-> todo, id |-> r.id, new |-> r.new, seen |-> r.seen, ok |-> r.ok]
    BY DEF IsJob
<1>2. [r EXCEPT !.todo = todo, !.seen = seen] = [x EXCEPT !.seen = seen]
    OBVIOUS
<1> HIDE DEF x
<1>3. [x EXCEPT !.seen = seen]
          = [todo |-> todo, id |-> r.id, new |-> r.new, seen |-> seen, ok |-> r.ok]
    BY <1>1
<1> QED
    BY <1>2, <1>3

\* A job that is resumed, or takes a step of its own, goes on to todo.
LEMMA GoesIs ==
    ASSUME Jobs, Lines, NEW j \in Slots, NEW todo, todo = <<>> \/ Program(todo), NEW seen,
           ~Has(fifo, j), Goes(j, todo, seen)
    PROVE  /\ jobs'[j] = IF todo = <<>> THEN Idle
                         ELSE [todo |-> todo, id |-> jobs[j].id, new |-> jobs[j].new,
                               seen |-> seen, ok |-> jobs[j].ok]
           /\ jobs'[j].todo = todo
           /\ \A i \in Slots : i # j => jobs'[i] = jobs[i]
           /\ fifo' \in Seq(Slots) /\ Distinct(fifo')
           /\ \A y : Has(fifo', y) <=> \/ Has(fifo, y)
                                       \/ y = j /\ todo # <<>> /\ Head(todo) \in Statements
           /\ Jobs'
<1>1. /\ jobs' = [jobs EXCEPT ![j] = IF todo = <<>> THEN Idle
                                     ELSE [jobs[j] EXCEPT !.todo = todo, !.seen = seen]]
      /\ fifo' = IF todo # <<>> /\ Head(todo) \in Statements THEN Append(fifo, j) ELSE fifo
    BY DEF Goes, Queued
<1>2. jobs = [i \in Slots |-> jobs[i]] /\ IsJob(jobs[j])
    BY DEF Jobs
<1>3. jobs'[j] = IF todo = <<>> THEN Idle
                 ELSE [todo |-> todo, id |-> jobs[j].id, new |-> jobs[j].new,
                       seen |-> seen, ok |-> jobs[j].ok]
    <2>1. [jobs[j] EXCEPT !.todo = todo, !.seen = seen]
              = [todo |-> todo, id |-> jobs[j].id, new |-> jobs[j].new,
                 seen |-> seen, ok |-> jobs[j].ok]
        BY <1>2, JobGoesOn
    <2>2. jobs'[j] = IF todo = <<>> THEN Idle
                     ELSE [jobs[j] EXCEPT !.todo = todo, !.seen = seen]
        BY <1>1, <1>2
    <2> QED
        BY <2>1, <2>2
<1>4. \A i \in Slots : i # j => jobs'[i] = jobs[i]
    BY <1>1, <1>2
<1>5. jobs'[j].todo = todo /\ IsJob(jobs'[j])
    <2>1. CASE todo = <<>>
        BY <1>3, <2>1 DEF IsJob, Idle
    <2>2. CASE todo # <<>>
        BY <1>3, <2>2 DEF IsJob
    <2> QED
        BY <2>1, <2>2
<1>6. /\ fifo' \in Seq(Slots) /\ Distinct(fifo')
      /\ \A y : Has(fifo', y) <=> \/ Has(fifo, y)
                                  \/ y = j /\ todo # <<>> /\ Head(todo) \in Statements
    BY <1>1, QueueGrows DEF Lines
<1>7. jobs' = [i \in Slots |-> jobs'[i]]
    BY <1>1, <1>2
<1>8. Jobs'
    BY <1>4, <1>5, <1>7 DEF Jobs
<1> QED
    BY <1>3, <1>4, <1>5, <1>6, <1>8

LEMMA EditingFinite == IsFiniteSet(Editing)
<1>1. IsFiniteSet(1 .. MaxJobs)
    BY FS_Interval, BoundsAssumption
<1> QED
    BY <1>1, FS_Subset DEF Editing, Slots

LEMMA GoesKeeps ==
    ASSUME Inv, NEW j \in Slots, NEW todo, todo = <<>> \/ Program(todo), NEW seen,
           Goes(j, todo, seen), ~Has(fifo, j),
           \/ ready' = ready /\ ~Has(ready, j)
           \/ ready # <<>> /\ j = Head(ready) /\ ready' = Tail(ready),
           UNCHANGED <<xtab, requests>>,
           Busy(j),
           todo # <<>> =>
               /\ Head(todo) \notin {"x_edit", "delete_inbound_rules"}
               /\ Head(todo) = "delete_inbound" => At(j, {"delete_inbound_rules"})
               /\ Head(todo) \in XSteps <=> At(j, XSteps)
               /\ Head(todo) \in DOMAIN Reads =>
                      seen \in Seq(Nat) /\ Len(seen) = Reads[Head(todo)]
    PROVE  Jobs' /\ Lines' /\ Wants' /\ Reading' /\ Counted'
<1>1. /\ jobs'[j] = IF todo = <<>> THEN Idle
                    ELSE [todo |-> todo, id |-> jobs[j].id, new |-> jobs[j].new,
                          seen |-> seen, ok |-> jobs[j].ok]
      /\ jobs'[j].todo = todo
      /\ \A i \in Slots : i # j => jobs'[i] = jobs[i]
      /\ fifo' \in Seq(Slots) /\ Distinct(fifo')
      /\ \A y : Has(fifo', y) <=> \/ Has(fifo, y)
                                  \/ y = j /\ todo # <<>> /\ Head(todo) \in Statements
      /\ Jobs'
    BY GoesIs DEF Inv
<1>2. /\ ready' \in Seq(Slots) /\ Distinct(ready') /\ ~Has(ready', j)
      /\ \A y : y # j => (Has(ready', y) <=> Has(ready, y))
    <2>1. ready \in Seq(Slots) /\ Distinct(ready)
        BY DEF Inv, Lines
    <2>2. CASE ready' = ready /\ ~Has(ready, j)
        BY <2>1, <2>2
    <2>3. CASE ready # <<>> /\ j = Head(ready) /\ ready' = Tail(ready)
        BY <2>1, <2>3, QueueShrinks
    <2> QED
        BY <2>2, <2>3
<1>3. \A i \in Slots : i # j => \A S : At(i, S)' <=> At(i, S)
    BY <1>1 DEF At, Busy
<1>4. \A S : At(j, S)' <=> todo # <<>> /\ Head(todo) \in S
    BY <1>1 DEF At, Busy
<1>5. Lines'
    <2>1. \A i \in Slots : ~(Has(fifo', i) /\ Has(ready', i))
        BY <1>1, <1>2 DEF Inv, Lines
    <2>2. \A i \in Slots : Has(fifo', i) \/ Has(ready', i) <=> At(i, Statements)'
        BY <1>1, <1>2, <1>3, <1>4 DEF Inv, Lines
    <2> QED
        BY <1>1, <1>2, <2>1, <2>2 DEF Lines
<1>6. Wants'
    <2>1. At(j, {"delete_inbound_rules", "delete_inbound"})' => jobs'[j].new \in InboundTags
        <3> SUFFICES ASSUME At(j, {"delete_inbound_rules", "delete_inbound"})'
                     PROVE  jobs'[j].new \in InboundTags
            OBVIOUS
        <3>1. todo # <<>> /\ At(j, {"delete_inbound_rules"})
            BY <1>4
        <3>2. jobs'[j].new = jobs[j].new
            BY <1>1, <3>1
        <3> QED
            BY <3>1, <3>2 DEF Inv, Wants, At
    <2>2. ~At(j, {"x_edit"})'
        BY <1>4
    <2> QED
        BY <1>1, <1>3, <2>1, <2>2 DEF Inv, Wants
<1>7. Reading'
    <2>1. At(j, XSteps)' => jobs'[j].ok
        BY <1>1, <1>4 DEF Inv, Reading
    <2>2. At(j, DOMAIN Reads)' => /\ jobs'[j].seen \in Seq(Nat)
                                  /\ Len(jobs'[j].seen) = Reads[Head(jobs'[j].todo)]
        BY <1>1, <1>4
    <2>3. ASSUME At(j, DOMAIN Reads)'
          PROVE  Len(jobs'[j].seen) = Reads[Head(jobs'[j].todo)] + (IF Has(ready', j) THEN 1 ELSE 0)
        <3>1. Head(jobs'[j].todo) \in {"x_inbounds", "x_outbounds", "x_clients"}
            BY <2>3 DEF At, Reads
        <3>2. Reads[Head(jobs'[j].todo)] \in Nat
            BY <3>1 DEF Reads
        <3> QED
            BY <1>2, <2>2, <2>3, <3>2
    <2>4. \A i \in Slots : i # j =>
              /\ At(i, XSteps)' => jobs'[i].ok
              /\ At(i, DOMAIN Reads)' =>
                    /\ jobs'[i].seen \in Seq(Nat)
                    /\ Len(jobs'[i].seen) = Reads[Head(jobs'[i].todo)] + (IF Has(ready', i) THEN 1 ELSE 0)
        BY <1>1, <1>2, <1>3 DEF Inv, Reading
    <2> QED
        BY <2>1, <2>2, <2>3, <2>4 DEF Reading
<1>8. Counted'
    <2>1. Editing' \subseteq Editing
        BY <1>1, <1>3, <1>4 DEF Editing
    <2>2. IsFiniteSet(Editing) /\ Cardinality(Editing') <= Cardinality(Editing)
          /\ Cardinality(Editing) \in Nat /\ Cardinality(Editing') \in Nat
        BY <2>1, EditingFinite, FS_Subset, FS_CardinalityType
    <2>3. requests \in Nat
        BY BoundsAssumption DEF Inv, Scalars
    <2> QED
        BY <2>2, <2>3 DEF Inv, Counted
<1> QED
    BY <1>1, <1>5, <1>6, <1>7, <1>8
-----------------------------------------------------------------------------
(* Requests *)

LEMMA ConcatIs ==
    ASSUME NEW S, NEW a \in Seq(S), NEW b \in Seq(S)
    PROVE  /\ a \o b \in Seq(S) /\ Len(a \o b) = Len(a) + Len(b)
           /\ \A i \in 1 .. Len(a) : (a \o b)[i] = a[i]
           /\ \A i \in 1 .. Len(b) : (a \o b)[Len(a) + i] = b[i]
OBVIOUS

LEMMA CreateIs ==
    ASSUME NEW s \in {"insert_outbound", "insert_rule"}
    PROVE  RProgram(Create(s)) /\ Head(Create(s)) = s
<1> DEFINE a == <<s, "commit", "rowid">>
           b == <<"reload", "get_rules", "get_outbounds">>
           p == a \o b
<1>1. /\ a \in Seq(RSteps) /\ b \in Seq(RSteps) /\ Len(a) = 3 /\ Len(b) = 3
      /\ a[1] = s /\ a[2] = "commit" /\ a[3] = "rowid" /\ b[1] = "reload" /\ b[2] = "get_rules" /\ b[3] = "get_outbounds"
    BY DEF RSteps, RouterStatements, Hops
<1>2. p = Create(s)
    BY DEF Create, Reload
<1> HIDE DEF a, b
<1>3. /\ p \in Seq(RSteps) /\ Len(p) = 6
      /\ p[1] = s /\ p[2] = "commit" /\ p[3] = "rowid" /\ p[4] = "reload"
      /\ p[5] = "get_rules" /\ p[6] = "get_outbounds"
    <2>0. a \in Seq(RSteps) /\ b \in Seq(RSteps)
        BY <1>1
    <2>1. /\ p \in Seq(RSteps) /\ Len(p) = Len(a) + Len(b)
          /\ \A i \in 1 .. Len(a) : p[i] = a[i]
          /\ \A i \in 1 .. Len(b) : p[Len(a) + i] = b[i]
        BY <2>0, ConcatIs
    <2> HIDE DEF p
    <2>2. p[1] = a[1] /\ p[2] = a[2] /\ p[3] = a[3] /\ p[3 + 1] = b[1] /\ p[3 + 2] = b[2] /\ p[3 + 3] = b[3]
        BY <1>1, <2>1
    <2> QED
        BY <1>1, <2>1, <2>2
<1> HIDE DEF p
<1>4. Head(p) = s /\ p # <<>>
    BY <1>3
<1>5. /\ RTo[s] = {"commit"} /\ "rowid" \in RTo["commit"] /\ "reload" \in RTo["rowid"]
      /\ "get_rules" \in RTo["reload"]
      /\ "get_outbounds" \in RTo["get_rules"]
    BY DEF RTo, RSteps, RouterStatements, Hops
<1>6. ASSUME NEW i \in 1 .. Len(p) - 1 PROVE p[i + 1] \in RTo[p[i]]
    <2>1. i = 1 \/ i = 2 \/ i = 3 \/ i = 4 \/ i = 5
        BY <1>3
    <2> QED
        BY <1>3, <1>5, <2>1
<1> QED
    BY <1>2, <1>3, <1>4, <1>6 DEF RProgram, Linked

LEMMA UpdateIs ==
    ASSUME NEW s \in {"update_outbound", "delete_outbound", "update_rule", "delete_rule",
                      "toggle_rule", "order_rule"}
    PROVE  RProgram(Update(s)) /\ Head(Update(s)) = s /\ Update(s) \in Seq(RSteps)
<1> DEFINE a == <<s, "commit">>
           b == <<"reload", "get_rules", "get_outbounds">>
           p == a \o b
<1>1. /\ a \in Seq(RSteps) /\ b \in Seq(RSteps) /\ Len(a) = 2 /\ Len(b) = 3
      /\ a[1] = s /\ a[2] = "commit" /\ b[1] = "reload" /\ b[2] = "get_rules" /\ b[3] = "get_outbounds"
    BY DEF RSteps, RouterStatements, Hops
<1>2. p = Update(s)
    BY DEF Update, Reload
<1> HIDE DEF a, b
<1>3. /\ p \in Seq(RSteps) /\ Len(p) = 5
      /\ p[1] = s /\ p[2] = "commit" /\ p[3] = "reload"
      /\ p[4] = "get_rules" /\ p[5] = "get_outbounds"
    <2>0. a \in Seq(RSteps) /\ b \in Seq(RSteps)
        BY <1>1
    <2>1. /\ p \in Seq(RSteps) /\ Len(p) = Len(a) + Len(b)
          /\ \A i \in 1 .. Len(a) : p[i] = a[i]
          /\ \A i \in 1 .. Len(b) : p[Len(a) + i] = b[i]
        BY <2>0, ConcatIs
    <2> HIDE DEF p
    <2>2. p[1] = a[1] /\ p[2] = a[2] /\ p[2 + 1] = b[1] /\ p[2 + 2] = b[2] /\ p[2 + 3] = b[3]
        BY <1>1, <2>1
    <2> QED
        BY <1>1, <2>1, <2>2
<1> HIDE DEF p
<1>4. Head(p) = s /\ p # <<>>
    BY <1>3
<1>5. "commit" \in RTo[s] /\ "reload" \in RTo["commit"] /\ "get_rules" \in RTo["reload"]
      /\ "get_outbounds" \in RTo["get_rules"]
    BY DEF RTo, RSteps, RouterStatements, Hops
<1>6. ASSUME NEW i \in 1 .. Len(p) - 1 PROVE p[i + 1] \in RTo[p[i]]
    <2>1. i = 1 \/ i = 2 \/ i = 3 \/ i = 4
        BY <1>3
    <2> QED
        BY <1>3, <1>5, <2>1
<1> QED
    BY <1>2, <1>3, <1>4, <1>6 DEF RProgram, Linked

\* One more step before a program.
LEMMA LinkedCons ==
    ASSUME NEW S, NEW a \in S, NEW t \in Seq(S), t # <<>>, NEW to, Linked(t, to), Head(t) \in to[a]
    PROVE  LET p == <<a>> \o t
           IN p \in Seq(S) /\ p # <<>> /\ Head(p) = a /\ Linked(p, to) /\ p[Len(p)] = t[Len(t)]
<1> DEFINE p == <<a>> \o t
<1>1. /\ p \in Seq(S) /\ Len(p) = Len(t) + 1 /\ p[1] = a /\ Len(t) \in Nat \ {0} /\ Head(t) = t[1]
      /\ \A i \in 1 .. Len(t) : p[i + 1] = t[i]
    OBVIOUS
<1> HIDE DEF p
<1>2. p # <<>> /\ Head(p) = a
    BY <1>1
<1>3. ASSUME NEW i \in 1 .. Len(p) - 1 PROVE p[i + 1] \in to[p[i]]
    <2>1. CASE i = 1
        BY <1>1, <2>1
    <2>2. CASE i # 1
        <3>1. i - 1 \in 1 .. Len(t) - 1 /\ (i - 1) + 1 = i /\ i - 1 \in 1 .. Len(t) /\ i \in 1 .. Len(t)
            BY <1>1, <2>2
        <3>2. p[i + 1] = t[i] /\ p[i] = t[i - 1]
            BY <1>1, <3>1
        <3>3. t[i] \in to[t[i - 1]]
            BY <3>1 DEF Linked
        <3> QED
            BY <3>2, <3>3
    <2> QED
        BY <2>1, <2>2
<1>4. p[Len(p)] = t[Len(t)]
    BY <1>1
<1> QED
    BY <1>1, <1>2, <1>3, <1>4 DEF Linked, p

LEMMA TogglesAndOrders ==
    /\ RProgram(<<"get_rule", "toggle">> \o Update("toggle_rule"))
    /\ Head(<<"get_rule", "toggle">> \o Update("toggle_rule")) = "get_rule"
    /\ RProgram(<<"order_rule">> \o Update("order_rule"))
    /\ Head(<<"order_rule">> \o Update("order_rule")) = "order_rule"
<1>1. /\ "get_rule" \in RSteps /\ "toggle" \in RSteps /\ "order_rule" \in RSteps
      /\ "toggle" \in RTo["get_rule"] /\ "toggle_rule" \in RTo["toggle"]
      /\ "order_rule" \in RTo["order_rule"]
    BY DEF RTo, RSteps, RouterStatements, Hops
<1>2. RProgram(Update("toggle_rule")) /\ Head(Update("toggle_rule")) = "toggle_rule"
    BY UpdateIs
<1>3. RProgram(Update("order_rule")) /\ Head(Update("order_rule")) = "order_rule"
    BY UpdateIs
<1> DEFINE u == Update("toggle_rule")
           p == <<"toggle">> \o u
<1>4. RProgram(p) /\ Head(p) = "toggle"
    BY <1>1, <1>2, LinkedCons DEF RProgram
<1>5. <<"get_rule", "toggle">> \o u = <<"get_rule">> \o p
    <2>1. u \in Seq(RSteps)
        BY <1>2 DEF RProgram
    <2> HIDE DEF u
    <2> QED
        BY <1>1, <2>1
<1> HIDE DEF p
<1>6. RProgram(<<"get_rule">> \o p) /\ Head(<<"get_rule">> \o p) = "get_rule"
    BY <1>1, <1>4, LinkedCons DEF RProgram
<1>7. /\ RProgram(<<"order_rule">> \o Update("order_rule"))
      /\ Head(<<"order_rule">> \o Update("order_rule")) = "order_rule"
    BY <1>1, <1>3, LinkedCons DEF RProgram
<1> QED
    BY <1>5, <1>6, <1>7

LEMMA DeletionIs ==
    LET p == <<"delete_inbound_rules", "delete_inbound", "commit">>
    IN  DProgram(p) /\ Head(p) = "delete_inbound_rules"
<1> DEFINE p == <<"delete_inbound_rules", "delete_inbound", "commit">>
<1>1. /\ p \in Seq(DSteps) /\ Len(p) = 3 /\ p # <<>> /\ Head(p) = "delete_inbound_rules"
      /\ p[1] = "delete_inbound_rules" /\ p[2] = "delete_inbound" /\ p[3] = "commit"
    BY DEF DSteps
<1> HIDE DEF p
<1>2. "delete_inbound" \in DTo["delete_inbound_rules"] /\ "commit" \in DTo["delete_inbound"]
    BY DEF DTo, DSteps
<1>3. ASSUME NEW i \in 1 .. Len(p) - 1 PROVE p[i + 1] \in DTo[p[i]]
    <2>1. i = 1 \/ i = 2
        BY <1>1
    <2> QED
        BY <1>1, <1>2, <2>1
<1> QED
    BY <1>1, <1>3 DEF DProgram, Linked, p

LEMMA EditIs ==
    LET p == <<"x_edit", "x_commit", "check">> IN XProgram(p) /\ Head(p) = "x_edit"
<1> DEFINE p == <<"x_edit", "x_commit", "check">>
<1>1. /\ p \in Seq(XSteps) /\ Len(p) = 3 /\ p # <<>> /\ Head(p) = "x_edit"
      /\ p[1] = "x_edit" /\ p[2] = "x_commit" /\ p[3] = "check"
    BY DEF XSteps, XStatements, Handling
<1> HIDE DEF p
<1>2. ASSUME NEW i \in 1 .. Len(p) - 1 PROVE p[i + 1] \in XTo[p[i]]
    <2>1. i = 1 \/ i = 2
        BY <1>1
    <2> QED
        BY <1>1, <2>1, XToIs
<1> QED
    BY <1>1, <1>2 DEF XProgram, Linked, p

LEMMA StartIs == XProgram(Start) /\ Head(Start) = "start"
<1>1. /\ Start \in Seq(XSteps) /\ Len(Start) = 4 /\ Start # <<>> /\ Head(Start) = "start"
      /\ Start[1] = "start" /\ Start[2] = "x_inbounds" /\ Start[3] = "x_outbounds"
      /\ Start[4] = "x_clients"
    BY DEF Start, XSteps, XStatements, Handling
<1>2. ASSUME NEW i \in 1 .. Len(Start) - 1 PROVE Start[i + 1] \in XTo[Start[i]]
    <2>1. i = 1 \/ i = 2 \/ i = 3
        BY <1>1
    <2> QED
        BY <1>1, <2>1, XToIs
<1> QED
    BY <1>1, <1>2 DEF XProgram, Linked

LEMMA StopIs == XProgram(<<"stop">>) /\ Head(<<"stop">>) = "stop"
<1>1. <<"stop">> \in Seq(XSteps) /\ Len(<<"stop">>) = 1 /\ <<"stop">> # <<>> /\ <<"stop">>[1] = "stop"
    BY DEF XSteps, XStatements, Handling
<1> QED
    BY <1>1 DEF XProgram, Linked

LEMMA RestartIs == XProgram(Restart) /\ Head(Restart) = "stop"
<1>1. "stop" \in XSteps /\ "start" \in XTo["stop"]
    BY XToIs DEF XSteps, XStatements, Handling
<1> QED
    BY <1>1, StartIs, LinkedCons DEF XProgram, Restart

\* The edits of the routing tables that a reload follows.
Edits == {"insert_outbound", "update_outbound", "delete_outbound", "insert_rule", "update_rule",
          "toggle_rule", "order_rule", "delete_rule"}

\* What a request may start.
First(todo, new) ==
    /\ Program(todo)
    /\ \/ Head(todo) \in Edits \cup {"get_rule"}
       \/ Head(todo) = "delete_inbound_rules" /\ new \in InboundTags
       \/ Head(todo) = "x_edit" /\ new \in XTables
       \/ Head(todo) \in {"start", "stop"}

LEMMA RequestIs ==
    ASSUME Requests
    PROVE  \E todo, id, new : First(todo, new) /\ Begin(todo, id, new)
<1> DEFINE R == Edits \cup {"get_rule"}
<1>0. R = {"insert_outbound", "update_outbound", "delete_outbound", "insert_rule", "update_rule",
           "toggle_rule", "order_rule", "delete_rule", "get_rule"}
    BY DEF Edits
<1> HIDE DEF R
<1>1. ASSUME NEW todo, RProgram(todo), Head(todo) \in R, NEW id, NEW new, Begin(todo, id, new)
      PROVE  \E t, i, n : First(t, n) /\ Begin(t, i, n)
    BY <1>1 DEF First, Program, R
<1>2. CASE AddOutbound \/ AddRule
    BY <1>0, <1>1, <1>2, CreateIs DEF AddOutbound, AddRule
<1>3. CASE SetOutbound \/ DeleteOutbound \/ SetRule \/ DeleteRule
    BY <1>0, <1>1, <1>3, UpdateIs DEF SetOutbound, DeleteOutbound, SetRule, DeleteRule
<1>4. CASE ToggleRule \/ ReorderRules
    BY <1>0, <1>1, <1>4, TogglesAndOrders DEF ToggleRule, ReorderRules
<1>5. CASE DeleteInbound
    BY <1>5, DeletionIs DEF DeleteInbound, First, Program
<1>6. ASSUME NEW t \in XTables, XrayEdit(t)
      PROVE  \E todo, id, new : First(todo, new) /\ Begin(todo, id, new)
    BY <1>6, EditIs DEF XrayEdit, First, Program
<1>7. CASE XrayInbound \/ XrayOutbound \/ XrayClient
    <2>1. {"inbounds", "outbounds", "clients"} = XTables
        BY DEF XTables
    <2> QED
        BY <1>6, <1>7, <2>1 DEF XrayInbound, XrayOutbound, XrayClient
<1>8. CASE XrayStart \/ XrayStop \/ XrayRestart
    BY <1>8, StartIs, StopIs, RestartIs DEF XrayStart, XrayStop, XrayRestart, First, Program
<1> QED
    BY <1>2, <1>3, <1>4, <1>5, <1>7, <1>8 DEF Requests

LEMMA NewJob ==
    ASSUME NEW r, IsJob(r), NEW todo, NEW id, NEW new
    PROVE  [r EXCEPT !.todo = todo, !.id = id, !.new = new]
               = [todo |-> todo, id |-> id, new |-> new, seen |-> r.seen, ok |-> r.ok]
<1> DEFINE x == [r EXCEPT !.todo = todo]
           y == [x EXCEPT !.id = id]
<1>1. x = [todo |-> todo, id |-> r.id, new |-> r.new, seen |-> r.seen, ok |-> r.ok]
    BY DEF IsJob
<1>2. [r EXCEPT !.todo = todo, !.id = id, !.new = new] = [y EXCEPT !.new = new]
    OBVIOUS
<1> HIDE DEF x
<1>3. y = [todo |-> todo, id |-> id, new |-> r.new, seen |-> r.seen, ok |-> r.ok]
    BY <1>1
<1> HIDE DEF y
<1>4. [y EXCEPT !.new = new] = [todo |-> todo, id |-> id, new |-> new, seen |-> r.seen, ok |-> r.ok]
    BY <1>3
<1> QED
    BY <1>2, <1>4

LEMMA IdleIs == IsJob(Idle) /\ Idle.todo = <<>> /\ Idle.seen = <<>> /\ Idle.ok = TRUE
BY DEF IsJob, Idle

\* A request takes the first slot that is free.
LEMMA BeginIs ==
    ASSUME Jobs, Lines, requests \in Nat, NEW todo, Program(todo), NEW id, NEW new, Begin(todo, id, new)
    PROVE  \E j \in Slots :
              /\ ~Busy(j)
              /\ jobs'[j] = [todo |-> todo, id |-> id, new |-> new, seen |-> <<>>, ok |-> TRUE]
              /\ \A i \in Slots : i # j => jobs'[i] = jobs[i]
              /\ jobs' = [i \in Slots |-> jobs'[i]]
              /\ fifo' = IF Head(todo) \in Statements THEN Append(fifo, j) ELSE fifo
              /\ requests' \in Nat /\ requests < requests' /\ requests' <= MaxRequests
              /\ overlap' = Overlaps(j, todo)
              /\ UNCHANGED <<outbounds, rules, gone, xtab, router, ready, handle, kids, file, unloaded, missed, faults>>
<1> DEFINE j == Min({i \in Slots : ~Busy(i)})
<1>1. j \in Slots /\ ~Busy(j)
    <2>1. {i \in Slots : ~Busy(i)} # {} /\ {i \in Slots : ~Busy(i)} \in SUBSET Nat
        BY DEF Begin, Slots
    <2> QED
        BY <2>1, MinIs
<1>2. /\ jobs' = [jobs EXCEPT ![j] = [Idle EXCEPT !.todo = todo, !.id = id, !.new = new]]
      /\ fifo' = Queued(j, todo)
      /\ overlap' = Overlaps(j, todo)
      /\ UNCHANGED <<outbounds, rules, gone, xtab, router, ready, handle, kids, file, unloaded, missed, faults>>
    BY DEF Begin, tables, xray
<1>3. [Idle EXCEPT !.todo = todo, !.id = id, !.new = new]
          = [todo |-> todo, id |-> id, new |-> new, seen |-> <<>>, ok |-> TRUE]
    <2>1. [Idle EXCEPT !.todo = todo, !.id = id, !.new = new]
              = [todo |-> todo, id |-> id, new |-> new, seen |-> Idle.seen, ok |-> Idle.ok]
        <3>1. \A r : IsJob(r) =>
                  [r EXCEPT !.todo = todo, !.id = id, !.new = new]
                      = [todo |-> todo, id |-> id, new |-> new, seen |-> r.seen, ok |-> r.ok]
            BY NewJob
        <3> QED
            BY <3>1, IdleIs, Zenon
    <2> QED
        BY <2>1, IdleIs
<1>4. jobs = [i \in Slots |-> jobs[i]] /\ todo # <<>>
    BY ProgramHead DEF Jobs
<1>5. fifo' = IF Head(todo) \in Statements THEN Append(fifo, j) ELSE fifo
    BY <1>2, <1>4 DEF Queued
<1>7. requests' \in Nat /\ requests < requests' /\ requests' <= MaxRequests
    <2>1. PICK kind \in {"routing", "xray"} :
              requests' = requests + Weight[kind] /\ requests' <= MaxRequests
        BY DEF Begin
    <2>2. Weight[kind] \in Nat \ {0}
        BY BoundsAssumption
    <2> QED
        BY <2>1, <2>2
<1> HIDE DEF j
<1>6. /\ jobs'[j] = [todo |-> todo, id |-> id, new |-> new, seen |-> <<>>, ok |-> TRUE]
      /\ \A i \in Slots : i # j => jobs'[i] = jobs[i]
      /\ jobs' = [i \in Slots |-> jobs'[i]]
    BY <1>1, <1>2, <1>3, <1>4
<1> QED
    BY <1>1, <1>2, <1>5, <1>6, <1>7

LEMMA BeginKeeps == ASSUME Inv, Requests PROVE Inv'
<1>1. PICK todo, id, new : First(todo, new) /\ Begin(todo, id, new)
    BY RequestIs
<1>2. /\ Program(todo) /\ todo # <<>> /\ Head(todo) \notin DOMAIN Reads
      /\ Head(todo) \in {"delete_inbound_rules", "delete_inbound"} => new \in InboundTags
      /\ Head(todo) = "x_edit" => new \in XTables
    <2>1. Program(todo) /\ todo # <<>>
        BY <1>1, ProgramHead DEF First
    <2> QED
        BY <1>1, <2>1 DEF First, Reads, Edits
<1>3. PICK j \in Slots :
          /\ ~Busy(j)
          /\ jobs'[j] = [todo |-> todo, id |-> id, new |-> new, seen |-> <<>>, ok |-> TRUE]
          /\ \A i \in Slots : i # j => jobs'[i] = jobs[i]
          /\ jobs' = [i \in Slots |-> jobs'[i]]
          /\ fifo' = IF Head(todo) \in Statements THEN Append(fifo, j) ELSE fifo
          /\ requests' \in Nat /\ requests < requests' /\ requests' <= MaxRequests
          /\ overlap' = Overlaps(j, todo)
          /\ UNCHANGED <<outbounds, rules, gone, xtab, router, ready, handle, kids, file, unloaded, missed, faults>>
    BY <1>1, <1>2, BeginIs, BoundsAssumption DEF Inv, Scalars
<1>4. ~At(j, Statements) /\ ~Has(fifo, j) /\ ~Has(ready, j)
    BY <1>3 DEF At, Inv, Lines
<1>5. /\ \A i \in Slots : i # j => \A S : At(i, S)' <=> At(i, S)
      /\ \A S : At(j, S)' <=> Head(todo) \in S
    BY <1>2, <1>3 DEF At, Busy
<1>6. /\ fifo' \in Seq(Slots) /\ Distinct(fifo')
      /\ \A y : Has(fifo', y) <=> Has(fifo, y) \/ (y = j /\ Head(todo) \in Statements)
    <2>1. fifo \in Seq(Slots) /\ Distinct(fifo)
        BY DEF Inv, Lines
    <2>2. CASE Head(todo) \in Statements
        BY <1>3, <1>4, <2>1, <2>2, QueueGrows
    <2>3. CASE Head(todo) \notin Statements
        <3>1. fifo' = fifo
            BY <1>3, <2>3
        <3> QED
            BY <2>1, <2>3, <3>1
    <2> QED
        BY <2>2, <2>3
<1>7. Jobs'
    <2>1. IsJob(jobs'[j]) /\ jobs'[j].todo = todo
        BY <1>3 DEF IsJob
    <2> QED
        BY <1>2, <1>3, <2>1 DEF Inv, Jobs
<1>8. Lines'
    <2>1. \A i \in Slots : ~(Has(fifo', i) /\ Has(ready', i))
        BY <1>3, <1>4, <1>6 DEF Inv, Lines
    <2>2. \A i \in Slots : Has(fifo', i) \/ Has(ready', i) <=> At(i, Statements)'
        BY <1>3, <1>4, <1>5, <1>6 DEF Inv, Lines
    <2> QED
        BY <1>3, <1>6, <2>1, <2>2 DEF Inv, Lines
<1>9. Wants'
    BY <1>2, <1>3, <1>5 DEF Inv, Wants
<1>10. Reading'
    <2>1. At(j, XSteps)' => jobs'[j].ok
        BY <1>3
    <2>2. ~At(j, DOMAIN Reads)'
        BY <1>2, <1>5
    <2>3. \A i \in Slots : i # j =>
              /\ At(i, XSteps)' => jobs'[i].ok
              /\ At(i, DOMAIN Reads)' =>
                    /\ jobs'[i].seen \in Seq(Nat)
                    /\ Len(jobs'[i].seen) = Reads[Head(jobs'[i].todo)] + (IF Has(ready', i) THEN 1 ELSE 0)
        BY <1>3, <1>5 DEF Inv, Reading
    <2> QED
        BY <2>1, <2>2, <2>3 DEF Reading
<1>11. Counted'
    <2>1. Editing' \subseteq Editing \cup {j}
        BY <1>5, <1>6 DEF Editing
    <2>2. /\ IsFiniteSet(Editing) /\ IsFiniteSet(Editing \cup {j})
          /\ Cardinality(Editing \cup {j}) <= Cardinality(Editing) + 1
          /\ Cardinality(Editing) \in Nat /\ Cardinality(Editing \cup {j}) \in Nat
        BY EditingFinite, FS_AddElement, FS_CardinalityType
    <2>3. Cardinality(Editing') <= Cardinality(Editing \cup {j}) /\ Cardinality(Editing') \in Nat
        BY <2>1, <2>2, FS_Subset, FS_CardinalityType
    <2>4. requests \in Nat
        BY BoundsAssumption DEF Inv, Scalars
    <2> QED
        BY <1>3, <2>2, <2>3, <2>4 DEF Inv, Counted
<1>12. Kids' /\ Rows'
    <2>1. Kids'
        BY <1>3 DEF Inv, Kids
    <2>2. Rows'
        BY <1>3 DEF Inv, Rows
    <2> QED
        BY <2>1, <2>2
<1>13. Scalars'
    <2>1. overlap' \in BOOLEAN
        BY <1>3, Zenon DEF Overlaps, Inv, Scalars
    <2>2. requests' \in 0 .. MaxRequests
        BY <1>3, BoundsAssumption
    <2> QED
        BY <1>3, <2>1, <2>2 DEF Inv, Scalars
<1> QED
    BY <1>7, <1>8, <1>9, <1>10, <1>11, <1>12, <1>13 DEF Inv
-----------------------------------------------------------------------------
(* The rows *)

LEMMA ImageIsFinite ==
    ASSUME NEW S, IsFiniteSet(S), NEW f, DOMAIN f = S, f = [x \in S |-> f[x]]
    PROVE  IsFiniteSet({f[x] : x \in S})
<1> DEFINE T == {f[x] : x \in S}
<1>1. f \in [S -> T]
    OBVIOUS
<1>2. \A t \in T : \E x \in S : f[x] = t
    OBVIOUS
<1> HIDE DEF T
<1>3. f \in Surjection(S, T)
    BY <1>1, <1>2 DEF Surjection
<1>4. IsFiniteSet(T)
    BY <1>3, FS_Surjection
<1> QED
    BY <1>4 DEF T

LEMMA FewerRules ==
    ASSUME Rows, rules' \subseteq rules, UNCHANGED outbounds
    PROVE  Rows'
<1>1. IsFiniteSet(rules')
    BY FS_Subset DEF Rows
<1> QED
    BY <1>1 DEF Rows

\* Each rule is changed into one of the same id, that names an outbound.
LEMMA OtherRules ==
    ASSUME Rows, UNCHANGED outbounds, NEW f, f = [r \in rules |-> f[r]],
           rules' = {f[r] : r \in rules},
           \A r \in rules : IsRule(f[r]) /\ f[r].id = r.id /\ \E o \in outbounds : o.tag = f[r].tag
    PROVE  Rows'
<1>1. IsFiniteSet(rules')
    <2>1. DOMAIN f = rules
        OBVIOUS
    <2> QED
        BY <2>1, ImageIsFinite DEF Rows
<1>2. \A r, s \in rules' : r.id = s.id => r = s
    BY DEF Rows
<1>3. \A r \in rules' : IsRule(r) /\ r.id \in Nat /\ \E o \in outbounds : o.tag = r.tag
    BY DEF Rows
<1>4. \E n \in Nat : \A r \in rules' : r.id <= n
    BY DEF Rows
<1> QED
    BY <1>1, <1>2, <1>3, <1>4 DEF Rows

LEMMA NewRule ==
    ASSUME Rows, UNCHANGED outbounds, NEW r, rules' = rules \cup {r}, IsRule(r),
           r.id = NextId(rules), \E o \in outbounds : o.tag = r.tag
    PROVE  Rows'
<1> DEFINE I == {0} \cup {s.id : s \in rules}
<1>1. PICK n \in Nat : \A s \in rules : s.id <= n
    BY DEF Rows
<1>2. I \in SUBSET Nat /\ I # {} /\ \A k \in I : k <= n
    BY <1>1 DEF Rows
<1>3. Max(I) \in I /\ \A k \in I : k <= Max(I)
    BY <1>2, MaxIs
<1>4. r.id = 1 + Max(I)
    BY DEF NextId
<1>5. r.id \in Nat /\ \A s \in rules : s.id < r.id
    <2>1. Max(I) \in Nat
        BY <1>2, <1>3
    <2>2. \A s \in rules : s.id \in I /\ s.id \in Nat
        BY DEF Rows
    <2> HIDE DEF I
    <2> QED
        BY <1>3, <1>4, <2>1, <2>2
<1> HIDE DEF I
<1>6. IsFiniteSet(rules')
    BY FS_AddElement DEF Rows
<1>7. \A q, s \in rules' : q.id = s.id => q = s
    <2>1. \A s \in rules : s.id \in Nat /\ s.id # r.id
        BY <1>5 DEF Rows
    <2> QED
        BY <2>1 DEF Rows
<1>8. \A s \in rules' : IsRule(s) /\ s.id \in Nat /\ \E o \in outbounds : o.tag = s.tag
    BY <1>5 DEF Rows
<1>9. \A s \in rules' : s.id <= r.id
    BY <1>5 DEF Rows
<1> QED
    BY <1>5, <1>6, <1>7, <1>8, <1>9 DEF Rows

LEMMA RuleChanges ==
    ASSUME NEW r, IsRule(r), NEW a, NEW b
    PROVE  /\ [r EXCEPT !.tag = a, !.inb = b]
                  = [id |-> r.id, ord |-> r.ord, tag |-> a, inb |-> b, on |-> r.on]
           /\ [r EXCEPT !.on = a] = [id |-> r.id, ord |-> r.ord, tag |-> r.tag, inb |-> r.inb, on |-> a]
           /\ [r EXCEPT !.ord = a] = [id |-> r.id, ord |-> a, tag |-> r.tag, inb |-> r.inb, on |-> r.on]
<1> DEFINE x == [r EXCEPT !.tag = a]
<1>1. x = [id |-> r.id, ord |-> r.ord, tag |-> a, inb |-> r.inb, on |-> r.on]
    BY DEF IsRule
<1>2. [r EXCEPT !.tag = a, !.inb = b] = [x EXCEPT !.inb = b]
    OBVIOUS
<1> HIDE DEF x
<1>3. [x EXCEPT !.inb = b] = [id |-> r.id, ord |-> r.ord, tag |-> a, inb |-> b, on |-> r.on]
    BY <1>1
<1>4. [r EXCEPT !.on = a] = [id |-> r.id, ord |-> r.ord, tag |-> r.tag, inb |-> r.inb, on |-> a]
    BY DEF IsRule
<1>5. [r EXCEPT !.ord = a] = [id |-> r.id, ord |-> a, tag |-> r.tag, inb |-> r.inb, on |-> r.on]
    BY DEF IsRule
<1> QED
    BY <1>2, <1>3, <1>4, <1>5

LEMMA RuleRows ==
    ASSUME Rows, \/ InsertRule \/ UpdateRule \/ WriteToggle \/ OrderRule \/ DeleteRuleRow
                 \/ DeleteInboundRules
    PROVE  Rows'
<1>1. CASE InsertRule
    <2> DEFINE r == [id |-> NextId(rules), ord |-> 0, tag |-> Job.new.tag,
                     inb |-> Job.new.inb, on |-> TRUE]
    <2>1. UNCHANGED outbounds
        BY <1>1 DEF InsertRule
    <2>2. CASE ByTag(outbounds, Job.new.tag) = {}
        <3>1. rules' = rules
            BY <1>1, <2>2 DEF InsertRule
        <3> QED
            BY <2>1, <3>1, FewerRules
    <2>3. CASE ByTag(outbounds, Job.new.tag) # {}
        <3>1. rules' = rules \cup {r}
            BY <1>1, <2>3 DEF InsertRule
        <3>2. \E o \in outbounds : o.tag = Job.new.tag
            BY <2>3 DEF ByTag
        <3>3. IsRule(r) /\ r.id = NextId(rules) /\ r.tag = Job.new.tag
            BY DEF IsRule
        <3> HIDE DEF r
        <3> QED
            BY <2>1, <3>1, <3>2, <3>3, NewRule
    <2> QED
        BY <2>2, <2>3
<1>2. CASE UpdateRule
    <2> DEFINE f == [r \in rules |-> IF r.id = Job.id
                                     THEN [r EXCEPT !.tag = Job.new.tag, !.inb = Job.new.inb]
                                     ELSE r]
    <2>1. UNCHANGED outbounds
        BY <1>2 DEF UpdateRule, ChangeRule, tables
    <2>2. CASE ByTag(outbounds, Job.new.tag) # {} \/ \A r \in rules : r.id # Job.id
        <3>1. rules' = {f[r] : r \in rules}
            BY <1>2, <2>2 DEF UpdateRule, ChangeRule
        <3>2. ASSUME NEW r \in rules
              PROVE  IsRule(f[r]) /\ f[r].id = r.id /\ \E o \in outbounds : o.tag = f[r].tag
            <4>1. CASE r.id # Job.id
                BY <4>1 DEF Rows
            <4>2. CASE r.id = Job.id
                <5>1. f[r] = [r EXCEPT !.tag = Job.new.tag, !.inb = Job.new.inb]
                    BY <4>2
                <5>2. f[r] = [id |-> r.id, ord |-> r.ord, tag |-> Job.new.tag, inb |-> Job.new.inb,
                              on |-> r.on]
                    <6>1. IsRule(r)
                        BY DEF Rows
                    <6> HIDE DEF f
                    <6> QED
                        BY <5>1, <6>1, RuleChanges
                <5>3. \E o \in outbounds : o.tag = Job.new.tag
                    BY <2>2, <4>2 DEF ByTag
                <5> HIDE DEF f
                <5> QED
                    BY <5>2, <5>3 DEF IsRule
            <4> QED
                BY <4>1, <4>2
        <3>3. f = [r \in rules |-> f[r]]
            OBVIOUS
        <3> HIDE DEF f
        <3> QED
            BY <2>1, <3>1, <3>2, <3>3, OtherRules
    <2>3. CASE ~(ByTag(outbounds, Job.new.tag) # {} \/ \A r \in rules : r.id # Job.id)
        <3>1. rules' = rules
            BY <1>2, <2>3 DEF UpdateRule, tables
        <3> QED
            BY <2>1, <3>1, FewerRules
    <2> QED
        BY <2>2, <2>3
<1>3. CASE WriteToggle
    <2> DEFINE f == [r \in rules |-> IF r.id = Job.id THEN [r EXCEPT !.on = ~Job.seen[1]] ELSE r]
    <2>1. UNCHANGED outbounds /\ rules' = {f[r] : r \in rules}
        BY <1>3 DEF WriteToggle, ChangeRule
    <2>2. ASSUME NEW r \in rules
          PROVE  IsRule(f[r]) /\ f[r].id = r.id /\ \E o \in outbounds : o.tag = f[r].tag
        <3>1. IsRule(r) /\ \E o \in outbounds : o.tag = r.tag
            BY DEF Rows
        <3>2. [r EXCEPT !.on = ~Job.seen[1]] = [id |-> r.id, ord |-> r.ord, tag |-> r.tag, inb |-> r.inb, on |-> ~Job.seen[1]]
            BY <3>1, RuleChanges
        <3>3. f[r] = r \/ f[r] = [id |-> r.id, ord |-> r.ord, tag |-> r.tag, inb |-> r.inb, on |-> ~Job.seen[1]]
            BY <3>2
        <3> HIDE DEF f
        <3> QED
            BY <3>1, <3>3 DEF IsRule
    <2>3. f = [r \in rules |-> f[r]]
        OBVIOUS
    <2> HIDE DEF f
    <2> QED
        BY <2>1, <2>2, <2>3, OtherRules
<1>4. CASE OrderRule
    <2> DEFINE item == IF Job.todo[2] = "order_rule" THEN 1 ELSE 2
               f == [r \in rules |-> IF r.id = Job.new[item] THEN [r EXCEPT !.ord = item] ELSE r]
    <2>1. UNCHANGED outbounds /\ rules' = {f[r] : r \in rules}
        BY <1>4 DEF OrderRule, ChangeRule
    <2> HIDE DEF item
    <2>2. ASSUME NEW r \in rules
          PROVE  IsRule(f[r]) /\ f[r].id = r.id /\ \E o \in outbounds : o.tag = f[r].tag
        <3>1. IsRule(r) /\ \E o \in outbounds : o.tag = r.tag
            BY DEF Rows
        <3>2. [r EXCEPT !.ord = item] = [id |-> r.id, ord |-> item, tag |-> r.tag, inb |-> r.inb, on |-> r.on]
            BY <3>1, RuleChanges
        <3>3. f[r] = r \/ f[r] = [id |-> r.id, ord |-> item, tag |-> r.tag, inb |-> r.inb, on |-> r.on]
            BY <3>2
        <3> HIDE DEF f
        <3> QED
            BY <3>1, <3>3 DEF IsRule
    <2>3. f = [r \in rules |-> f[r]]
        OBVIOUS
    <2> HIDE DEF f
    <2> QED
        BY <2>1, <2>2, <2>3, OtherRules
<1>5. CASE DeleteRuleRow \/ DeleteInboundRules
    <2>1. rules' \subseteq rules /\ UNCHANGED outbounds
        BY <1>5 DEF DeleteRuleRow, DeleteInboundRules
    <2> QED
        BY <2>1, FewerRules
<1> QED
    BY <1>1, <1>2, <1>3, <1>4, <1>5

LEMMA OutboundRows ==
    ASSUME Rows, InsertOutbound \/ UpdateOutbound \/ DeleteOutboundRow
    PROVE  Rows'
<1>1. CASE InsertOutbound
    <2> DEFINE o == AsRow(Job.new, NextId(outbounds))
    <2>1. UNCHANGED rules
        BY <1>1 DEF InsertOutbound
    <2>2. CASE ByTag(outbounds, Job.new.tag) # {}
        <3>1. outbounds' = outbounds
            BY <1>1, <2>2 DEF InsertOutbound
        <3> QED
            BY <2>1, <3>1 DEF Rows
    <2>3. CASE ByTag(outbounds, Job.new.tag) = {}
        <3>1. outbounds' = outbounds \cup {o}
            BY <1>1, <2>3 DEF InsertOutbound
        <3>2. o.tag = Job.new.tag /\ \A p \in outbounds : p.tag # Job.new.tag
            BY <2>3 DEF ByTag, AsRow
        <3> HIDE DEF o
        <3>3. IsFiniteSet(outbounds')
            BY <3>1, FS_AddElement DEF Rows
        <3>4. \A p, q \in outbounds' : p.tag = q.tag => p = q
            BY <3>1, <3>2 DEF Rows
        <3>5. \A r \in rules : \E p \in outbounds' : p.tag = r.tag
            BY <3>1 DEF Rows
        <3> QED
            BY <2>1, <3>3, <3>4, <3>5 DEF Rows
    <2> QED
        BY <2>2, <2>3
<1>2. CASE UpdateOutbound
    <2> DEFINE rows == {o \in outbounds : o.id = Job.id}
               fails == \E o \in rows : /\ o.tag # Job.new.tag
                                        /\ \/ ByTag(outbounds, Job.new.tag) # {}
                                           \/ \E r \in rules : r.tag = o.tag
               new == {AsRow(Job.new, o.id) : o \in rows}
    <2>1. UNCHANGED rules
        BY <1>2 DEF UpdateOutbound
    <2>2. CASE fails
        <3>1. outbounds' = outbounds
            BY <1>2, <2>2 DEF UpdateOutbound
        <3> QED
            BY <2>1, <3>1 DEF Rows
    <2>3. CASE ~fails
        <3>1. outbounds' = (outbounds \ rows) \cup new
            BY <1>2, <2>3 DEF UpdateOutbound
        <3>2. \A n \in new : n = AsRow(Job.new, Job.id) /\ n.tag = Job.new.tag /\ rows # {}
            BY DEF AsRow
        <3>3. ASSUME rows # {} PROVE \E n \in new : n.tag = Job.new.tag
            <4>1. PICK o \in rows : TRUE
                BY <3>3
            <4>2. AsRow(Job.new, o.id) \in new
                OBVIOUS
            <4> QED
                BY <4>2, <3>2
        <3>4. \A o \in rows : o \in outbounds /\ (o.tag = Job.new.tag \/
                  ((\A p \in outbounds : p.tag # Job.new.tag) /\ \A r \in rules : r.tag # o.tag))
            BY <2>3 DEF ByTag
        <3> HIDE DEF rows, new
        <3>5. IsFiniteSet(outbounds')
            <4>1. IsFiniteSet({AsRow(Job.new, Job.id)}) /\ new \subseteq {AsRow(Job.new, Job.id)}
                BY <3>2, FS_Singleton
            <4>2. IsFiniteSet(new) /\ IsFiniteSet(outbounds \ rows)
                BY <4>1, FS_Subset DEF Rows
            <4> QED
                BY <3>1, <4>2, FS_Union
        <3>6. \A q \in outbounds \ rows : rows # {} => q.tag # Job.new.tag
            BY <3>4 DEF Rows
        <3>7. \A p, q \in outbounds' : p.tag = q.tag => p = q
            BY <3>1, <3>2, <3>6 DEF Rows
        <3>8. \A r \in rules : \E p \in outbounds' : p.tag = r.tag
            <4> SUFFICES ASSUME NEW r \in rules PROVE \E p \in outbounds' : p.tag = r.tag
                OBVIOUS
            <4>1. PICK o \in outbounds : o.tag = r.tag
                BY DEF Rows
            <4> QED
                BY <3>1, <3>3, <3>4, <4>1
        <3> QED
            BY <2>1, <3>5, <3>7, <3>8 DEF Rows
    <2> QED
        BY <2>2, <2>3
<1>3. CASE DeleteOutboundRow
    <2>1. /\ outbounds' = {o \in outbounds : o.id # Job.id}
          /\ rules' = {r \in rules : ByTag(outbounds', r.tag) # {}}
        BY <1>3 DEF DeleteOutboundRow
    <2>2. IsFiniteSet(outbounds') /\ IsFiniteSet(rules')
        BY <2>1, FS_Subset DEF Rows
    <2>3. \A r \in rules' : \E o \in outbounds' : o.tag = r.tag
        BY <2>1 DEF ByTag
    <2> QED
        BY <2>1, <2>2, <2>3 DEF Rows
<1> QED
    BY <1>1, <1>2, <1>3
-----------------------------------------------------------------------------
(* The connection *)

\* A statement that is served leaves the rest of the invariant to its table.
LEMMA ServedKeeps ==
    ASSUME Inv, fifo # <<>>, NEW ok, NEW read, Answer(ok, read),
           NEW h, h = Head(fifo),
           At(h, XSteps) => ok = TRUE,
           At(h, DOMAIN Reads) => \E n \in Nat : read = <<n>>
    PROVE  /\ Jobs' /\ Lines' /\ Wants' /\ Kids' /\ Reading'
           /\ Editing' = Editing \ {h}
           /\ h \in Slots /\ Has(fifo, h) /\ At(h, Statements)
           /\ UNCHANGED <<router, requests, handle, kids, file, unloaded, overlap, missed, faults>>
<1>1. /\ h \in Slots /\ Has(fifo, h) /\ ~Has(ready, h) /\ At(h, Statements)
      /\ jobs'[h] = [todo |-> jobs[h].todo, id |-> jobs[h].id, new |-> jobs[h].new,
                     seen |-> jobs[h].seen \o read, ok |-> ok]
      /\ \A j \in Slots : j # h => jobs'[j] = jobs[j]
      /\ \A j \in Slots : jobs'[j].todo = jobs[j].todo /\ jobs'[j].new = jobs[j].new
      /\ \A y : Has(fifo', y) <=> Has(fifo, y) /\ y # h
      /\ \A y : Has(ready', y) <=> Has(ready, y) \/ y = h
      /\ UNCHANGED <<router, requests, handle, kids, file, unloaded, overlap, missed, faults>>
    BY AnswerIs DEF Inv
<1>2. \A j \in Slots : \A S : At(j, S)' <=> At(j, S)
    BY <1>1 DEF At, Busy
<1>3. Reading'
    <2>1. At(h, XSteps)' => jobs'[h].ok
        BY <1>1, <1>2
    <2>2. ASSUME At(h, DOMAIN Reads)'
          PROVE  /\ jobs'[h].seen \in Seq(Nat)
                 /\ Len(jobs'[h].seen)
                        = Reads[Head(jobs'[h].todo)] + (IF Has(ready', h) THEN 1 ELSE 0)
        <3>1. At(h, DOMAIN Reads)
            BY <1>1, <1>2, <2>2
        <3>2. PICK n \in Nat : read = <<n>>
            BY <3>1
        <3>3. jobs[h].seen \in Seq(Nat) /\ Len(jobs[h].seen) = Reads[Head(jobs[h].todo)]
            <4>1. Head(jobs[h].todo) \in DOMAIN Reads
                BY <3>1 DEF At
            <4>2. Reads[Head(jobs[h].todo)] \in Nat
                BY <4>1 DEF Reads
            <4> QED
                BY <1>1, <3>1, <4>2 DEF Inv, Reading
        <3>4. /\ jobs[h].seen \o <<n>> \in Seq(Nat)
              /\ Len(jobs[h].seen \o <<n>>) = Len(jobs[h].seen) + 1
            BY <3>3
        <3> QED
            BY <1>1, <3>2, <3>3, <3>4
    <2>3. \A j \in Slots : j # h =>
              /\ At(j, XSteps)' => jobs'[j].ok
              /\ At(j, DOMAIN Reads)' =>
                    /\ jobs'[j].seen \in Seq(Nat)
                    /\ Len(jobs'[j].seen) = Reads[Head(jobs'[j].todo)] + (IF Has(ready', j) THEN 1 ELSE 0)
        BY <1>1, <1>2 DEF Inv, Reading
    <2> QED
        BY <2>1, <2>2, <2>3 DEF Reading
<1>4. Editing' = Editing \ {h}
    BY <1>1, <1>2 DEF Editing
<1> QED
    BY <1>1, <1>3, <1>4, AnswerKeeps

LEMMA CountedKeeps ==
    ASSUME Inv, UNCHANGED <<xtab, requests>>, Editing' \subseteq Editing
    PROVE  Counted'
<1>1. IsFiniteSet(Editing) /\ Cardinality(Editing') <= Cardinality(Editing)
      /\ Cardinality(Editing) \in Nat /\ Cardinality(Editing') \in Nat
    BY EditingFinite, FS_Subset, FS_CardinalityType
<1>2. requests \in Nat
    BY BoundsAssumption DEF Inv, Scalars
<1> QED
    BY <1>1, <1>2 DEF Inv, Counted

LEMMA ServeKeeps == ASSUME Inv, Serve PROVE Inv'
<1> DEFINE h == Head(fifo)
<1>1. \A S : fifo # <<>> => (At(h, S) <=> Busy(h) /\ Head(Job.todo) \in S)
    BY DEF At, Job
<1>2. Statements \cap XSteps = XStatements
    BY Steps
<1>3. ASSUME NEW s \in {"insert_outbound", "update_outbound", "delete_outbound", "insert_rule",
                        "update_rule", "toggle_rule", "order_rule", "delete_rule",
                        "delete_inbound_rules", "delete_inbound"},
             Served(s), NEW ok, Answer(ok, <<>>), Rows', gone' \subseteq InboundTags, UNCHANGED xtab
      PROVE  Inv'
    <2>1. fifo # <<>> /\ Head(Job.todo) = s
        BY <1>3 DEF Served
    <2>2. ~At(h, XSteps) /\ ~At(h, DOMAIN Reads)
        BY <1>1, <2>1 DEF XSteps, XStatements, Handling, Reads
    <2> HIDE DEF h
    <2>3. /\ Jobs' /\ Lines' /\ Wants' /\ Kids' /\ Reading'
          /\ Editing' = Editing \ {Head(fifo)}
          /\ UNCHANGED <<router, requests, handle, kids, file, unloaded, overlap, missed, faults>>
        BY <1>3, <2>1, <2>2, ServedKeeps DEF h
    <2>4. Counted'
        BY <1>3, <2>3, CountedKeeps
    <2>5. Scalars'
        BY <1>3, <2>3 DEF Inv, Scalars
    <2> QED
        BY <1>3, <2>3, <2>4, <2>5 DEF Inv
<1>4. CASE InsertOutbound \/ UpdateOutbound \/ DeleteOutboundRow
    <2>1. Rows'
        BY <1>4, OutboundRows DEF Inv
    <2>2. gone' \subseteq InboundTags /\ UNCHANGED xtab
        BY <1>4 DEF InsertOutbound, UpdateOutbound, DeleteOutboundRow, Inv, Scalars
    <2>3. CASE InsertOutbound
        BY <1>3, <2>1, <2>2, <2>3 DEF InsertOutbound
    <2>4. CASE UpdateOutbound
        BY <1>3, <2>1, <2>2, <2>4 DEF UpdateOutbound
    <2>5. CASE DeleteOutboundRow
        BY <1>3, <2>1, <2>2, <2>5 DEF DeleteOutboundRow
    <2> QED
        BY <1>4, <2>3, <2>4, <2>5
<1>5. CASE \/ InsertRule \/ UpdateRule \/ WriteToggle \/ OrderRule \/ DeleteRuleRow
           \/ DeleteInboundRules
    <2>1. Rows'
        BY <1>5, RuleRows DEF Inv
    <2>2. gone' \subseteq InboundTags /\ UNCHANGED xtab
        BY <1>5 DEF InsertRule, UpdateRule, WriteToggle, OrderRule, DeleteRuleRow,
                    DeleteInboundRules, ChangeRule, tables, Inv, Scalars
    <2>3. CASE InsertRule
        BY <1>3, <2>1, <2>2, <2>3 DEF InsertRule
    <2>4. CASE UpdateRule
        BY <1>3, <2>1, <2>2, <2>4 DEF UpdateRule, ChangeRule
    <2>5. CASE WriteToggle \/ OrderRule
        BY <1>3, <2>1, <2>2, <2>5 DEF WriteToggle, OrderRule, ChangeRule
    <2>6. CASE DeleteRuleRow \/ DeleteInboundRules
        BY <1>3, <2>1, <2>2, <2>6 DEF DeleteRuleRow, DeleteInboundRules
    <2> QED
        BY <1>5, <2>3, <2>4, <2>5, <2>6
<1>6. CASE DeleteInboundRow
    <2>1. Served("delete_inbound") /\ gone' = gone \cup {Job.new} /\ Answer(TRUE, <<>>)
          /\ UNCHANGED <<outbounds, rules, xtab>>
        BY <1>6 DEF DeleteInboundRow
    <2>2. fifo # <<>> /\ Head(Job.todo) = "delete_inbound"
        BY <2>1 DEF Served
    <2>3. h \in Slots /\ At(h, Statements)
        BY <2>1, <2>2, AnswerIs DEF Inv
    <2>4. At(h, {"delete_inbound_rules", "delete_inbound"}) /\ Job = jobs[h]
        BY <1>1, <2>2, <2>3 DEF At, Job
    <2>5. Job.new \in InboundTags
        BY <2>3, <2>4 DEF Inv, Wants
    <2>6. gone' \subseteq InboundTags
        BY <2>1, <2>5 DEF Inv, Scalars
    <2>7. Rows'
        BY <2>1 DEF Inv, Rows
    <2> QED
        BY <1>3, <2>1, <2>6, <2>7
<1>7. CASE EditXray
    <2>1. Served("x_edit") /\ xtab' = [xtab EXCEPT ![Job.new] = @ + 1] /\ Answer(TRUE, <<>>)
          /\ UNCHANGED <<outbounds, rules, gone>>
        BY <1>7 DEF EditXray
    <2>2. fifo # <<>> /\ Head(Job.todo) = "x_edit"
        BY <2>1 DEF Served
    <2>3. h \in Slots /\ Has(fifo, h) /\ At(h, Statements)
        BY <2>1, <2>2, AnswerIs DEF Inv
    <2>4. At(h, {"x_edit"}) /\ Job = jobs[h] /\ ~At(h, DOMAIN Reads)
        BY <1>1, <2>2, <2>3 DEF At, Job, Reads
    <2>5. Job.new \in XTables
        BY <2>3, <2>4 DEF Inv, Wants
    <2>6. h \in Editing
        BY <2>3, <2>4 DEF Editing
    <2> HIDE DEF h
    <2>7. /\ Jobs' /\ Lines' /\ Wants' /\ Kids' /\ Reading'
          /\ Editing' = Editing \ {h}
          /\ UNCHANGED <<router, requests, handle, kids, file, unloaded, overlap, missed, faults>>
        BY <2>1, <2>2, <2>4, ServedKeeps DEF h
    <2>8. Counted'
        <3>1. /\ Cardinality(Editing \ {h}) = Cardinality(Editing) - 1
              /\ Cardinality(Editing) \in Nat
            BY <2>6, EditingFinite, FS_RemoveElement, FS_CardinalityType
        <3>2. xtab \in [XTables -> Nat] /\ \A t \in XTables : xtab[t] + Cardinality(Editing) <= requests
            BY DEF Inv, Counted
        <3>3. requests \in Nat
            BY BoundsAssumption DEF Inv, Scalars
        <3>4. /\ xtab' \in [XTables -> Nat]
              /\ \A t \in XTables : xtab'[t] = xtab[t] \/ xtab'[t] = xtab[t] + 1
            BY <2>1, <2>5, <3>2
        <3>5. \A t \in XTables : xtab'[t] + (Cardinality(Editing) - 1) <= requests
            BY <3>1, <3>2, <3>3, <3>4
        <3> QED
            BY <2>7, <3>1, <3>4, <3>5 DEF Counted
    <2>9. Rows' /\ Scalars'
        <3>1. Rows'
            BY <2>1 DEF Inv, Rows
        <3>2. Scalars'
            BY <2>1, <2>7 DEF Inv, Scalars
        <3> QED
            BY <3>1, <3>2
    <2> QED
        BY <2>7, <2>8, <2>9 DEF Inv
<1>8. CASE Select
    <2>1. PICK s, ok, read :
              /\ Served(s) /\ Answer(ok, read)
              /\ s \in XSteps => ok = TRUE
              /\ s \in DOMAIN Reads => \E n \in Nat : read = <<n>>
        <3>1. CASE \E s \in {"commit", "x_commit", "rowid"} : Served(s) /\ Answer(TRUE, <<>>)
            BY <3>1 DEF Reads
        <3>2. CASE Served("get_rule") /\ \E ok, read : Answer(ok, read)
            BY <3>2 DEF Reads, XSteps, XStatements, Handling
        <3>3. ASSUME NEW s \in {"get_rules", "get_outbounds"}, NEW read, Served(s), Answer(TRUE, read)
              PROVE  \E t, ok, seen :
                         /\ Served(t) /\ Answer(ok, seen)
                         /\ t \in XSteps => ok = TRUE
                         /\ t \in DOMAIN Reads => \E n \in Nat : seen = <<n>>
            <4>1. s \notin DOMAIN Reads
                BY DEF Reads
            <4> QED
                BY <3>3, <4>1
        <3>4. CASE \/ Served("get_rules") /\ Answer(TRUE, <<{r \in rules : r.on}>>)
                   \/ Served("get_outbounds") /\ Answer(TRUE, <<outbounds>>)
            BY <3>3, <3>4, Zenon
        <3>5. ASSUME NEW s \in DOMAIN TableOf, Served(s), Answer(TRUE, <<xtab[TableOf[s]]>>)
              PROVE  \E t, ok, read :
                         /\ Served(t) /\ Answer(ok, read)
                         /\ t \in XSteps => ok = TRUE
                         /\ t \in DOMAIN Reads => \E n \in Nat : read = <<n>>
            <4>1. TableOf[s] \in XTables
                BY DEF TableOf, XTables
            <4>2. xtab[TableOf[s]] \in Nat
                BY <4>1 DEF Inv, Counted
            <4> QED
                BY <3>5, <4>2
        <3> QED
            BY <1>8, <3>1, <3>2, <3>4, <3>5, Zenon DEF Select
    <2>2. fifo # <<>> /\ Head(Job.todo) = s /\ UNCHANGED <<outbounds, rules, gone, xtab>>
        BY <1>8, <2>1 DEF Served, Select, tables
    <2>3. /\ At(h, XSteps) => ok = TRUE
          /\ At(h, DOMAIN Reads) => \E n \in Nat : read = <<n>>
        BY <1>1, <2>1, <2>2
    <2> HIDE DEF h
    <2>4. /\ Jobs' /\ Lines' /\ Wants' /\ Kids' /\ Reading'
          /\ Editing' = Editing \ {h}
          /\ UNCHANGED <<router, requests, handle, kids, file, unloaded, overlap, missed, faults>>
        BY <2>1, <2>2, <2>3, ServedKeeps DEF h
    <2>5. Counted'
        BY <2>2, <2>4, CountedKeeps
    <2>6. Rows'
        BY <2>2 DEF Inv, Rows
    <2>7. Scalars'
        BY <2>2, <2>4 DEF Inv, Scalars
    <2> QED
        BY <2>4, <2>5, <2>6, <2>7 DEF Inv
<1> QED
    BY <1>4, <1>5, <1>6, <1>7, <1>8 DEF Serve
-----------------------------------------------------------------------------
(* The jobs that go on *)

LEMMA ReadsIs ==
    /\ DOMAIN Reads = {"x_inbounds", "x_outbounds", "x_clients"}
    /\ Reads["x_inbounds"] = 0 /\ Reads["x_outbounds"] = 1 /\ Reads["x_clients"] = 2
BY DEF Reads

\* What follows a step: the reads of the Xray tables follow the start of Xray.
LEMMA NextRead ==
    ASSUME NEW t, Program(t), Tail(t) # <<>>, Head(Tail(t)) \in DOMAIN Reads
    PROVE  \/ Head(t) = "start" /\ Head(Tail(t)) = "x_inbounds"
           \/ Head(t) = "x_inbounds" /\ Head(Tail(t)) = "x_outbounds"
           \/ Head(t) = "x_outbounds" /\ Head(Tail(t)) = "x_clients"
<1>1. Head(Tail(t)) \in XSteps
    BY DEF Reads, XSteps, XStatements, Handling
<1>2. XProgram(t)
    BY <1>1, NextStep, ProgramHead
<1>3. Head(t) \in XSteps /\ Head(Tail(t)) \in XTo[Head(t)]
    BY <1>2, XRest
<1> QED
    BY <1>3, XToIs DEF XSteps, XStatements, Handling, Reads

\* A job that the event loop resumes.
LEMMA ResumedIs ==
    ASSUME Inv, ready # <<>>, NEW j, j = Head(ready)
    PROVE  /\ j \in Slots /\ ~Has(fifo, j) /\ Busy(j) /\ At(j, Statements)
           /\ Program(jobs[j].todo)
           /\ Tail(jobs[j].todo) = <<>> \/ Program(Tail(jobs[j].todo))
           /\ At(j, DOMAIN Reads) =>
                 jobs[j].seen \in Seq(Nat) /\ Len(jobs[j].seen) = Reads[Head(jobs[j].todo)] + 1
<1>1. ready \in Seq(Slots)
    BY DEF Inv, Lines
<1>2. j \in Slots /\ Has(ready, j)
    BY <1>1, QueueShrinks
<1>3. ~Has(fifo, j) /\ At(j, Statements)
    BY <1>2 DEF Inv, Lines
<1>4. Busy(j) /\ Program(jobs[j].todo)
    BY <1>2, <1>3 DEF At, Busy, Inv, Jobs
<1> QED
    BY <1>2, <1>3, <1>4, ProgramHead DEF Inv, Reading

\* A start that has read the tables writes the file and starts a process, or fails to.
LEMMA LaunchKeeps ==
    ASSUME Inv, NEW j, Launch(j), jobs[j].seen \in Seq(Nat), Len(jobs[j].seen) = 3
    PROVE  /\ Kids' /\ unloaded' = unloaded /\ overlap' = overlap /\ missed' \in BOOLEAN
           /\ faults' \in 0 .. MaxFaults
<1> DEFINE cfg == [inbounds |-> jobs[j].seen[1], outbounds |-> jobs[j].seen[2],
                   clients |-> jobs[j].seen[3]]
<1>1. cfg \in [XTables -> Int] /\ Broken \in [XTables -> Int] /\ file \in [XTables -> Int]
    BY DEF XTables, Broken, Inv, Kids
<1>2. Len(kids) < MaxKids /\ unloaded' = unloaded /\ overlap' = overlap
    BY DEF Launch
<1>3. \/ file' = cfg /\ UNCHANGED <<missed, faults>>
      \/ faults < MaxFaults /\ faults' = faults + 1 /\ file' \in {file, Broken} /\ missed' = TRUE
    BY DEF Launch
<1>4. \/ /\ kids' = Append(kids, [st |-> IF file' = Broken THEN "dead" ELSE "run", cfg |-> file'])
         /\ handle' = Len(kids')
      \/ UNCHANGED <<kids, handle>>
    BY DEF Launch
<1> HIDE DEF cfg
<1>5. file' \in [XTables -> Int] /\ missed' \in BOOLEAN /\ faults' \in 0 .. MaxFaults
    <2>1. missed \in BOOLEAN /\ faults \in 0 .. MaxFaults /\ MaxFaults \in Nat
        BY BoundsAssumption DEF Inv, Scalars
    <2>2. missed' \in BOOLEAN /\ file' \in [XTables -> Int]
        BY <1>1, <1>3, <2>1
    <2>3. faults' \in 0 .. MaxFaults
        BY <1>3, <2>1
    <2> QED
        BY <2>2, <2>3
<1>6. /\ kids \in Seq([st : {"run", "term", "dead"}, cfg : [XTables -> Int]])
      /\ Len(kids) <= MaxKids /\ handle \in 0 .. Len(kids)
    BY DEF Inv, Kids
<1>7. Kids'
    <2>1. CASE UNCHANGED <<kids, handle>>
        BY <1>5, <1>6, <2>1 DEF Kids
    <2>2. ASSUME NEW s \in {"run", "dead"}, kids' = Append(kids, [st |-> s, cfg |-> file']),
                 handle' = Len(kids')
          PROVE  Kids'
        <3> DEFINE kid == [st |-> s, cfg |-> file']
        <3>1. kid \in [st : {"run", "term", "dead"}, cfg : [XTables -> Int]]
            BY <1>5
        <3>2. kids' = Append(kids, kid)
            BY <2>2
        <3> HIDE DEF kid
        <3>3. /\ kids' \in Seq([st : {"run", "term", "dead"}, cfg : [XTables -> Int]])
              /\ Len(kids') = Len(kids) + 1 /\ Len(kids) \in Nat
            BY <1>6, <3>1, <3>2
        <3> QED
            BY <1>2, <1>5, <2>2, <3>3, BoundsAssumption DEF Kids
    <2> QED
        BY <1>4, <2>1, <2>2
<1> QED
    BY <1>2, <1>5, <1>7

LEMMA ResumeKeeps == ASSUME Inv, Resume PROVE Inv'
<1> DEFINE j == Head(ready)
           todo == IF jobs[j].ok THEN Tail(jobs[j].todo) ELSE <<>>
<1>1. /\ ready # <<>> /\ ready' = Tail(ready) /\ Goes(j, todo, jobs[j].seen)
      /\ UNCHANGED <<outbounds, rules, gone, xtab, requests>>
    BY DEF Resume, tables
<1>2. /\ j \in Slots /\ ~Has(fifo, j) /\ Busy(j) /\ At(j, Statements)
      /\ Program(jobs[j].todo)
      /\ Tail(jobs[j].todo) = <<>> \/ Program(Tail(jobs[j].todo))
      /\ At(j, DOMAIN Reads) =>
            jobs[j].seen \in Seq(Nat) /\ Len(jobs[j].seen) = Reads[Head(jobs[j].todo)] + 1
    BY <1>1, ResumedIs
<1>3. todo = <<>> \/ Program(todo)
    BY <1>2
<1>4. ASSUME todo # <<>>
      PROVE  /\ Head(todo) \notin {"x_edit", "delete_inbound_rules"}
             /\ Head(todo) = "delete_inbound" => At(j, {"delete_inbound_rules"})
             /\ Head(todo) \in XSteps <=> At(j, XSteps)
             /\ Head(todo) \in DOMAIN Reads =>
                    jobs[j].seen \in Seq(Nat) /\ Len(jobs[j].seen) = Reads[Head(todo)]
    <2>1. todo = Tail(jobs[j].todo)
        BY <1>4
    <2>2. /\ Head(todo) \notin {"x_edit", "delete_inbound_rules"}
          /\ Head(todo) = "delete_inbound" => Head(jobs[j].todo) = "delete_inbound_rules"
          /\ Head(todo) \in XSteps <=> Head(jobs[j].todo) \in XSteps
        BY <1>2, <1>4, <2>1, NextStep
    <2>3. ASSUME Head(todo) \in DOMAIN Reads
          PROVE  jobs[j].seen \in Seq(Nat) /\ Len(jobs[j].seen) = Reads[Head(todo)]
        <3>1. \/ Head(jobs[j].todo) = "start" /\ Head(todo) = "x_inbounds"
              \/ Head(jobs[j].todo) = "x_inbounds" /\ Head(todo) = "x_outbounds"
              \/ Head(jobs[j].todo) = "x_outbounds" /\ Head(todo) = "x_clients"
            BY <1>2, <1>4, <2>1, <2>3, NextRead
        <3>2. Head(jobs[j].todo) # "start"
            BY <1>2 DEF At, Statements, RouterStatements, XStatements
        <3>3. At(j, DOMAIN Reads)
            BY <1>2, <3>1, <3>2 DEF At, Reads
        <3>4. jobs[j].seen \in Seq(Nat) /\ Len(jobs[j].seen) = Reads[Head(jobs[j].todo)] + 1
            BY <1>2, <3>3
        <3>5. Reads[Head(jobs[j].todo)] + 1 = Reads[Head(todo)]
            <4> HIDE DEF todo, j
            <4> DEFINE a == Head(jobs[j].todo)
                       b == Head(todo)
            <4>1. \/ a = "x_inbounds" /\ b = "x_outbounds"
                  \/ a = "x_outbounds" /\ b = "x_clients"
                BY <3>1, <3>2
            <4> HIDE DEF a, b
            <4>2. Reads[a] + 1 = Reads[b]
                BY <4>1, ReadsIs
            <4> QED
                BY <4>2 DEF a, b
        <3> QED
            BY <3>4, <3>5
    <2> HIDE DEF todo, j
    <2> QED
        BY <1>2, <2>2, <2>3 DEF At
<1> HIDE DEF todo
<1>5. Jobs' /\ Lines' /\ Wants' /\ Reading' /\ Counted'
    <2> DEFINE seen == jobs[j].seen
    <2>1. /\ Goes(j, todo, seen)
          /\ todo # <<>> => /\ Head(todo) \notin {"x_edit", "delete_inbound_rules"}
                            /\ Head(todo) = "delete_inbound" => At(j, {"delete_inbound_rules"})
                            /\ Head(todo) \in XSteps <=> At(j, XSteps)
                            /\ Head(todo) \in DOMAIN Reads =>
                                   seen \in Seq(Nat) /\ Len(seen) = Reads[Head(todo)]
        BY <1>1, <1>4
    <2> HIDE DEF seen
    <2> QED
        BY <1>1, <1>2, <1>3, <2>1, GoesKeeps
<1>6. Rows'
    BY <1>1 DEF Inv, Rows
<1>7. Kids' /\ unloaded' = unloaded /\ overlap' = overlap /\ missed' \in BOOLEAN
      /\ faults' \in 0 .. MaxFaults
    <2>0. missed \in BOOLEAN /\ faults \in 0 .. MaxFaults
        BY DEF Inv, Scalars
    <2>1. CASE At(j, {"get_outbounds"})
        <3>1. ~At(j, {"x_clients"})
            BY <2>1 DEF At
        <3>2. UNCHANGED <<xray, history>>
            BY <2>1, <3>1 DEF Resume, Install
        <3> QED
            BY <2>0, <3>2 DEF xray, history, Inv, Kids
    <2>2. CASE ~At(j, {"get_outbounds"}) /\ At(j, {"x_clients"})
        <3>1. Launch(j)
            BY <2>2 DEF Resume, At
        <3>2. /\ jobs[j].seen \in Seq(Nat) /\ Len(jobs[j].seen) = 3
            <4>1. At(j, DOMAIN Reads) /\ Head(jobs[j].todo) = "x_clients"
                BY <2>2, ReadsIs DEF At
            <4>2. jobs[j].seen \in Seq(Nat) /\ Len(jobs[j].seen) = Reads[Head(jobs[j].todo)] + 1
                BY <1>2, <4>1
            <4> QED
                BY <4>1, <4>2, ReadsIs
        <3> QED
            BY <2>0, <3>1, <3>2, LaunchKeeps
    <2>3. CASE ~At(j, {"get_outbounds"}) /\ ~At(j, {"x_clients"})
        <3>1. UNCHANGED <<router, xray, history>>
            BY <2>3 DEF Resume
        <3> QED
            BY <2>0, <3>1 DEF xray, history, Inv, Kids
    <2> QED
        BY <2>1, <2>2, <2>3
<1>8. Scalars'
    BY <1>1, <1>7 DEF Inv, Scalars
<1> QED
    BY <1>5, <1>6, <1>7, <1>8 DEF Inv
-----------------------------------------------------------------------------
(* Xray *)

\* A job that takes a step of its own waits for no statement.
LEMMA StepIs ==
    ASSUME Inv, NEW j \in Slots, At(j, {"check", "start", "stop", "wait"})
    PROVE  /\ ~Has(fifo, j) /\ ~Has(ready, j) /\ Busy(j) /\ At(j, XSteps)
           /\ XProgram(jobs[j].todo) /\ Program(jobs[j].todo) /\ jobs[j].ok
<1>1. Busy(j) /\ Program(jobs[j].todo) /\ Head(jobs[j].todo) \in {"check", "start", "stop", "wait"}
    BY DEF At, Busy, Inv, Jobs
<1>2. Head(jobs[j].todo) \in XSteps /\ Head(jobs[j].todo) \notin Statements
    BY <1>1 DEF XSteps, XStatements, Handling, Statements, RouterStatements
<1>3. At(j, XSteps) /\ ~At(j, Statements)
    BY <1>1, <1>2 DEF At
<1>4. XProgram(jobs[j].todo)
    BY <1>1, <1>2, ProgramHead
<1> QED
    BY <1>1, <1>3, <1>4 DEF Inv, Lines, Reading

LEMMA StepKeeps ==
    ASSUME Inv, NEW j \in Slots, At(j, {"check", "start", "stop", "wait"}),
           NEW todo, Goes(j, todo, <<>>), UNCHANGED <<ready, xtab, requests>>,
           \/ todo = <<>>
           \/ XProgram(todo) /\ Head(todo) \in {"stop", "x_inbounds"}
    PROVE  Jobs' /\ Lines' /\ Wants' /\ Reading' /\ Counted'
<1>1. /\ ~Has(fifo, j) /\ ~Has(ready, j) /\ Busy(j) /\ At(j, XSteps)
    BY StepIs
<1>2. todo = <<>> \/ Program(todo)
    BY DEF Program
<1> DEFINE seen == <<>>
<1>3. todo # <<>> => /\ Head(todo) \notin {"x_edit", "delete_inbound_rules"}
                     /\ Head(todo) = "delete_inbound" => At(j, {"delete_inbound_rules"})
                     /\ Head(todo) \in XSteps <=> At(j, XSteps)
                     /\ Head(todo) \in DOMAIN Reads =>
                            seen \in Seq(Nat) /\ Len(seen) = Reads[Head(todo)]
    <2>1. ASSUME todo # <<>> PROVE Head(todo) \in {"stop", "x_inbounds"} /\ Head(todo) \in XSteps
        BY <2>1 DEF XSteps, XStatements, Handling
    <2>2. seen \in Seq(Nat) /\ Len(seen) = 0
        OBVIOUS
    <2>3. ASSUME todo # <<>>, Head(todo) \in DOMAIN Reads PROVE Reads[Head(todo)] = 0
        <3>1. Head(todo) = "x_inbounds"
            BY <2>1, <2>3, ReadsIs
        <3> QED
            BY <3>1, ReadsIs
    <2> HIDE DEF seen
    <2> QED
        BY <1>1, <2>1, <2>2, <2>3
<1>4. Goes(j, todo, seen)
    OBVIOUS
<1> HIDE DEF seen
<1> QED
    BY <1>1, <1>2, <1>3, <1>4, GoesKeeps

\* The end of a stop.
LEMMA StoppedKeeps ==
    ASSUME Inv, NEW j \in Slots, At(j, {"stop", "wait"}), Stopped(j),
           UNCHANGED <<ready, xtab, requests>>
    PROVE  Jobs' /\ Lines' /\ Wants' /\ Reading' /\ Counted'
<1> DEFINE rest == Tail(jobs[j].todo)
           todo == IF rest = <<>> THEN rest ELSE Tail(rest)
<1>1. At(j, {"check", "start", "stop", "wait"}) /\ Head(jobs[j].todo) \in {"stop", "wait"}
    BY DEF At
<1>2. XProgram(jobs[j].todo)
    BY <1>1, StepIs
<1>3. todo = <<>> \/ (XProgram(todo) /\ Head(todo) \in {"stop", "x_inbounds"})
    BY <1>1, <1>2, StopRest
<1>4. Goes(j, todo, <<>>)
    BY DEF Stopped
<1> HIDE DEF todo
<1> QED
    BY <1>1, <1>3, <1>4, StepKeeps

\* A stop that waits for the process.
LEMMA WaitingIs ==
    ASSUME NEW r, IsJob(r), NEW k
    PROVE  [r EXCEPT !.todo[1] = "wait", !.id = k]
               = [todo |-> [r.todo EXCEPT ![1] = "wait"], id |-> k, new |-> r.new,
                  seen |-> r.seen, ok |-> r.ok]
<1> DEFINE x == [r EXCEPT !.todo[1] = "wait"]
<1>1. x = [todo |-> [r.todo EXCEPT ![1] = "wait"], id |-> r.id, new |-> r.new,
           seen |-> r.seen, ok |-> r.ok]
    BY DEF IsJob
<1>2. [r EXCEPT !.todo[1] = "wait", !.id = k] = [x EXCEPT !.id = k]
    OBVIOUS
<1> HIDE DEF x
<1>3. [x EXCEPT !.id = k]
          = [todo |-> [r.todo EXCEPT ![1] = "wait"], id |-> k, new |-> r.new,
             seen |-> r.seen, ok |-> r.ok]
    BY <1>1
<1> QED
    BY <1>2, <1>3

LEMMA StopIsWait ==
    ASSUME Inv, NEW j \in Slots, At(j, {"stop"}), NEW k,
           jobs' = [jobs EXCEPT ![j].todo[1] = "wait", ![j].id = k]
    PROVE  /\ jobs'[j] = [todo |-> [jobs[j].todo EXCEPT ![1] = "wait"], id |-> k,
                          new |-> jobs[j].new, seen |-> jobs[j].seen, ok |-> jobs[j].ok]
           /\ XProgram(jobs'[j].todo) /\ Head(jobs'[j].todo) = "wait"
           /\ \A i \in Slots : i # j => jobs'[i] = jobs[i]
           /\ jobs' = [i \in Slots |-> jobs'[i]]
<1>1. jobs = [i \in Slots |-> jobs[i]] /\ IsJob(jobs[j])
    BY DEF Inv, Jobs
<1>2. [jobs[j] EXCEPT !.todo[1] = "wait", !.id = k]
          = [todo |-> [jobs[j].todo EXCEPT ![1] = "wait"], id |-> k,
             new |-> jobs[j].new, seen |-> jobs[j].seen, ok |-> jobs[j].ok]
    BY <1>1, WaitingIs
<1>3. jobs' = [jobs EXCEPT ![j] = [jobs[j] EXCEPT !.todo[1] = "wait", !.id = k]]
    BY <1>1
<1>4. jobs'[j] = [todo |-> [jobs[j].todo EXCEPT ![1] = "wait"], id |-> k,
                  new |-> jobs[j].new, seen |-> jobs[j].seen, ok |-> jobs[j].ok]
    BY <1>1, <1>2, <1>3
<1>5. At(j, {"check", "start", "stop", "wait"}) /\ Head(jobs[j].todo) = "stop"
    BY DEF At
<1>6. XProgram(jobs[j].todo)
    BY <1>5, StepIs
<1>7. XProgram(jobs'[j].todo) /\ Head(jobs'[j].todo) = "wait"
    BY <1>4, <1>5, <1>6, StopRest
<1> QED
    BY <1>1, <1>3, <1>4, <1>7

LEMMA WaitKeeps ==
    ASSUME Inv, NEW j \in Slots, At(j, {"stop"}), NEW k,
           jobs' = [jobs EXCEPT ![j].todo[1] = "wait", ![j].id = k],
           UNCHANGED <<fifo, ready, xtab, requests>>
    PROVE  Jobs' /\ Lines' /\ Wants' /\ Reading' /\ Counted'
<1>1. /\ jobs'[j] = [todo |-> [jobs[j].todo EXCEPT ![1] = "wait"], id |-> k,
                     new |-> jobs[j].new, seen |-> jobs[j].seen, ok |-> jobs[j].ok]
      /\ XProgram(jobs'[j].todo) /\ Head(jobs'[j].todo) = "wait"
      /\ \A i \in Slots : i # j => jobs'[i] = jobs[i]
      /\ jobs' = [i \in Slots |-> jobs'[i]]
    BY StopIsWait
<1>2. At(j, {"check", "start", "stop", "wait"})
    BY DEF At
<1>3. /\ ~Has(fifo, j) /\ ~Has(ready, j) /\ jobs[j].ok
    BY <1>2, StepIs
<1>4. \A i \in Slots : i # j => \A S : At(i, S)' <=> At(i, S)
    BY <1>1 DEF At, Busy
<1>5. jobs'[j].todo # <<>>
    BY <1>1 DEF XProgram
<1>6. \A S : At(j, S)' <=> "wait" \in S
    BY <1>1, <1>5 DEF At, Busy
<1>7. "wait" \notin Statements /\ "wait" \notin DOMAIN Reads
    BY ReadsIs DEF Statements, RouterStatements, XStatements
<1>8. Jobs'
    <2>1. IsJob(jobs'[j])
        BY <1>1 DEF IsJob
    <2>2. Program(jobs'[j].todo)
        BY <1>1 DEF Program
    <2> QED
        BY <1>1, <2>1, <2>2 DEF Inv, Jobs
<1>9. Lines'
    BY <1>3, <1>4, <1>6, <1>7 DEF Inv, Lines
<1>10. Wants'
    BY <1>1, <1>4, <1>6 DEF Inv, Wants
<1>11. Reading'
    <2>1. jobs'[j].ok
        BY <1>1, <1>3
    <2> QED
        BY <1>1, <1>4, <1>6, <1>7, <2>1 DEF Inv, Reading
<1>12. Counted'
    <2>1. Editing' \subseteq Editing
        BY <1>4, <1>6 DEF Editing
    <2> QED
        BY <2>1, CountedKeeps
<1> QED
    BY <1>8, <1>9, <1>10, <1>11, <1>12

Kid == [st : {"run", "term", "dead"}, cfg : [XTables -> Int]]

LEMMA KidEnds ==
    ASSUME Kids, NEW k \in DOMAIN kids, NEW s \in {"term", "dead"}, kids' = [kids EXCEPT ![k].st = s]
    PROVE  /\ kids' \in Seq(Kid) /\ Len(kids') = Len(kids)
           /\ \A i \in DOMAIN kids : kids'[i].cfg = kids[i].cfg
           /\ kids'[k].st = s /\ \A i \in DOMAIN kids : i # k => kids'[i] = kids[i]
<1>1. kids \in Seq(Kid)
    BY DEF Kids, Kid
<1>2. kids[k] \in Kid
    BY <1>1
<1> DEFINE x == [kids[k] EXCEPT !.st = s]
<1>3. x \in Kid /\ x.st = s /\ x.cfg = kids[k].cfg
    BY <1>2 DEF Kid
<1>4. kids' = [kids EXCEPT ![k] = x]
    OBVIOUS
<1> HIDE DEF x
<1>5. /\ kids' \in Seq(Kid) /\ Len(kids') = Len(kids) /\ DOMAIN kids' = DOMAIN kids
      /\ kids'[k] = x /\ \A i \in DOMAIN kids : i # k => kids'[i] = kids[i]
    BY <1>1, <1>3, <1>4
<1> QED
    BY <1>3, <1>5

LEMMA HandleIs ==
    ASSUME Kids
    PROVE  /\ DOMAIN kids = 1 .. Len(kids) /\ handle # 0 => handle \in DOMAIN kids
           /\ Alive(handle) => handle \in DOMAIN kids
<1>1. DOMAIN kids = 1 .. Len(kids) /\ handle \in 0 .. Len(kids) /\ Len(kids) \in Nat
    BY DEF Kids
<1> QED
    BY <1>1 DEF Alive

LEMMA ProcessKeeps == ASSUME Inv, Process PROVE Inv'
<1>0. overlap \in BOOLEAN /\ missed \in BOOLEAN
    BY DEF Inv, Scalars
<1>1. ASSUME UNCHANGED <<outbounds, rules, gone, xtab, requests, unloaded>>,
             overlap' \in BOOLEAN, missed' \in BOOLEAN,
             Jobs' /\ Lines' /\ Wants' /\ Reading' /\ Counted', Kids', faults' \in 0 .. MaxFaults
      PROVE  Inv'
    <2>1. Rows'
        BY <1>1 DEF Inv, Rows
    <2>2. Scalars'
        BY <1>1 DEF Inv, Scalars
    <2> QED
        BY <1>1, <2>1, <2>2 DEF Inv
<1>2. faults \in 0 .. MaxFaults /\ (faults < MaxFaults => faults + 1 \in 0 .. MaxFaults)
    BY BoundsAssumption DEF Inv, Scalars
<1>3. ASSUME NEW j \in Slots, Check(j) PROVE Inv'
    <2> DEFINE todo == IF Alive(handle) THEN Restart ELSE <<>>
    <2>1. /\ At(j, {"check"}) /\ Goes(j, todo, <<>>)
          /\ UNCHANGED <<outbounds, rules, gone, xtab, requests, unloaded, file, ready, faults, handle, kids>>
        BY <1>3 DEF Check, tables, xray
    <2>6. overlap' \in BOOLEAN /\ missed' \in BOOLEAN
        BY <1>0, <1>3, Zenon DEF Check, Overlaps
    <2>2. todo = <<>> \/ (XProgram(todo) /\ Head(todo) \in {"stop", "x_inbounds"})
        BY RestartIs
    <2> HIDE DEF todo
    <2>3. At(j, {"check", "start", "stop", "wait"})
        BY <2>1 DEF At
    <2>4. Jobs' /\ Lines' /\ Wants' /\ Reading' /\ Counted'
        BY <2>1, <2>2, <2>3, StepKeeps
    <2>5. Kids' /\ faults' \in 0 .. MaxFaults
        BY <1>2, <2>1 DEF Inv, Kids
    <2> QED
        BY <1>1, <2>1, <2>4, <2>5, <2>6
<1>4. ASSUME NEW j \in Slots, StartXray(j) PROVE Inv'
    <2> DEFINE todo == IF Alive(handle) THEN <<>> ELSE Tail(jobs[j].todo)
    <2>1. /\ At(j, {"start"}) /\ Goes(j, todo, <<>>)
          /\ UNCHANGED <<outbounds, rules, gone, xtab, requests, unloaded, file, ready, faults, handle, kids>>
        BY <1>4 DEF StartXray, tables, xray
    <2>7. overlap' \in BOOLEAN /\ missed' \in BOOLEAN
        BY <1>0, <1>4, Zenon DEF StartXray
    <2>2. At(j, {"check", "start", "stop", "wait"}) /\ Head(jobs[j].todo) = "start"
        BY <2>1 DEF At
    <2>3. XProgram(jobs[j].todo)
        BY <2>2, StepIs
    <2>4. todo = <<>> \/ (XProgram(todo) /\ Head(todo) \in {"stop", "x_inbounds"})
        BY <2>2, <2>3, XRest, XToIs
    <2> HIDE DEF todo
    <2>5. Jobs' /\ Lines' /\ Wants' /\ Reading' /\ Counted'
        BY <2>1, <2>2, <2>4, StepKeeps
    <2>6. Kids' /\ faults' \in 0 .. MaxFaults
        BY <1>2, <2>1 DEF Inv, Kids
    <2> QED
        BY <1>1, <2>1, <2>5, <2>6, <2>7
<1>5. ASSUME NEW j \in Slots, Stop(j) PROVE Inv'
    <2>1. /\ At(j, {"stop"})
          /\ UNCHANGED <<outbounds, rules, gone, xtab, requests, unloaded, file, ready, faults>>
        BY <1>5 DEF Stop, tables
    <2>2. faults' \in 0 .. MaxFaults
        BY <1>2, <2>1
    <2>5. overlap' \in BOOLEAN /\ missed' \in BOOLEAN
        BY <1>0, <1>5, Zenon DEF Stop, Stopped
    <2>3. CASE Alive(handle)
        <3>1. /\ kids' = [kids EXCEPT ![handle].st = "term"] /\ UNCHANGED <<fifo, handle>>
              /\ jobs' = [jobs EXCEPT ![j].todo[1] = "wait", ![j].id = handle]
            BY <1>5, <2>3 DEF Stop
        <3>2. Jobs' /\ Lines' /\ Wants' /\ Reading' /\ Counted'
            BY <2>1, <3>1, WaitKeeps
        <3>3. handle \in DOMAIN kids
            BY <2>3, HandleIs DEF Inv
        <3>4. kids' \in Seq(Kid) /\ Len(kids') = Len(kids)
            BY <3>1, <3>3, KidEnds DEF Inv
        <3>5. Kids'
            BY <2>1, <3>1, <3>4 DEF Inv, Kids, Kid
        <3> QED
            BY <1>1, <2>1, <2>2, <2>5, <3>2, <3>5
    <2>4. CASE ~Alive(handle)
        <3>1. Stopped(j) /\ UNCHANGED kids /\ handle' = 0
            BY <1>5, <2>4 DEF Stop, Stopped
        <3>2. At(j, {"stop", "wait"})
            BY <2>1 DEF At
        <3>3. Jobs' /\ Lines' /\ Wants' /\ Reading' /\ Counted'
            BY <2>1, <3>1, <3>2, StoppedKeeps
        <3>4. Kids'
            BY <2>1, <3>1 DEF Inv, Kids
        <3> QED
            BY <1>1, <2>1, <2>2, <2>5, <3>3, <3>4
    <2> QED
        BY <2>3, <2>4
<1>6. ASSUME NEW j \in Slots, WaitEnds(j) PROVE Inv'
    <2>1. /\ At(j, {"wait"}) /\ Stopped(j) /\ handle' = 0
          /\ UNCHANGED <<outbounds, rules, gone, xtab, requests, unloaded, file, ready, faults, kids>>
        BY <1>6 DEF WaitEnds, tables, Stopped
    <2>2. At(j, {"stop", "wait"})
        BY <2>1 DEF At
    <2>3. Jobs' /\ Lines' /\ Wants' /\ Reading' /\ Counted'
        BY <2>1, <2>2, StoppedKeeps
    <2>4. Kids' /\ faults' \in 0 .. MaxFaults
        BY <1>2, <2>1 DEF Inv, Kids
    <2>5. overlap' \in BOOLEAN /\ missed' \in BOOLEAN
        BY <1>0, <1>6, Zenon DEF WaitEnds, Stopped
    <2> QED
        BY <1>1, <2>1, <2>3, <2>4, <2>5
<1>7. ASSUME NEW j \in Slots, WaitFails(j) PROVE Inv'
    <2>1. /\ At(j, {"wait"}) /\ faults < MaxFaults /\ faults' = faults + 1
          /\ UNCHANGED <<outbounds, rules, gone, xtab, requests, unloaded, file, ready>>
        BY <1>7 DEF WaitFails, tables
    <2>2. faults' \in 0 .. MaxFaults
        BY <1>2, <2>1
    <2>5. overlap' \in BOOLEAN /\ missed' \in BOOLEAN
        BY <1>0, <1>7, Zenon DEF WaitFails, Stopped
    <2>3. CASE handle = 0
        <3>1. Goes(j, <<>>, <<>>) /\ UNCHANGED <<kids, handle>>
            BY <1>7, <2>3 DEF WaitFails
        <3>2. At(j, {"check", "start", "stop", "wait"})
            BY <2>1 DEF At
        <3>3. Jobs' /\ Lines' /\ Wants' /\ Reading' /\ Counted'
            BY <2>1, <3>1, <3>2, StepKeeps
        <3>4. Kids'
            BY <2>1, <3>1 DEF Inv, Kids
        <3> QED
            BY <1>1, <2>1, <2>2, <2>5, <3>3, <3>4
    <2>4. CASE handle # 0
        <3>1. Stopped(j) /\ kids' = [kids EXCEPT ![handle].st = "dead"] /\ handle' = 0
            BY <1>7, <2>4 DEF WaitFails, Stopped
        <3>2. At(j, {"stop", "wait"})
            BY <2>1 DEF At
        <3>3. Jobs' /\ Lines' /\ Wants' /\ Reading' /\ Counted'
            BY <2>1, <3>1, <3>2, StoppedKeeps
        <3>4. handle \in DOMAIN kids
            BY <2>4, HandleIs DEF Inv
        <3>5. kids' \in Seq(Kid) /\ Len(kids') = Len(kids)
            BY <3>1, <3>4, KidEnds DEF Inv
        <3>6. Len(kids) <= MaxKids /\ 0 \in 0 .. Len(kids) /\ file' \in [XTables -> Int]
            BY <2>1 DEF Inv, Kids
        <3>7. Kids'
            BY <3>1, <3>5, <3>6 DEF Kids, Kid
        <3> QED
            BY <1>1, <2>1, <2>2, <2>5, <3>3, <3>7
    <2> QED
        BY <2>3, <2>4
<1>8. ASSUME NEW k \in DOMAIN kids, Exit(k) PROVE Inv'
    <2>1. /\ kids' = [kids EXCEPT ![k].st = "dead"]
          /\ UNCHANGED <<outbounds, rules, gone, xtab, jobs, fifo, ready, requests, handle, file, unloaded,
                       overlap, missed>>
        BY <1>8 DEF Exit, tables
    <2>2. kids[k].st = "term" \/ faults < MaxFaults
        BY <1>8 DEF Exit
    <2>3. faults' \in 0 .. MaxFaults
        BY <1>2, <1>8 DEF Exit
    <2>4. kids' \in Seq(Kid) /\ Len(kids') = Len(kids)
        BY <2>1, KidEnds DEF Inv
    <2>5. Kids'
        BY <2>1, <2>4 DEF Inv, Kids, Kid
    <2>6. Jobs' /\ Lines' /\ Wants' /\ Reading' /\ Counted'
        <3>1. \A i : \A S : At(i, S)' <=> At(i, S)
            BY <2>1 DEF At, Busy
        <3>2. Jobs' /\ Lines' /\ Wants'
            BY <2>1, <3>1 DEF Inv, Jobs, Lines, Wants
        <3>3. Reading'
            BY <2>1, <3>1 DEF Inv, Reading
        <3>4. Editing' \subseteq Editing
            BY <2>1, <3>1 DEF Editing
        <3> QED
            BY <2>1, <3>2, <3>3, <3>4, CountedKeeps
    <2> QED
        BY <1>0, <1>1, <2>1, <2>3, <2>5, <2>6
<1> QED
    BY <1>3, <1>4, <1>5, <1>6, <1>7, <1>8 DEF Process

\* What follows a step of the panel thread.
HopIs(j) ==
    /\ Program(Tail(jobs[j].todo)) /\ ~At(j, XSteps) /\ ~At(j, Statements)
    /\ Head(Tail(jobs[j].todo)) \in RSteps \ Hops
    /\ Head(Tail(jobs[j].todo)) \notin XSteps \cup {"delete_inbound_rules", "delete_inbound"}
    /\ Head(Tail(jobs[j].todo)) =
           IF Head(jobs[j].todo) = "reload" THEN "get_rules" ELSE "toggle_rule"

LEMMA HopGoes ==
    ASSUME Inv, NEW j \in Slots, At(j, Hops)
    PROVE  HopIs(j)
<1>1. Busy(j) /\ Head(jobs[j].todo) \in Hops /\ Program(jobs[j].todo)
    BY DEF At, Busy, Inv, Jobs
<1>2. RProgram(jobs[j].todo)
    BY <1>1, ProgramHead
<1>3. Tail(jobs[j].todo) # <<>>
    BY <1>1, <1>2, RRest DEF Hops
<1>4. RProgram(Tail(jobs[j].todo)) /\ Head(Tail(jobs[j].todo)) \in RTo[Head(jobs[j].todo)]
    BY <1>2, <1>3, RRest
<1>5. RTo["reload"] = {"get_rules"} /\ RTo["toggle"] = {"toggle_rule"}
    BY DEF RTo, RSteps, RouterStatements, Hops
<1>6. Head(Tail(jobs[j].todo)) =
          IF Head(jobs[j].todo) = "reload" THEN "get_rules" ELSE "toggle_rule"
    BY <1>1, <1>4, <1>5 DEF Hops
<1>7. /\ Head(Tail(jobs[j].todo)) \in RSteps \ Hops
      /\ Head(Tail(jobs[j].todo)) \notin XSteps \cup {"delete_inbound_rules", "delete_inbound"}
    BY <1>6 DEF RSteps, RouterStatements, Hops, XSteps, XStatements, Handling
<1>8. ~At(j, XSteps) /\ ~At(j, Statements)
    BY <1>1, Steps DEF At
<1> QED
    BY <1>4, <1>6, <1>7, <1>8 DEF HopIs, Program

\* The thread of a request goes on, or gives up.
LEMMA ThreadKeeps == ASSUME Inv, Thread PROVE Inv'
<1>1. ASSUME NEW j \in Slots, NEW todo, NEW seen, Goes(j, todo, seen), Busy(j), ~At(j, Statements),
             \/ todo = <<>>
             \/ /\ Program(todo) /\ ~At(j, XSteps) /\ Head(todo) \notin XSteps
                /\ Head(todo) \notin {"delete_inbound_rules", "delete_inbound"},
             UNCHANGED <<outbounds, rules, gone, xtab, ready, requests, handle, kids, file, overlap>>,
             unloaded' \in BOOLEAN, missed' \in BOOLEAN, faults' \in 0 .. MaxFaults
      PROVE  Inv'
    <2>1. ~Has(fifo, j) /\ ~Has(ready, j)
        BY <1>1 DEF Inv, Lines
    <2>2. todo # <<>> => /\ Head(todo) \notin {"x_edit", "delete_inbound_rules"}
                         /\ Head(todo) = "delete_inbound" => At(j, {"delete_inbound_rules"})
                         /\ Head(todo) \in XSteps <=> At(j, XSteps)
                         /\ Head(todo) \in DOMAIN Reads =>
                                seen \in Seq(Nat) /\ Len(seen) = Reads[Head(todo)]
        BY <1>1, ReadsIs DEF XSteps, XStatements, Handling
    <2>3. Jobs' /\ Lines' /\ Wants' /\ Reading' /\ Counted'
        BY <1>1, <2>1, <2>2, GoesKeeps
    <2>4. Kids' /\ Rows'
        <3>1. Kids'
            BY <1>1 DEF Inv, Kids
        <3>2. Rows'
            BY <1>1 DEF Inv, Rows
        <3> QED
            BY <3>1, <3>2
    <2>5. Scalars'
        BY <1>1 DEF Inv, Scalars
    <2> QED
        BY <2>3, <2>4, <2>5 DEF Inv
<1>2. /\ faults \in 0 .. MaxFaults /\ (faults < MaxFaults => faults + 1 \in 0 .. MaxFaults)
      /\ missed \in BOOLEAN /\ unloaded \in BOOLEAN
    BY BoundsAssumption DEF Inv, Scalars
<1>3. ASSUME NEW j \in Slots, Hop(j) PROVE Inv'
    <2> DEFINE todo == Tail(jobs[j].todo)
               seen == jobs[j].seen
    <2>1. /\ At(j, Hops) /\ Goes(j, todo, seen)
          /\ UNCHANGED <<outbounds, rules, gone, xtab, ready, requests, handle, kids, file, overlap,
                         missed, faults>>
        BY <1>3 DEF Hop, Hops, tables, xray
    <2>2. unloaded' \in BOOLEAN
        BY <1>3, Zenon DEF Hop
    <2>3. HopIs(j)
        BY <2>1, HopGoes
    <2>4. Busy(j) /\ ~At(j, Statements)
        BY <2>1, Steps DEF At
    <2> HIDE DEF todo, seen
    <2>5. \/ todo = <<>>
          \/ /\ Program(todo) /\ ~At(j, XSteps) /\ Head(todo) \notin XSteps
             /\ Head(todo) \notin {"delete_inbound_rules", "delete_inbound"}
        BY <2>3 DEF HopIs, todo
    <2> QED
        BY <1>1, <1>2, <2>1, <2>2, <2>4, <2>5
<1>4. ASSUME NEW j \in Slots, GiveUp(j) PROVE Inv'
    <2>1. /\ At(j, Hops \cup {"check"}) /\ Goes(j, <<>>, <<>>) /\ faults < MaxFaults
          /\ faults' = faults + 1
          /\ UNCHANGED <<outbounds, rules, gone, xtab, ready, requests, handle, kids, file, overlap>>
        BY <1>4 DEF GiveUp, Hops, tables, xray
    <2>2. unloaded' \in BOOLEAN /\ missed' \in BOOLEAN
        BY <1>4, Zenon DEF GiveUp
    <2>3. Busy(j) /\ ~At(j, Statements)
        BY <2>1, Steps DEF At
    <2> DEFINE todo == <<>>
               seen == <<>>
    <2>4. Goes(j, todo, seen) /\ todo = <<>>
        BY <2>1
    <2> HIDE DEF todo, seen
    <2> QED
        BY <1>1, <1>2, <2>1, <2>2, <2>3, <2>4
<1> QED
    BY <1>3, <1>4 DEF Thread
-----------------------------------------------------------------------------
(* The types *)

LEMMA InitInv == ASSUME Init PROVE Inv
<1> USE DEF Init
<1>1. \A j \in Slots : jobs[j] = Idle /\ ~Busy(j) /\ \A S : ~At(j, S)
    BY DEF Busy, At, Idle
<1>2. Jobs
    <2>1. IsJob(Idle) /\ Idle.todo = <<>>
        BY IdleIs
    <2> QED
        BY <1>1, <2>1 DEF Jobs
<1>3. Lines
    BY <1>1, QueueEmpty DEF Lines
<1>4. Wants /\ Reading
    BY <1>1 DEF Wants, Reading
<1>5. Counted
    <2>1. Editing = {}
        BY <1>1 DEF Editing
    <2>2. Cardinality(Editing) = 0
        BY <2>1, FS_EmptySet
    <2> QED
        BY <2>2 DEF Counted
<1>6. Kids
    <2> DEFINE kid == [st |-> "run", cfg |-> xtab]
    <2>1. xtab \in [XTables -> Int] /\ kids = <<kid>> /\ file = xtab
        OBVIOUS
    <2>2. kid \in Kid
        BY <2>1 DEF Kid
    <2> HIDE DEF kid
    <2>3. kids \in Seq(Kid) /\ Len(kids) = 1
        BY <2>1, <2>2
    <2> QED
        BY <2>1, <2>3, BoundsAssumption DEF Kids, Kid
<1>7. Rows
    <2> DEFINE a == [id |-> 0, tag |-> "direct", kind |-> "direct", via |-> None]
               b == [id |-> 1, tag |-> "x", kind |-> "direct", via |-> None]
               r == [id |-> 1, ord |-> 0, tag |-> "x", inb |-> None, on |-> TRUE]
    <2>1. outbounds = {a, b} /\ rules = {r} /\ a.tag = "direct" /\ b.tag = "x"
        OBVIOUS
    <2>2. IsRule(r) /\ r.id = 1 /\ r.tag = "x"
        BY DEF IsRule
    <2> HIDE DEF a, b, r
    <2>3. IsFiniteSet({a, b}) /\ IsFiniteSet({r})
        <3>1. {a, b} = {a} \cup {b}
            OBVIOUS
        <3>2. IsFiniteSet({a}) /\ IsFiniteSet({r})
            BY FS_Singleton
        <3>3. IsFiniteSet({a} \cup {b})
            BY <3>2, FS_AddElement
        <3> QED
            BY <3>1, <3>2, <3>3
    <2>4. \A o, p \in {a, b} : o.tag = p.tag => o = p
        BY <2>1
    <2>5. /\ \A q, s \in {r} : q.id = s.id => q = s
          /\ \A q \in {r} : IsRule(q) /\ q.id \in Nat /\ q.id <= 1 /\ \E o \in {a, b} : o.tag = q.tag
        BY <2>1, <2>2
    <2>6. \E n \in Nat : \A q \in {r} : q.id <= n
        BY <2>5
    <2>7. outbounds = {a, b} /\ rules = {r}
        BY <2>1
    <2> QED
        BY <2>3, <2>4, <2>5, <2>6, <2>7 DEF Rows
<1>8. Scalars
    <2>1. gone \subseteq InboundTags /\ requests \in 0 .. MaxRequests /\ faults \in 0 .. MaxFaults
        BY BoundsAssumption
    <2>2. unloaded \in BOOLEAN /\ overlap \in BOOLEAN /\ missed \in BOOLEAN
        OBVIOUS
    <2> QED
        BY <2>1, <2>2 DEF Scalars
<1> QED
    BY <1>2, <1>3, <1>4, <1>5, <1>6, <1>7, <1>8 DEF Inv

LEMMA StutterInv == ASSUME Inv, UNCHANGED vars PROVE Inv'
<1>1. UNCHANGED <<outbounds, rules, gone, xtab, router, jobs, fifo, ready, requests, handle, kids,
                  file, unloaded, overlap, missed, faults>>
    BY DEF vars, tables, xray, history
<1>2. \A i : \A S : At(i, S)' <=> At(i, S)
    BY <1>1 DEF At, Busy
<1>3. Jobs' /\ Lines' /\ Wants'
    BY <1>1, <1>2 DEF Inv, Jobs, Lines, Wants
<1>4. Reading'
    BY <1>1, <1>2 DEF Inv, Reading
<1>5. Counted'
    <2>1. Editing' = Editing
        BY <1>1, <1>2 DEF Editing
    <2> QED
        BY <1>1, <2>1, CountedKeeps
<1>6. Kids' /\ Rows' /\ Scalars'
    BY <1>1 DEF Inv, Kids, Rows, Scalars
<1> QED
    BY <1>3, <1>4, <1>5, <1>6 DEF Inv

LEMMA InvHolds == Spec => []Inv
<1>1. Init => Inv
    BY InitInv
<1>2. Inv /\ [Next]_vars => Inv'
    BY BeginKeeps, ServeKeeps, ResumeKeeps, ThreadKeeps, ProcessKeeps, StutterInv DEF Next
<1> QED
    BY <1>1, <1>2, PTL DEF Spec

LEMMA AsMany ==
    ASSUME NEW S, IsFiniteSet(S), NEW f, f = [x \in S |-> f[x]],
           \A x, y \in S : f[x] = f[y] => x = y
    PROVE  Cardinality({f[x] : x \in S}) = Cardinality(S)
<1> DEFINE T == {f[x] : x \in S}
<1>1. f \in [S -> T]
    OBVIOUS
<1>2. \A t \in T : \E x \in S : f[x] = t
    OBVIOUS
<1> HIDE DEF T
<1>3. f \in Surjection(S, T) /\ f \in Injection(S, T)
    BY <1>1, <1>2 DEF Surjection, Injection, IsInjective
<1>4. Cardinality(T) = Cardinality(S)
    BY <1>3, FS_Surjection
<1> QED
    BY <1>4 DEF T

LEMMA TypeFromInv == ASSUME Inv PROVE TypeOK
<1>1. Cardinality({o.tag : o \in outbounds}) = Cardinality(outbounds)
    <2> DEFINE f == [o \in outbounds |-> o.tag]
    <2>1. {o.tag : o \in outbounds} = {f[x] : x \in outbounds} /\ f = [x \in outbounds |-> f[x]]
        OBVIOUS
    <2>2. IsFiniteSet(outbounds) /\ \A o, p \in outbounds : f[o] = f[p] => o = p
        BY DEF Inv, Rows
    <2> HIDE DEF f
    <2>3. Cardinality({f[x] : x \in outbounds}) = Cardinality(outbounds)
        BY <2>1, <2>2, AsMany
    <2> QED
        BY <2>1, <2>3
<1>2. Cardinality({r.id : r \in rules}) = Cardinality(rules)
    <2> DEFINE f == [r \in rules |-> r.id]
    <2>1. {r.id : r \in rules} = {f[x] : x \in rules} /\ f = [x \in rules |-> f[x]]
        OBVIOUS
    <2>2. IsFiniteSet(rules) /\ \A r, s \in rules : f[r] = f[s] => r = s
        BY DEF Inv, Rows
    <2> HIDE DEF f
    <2>3. Cardinality({f[x] : x \in rules}) = Cardinality(rules)
        BY <2>1, <2>2, AsMany
    <2> QED
        BY <2>1, <2>3
<1>3. \A r \in rules : ByTag(outbounds, r.tag) # {}
    BY DEF Inv, Rows, ByTag
<1>4. xtab \in [XTables -> 0 .. MaxRequests]
    <2>1. requests \in Nat /\ requests <= MaxRequests /\ MaxRequests \in Nat
        BY BoundsAssumption DEF Inv, Scalars
    <2>2. Cardinality(Editing) \in Nat
        BY EditingFinite, FS_CardinalityType
    <2>3. xtab \in [XTables -> Nat] /\ \A t \in XTables : xtab[t] + Cardinality(Editing) <= requests
        BY DEF Inv, Counted
    <2>4. \A t \in XTables : xtab[t] \in 0 .. MaxRequests
        BY <2>1, <2>2, <2>3
    <2> QED
        BY <2>3, <2>4
<1>5. IsInjective(fifo \o ready) /\ ToSet(fifo \o ready) = {j \in Slots : At(j, Statements)}
    <2> DEFINE s == fifo \o ready
    <2>1. fifo \in Seq(Slots) /\ ready \in Seq(Slots) /\ Distinct(fifo) /\ Distinct(ready)
        BY DEF Inv, Lines
    <2>2. /\ s \in Seq(Slots) /\ Len(s) = Len(fifo) + Len(ready) /\ Len(fifo) \in Nat /\ Len(ready) \in Nat
          /\ \A i \in 1 .. Len(fifo) : s[i] = fifo[i]
          /\ \A i \in 1 .. Len(ready) : s[Len(fifo) + i] = ready[i]
        BY <2>1, ConcatIs
    <2> HIDE DEF s
    <2>3. DOMAIN s = 1 .. Len(s)
        BY <2>2
    <2>4. \A i \in 1 .. Len(s) :
              \/ i \in 1 .. Len(fifo)
              \/ i - Len(fifo) \in 1 .. Len(ready) /\ i = Len(fifo) + (i - Len(fifo))
        BY <2>2
    <2>5. \A i \in 1 .. Len(fifo) : i \in 1 .. Len(s)
        BY <2>2
    <2>6. \A i \in 1 .. Len(ready) : Len(fifo) + i \in 1 .. Len(s)
        BY <2>2
    <2>7. \A x : (\E i \in DOMAIN s : s[i] = x) <=> Has(fifo, x) \/ Has(ready, x)
        <3>1. ASSUME NEW i \in 1 .. Len(s) PROVE Has(fifo, s[i]) \/ Has(ready, s[i])
            BY <2>2, <2>4 DEF Has
        <3>2. ASSUME NEW x, Has(fifo, x) PROVE \E i \in 1 .. Len(s) : s[i] = x
            BY <2>2, <2>5, <3>2 DEF Has
        <3>3. ASSUME NEW x, Has(ready, x) PROVE \E i \in 1 .. Len(s) : s[i] = x
            BY <2>2, <2>6, <3>3 DEF Has
        <3> QED
            BY <2>3, <3>1, <3>2, <3>3
    <2>8. \A x : Has(fifo, x) \/ Has(ready, x) => x \in Slots
        BY <2>1 DEF Has
    <2>9. ToSet(s) = {j \in Slots : At(j, Statements)}
        <3>1. \A x : x \in ToSet(s) <=> Has(fifo, x) \/ Has(ready, x)
            BY <2>7 DEF ToSet
        <3>2. \A x : x \in ToSet(s) <=> x \in Slots /\ At(x, Statements)
            BY <2>8, <3>1 DEF Inv, Lines
        <3> QED
            BY <3>2
    <2>10. IsInjective(s)
        <3> SUFFICES ASSUME NEW i \in 1 .. Len(s), NEW k \in 1 .. Len(s), s[i] = s[k]
                     PROVE  i = k
            BY <2>3 DEF IsInjective
        <3>1. ~(Has(fifo, s[i]) /\ Has(ready, s[i]))
            <4>1. s[i] \in Slots
                BY <2>2
            <4> QED
                BY <4>1 DEF Inv, Lines
        <3>2. CASE i \in 1 .. Len(fifo) /\ k \in 1 .. Len(fifo)
            BY <2>1, <2>2, <3>2 DEF Distinct
        <3>3. CASE i \in 1 .. Len(fifo) /\ k \notin 1 .. Len(fifo)
            <4>1. Has(fifo, s[i]) /\ Has(ready, s[k])
                BY <2>2, <2>4, <3>3 DEF Has
            <4> QED
                BY <3>1, <4>1
        <3>4. CASE i \notin 1 .. Len(fifo) /\ k \in 1 .. Len(fifo)
            <4>1. Has(fifo, s[k]) /\ Has(ready, s[i])
                BY <2>2, <2>4, <3>4 DEF Has
            <4> QED
                BY <3>1, <4>1
        <3>5. CASE i \notin 1 .. Len(fifo) /\ k \notin 1 .. Len(fifo)
            <4>1. /\ i - Len(fifo) \in 1 .. Len(ready) /\ k - Len(fifo) \in 1 .. Len(ready)
                  /\ i = Len(fifo) + (i - Len(fifo)) /\ k = Len(fifo) + (k - Len(fifo))
                BY <2>4, <3>5
            <4>2. ready[i - Len(fifo)] = s[i] /\ ready[k - Len(fifo)] = s[k]
                BY <2>2, <4>1
            <4>3. i - Len(fifo) = k - Len(fifo)
                BY <2>1, <4>1, <4>2 DEF Distinct
            <4> QED
                BY <4>1, <4>3
        <3> QED
            BY <3>2, <3>3, <3>4, <3>5
    <2> QED
        BY <2>9, <2>10 DEF s
<1>6. \A k \in DOMAIN kids : kids[k].st \in {"run", "term", "dead"}
    <2>1. kids \in Seq(Kid) /\ DOMAIN kids = 1 .. Len(kids)
        BY DEF Inv, Kids, Kid
    <2>2. \A k \in DOMAIN kids : kids[k] \in Kid
        BY <2>1
    <2> QED
        BY <2>2 DEF Kid
<1> QED
    <2>1. gone \subseteq InboundTags /\ requests \in 0 .. MaxRequests
          /\ {unloaded, overlap, missed} \subseteq BOOLEAN /\ faults \in 0 .. MaxFaults
        BY DEF Inv, Scalars
    <2>2. fifo \in Seq(Slots) /\ ready \in Seq(Slots)
        BY DEF Inv, Lines
    <2>3. handle \in 0 .. Len(kids) /\ Len(kids) <= MaxKids
        BY DEF Inv, Kids
    <2> QED
        BY <1>1, <1>2, <1>3, <1>4, <1>5, <1>6, <2>1, <2>2, <2>3 DEF TypeOK

\* The tags of outbounds and the ids of rules are unique, every rule names an outbound,
\* and a job waits once, in the line of the connection or of the event loop, exactly
\* while a statement is its next step.
THEOREM TypesHold == Spec => []TypeOK
<1>1. Inv => TypeOK
    BY TypeFromInv
<1> QED
    BY <1>1, InvHolds, PTL
-----------------------------------------------------------------------------
(* The tables of Xray, and their order *)

Order == [i \in 1 .. 3 |-> CASE i = 1 -> "inbounds" [] i = 2 -> "outbounds" [] OTHER -> "clients"]

LEMMA TablesAre ==
    /\ DOMAIN TableOf = {"x_inbounds", "x_outbounds", "x_clients"}
    /\ TableOf["x_inbounds"] = "inbounds" /\ TableOf["x_outbounds"] = "outbounds"
    /\ TableOf["x_clients"] = "clients"
    /\ Order[1] = "inbounds" /\ Order[2] = "outbounds" /\ Order[3] = "clients"
    /\ XSteps = {"x_edit", "x_commit", "x_inbounds", "x_outbounds", "x_clients",
                 "check", "stop", "wait", "start"}
BY DEF TableOf, Order, XSteps, XStatements, Handling

-----------------------------------------------------------------------------
(* Reloads and edits *)

\* The rules of an inbound do not count once its deletion has deleted them.
Deleting(j) == At(j, {"delete_inbound"}) \/ (At(j, {"delete_inbound_rules"}) /\ Has(ready, j))
Doomed(t) == t \in gone \/ \E j \in Slots : Deleting(j) /\ jobs[j].new = t
RulesCurrent(rs) ==
    \A r \in rs \cup rules : r.on /\ ~Doomed(r.inb) => r \in rs /\ r \in rules

\* A reload that has read the rules, and one that has read the outbounds too.
HasRules(j) == At(j, {"get_outbounds"}) \/ (At(j, {"get_rules"}) /\ Has(ready, j))
HasBoth(j) == At(j, {"get_outbounds"}) /\ Has(ready, j)
RulesRead(j) == LET s == jobs[j].seen IN s[IF HasBoth(j) THEN Len(s) - 1 ELSE Len(s)]
OutboundsRead(j) == LET s == jobs[j].seen IN s[Len(s)]
Current(j) == RulesCurrent(RulesRead(j)) /\ (HasBoth(j) => OutboundsRead(j) = outbounds)

\* What the connection served, or answered, first.
Before(s, x, y) == \E i, k \in 1 .. Len(s) : i < k /\ s[i] = x /\ s[k] = y
Sooner(i, j) == Before(ready, i, j) \/ (Has(ready, i) /\ Has(fifo, j)) \/ Before(fifo, i, j)

\* The reload of an edit that took effect is to come; one of an edit whose tables it has
\* read is past, when it comes to that.
Effective(j) == Has(ready, j) /\ At(j, Edits) /\ jobs[j].ok
Due(j) ==
    /\ RProgram(jobs[j].todo)
    /\ Effective(j) \/ At(j, {"order_rule", "commit", "rowid", "reload", "get_rules", "get_outbounds"})
Ahead(i, j) ==
    /\ RProgram(jobs[j].todo)
    /\ \/ Effective(j) /\ (At(i, {"get_outbounds"}) \/ Sooner(i, j))
       \/ At(j, {"order_rule", "commit"}) /\ At(i, {"get_outbounds"}) /\ Sooner(i, j)

\* A reload that is to install what is not current any more is ahead of one that is
\* to read anew.
StaleIsAhead == \A i \in Slots : HasRules(i) => Current(i) \/ \E j \in Slots : Ahead(i, j)
RouterFollows ==
    \/ unloaded
    \/ \E j \in Slots : Due(j)
    \/ router.outbounds = outbounds /\ RulesCurrent(router.rules)
    \/ \E o \in outbounds : o.kind = "bad"

\* A job that reloads, or deletes an inbound, goes on to its end.
Sure == {"order_rule", "commit", "rowid", "get_rules", "get_outbounds", "delete_inbound_rules",
         "delete_inbound"}
Answered(j) ==
    /\ Has(ready, j) /\ At(j, Sure) => jobs[j].ok
    /\ Has(ready, j) /\ At(j, {"delete_inbound"}) => jobs[j].new \in gone
    /\ \E S : jobs[j].seen \in Seq(S)
    /\ HasRules(j) => Len(jobs[j].seen) > 0
    /\ HasBoth(j) => Len(jobs[j].seen) > 1

Follows == StaleIsAhead /\ RouterFollows /\ \A j \in Slots : Answered(j)

-----------------------------------------------------------------------------
(* The order in the lines *)

LEMMA BeforeGrows ==
    ASSUME NEW s \in Seq(Slots), NEW z \in Slots, NEW x, NEW y
    PROVE  /\ Before(s, x, y) => Before(Append(s, z), x, y)
           /\ Has(s, x) => Before(Append(s, z), x, z)
<1>1. /\ Len(Append(s, z)) = Len(s) + 1 /\ Len(s) \in Nat
      /\ \A i \in 1 .. Len(s) : Append(s, z)[i] = s[i]
      /\ Append(s, z)[Len(s) + 1] = z
    OBVIOUS
<1>2. \A i \in 1 .. Len(s) : i \in 1 .. Len(s) + 1 /\ i < Len(s) + 1
    BY <1>1
<1>3. Len(s) + 1 \in 1 .. Len(s) + 1
    BY <1>1
<1>4. Before(s, x, y) => Before(Append(s, z), x, y)
    BY <1>1, <1>2 DEF Before
<1>5. Has(s, x) => Before(Append(s, z), x, z)
    BY <1>1, <1>2, <1>3 DEF Before, Has
<1> QED
    BY <1>4, <1>5

LEMMA BeforeShrinks ==
    ASSUME NEW s \in Seq(Slots), s # <<>>, Distinct(s), NEW x, NEW y, Before(s, x, y)
    PROVE  /\ y # Head(s) /\ Has(s, x) /\ Has(Tail(s), y)
           /\ x # Head(s) => Before(Tail(s), x, y)
<1>1. /\ Len(s) \in Nat \ {0} /\ Len(Tail(s)) = Len(s) - 1 /\ Head(s) = s[1]
      /\ \A i \in 1 .. Len(s) - 1 : Tail(s)[i] = s[i + 1]
    OBVIOUS
<1>2. PICK i, k \in 1 .. Len(s) : i < k /\ s[i] = x /\ s[k] = y
    BY DEF Before
<1>3. /\ k # 1 /\ k - 1 \in 1 .. Len(s) - 1 /\ (k - 1) + 1 = k /\ 1 \in 1 .. Len(s)
      /\ i = 1 \/ (i - 1 \in 1 .. Len(s) - 1 /\ (i - 1) + 1 = i /\ i - 1 < k - 1)
    BY <1>1, <1>2
<1>4. y # Head(s)
    BY <1>1, <1>2, <1>3 DEF Distinct
<1>5. Has(s, x) /\ Has(Tail(s), y)
    BY <1>1, <1>2, <1>3 DEF Has
<1>6. ASSUME x # Head(s) PROVE Before(Tail(s), x, y)
    <2>1. i - 1 \in 1 .. Len(Tail(s)) /\ k - 1 \in 1 .. Len(Tail(s)) /\ i - 1 < k - 1
        BY <1>1, <1>2, <1>3, <1>6
    <2>2. Tail(s)[i - 1] = x /\ Tail(s)[k - 1] = y
        BY <1>1, <1>2, <1>3, <1>6
    <2> QED
        BY <2>1, <2>2 DEF Before
<1> QED
    BY <1>4, <1>5, <1>6

\* The order is that of the lines, and of the answers.
LEMMA ServedInOrder ==
    ASSUME Lines, fifo # <<>>, fifo' = Tail(fifo), ready' = Append(ready, Head(fifo)),
           NEW i, NEW j, Sooner(i, j)
    PROVE  Sooner(i, j)'
<1>1. /\ fifo \in Seq(Slots) /\ ready \in Seq(Slots) /\ Distinct(fifo)
      /\ Head(fifo) \in Slots
      /\ \A y : Has(fifo, y) => Has(fifo', y) \/ y = Head(fifo)
      /\ \A y : Has(ready', y) <=> Has(ready, y) \/ y = Head(fifo)
    <2>1. fifo \in Seq(Slots) /\ ready \in Seq(Slots) /\ Distinct(fifo)
        BY DEF Lines
    <2>2. Head(fifo) \in Slots
        BY <2>1, QueueShrinks
    <2> QED
        BY <2>1, <2>2, QueueShrinks, QueueGrows
<1>2. CASE Before(ready, i, j)
    BY <1>1, <1>2, BeforeGrows DEF Sooner
<1>3. CASE Has(ready, i) /\ Has(fifo, j)
    BY <1>1, <1>3, BeforeGrows DEF Sooner
<1>4. CASE Before(fifo, i, j)
    <2>1. Has(fifo', j) /\ (i # Head(fifo) => Before(fifo', i, j))
        BY <1>1, <1>4, BeforeShrinks
    <2> QED
        BY <1>1, <2>1 DEF Sooner
<1> QED
    BY <1>2, <1>3, <1>4 DEF Sooner

LEMMA ResumedInOrder ==
    ASSUME Lines, ready # <<>>, ready' = Tail(ready),
           fifo' = fifo \/ \E k \in Slots : fifo' = Append(fifo, k), NEW i, NEW j, Sooner(i, j)
    PROVE  j # Head(ready) /\ (i # Head(ready) => Sooner(i, j)')
<1>1. /\ fifo \in Seq(Slots) /\ ready \in Seq(Slots) /\ Distinct(ready)
      /\ \A y : Has(ready, y) <=> Has(ready', y) \/ y = Head(ready)
      /\ Head(ready) \in Slots /\ ~Has(fifo, Head(ready))
      /\ \A y : Has(fifo, y) => Has(fifo', y)
      /\ Before(fifo, i, j) => Before(fifo', i, j)
    <2>1. fifo \in Seq(Slots) /\ ready \in Seq(Slots) /\ Distinct(ready)
        BY DEF Lines
    <2>2. /\ \A y : Has(ready, y) <=> Has(ready', y) \/ y = Head(ready)
          /\ Head(ready) \in Slots /\ Has(ready, Head(ready))
        BY <2>1, QueueShrinks
    <2>3. ~Has(fifo, Head(ready))
        BY <2>2 DEF Lines
    <2>4. \A y : Has(fifo, y) => Has(fifo', y)
        <3>1. CASE fifo' = fifo
            BY <3>1
        <3>2. ASSUME NEW k \in Slots, fifo' = Append(fifo, k)
              PROVE  \A y : Has(fifo, y) => Has(fifo', y)
            <4>1. \A y : Has(Append(fifo, k), y) <=> Has(fifo, y) \/ y = k
                BY <2>1, QueueGrows
            <4> QED
                BY <3>2, <4>1
        <3> QED
            BY <3>1, <3>2
    <2>5. Before(fifo, i, j) => Before(fifo', i, j)
        BY <2>1, BeforeGrows
    <2> QED
        BY <2>1, <2>2, <2>3, <2>4, <2>5
<1>2. CASE Before(ready, i, j)
    BY <1>1, <1>2, BeforeShrinks DEF Sooner
<1>3. CASE Has(ready, i) /\ Has(fifo, j)
    BY <1>1, <1>3 DEF Sooner
<1>4. CASE Before(fifo, i, j)
    <2>1. Has(fifo, j)
        BY <1>4 DEF Before, Has
    <2> QED
        BY <1>1, <1>4, <2>1 DEF Sooner
<1> QED
    BY <1>2, <1>3, <1>4 DEF Sooner

LEMMA QueuedInOrder ==
    ASSUME Lines, ready' = ready,
           fifo' = fifo \/ \E k \in Slots : fifo' = Append(fifo, k), NEW i, NEW j, Sooner(i, j)
    PROVE  Sooner(i, j)'
<1>1. fifo \in Seq(Slots)
    BY DEF Lines
<1>2. \A y : Has(fifo, y) => Has(fifo', y)
    BY <1>1, QueueGrows
<1>3. Before(fifo, i, j) => Before(fifo', i, j)
    BY <1>1, BeforeGrows
<1> QED
    BY <1>2, <1>3 DEF Sooner
-----------------------------------------------------------------------------
(* One job moves *)

Moves(j) ==
    /\ \A i \in Slots \ {j} :
          jobs'[i] = jobs[i] /\ (Has(fifo', i) <=> Has(fifo, i)) /\ (Has(ready', i) <=> Has(ready, i))
    /\ \A i, k \in Slots \ {j} : Sooner(i, k) => Sooner(i, k)'

LEMMA OthersStay ==
    ASSUME NEW j \in Slots, Moves(j), NEW i \in Slots, i # j
    PROVE  /\ jobs'[i] = jobs[i]
           /\ \A S : At(i, S)' <=> At(i, S)
           /\ HasRules(i)' <=> HasRules(i)
           /\ HasBoth(i)' <=> HasBoth(i)
           /\ Effective(i)' <=> Effective(i)
           /\ Due(i)' <=> Due(i)
           /\ Deleting(i)' <=> Deleting(i)
           /\ RulesRead(i)' = RulesRead(i) /\ OutboundsRead(i)' = OutboundsRead(i)
           /\ gone \subseteq gone' /\ Answered(i) => Answered(i)'
           /\ \A k \in Slots \ {j} : Ahead(i, k) => Ahead(i, k)'
<1>1. /\ \A k \in Slots \ {j} : /\ jobs'[k] = jobs[k] /\ (Has(fifo', k) <=> Has(fifo, k))
                                /\ Has(ready', k) <=> Has(ready, k)
                                /\ \A S : At(k, S)' <=> At(k, S)
      /\ \A k, l \in Slots \ {j} : Sooner(k, l) => Sooner(k, l)'
    BY DEF Moves, At, Busy
<1>2. /\ HasRules(i)' <=> HasRules(i)
      /\ HasBoth(i)' <=> HasBoth(i)
      /\ Deleting(i)' <=> Deleting(i)
    BY <1>1 DEF HasRules, HasBoth, Deleting
<1>3. \A k \in Slots \ {j} : Effective(k)' <=> Effective(k)
    <2>1. Edits' = Edits
        BY DEF Edits
    <2> QED
        BY <1>1, <2>1 DEF Effective
<1>4. Due(i)' <=> Due(i)
    BY <1>1, <1>3 DEF Due
<1>5. RulesRead(i)' = RulesRead(i) /\ OutboundsRead(i)' = OutboundsRead(i)
    BY <1>1, <1>2 DEF RulesRead, OutboundsRead
<1>6. gone \subseteq gone' /\ Answered(i) => Answered(i)'
    <2>1. Sure' = Sure
        BY DEF Sure
    <2> QED
        BY <1>1, <1>2, <2>1 DEF Answered
<1>7. ASSUME NEW k \in Slots \ {j}, Ahead(i, k) PROVE Ahead(i, k)'
    BY <1>1, <1>3, <1>7 DEF Ahead
<1> QED
    BY <1>1, <1>2, <1>3, <1>4, <1>5, <1>6, <1>7

\* What a step takes from the tables, unless it is an edit that a reload follows.
FewerRows ==
    /\ outbounds' = outbounds /\ rules' \subseteq rules
    /\ \A r \in rules : r \in rules' \/ Doomed(r.inb)'
    /\ \A t : Doomed(t) => Doomed(t)'

LEMMA RulesStay ==
    ASSUME FewerRows, NEW rs, RulesCurrent(rs)
    PROVE  RulesCurrent(rs)'
BY DEF FewerRows, RulesCurrent

LEMMA DoomedStays ==
    ASSUME NEW j \in Slots, Moves(j), gone \subseteq gone',
           Deleting(j) => \/ jobs[j].new \in gone'
                          \/ Deleting(j)' /\ jobs'[j].new = jobs[j].new,
           NEW t, Doomed(t)
    PROVE  Doomed(t)'
<1>1. CASE t \in gone
    BY <1>1 DEF Doomed
<1>2. ASSUME NEW i \in Slots, Deleting(i), jobs[i].new = t PROVE Doomed(t)'
    <2>1. CASE i = j
        BY <1>2, <2>1 DEF Doomed
    <2>2. CASE i # j
        <3>1. Deleting(i)' /\ jobs'[i] = jobs[i]
            BY <1>2, <2>2, OthersStay
        <3> QED
            BY <1>2, <3>1 DEF Doomed
    <2> QED
        BY <2>1, <2>2
<1> QED
    BY <1>1, <1>2 DEF Doomed

LEMMA CurrentStays ==
    ASSUME FewerRows, NEW i, RulesRead(i)' = RulesRead(i), OutboundsRead(i)' = OutboundsRead(i),
           HasBoth(i)' <=> HasBoth(i), Current(i)
    PROVE  Current(i)'
<1> DEFINE rs == RulesRead(i)
<1>1. RulesCurrent(rs) /\ (HasBoth(i) => OutboundsRead(i) = outbounds)
    BY DEF Current
<1>2. HasBoth(i)' => OutboundsRead(i)' = outbounds'
    BY <1>1 DEF FewerRows
<1>3. PICK x : x = rs
    OBVIOUS
<1>4. RulesCurrent(x)'
    BY <1>1, <1>3, RulesStay
<1>5. x = RulesRead(i)'
    BY <1>3
<1>6. RulesCurrent(RulesRead(i))'
    BY <1>4, <1>5 DEF RulesCurrent
<1> QED
    BY <1>2, <1>6 DEF Current

LEMMA StaleStays ==
    ASSUME StaleIsAhead, NEW j \in Slots, Moves(j), FewerRows,
           HasRules(j)' => Current(j)' \/ \E e \in Slots : Ahead(j, e)',
           \A i \in Slots \ {j} : Ahead(i, j) => Ahead(i, j)'
    PROVE  StaleIsAhead'
<1> SUFFICES ASSUME NEW i \in Slots, HasRules(i)', i # j
             PROVE  Current(i)' \/ \E e \in Slots : Ahead(i, e)'
    BY DEF StaleIsAhead
<1>1. HasRules(i)
    BY OthersStay
<1>2. CASE Current(i)
    BY <1>2, OthersStay, CurrentStays
<1>3. ASSUME NEW e \in Slots, Ahead(i, e) PROVE Ahead(i, e)'
    BY <1>3, OthersStay
<1> QED
    BY <1>1, <1>2, <1>3 DEF StaleIsAhead

LEMMA RouterStays ==
    ASSUME RouterFollows, NEW j \in Slots, Moves(j), FewerRows, router' = router,
           Due(j) => Due(j)' \/ unloaded', unloaded => unloaded' \/ Due(j)'
    PROVE  RouterFollows'
<1>1. ASSUME NEW i \in Slots, Due(i) PROVE Due(i)' \/ unloaded'
    BY <1>1, OthersStay
<1>2. ASSUME router.outbounds = outbounds, RulesCurrent(router.rules)
      PROVE  router'.outbounds = outbounds' /\ RulesCurrent(router.rules)'
    <2>1. PICK x : x = router.rules
        OBVIOUS
    <2>2. RulesCurrent(x)'
        BY <1>2, <2>1, RulesStay
    <2>3. x = router'.rules
        BY <2>1
    <2>4. RulesCurrent(router.rules)'
        BY <2>2, <2>3 DEF RulesCurrent
    <2> QED
        BY <1>2, <2>4 DEF FewerRows
<1>3. (\E o \in outbounds : o.kind = "bad") => \E o \in outbounds' : o.kind = "bad"
    BY DEF FewerRows
<1> QED
    BY <1>1, <1>2, <1>3 DEF RouterFollows

LEMMA OneMoreQueued ==
    ASSUME Lines, NEW j \in Slots, fifo' = fifo \/ fifo' = Append(fifo, j)
    PROVE  \A i \in Slots : i # j => (Has(fifo', i) <=> Has(fifo, i))
<1>1. fifo \in Seq(Slots)
    BY DEF Lines
<1>2. \A y : Has(Append(fifo, j), y) <=> Has(fifo, y) \/ y = j
    BY <1>1, QueueGrows
<1>3. CASE fifo' = fifo
    BY <1>3
<1>4. CASE fifo' = Append(fifo, j)
    BY <1>2, <1>4
<1> QED
    BY <1>3, <1>4

\* The moves of a job through the lines.
LEMMA QueuedMoves ==
    ASSUME Lines, NEW j \in Slots, \A i \in Slots : i # j => jobs'[i] = jobs[i],
           ready' = ready, fifo' = fifo \/ fifo' = Append(fifo, j)
    PROVE  Moves(j)
<1>1. \A i, k \in Slots : Sooner(i, k) => Sooner(i, k)'
    BY QueuedInOrder
<1>2. \A i \in Slots : i # j => (Has(fifo', i) <=> Has(fifo, i))
    BY OneMoreQueued
<1> QED
    BY <1>1, <1>2 DEF Moves

LEMMA ResumedMoves ==
    ASSUME Lines, ready # <<>>, NEW j \in Slots, j = Head(ready),
           \A i \in Slots : i # j => jobs'[i] = jobs[i],
           ready' = Tail(ready), fifo' = fifo \/ fifo' = Append(fifo, j)
    PROVE  Moves(j) /\ ~Has(ready', j)
<1>1. \A i, k \in Slots : i # j /\ Sooner(i, k) => Sooner(i, k)'
    BY ResumedInOrder
<1>2. \A i \in Slots : i # j => (Has(fifo', i) <=> Has(fifo, i))
    BY OneMoreQueued
<1>3. ~Has(ready', j) /\ \A i \in Slots : i # j => (Has(ready', i) <=> Has(ready, i))
    BY QueueShrinks DEF Lines
<1> QED
    BY <1>1, <1>2, <1>3 DEF Moves

\* A job that edits no routing table, or has yet to begin.
LEMMA NotRouting ==
    ASSUME NEW j, ~At(j, RouterStatements \cup {"reload"})
    PROVE  ~HasRules(j) /\ ~HasBoth(j) /\ ~Due(j) /\ ~Deleting(j) /\ \A i : ~Ahead(i, j)
<1>1. \A S : S \subseteq RouterStatements \cup {"reload"} => ~At(j, S)
    BY DEF At
<1>2. /\ Edits \subseteq RouterStatements
      /\ {"order_rule", "commit", "rowid", "reload", "get_rules", "get_outbounds"} \subseteq RouterStatements \cup {"reload"}
      /\ {"order_rule", "commit"} \subseteq RouterStatements
      /\ {"get_rules"} \subseteq RouterStatements /\ {"get_outbounds"} \subseteq RouterStatements
      /\ {"delete_inbound"} \subseteq RouterStatements
      /\ {"delete_inbound_rules"} \subseteq RouterStatements
    BY DEF Edits, RouterStatements
<1>3. /\ ~At(j, Edits)
      /\ ~At(j, {"order_rule", "commit", "rowid", "reload", "get_rules", "get_outbounds"})
      /\ ~At(j, {"order_rule", "commit"}) /\ ~At(j, {"get_rules"}) /\ ~At(j, {"get_outbounds"})
      /\ ~At(j, {"delete_inbound"}) /\ ~At(j, {"delete_inbound_rules"})
    BY <1>1, <1>2
<1> QED
    BY <1>3 DEF HasRules, HasBoth, Due, Deleting, Ahead, Effective

LEMMA Aside ==
    ASSUME Follows, NEW j \in Slots, Moves(j), ~At(j, RouterStatements \cup {"reload"}),
           ~HasRules(j)', ~Has(ready', j), \E S : jobs'[j].seen \in Seq(S),
           UNCHANGED <<outbounds, rules, gone, router, unloaded>>
    PROVE  Follows'
<1>1. ~Due(j) /\ ~Deleting(j) /\ \A i : ~Ahead(i, j)
    BY NotRouting
<1>2. FewerRows
    <2>1. \A t : Doomed(t) => Doomed(t)'
        BY <1>1, DoomedStays
    <2> QED
        BY <2>1 DEF FewerRows
<1>3. StaleIsAhead'
    BY <1>1, <1>2, StaleStays DEF Follows
<1>4. RouterFollows'
    BY <1>1, <1>2, RouterStays DEF Follows
<1>5. \A i \in Slots : Answered(i)'
    <2>1. Answered(j)'
        BY DEF Answered, HasBoth
    <2>2. \A i \in Slots : i # j => Answered(i)'
        BY OthersStay DEF Follows
    <2> QED
        BY <2>1, <2>2
<1> QED
    BY <1>3, <1>4, <1>5 DEF Follows

LEMMA BeginFollows == ASSUME Inv, Follows, Requests PROVE Follows'
<1>1. PICK todo, id, new : First(todo, new) /\ Begin(todo, id, new)
    BY RequestIs
<1>2. Program(todo) /\ todo # <<>>
    BY <1>1, ProgramHead DEF First
<1>3. PICK j \in Slots :
          /\ ~Busy(j)
          /\ jobs'[j] = [todo |-> todo, id |-> id, new |-> new, seen |-> <<>>, ok |-> TRUE]
          /\ \A i \in Slots : i # j => jobs'[i] = jobs[i]
          /\ fifo' = IF Head(todo) \in Statements THEN Append(fifo, j) ELSE fifo
          /\ UNCHANGED <<outbounds, rules, gone, router, unloaded, ready>>
    <2>1. Jobs /\ Lines /\ requests \in Nat
        BY BoundsAssumption DEF Inv, Scalars
    <2> QED
        BY <1>1, <1>2, <2>1, BeginIs
<1>4. ~At(j, RouterStatements \cup {"reload"}) /\ ~At(j, Statements)
    BY <1>3 DEF At
<1>5. ~Has(ready', j)
    BY <1>3, <1>4 DEF Inv, Lines
<1>6. Moves(j)
    BY <1>3, QueuedMoves DEF Inv
<1>7. ~HasRules(j)'
    <2>1. At(j, {"get_outbounds"})' => Head(todo) = "get_outbounds"
        BY <1>3 DEF At, Busy
    <2>2. Head(todo) # "get_outbounds"
        BY <1>1 DEF First, Edits
    <2> QED
        BY <1>5, <2>1, <2>2 DEF HasRules
<1>8. jobs'[j].seen \in Seq({})
    BY <1>3
<1> QED
    BY <1>3, <1>4, <1>5, <1>6, <1>7, <1>8, Aside

\* The steps that are no statement touch no routing table.
LEMMA StepFollows ==
    ASSUME Inv, Follows, NEW j \in Slots, At(j, {"check", "start", "stop", "wait"}),
           NEW todo, todo = <<>> \/ XProgram(todo), Goes(j, todo, <<>>),
           UNCHANGED <<ready, outbounds, rules, gone, router, unloaded>>
    PROVE  Follows'
<1>1. ~Has(fifo, j) /\ ~Has(ready, j) /\ At(j, XSteps)
    BY StepIs
<1>2. ~At(j, RouterStatements \cup {"reload"})
    BY <1>1, Steps DEF At, Hops
<1> DEFINE seen == <<>>
<1>3. seen \in Seq({}) /\ Goes(j, todo, seen)
    OBVIOUS
<1> HIDE DEF seen
<1>4. /\ jobs'[j] = IF todo = <<>> THEN Idle
                    ELSE [todo |-> todo, id |-> jobs[j].id, new |-> jobs[j].new,
                          seen |-> seen, ok |-> jobs[j].ok]
      /\ jobs'[j].todo = todo
      /\ \A i \in Slots : i # j => jobs'[i] = jobs[i]
    BY <1>1, <1>3, GoesIs DEF Inv, Program
<1>5. fifo' = fifo \/ fifo' = Append(fifo, j)
    BY DEF Goes, Queued
<1>6. Moves(j)
    BY <1>4, <1>5, QueuedMoves DEF Inv
<1>7. ~HasRules(j)'
    <2>1. At(j, {"get_outbounds"})' => todo # <<>> /\ Head(todo) = "get_outbounds"
        BY <1>4 DEF At, Busy
    <2>2. todo # <<>> => Head(todo) \in XSteps
        BY XRest
    <2>3. "get_outbounds" \notin XSteps
        BY TablesAre
    <2> QED
        BY <1>1, <2>1, <2>2, <2>3 DEF HasRules
<1>8. jobs'[j].seen \in Seq({})
    <2>1. Idle.seen \in Seq({})
        BY IdleIs
    <2> QED
        BY <1>3, <1>4, <2>1
<1> QED
    BY <1>1, <1>2, <1>6, <1>7, <1>8, Aside

LEMMA NothingFollows ==
    ASSUME Follows, UNCHANGED <<outbounds, rules, gone, router, unloaded, jobs, fifo, ready>>
    PROVE  Follows'
<1>1. \A i : \A S : At(i, S)' <=> At(i, S)
    BY DEF At, Busy
<1>2. \A i : /\ HasRules(i)' <=> HasRules(i)
             /\ HasBoth(i)' <=> HasBoth(i)
             /\ Deleting(i)' <=> Deleting(i)
    BY <1>1 DEF HasRules, HasBoth, Deleting
<1>3. Edits' = Edits /\ Sure' = Sure
    BY DEF Edits, Sure
<1>4. \A i : Effective(i)' <=> Effective(i)
    BY <1>1, <1>3 DEF Effective
<1>5. \A i, k : Sooner(i, k)' <=> Sooner(i, k)
    BY DEF Sooner
<1>6. \A i : Due(i)' <=> Due(i)
    BY <1>1, <1>4 DEF Due
<1>7. \A i, k : Ahead(i, k)' <=> Ahead(i, k)
    BY <1>1, <1>4, <1>5 DEF Ahead
<1>8. \A t : Doomed(t)' <=> Doomed(t)
    BY <1>2 DEF Doomed
<1>9. \A rs : RulesCurrent(rs)' <=> RulesCurrent(rs)
    BY <1>8 DEF RulesCurrent
<1>10. FewerRows
    BY <1>8 DEF FewerRows
<1>11. \A i : Current(i) => Current(i)'
    <2>1. \A i : RulesRead(i)' = RulesRead(i) /\ OutboundsRead(i)' = OutboundsRead(i)
        BY <1>2 DEF RulesRead, OutboundsRead
    <2> QED
        BY <1>2, <1>10, <2>1, CurrentStays
<1>12. StaleIsAhead'
    BY <1>2, <1>7, <1>11 DEF Follows, StaleIsAhead
<1>13. RouterFollows'
    BY <1>6, <1>8 DEF Follows, RouterFollows, RulesCurrent
<1>14. \A i \in Slots : Answered(i)'
    BY <1>1, <1>2, <1>3 DEF Follows, Answered
<1> QED
    BY <1>12, <1>13, <1>14 DEF Follows

LEMMA ProcessFollows == ASSUME Inv, Follows, Process PROVE Follows'
<1>1. ASSUME NEW j \in Slots, At(j, {"stop", "wait"}), Stopped(j),
             UNCHANGED <<ready, outbounds, rules, gone, router, unloaded>>
      PROVE  Follows'
    <2> DEFINE rest == Tail(jobs[j].todo)
               todo == IF rest = <<>> THEN rest ELSE Tail(rest)
    <2>1. At(j, {"check", "start", "stop", "wait"}) /\ Head(jobs[j].todo) \in {"stop", "wait"}
        BY <1>1 DEF At
    <2>2. XProgram(jobs[j].todo)
        BY <2>1, StepIs
    <2>3. todo = <<>> \/ XProgram(todo)
        BY <2>1, <2>2, StopRest
    <2>4. Goes(j, todo, <<>>)
        BY <1>1 DEF Stopped
    <2> HIDE DEF todo
    <2> QED
        BY <1>1, <2>1, <2>3, <2>4, StepFollows
<1>2. ASSUME NEW j \in Slots, Check(j) PROVE Follows'
    <2> DEFINE todo == IF Alive(handle) THEN Restart ELSE <<>>
    <2>1. /\ At(j, {"check", "start", "stop", "wait"}) /\ Goes(j, todo, <<>>)
          /\ UNCHANGED <<ready, outbounds, rules, gone, router, unloaded>>
        BY <1>2 DEF Check, At, tables
    <2>2. todo = <<>> \/ XProgram(todo)
        BY RestartIs
    <2> HIDE DEF todo
    <2> QED
        BY <2>1, <2>2, StepFollows
<1>3. ASSUME NEW j \in Slots, StartXray(j) PROVE Follows'
    <2> DEFINE todo == IF Alive(handle) THEN <<>> ELSE Tail(jobs[j].todo)
    <2>1. /\ At(j, {"check", "start", "stop", "wait"}) /\ Goes(j, todo, <<>>)
          /\ UNCHANGED <<ready, outbounds, rules, gone, router, unloaded>>
        BY <1>3 DEF StartXray, At, tables
    <2>2. todo = <<>> \/ XProgram(todo)
        BY <2>1, StepIs, XRest
    <2> HIDE DEF todo
    <2> QED
        BY <2>1, <2>2, StepFollows
<1>4. ASSUME NEW j \in Slots, Stop(j) PROVE Follows'
    <2>1. At(j, {"stop", "wait"}) /\ UNCHANGED <<ready, outbounds, rules, gone, router, unloaded>>
        BY <1>4 DEF Stop, At, tables
    <2>2. CASE Alive(handle)
        <3>1. /\ At(j, {"stop"}) /\ At(j, {"check", "start", "stop", "wait"}) /\ fifo' = fifo
              /\ jobs' = [jobs EXCEPT ![j].todo[1] = "wait", ![j].id = handle]
            BY <1>4, <2>2 DEF Stop, At
        <3>2. /\ jobs'[j].seen = jobs[j].seen
              /\ XProgram(jobs'[j].todo) /\ Head(jobs'[j].todo) = "wait"
              /\ \A i \in Slots : i # j => jobs'[i] = jobs[i]
            <4>1. /\ jobs'[j] = [todo |-> [jobs[j].todo EXCEPT ![1] = "wait"], id |-> handle,
                                 new |-> jobs[j].new, seen |-> jobs[j].seen, ok |-> jobs[j].ok]
                  /\ XProgram(jobs'[j].todo) /\ Head(jobs'[j].todo) = "wait"
                  /\ \A i \in Slots : i # j => jobs'[i] = jobs[i]
                BY <3>1, StopIsWait
            <4> QED
                BY <4>1
        <3>3. ~Has(ready', j) /\ ~At(j, RouterStatements \cup {"reload"})
            <4>1. At(j, XSteps) /\ ~Has(ready, j)
                BY <3>1, StepIs
            <4> QED
                BY <2>1, <4>1, Steps DEF At, Hops
        <3>4. Moves(j)
            BY <2>1, <3>1, <3>2, QueuedMoves DEF Inv
        <3>5. ~HasRules(j)'
            BY <3>2, <3>3 DEF HasRules, At
        <3>6. \E S : jobs'[j].seen \in Seq(S)
            BY <3>2 DEF Follows, Answered
        <3> QED
            BY <2>1, <3>3, <3>4, <3>5, <3>6, Aside
    <2>3. CASE ~Alive(handle)
        <3>1. Stopped(j)
            BY <1>4, <2>3 DEF Stop
        <3> QED
            BY <1>1, <2>1, <3>1
    <2> QED
        BY <2>2, <2>3
<1>5. ASSUME NEW j \in Slots, WaitEnds(j) PROVE Follows'
    <2>1. /\ At(j, {"stop", "wait"}) /\ Stopped(j)
          /\ UNCHANGED <<ready, outbounds, rules, gone, router, unloaded>>
        BY <1>5 DEF WaitEnds, At, tables
    <2> QED
        BY <1>1, <2>1
<1>6. ASSUME NEW j \in Slots, WaitFails(j) PROVE Follows'
    <2>1. At(j, {"stop", "wait"}) /\ UNCHANGED <<ready, outbounds, rules, gone, router, unloaded>>
        BY <1>6 DEF WaitFails, At, tables
    <2>2. CASE handle = 0
        <3> DEFINE todo == <<>>
        <3>1. Goes(j, todo, <<>>) /\ At(j, {"check", "start", "stop", "wait"}) /\ todo = <<>>
            BY <1>6, <2>2 DEF WaitFails, At
        <3> HIDE DEF todo
        <3> QED
            BY <2>1, <3>1, StepFollows
    <2>3. CASE handle # 0
        <3>1. Stopped(j)
            BY <1>6, <2>3 DEF WaitFails
        <3> QED
            BY <1>1, <2>1, <3>1
    <2> QED
        BY <2>2, <2>3
<1>7. ASSUME NEW k \in DOMAIN kids, Exit(k) PROVE Follows'
    <2>1. UNCHANGED <<outbounds, rules, gone, router, unloaded, jobs, fifo, ready>>
        BY <1>7 DEF Exit, tables
    <2> QED
        BY <2>1, NothingFollows
<1> QED
    BY <1>2, <1>3, <1>4, <1>5, <1>6, <1>7 DEF Process
-----------------------------------------------------------------------------
(* The connection serves a statement *)

LEMMA SeenMore ==
    ASSUME NEW s, \E S : s \in Seq(S), NEW x
    PROVE  /\ \E S : s \o <<x>> \in Seq(S)
           /\ Len(s) \in Nat /\ Len(s \o <<x>>) = Len(s) + 1
           /\ \A k \in 1 .. Len(s) : (s \o <<x>>)[k] = s[k]
           /\ (s \o <<x>>)[Len(s) + 1] = x
<1>1. PICK S : s \in Seq(S)
    OBVIOUS
<1> DEFINE T == S \cup {x}
<1>2. s \in Seq(T) /\ x \in T
    BY <1>1
<1> HIDE DEF T
<1>3. <<x>> \in Seq(T) /\ Len(<<x>>) = 1 /\ <<x>>[1] = x
    BY <1>2
<1>4. /\ s \o <<x>> \in Seq(T) /\ Len(s) \in Nat /\ Len(s \o <<x>>) = Len(s) + 1
      /\ \A k \in 1 .. Len(s) : (s \o <<x>>)[k] = s[k]
      /\ (s \o <<x>>)[Len(s) + 1] = x
    BY <1>2, <1>3
<1> QED
    BY <1>4

LEMMA NothingMore == ASSUME NEW s, \E S : s \in Seq(S) PROVE s \o <<>> = s
<1>1. PICK S : s \in Seq(S)
    OBVIOUS
<1> QED
    BY <1>1

\* What a statement does to the tables and to the one who asked: it is an edit that took
\* effect, or takes no more than the rules of an inbound.
Effect(h, ok, read) ==
    \/ At(h, Edits) /\ ok = TRUE /\ read = <<>> /\ gone' = gone
    \/ /\ outbounds' = outbounds /\ gone \subseteq gone' /\ rules' \subseteq rules
       /\ \A r \in rules : r \in rules' \/ (At(h, {"delete_inbound_rules"}) /\ r.inb = jobs[h].new)
       /\ At(h, Sure) => ok = TRUE
       /\ read = <<>> \/ \E x : read = <<x>>
       /\ At(h, {"get_rules"}) => read = <<{r \in rules : r.on}>>
       /\ At(h, {"get_outbounds"}) => read = <<outbounds>>
       /\ At(h, {"delete_inbound"}) => jobs[h].new \in gone'

LEMMA ServesIs ==
    ASSUME Inv, Serve
    PROVE  \E ok, read : fifo # <<>> /\ Answer(ok, read) /\ Effect(Head(fifo), ok, read)
<1> DEFINE h == Head(fifo)
           t == Head(jobs[h].todo)
           Goal == \E ok, read : fifo # <<>> /\ Answer(ok, read) /\ Effect(h, ok, read)
<1>0. ASSUME NEW s, Served(s), NEW ok, NEW read, Answer(ok, read)
      PROVE  fifo # <<>> /\ h \in Slots /\ \A S : At(h, S) <=> s \in S
    <2>1. fifo # <<>> /\ t = s
        BY <1>0 DEF Served, Job
    <2>2. h \in Slots /\ At(h, Statements)
        BY <1>0, <2>1, AnswerIs DEF Inv
    <2> QED
        BY <2>1, <2>2 DEF At
<1>1. ASSUME NEW s \in Edits, Served(s), NEW read, Answer(TRUE, read), read = <<>>, gone' = gone
      PROVE  Goal
    <2>1. At(h, Edits) /\ fifo # <<>>
        BY <1>0, <1>1
    <2>2. Effect(h, TRUE, read)
        BY <1>1, <2>1 DEF Effect
    <2> QED
        BY <1>1, <2>1, <2>2
<1>2. ASSUME NEW s \in Statements \ Sure, Served(s), NEW ok, NEW read, Answer(ok, read),
             read = <<>> \/ \E x : read = <<x>>, UNCHANGED <<outbounds, rules, gone>>
      PROVE  Goal
    <2>1. fifo # <<>> /\ \A S : At(h, S) <=> s \in S
        BY <1>0, <1>2
    <2>2. ~At(h, Sure) /\ s \notin {"get_rules"} /\ s \notin {"get_outbounds"} /\ s \notin {"delete_inbound"}
        BY <1>2, <2>1 DEF Sure
    <2>3. Effect(h, ok, read)
        BY <1>2, <2>1, <2>2 DEF Effect
    <2> QED
        BY <1>2, <2>1, <2>3
<1>3. ASSUME NEW s \in {"insert_outbound", "update_outbound", "insert_rule", "update_rule"}, Served(s),
             NEW ok, NEW read, Answer(ok, read), read = <<>>, gone' = gone,
             ok = TRUE \/ UNCHANGED <<outbounds, rules, gone>>
      PROVE  Goal
    <2>1. CASE ok = TRUE
        <3>1. s \in Edits
            BY DEF Edits
        <3> QED
            BY <1>1, <1>3, <2>1, <3>1
    <2>2. CASE ok # TRUE
        <3>1. s \in Statements \ Sure
            BY DEF Statements, RouterStatements, Sure
        <3> HIDE DEF Goal
        <3> QED
            BY <1>2, <1>3, <2>2, <3>1
    <2> QED
        BY <2>1, <2>2
<1> HIDE DEF Goal
<1>4. ASSUME InsertOutbound PROVE Goal
    <2> DEFINE read == <<>>
               fails == ByTag(outbounds, Job.new.tag) # {}
    <2>1. /\ Served("insert_outbound") /\ Answer(~fails, read) /\ read = <<>> /\ UNCHANGED <<rules, gone, xtab>>
          /\ outbounds' = outbounds \cup
                 (IF fails THEN {} ELSE {AsRow(Job.new, NextId(outbounds))})
        BY <1>4 DEF InsertOutbound
    <2> HIDE DEF fails, read
    <2>2. (~fails) = TRUE \/ UNCHANGED <<outbounds, rules, gone>>
        BY <2>1
    <2>3. gone' = gone
        BY <2>1
    <2>4. PICK ok : ok = (~fails)
        OBVIOUS
    <2>5. Answer(ok, read) /\ (ok = TRUE \/ UNCHANGED <<outbounds, rules, gone>>)
        BY <2>1, <2>2, <2>4
    <2> QED
        BY <1>3, <2>1, <2>3, <2>5
<1>5. ASSUME UpdateOutbound PROVE Goal
    <2> DEFINE read == <<>>
               rows == {o \in outbounds : o.id = Job.id}
               fails == \E o \in rows : /\ o.tag # Job.new.tag
                                        /\ \/ ByTag(outbounds, Job.new.tag) # {}
                                           \/ \E r \in rules : r.tag = o.tag
    <2>1. /\ Served("update_outbound") /\ Answer(~fails, read) /\ read = <<>> /\ UNCHANGED <<rules, gone, xtab>>
          /\ fails => outbounds' = outbounds
        BY <1>5 DEF UpdateOutbound
    <2> HIDE DEF fails, read
    <2>2. (~fails) = TRUE \/ UNCHANGED <<outbounds, rules, gone>>
        BY <2>1
    <2>3. gone' = gone
        BY <2>1
    <2>4. PICK ok : ok = (~fails)
        OBVIOUS
    <2>5. Answer(ok, read) /\ (ok = TRUE \/ UNCHANGED <<outbounds, rules, gone>>)
        BY <2>1, <2>2, <2>4
    <2> QED
        BY <1>3, <2>1, <2>3, <2>5
<1>6. ASSUME InsertRule PROVE Goal
    <2> DEFINE read == <<>>
               fails == ByTag(outbounds, Job.new.tag) = {}
    <2>1. /\ Served("insert_rule") /\ Answer(~fails, read) /\ read = <<>> /\ UNCHANGED <<outbounds, gone, xtab>>
          /\ fails => rules' = rules
        BY <1>6 DEF InsertRule
    <2> HIDE DEF fails, read
    <2>2. (~fails) = TRUE \/ UNCHANGED <<outbounds, rules, gone>>
        BY <2>1
    <2>3. gone' = gone
        BY <2>1
    <2>4. PICK ok : ok = (~fails)
        OBVIOUS
    <2>5. Answer(ok, read) /\ (ok = TRUE \/ UNCHANGED <<outbounds, rules, gone>>)
        BY <2>1, <2>2, <2>4
    <2> QED
        BY <1>3, <2>1, <2>3, <2>5
<1>7. ASSUME UpdateRule PROVE Goal
    <2> DEFINE read == <<>>
    <2>1. /\ Served("update_rule") /\ gone' = gone /\ read = <<>>
          /\ Answer(TRUE, read) \/ (Answer(FALSE, read) /\ UNCHANGED <<outbounds, rules, gone>>)
        BY <1>7 DEF UpdateRule, ChangeRule, tables
    <2> HIDE DEF read
    <2>2. PICK ok : Answer(ok, read) /\ (ok = TRUE \/ UNCHANGED <<outbounds, rules, gone>>)
        BY <2>1
    <2> QED
        BY <1>3, <2>1, <2>2
<1>8. ASSUME DeleteOutboundRow \/ WriteToggle \/ OrderRule \/ DeleteRuleRow PROVE Goal
    <2> DEFINE read == <<>>
    <2>1. \E s \in {"delete_outbound", "toggle_rule", "order_rule", "delete_rule"} :
              Served(s) /\ Answer(TRUE, read) /\ read = <<>> /\ gone' = gone
        BY <1>8 DEF DeleteOutboundRow, WriteToggle, OrderRule, DeleteRuleRow, ChangeRule
    <2> HIDE DEF read
    <2>2. {"delete_outbound", "toggle_rule", "order_rule", "delete_rule"} \subseteq Edits
        BY DEF Edits
    <2> QED
        BY <1>1, <2>1, <2>2
\* The deletion of an inbound, and reads.
<1>9. ASSUME NEW s, Served(s), NEW read, Answer(TRUE, read), Effect(h, TRUE, read) PROVE Goal
    <2>1. fifo # <<>>
        BY <1>9 DEF Served
    <2> QED
        BY <1>9, <2>1 DEF Goal
<1>10. ASSUME DeleteInboundRules PROVE Goal
    <2> DEFINE read == <<>>
    <2>1. /\ Served("delete_inbound_rules") /\ Answer(TRUE, read) /\ read = <<>>
          /\ rules' = {r \in rules : r.inb # jobs[h].new} /\ UNCHANGED <<outbounds, gone>>
        BY <1>10 DEF DeleteInboundRules, Job
    <2> HIDE DEF read
    <2>2. \A S : At(h, S) <=> "delete_inbound_rules" \in S
        BY <1>0, <2>1
    <2>3. ~At(h, {"get_rules"}) /\ ~At(h, {"get_outbounds"}) /\ ~At(h, {"delete_inbound"})
        BY <2>2
    <2>4. Effect(h, TRUE, read)
        BY <2>1, <2>2, <2>3 DEF Effect
    <2> QED
        BY <1>9, <2>1, <2>4
<1>11. ASSUME DeleteInboundRow PROVE Goal
    <2> DEFINE read == <<>>
    <2>1. /\ Served("delete_inbound") /\ Answer(TRUE, read) /\ read = <<>>
          /\ gone' = gone \cup {jobs[h].new} /\ UNCHANGED <<outbounds, rules>>
        BY <1>11 DEF DeleteInboundRow, Job
    <2> HIDE DEF read
    <2>2. \A S : At(h, S) <=> "delete_inbound" \in S
        BY <1>0, <2>1
    <2>3. ~At(h, {"get_rules"}) /\ ~At(h, {"get_outbounds"})
        BY <2>2
    <2>4. Effect(h, TRUE, read)
        BY <2>1, <2>2, <2>3 DEF Effect
    <2> QED
        BY <1>9, <2>1, <2>4
<1>12. ASSUME EditXray PROVE Goal
    <2> DEFINE read == <<>>
    <2>1. /\ Served("x_edit") /\ Answer(TRUE, read) /\ read = <<>>
          /\ UNCHANGED <<outbounds, rules, gone>>
        BY <1>12 DEF EditXray
    <2> HIDE DEF read
    <2>2. \A S : At(h, S) <=> "x_edit" \in S
        BY <1>0, <2>1
    <2>3. ~At(h, {"get_rules"}) /\ ~At(h, {"get_outbounds"}) /\ ~At(h, {"delete_inbound"})
        BY <2>2
    <2>4. Effect(h, TRUE, read)
        BY <2>1, <2>2, <2>3 DEF Effect
    <2> QED
        BY <1>9, <2>1, <2>4
<1>13. ASSUME Select PROVE Goal
    <2>0. UNCHANGED <<outbounds, rules, gone>>
        BY <1>13 DEF Select, tables
    <2>1. \/ \E s \in {"commit", "x_commit", "rowid"} : Served(s) /\ Answer(TRUE, <<>>)
          \/ \E ok, x : Served("get_rule") /\ Answer(ok, <<x>>)
          \/ Served("get_rules") /\ Answer(TRUE, <<{r \in rules : r.on}>>)
          \/ Served("get_outbounds") /\ Answer(TRUE, <<outbounds>>)
          \/ \E s \in DOMAIN TableOf : \E x : Served(s) /\ Answer(TRUE, <<x>>)
        BY <1>13, Zenon DEF Select
    <2>2. CASE \E s \in {"commit", "x_commit", "rowid"} : Served(s) /\ Answer(TRUE, <<>>)
        <3> DEFINE read == <<>>
        <3>1. PICK s \in {"commit", "x_commit", "rowid"} : Served(s) /\ Answer(TRUE, read)
            BY <2>2
        <3>2. read = <<>>
            OBVIOUS
        <3> HIDE DEF read
        <3>3. \A S : At(h, S) <=> s \in S
            BY <1>0, <3>1
        <3>4. /\ ~At(h, {"get_rules"}) /\ ~At(h, {"get_outbounds"}) /\ ~At(h, {"delete_inbound"})
              /\ ~At(h, {"delete_inbound_rules"})
            BY <3>1, <3>3
        <3>5. Effect(h, TRUE, read)
            BY <2>0, <3>2, <3>4 DEF Effect
        <3> QED
            BY <1>9, <3>1, <3>5
    <2>3. CASE \E ok, x : Served("get_rule") /\ Answer(ok, <<x>>)
        <3>1. PICK ok, x : Served("get_rule") /\ Answer(ok, <<x>>)
            BY <2>3
        <3> DEFINE read == <<x>>
        <3>2. Answer(ok, read) /\ \E y : read = <<y>>
            BY <3>1
        <3> HIDE DEF read
        <3>3. "get_rule" \in Statements \ Sure
            BY DEF Statements, RouterStatements, Sure
        <3> QED
            BY <1>2, <2>0, <3>1, <3>2, <3>3
    <2>4. CASE Served("get_rules") /\ Answer(TRUE, <<{r \in rules : r.on}>>)
        <3> DEFINE read == <<{r \in rules : r.on}>>
        <3>1. Answer(TRUE, read) /\ read = <<{r \in rules : r.on}>> /\ \E y : read = <<y>>
            BY <2>4
        <3> HIDE DEF read
        <3>2. \A S : At(h, S) <=> "get_rules" \in S
            BY <1>0, <2>4, <3>1
        <3>3. ~At(h, {"get_outbounds"}) /\ ~At(h, {"delete_inbound"})
            BY <3>2
        <3>4. Effect(h, TRUE, read)
            BY <2>0, <3>1, <3>3 DEF Effect
        <3> QED
            BY <1>9, <2>4, <3>1, <3>4
    <2>5. CASE Served("get_outbounds") /\ Answer(TRUE, <<outbounds>>)
        <3> DEFINE read == <<outbounds>>
        <3>1. Answer(TRUE, read) /\ read = <<outbounds>> /\ \E y : read = <<y>>
            BY <2>5
        <3> HIDE DEF read
        <3>2. \A S : At(h, S) <=> "get_outbounds" \in S
            BY <1>0, <2>5, <3>1
        <3>3. ~At(h, {"get_rules"}) /\ ~At(h, {"delete_inbound"})
            BY <3>2
        <3>4. Effect(h, TRUE, read)
            BY <2>0, <3>1, <3>3 DEF Effect
        <3> QED
            BY <1>9, <2>5, <3>1, <3>4
    <2>6. CASE \E s \in DOMAIN TableOf : \E x : Served(s) /\ Answer(TRUE, <<x>>)
        <3>1. PICK s \in DOMAIN TableOf : \E x : Served(s) /\ Answer(TRUE, <<x>>)
            BY <2>6
        <3>2. PICK x : Served(s) /\ Answer(TRUE, <<x>>)
            BY <3>1
        <3> DEFINE read == <<x>>
        <3>3. Answer(TRUE, read) /\ \E y : read = <<y>>
            BY <3>2
        <3> HIDE DEF read
        <3>4. \A S : At(h, S) <=> s \in S
            BY <1>0, <3>2, <3>3
        <3>5. s \notin {"delete_inbound_rules", "get_rules", "get_outbounds", "delete_inbound"}
            BY <3>1, TablesAre
        <3>6. /\ ~At(h, {"get_rules"}) /\ ~At(h, {"get_outbounds"}) /\ ~At(h, {"delete_inbound"})
            BY <3>4, <3>5
        <3>7. Effect(h, TRUE, read)
            BY <2>0, <3>3, <3>6 DEF Effect
        <3> QED
            BY <1>9, <3>2, <3>3, <3>7
    <2> QED
        BY <2>1, <2>2, <2>3, <2>4, <2>5, <2>6, Zenon
<1> QED
    BY <1>4, <1>5, <1>6, <1>7, <1>8, <1>10, <1>11, <1>12, <1>13 DEF Serve, Goal

\* A program that begins with such a step is of a job that reloads, or deletes an inbound.
LEMMA KindIs ==
    ASSUME NEW t, Program(t)
    PROVE  /\ Head(t) \in Edits \cup {"get_rule", "rowid", "get_rules", "get_outbounds"} => RProgram(t)
           /\ Head(t) \in RouterStatements => RProgram(t) \/ DProgram(t)
           /\ DProgram(t) => ~RProgram(t) /\ Head(t) \in DSteps
           /\ RProgram(t) => Head(t) \in RSteps
<1>1. DProgram(t) => Head(t) \in DSteps
    BY DRest
<1>2. RProgram(t) => Head(t) \in RSteps
    BY RRest
<1>3. XProgram(t) => Head(t) \in XSteps
    BY XRest
<1>4. /\ Edits \cup {"get_rule", "rowid", "get_rules", "get_outbounds"} \subseteq RouterStatements
      /\ DSteps \cap (Edits \cup {"get_rule", "rowid", "get_rules", "get_outbounds"}) = {}
      /\ RouterStatements \cap XSteps = {}
    <2>1. /\ Edits \cup {"get_rule", "rowid", "get_rules", "get_outbounds"} \subseteq RouterStatements
          /\ DSteps \cap (Edits \cup {"get_rule", "rowid", "get_rules", "get_outbounds"}) = {}
        BY DEF Edits, RouterStatements, DSteps
    <2> QED
        BY <2>1, Steps
<1>5. ASSUME DProgram(t) PROVE ~RProgram(t)
    <2>1. t \in Seq(DSteps) /\ t # <<>>
        BY <1>5 DEF DProgram
    <2>2. t[Len(t)] \in DSteps
        BY <2>1
    <2>3. "get_outbounds" \notin DSteps
        BY DEF DSteps
    <2> QED
        BY <2>2, <2>3 DEF RProgram
<1> QED
    BY <1>1, <1>2, <1>3, <1>4, <1>5 DEF Program

LEMMA ServeFollows == ASSUME Inv, Follows, Serve PROVE Follows'
<1>1. PICK ok, read : fifo # <<>> /\ Answer(ok, read) /\ Effect(Head(fifo), ok, read)
    BY ServesIs
<1>2. PICK h \in Slots : h = Head(fifo)
    BY <1>1, AnswerIs DEF Inv
<1>3. /\ Has(fifo, h) /\ ~Has(ready, h) /\ At(h, Statements)
      /\ jobs'[h] = [todo |-> jobs[h].todo, id |-> jobs[h].id, new |-> jobs[h].new,
                     seen |-> jobs[h].seen \o read, ok |-> ok]
      /\ \A j \in Slots : j # h => jobs'[j] = jobs[j]
      /\ \A j \in Slots : jobs'[j].todo = jobs[j].todo /\ jobs'[j].new = jobs[j].new
      /\ \A y : Has(fifo', y) <=> Has(fifo, y) /\ y # h
      /\ \A y : Has(ready', y) <=> Has(ready, y) \/ y = h
      /\ router' = router /\ unloaded' = unloaded
    BY <1>1, <1>2, AnswerIs DEF Inv
<1>4. \A i, k : Sooner(i, k) => Sooner(i, k)'
    BY <1>1, ServedInOrder DEF Answer, Inv
<1>5. Moves(h)
    BY <1>3, <1>4 DEF Moves
<1>6. \A j \in Slots : \A S : At(j, S)' <=> At(j, S)
    BY <1>3 DEF At, Busy
<1>7. \A S, T : At(h, S) /\ At(h, T) => S \cap T # {}
    BY DEF At
<1>8. Answered(h)
    BY DEF Follows
<1>9. Effect(h, ok, read)
    BY <1>1, <1>2
<1>10. gone \subseteq gone' /\ \A j \in Slots : j # h => Answered(j)'
    <2>1. gone \subseteq gone'
        BY <1>9 DEF Effect
    <2> QED
        BY <1>5, <2>1, OthersStay DEF Follows
\* An edit took effect: the reloads under way are ahead of its own.
<1>11. CASE At(h, Edits) /\ ok = TRUE /\ read = <<>> /\ gone' = gone
    <2>1. RProgram(jobs[h].todo)
        <3>1. Program(jobs[h].todo) /\ Head(jobs[h].todo) \in Edits
            BY <1>11 DEF Inv, Jobs, At, Busy
        <3> QED
            BY <3>1, KindIs
    <2>2. Effective(h)' /\ RProgram(jobs'[h].todo)
        <3>1. Edits' = Edits
            BY DEF Edits
        <3> QED
            BY <1>3, <1>6, <1>11, <2>1, <3>1 DEF Effective
    <2>3. ~HasRules(h)' /\ ~HasBoth(h)'
        <3>1. Edits \cap {"get_rules"} = {} /\ Edits \cap {"get_outbounds"} = {}
            BY DEF Edits
        <3>2. ~At(h, {"get_rules"}) /\ ~At(h, {"get_outbounds"})
            BY <1>7, <1>11, <3>1
        <3> QED
            BY <1>6, <3>2 DEF HasRules, HasBoth
    <2>4. ASSUME NEW i \in Slots, HasRules(i)' PROVE Ahead(i, h)'
        <3>1. i # h /\ HasRules(i)
            BY <1>5, <2>3, <2>4, OthersStay
        <3>2. At(i, {"get_outbounds"})' \/ Sooner(i, h)'
            BY <1>3, <1>4, <1>6, <3>1 DEF HasRules, Sooner
        <3> QED
            BY <2>2, <3>2 DEF Ahead
    <2>5. StaleIsAhead'
        BY <2>4 DEF StaleIsAhead
    <2>6. RouterFollows'
        BY <2>2 DEF RouterFollows, Due
    <2>7. Answered(h)'
        <3>1. jobs'[h].seen = jobs[h].seen
            BY <1>3, <1>8, <1>11, NothingMore DEF Answered
        <3>2. ~At(h, {"delete_inbound"})
            BY <1>7, <1>11 DEF Edits
        <3> QED
            BY <1>3, <1>6, <1>8, <1>11, <2>3, <3>1, <3>2 DEF Answered
    <2> QED
        BY <1>10, <2>5, <2>6, <2>7 DEF Follows
<1>12. CASE ~(At(h, Edits) /\ ok = TRUE /\ read = <<>> /\ gone' = gone)
    <2>1. /\ outbounds' = outbounds /\ gone \subseteq gone' /\ rules' \subseteq rules
          /\ \A r \in rules : r \in rules' \/ (At(h, {"delete_inbound_rules"}) /\ r.inb = jobs[h].new)
          /\ At(h, Sure) => ok = TRUE
          /\ read = <<>> \/ \E x : read = <<x>>
          /\ At(h, {"get_rules"}) => read = <<{r \in rules : r.on}>>
          /\ At(h, {"get_outbounds"}) => read = <<outbounds>>
          /\ At(h, {"delete_inbound"}) => jobs[h].new \in gone'
        BY <1>9, <1>12 DEF Effect
    <2>2. FewerRows
        <3>1. Deleting(h) => Deleting(h)'
            BY <1>3, <1>6 DEF Deleting
        <3>2. \A t : Doomed(t) => Doomed(t)'
            BY <1>3, <1>5, <2>1, <3>1, DoomedStays
        <3>3. ASSUME NEW r \in rules, r \notin rules' PROVE Doomed(r.inb)'
            <4>1. At(h, {"delete_inbound_rules"}) /\ r.inb = jobs[h].new
                BY <2>1, <3>3
            <4>2. Deleting(h)' /\ jobs'[h].new = r.inb
                BY <1>3, <1>6, <4>1 DEF Deleting
            <4> QED
                BY <4>2 DEF Doomed
        <3> QED
            BY <2>1, <3>2, <3>3 DEF FewerRows
    <2>3. ~Effective(h)
        BY <1>3 DEF Effective
    <2>4. \A i \in Slots \ {h} : Ahead(i, h) => Ahead(i, h)'
        BY <1>3, <1>4, <1>6, <2>3 DEF Ahead
    <2>5. Due(h) => Due(h)'
        BY <1>3, <1>6, <2>3 DEF Due
    <2>6. RouterFollows'
        BY <1>3, <1>5, <2>2, <2>5, RouterStays DEF Follows
    <2>7. /\ \E S : jobs'[h].seen \in Seq(S)
          /\ Len(jobs[h].seen) \in Nat
          /\ \A x : read = <<x>> =>
                /\ Len(jobs'[h].seen) = Len(jobs[h].seen) + 1
                /\ \A k \in 1 .. Len(jobs[h].seen) : jobs'[h].seen[k] = jobs[h].seen[k]
                /\ jobs'[h].seen[Len(jobs[h].seen) + 1] = x
        <3>1. \E S : jobs[h].seen \in Seq(S)
            BY <1>8 DEF Answered
        <3>2. jobs'[h].seen = jobs[h].seen \o read
            BY <1>3
        <3>3. CASE read = <<>>
            <4>1. jobs'[h].seen = jobs[h].seen
                BY <3>1, <3>2, <3>3, NothingMore
            <4>2. Len(jobs[h].seen) \in Nat
                BY <3>1
            <4> QED
                BY <3>1, <3>3, <4>1, <4>2
        <3>4. ASSUME NEW x, read = <<x>>
              PROVE  /\ \E S : jobs'[h].seen \in Seq(S)
                     /\ Len(jobs[h].seen) \in Nat
                     /\ Len(jobs'[h].seen) = Len(jobs[h].seen) + 1
                     /\ \A k \in 1 .. Len(jobs[h].seen) : jobs'[h].seen[k] = jobs[h].seen[k]
                     /\ jobs'[h].seen[Len(jobs[h].seen) + 1] = x
            <4>1. PICK s : s = jobs[h].seen
                OBVIOUS
            <4>2. jobs'[h].seen = s \o <<x>>
                BY <3>2, <3>4, <4>1
            <4>3. \E S : s \in Seq(S)
                BY <3>1, <4>1
            <4>4. /\ \E S : s \o <<x>> \in Seq(S)
                  /\ Len(s) \in Nat /\ Len(s \o <<x>>) = Len(s) + 1
                  /\ \A k \in 1 .. Len(s) : (s \o <<x>>)[k] = s[k]
                  /\ (s \o <<x>>)[Len(s) + 1] = x
                BY <4>3, SeenMore
            <4> QED
                BY <4>1, <4>2, <4>4
        <3> QED
            BY <2>1, <3>3, <3>4
    <2>8. CASE At(h, {"get_rules"})
        <3>1. /\ ~At(h, {"get_outbounds"}) /\ ~At(h, {"delete_inbound"}) /\ ~HasBoth(h)'
            BY <1>6, <1>7, <2>8 DEF HasBoth
        <3>2. PICK R : R = {r \in rules : r.on}
            OBVIOUS
        <3>3. read = <<R>>
            BY <2>1, <2>8, <3>2
        <3>4. RulesRead(h)' = R /\ Len(jobs'[h].seen) > 0
            BY <2>7, <3>1, <3>3 DEF RulesRead
        <3>5. RulesCurrent(R)'
            BY <2>2, <3>2 DEF RulesCurrent, FewerRows
        <3>6. RulesCurrent(RulesRead(h))'
            BY <3>4, <3>5 DEF RulesCurrent
        <3>7. Current(h)'
            BY <3>1, <3>6 DEF Current
        <3>8. StaleIsAhead'
            BY <1>5, <2>2, <2>4, <3>7, StaleStays DEF Follows
        <3>9. Answered(h)'
            BY <1>3, <1>6, <2>1, <2>7, <3>1, <3>4 DEF Answered, Sure
        <3> QED
            BY <1>10, <2>6, <3>8, <3>9 DEF Follows
    <2>9. CASE At(h, {"get_outbounds"})
        <3>1. /\ ~At(h, Edits) /\ ~At(h, {"order_rule", "commit"}) /\ ~At(h, {"delete_inbound"})
              /\ HasRules(h) /\ ~HasBoth(h) /\ HasBoth(h)'
            <4>1. ~At(h, Edits)
                BY <1>7, <2>9 DEF Edits
            <4>2. ~At(h, {"order_rule", "commit"}) /\ ~At(h, {"delete_inbound"})
                BY <1>7, <2>9
            <4>3. HasRules(h) /\ ~HasBoth(h)
                BY <1>3, <2>9 DEF HasBoth, HasRules
            <4>4. HasBoth(h)'
                BY <1>3, <1>6, <2>9 DEF HasBoth
            <4> QED
                BY <4>1, <4>2, <4>3, <4>4
        <3>2. Len(jobs[h].seen) > 0
            BY <1>8, <3>1 DEF Answered
        <3>3. read = <<outbounds>>
            BY <2>1, <2>9
        <3>4. /\ Len(jobs'[h].seen) = Len(jobs[h].seen) + 1 /\ Len(jobs[h].seen) \in Nat \ {0}
              /\ jobs'[h].seen[Len(jobs[h].seen)] = jobs[h].seen[Len(jobs[h].seen)]
              /\ jobs'[h].seen[Len(jobs'[h].seen)] = outbounds
            BY <2>7, <3>2, <3>3
        <3>5. RulesRead(h)' = RulesRead(h) /\ OutboundsRead(h)' = outbounds
            BY <3>1, <3>4 DEF RulesRead, OutboundsRead
        <3>6. ASSUME Current(h) PROVE Current(h)'
            <4>1. PICK rs : rs = RulesRead(h)
                OBVIOUS
            <4>2. RulesCurrent(rs)'
                BY <2>2, <3>6, <4>1, RulesStay DEF Current
            <4>3. rs = RulesRead(h)'
                BY <3>5, <4>1
            <4>4. RulesCurrent(RulesRead(h))'
                BY <4>2, <4>3 DEF RulesCurrent
            <4> QED
                BY <2>1, <3>5, <4>4 DEF Current
        <3>7. ASSUME NEW e \in Slots, Ahead(h, e) PROVE Ahead(h, e)'
            <4>1. e # h
                BY <3>1, <3>7 DEF Ahead, Effective
            <4>2. Effective(e)' <=> Effective(e)
                BY <1>5, <4>1, OthersStay
            <4> QED
                BY <1>3, <1>4, <1>6, <3>7, <4>2 DEF Ahead
        <3>8. HasRules(h)' => Current(h)' \/ \E e \in Slots : Ahead(h, e)'
            BY <3>1, <3>6, <3>7 DEF Follows, StaleIsAhead
        <3>9. StaleIsAhead'
            BY <1>5, <2>2, <2>4, <3>8, StaleStays DEF Follows
        <3>10. Answered(h)'
            <4>1. ok = TRUE
                BY <2>1, <2>9 DEF At, Sure
            <4> QED
                BY <1>3, <1>6, <2>7, <3>1, <3>4, <4>1 DEF Answered
        <3> QED
            BY <1>10, <2>6, <3>9, <3>10 DEF Follows
    <2>10. CASE ~At(h, {"get_rules"}) /\ ~At(h, {"get_outbounds"})
        <3>1. ~HasRules(h)' /\ ~HasBoth(h)'
            BY <1>6, <2>10 DEF HasRules, HasBoth
        <3>2. StaleIsAhead'
            BY <1>5, <2>2, <2>4, <3>1, StaleStays DEF Follows
        <3>3. Answered(h)'
            <4>1. Sure' = Sure
                BY DEF Sure
            <4> QED
                BY <1>3, <1>6, <2>1, <2>7, <3>1, <4>1 DEF Answered
        <3> QED
            BY <1>10, <2>6, <3>2, <3>3 DEF Follows
    <2> QED
        BY <2>8, <2>9, <2>10
<1> QED
    BY <1>11, <1>12
-----------------------------------------------------------------------------
(* The event loop resumes a job *)

\* The steps of a job that reloads one by one.
LEMMA RToIs ==
    /\ RTo["order_rule"] = {"order_rule", "commit"} /\ RTo["get_rule"] = {"toggle"}
    /\ RTo["toggle"] = {"toggle_rule"}
    /\ RTo["commit"] = {"rowid", "reload"} /\ RTo["rowid"] = {"reload"} /\ RTo["reload"] = {"get_rules"}
    /\ RTo["get_rules"] = {"get_outbounds"} /\ RTo["get_outbounds"] = {}
    /\ \A s \in Edits \ {"order_rule"} : RTo[s] = {"commit"}
    /\ RSteps = Edits \cup {"get_rule", "toggle", "commit", "rowid", "reload", "get_rules",
                              "get_outbounds"}
<1>1. RSteps = Edits \cup {"get_rule", "toggle", "commit", "rowid", "reload", "get_rules",
                              "get_outbounds"}
    BY DEF RSteps, RouterStatements, Hops, Edits
<1>2. \A s \in Edits \ {"order_rule"} : RTo[s] = {"commit"}
    BY <1>1 DEF Edits, RTo
<1> QED
    BY <1>1, <1>2 DEF Edits, RTo

\* Whose reload is ahead of another's is not the other.
LEMMA AheadIsDue ==
    ASSUME NEW i, NEW j, Ahead(i, j)
    PROVE  Due(j) /\ ~At(j, {"get_outbounds"})
<1>1. At(j, Edits) \/ At(j, {"order_rule", "commit"})
    BY DEF Ahead, Effective
<1>2. ~At(j, {"get_outbounds"})
    BY <1>1 DEF At, Edits
<1> QED
    BY <1>2 DEF Ahead, Due, At

LEMMA ResumeFollows == ASSUME Inv, Follows, Resume PROVE Follows'
<1>0. PICK j \in Slots : j = Head(ready)
    <2>1. ready # <<>>
        BY DEF Resume
    <2> QED
        BY <2>1, ResumedIs
<1> DEFINE old == Head(jobs[j].todo)
           rest == Tail(jobs[j].todo)
           todo == IF jobs[j].ok THEN rest ELSE <<>>
<1>1. /\ ready # <<>> /\ ready' = Tail(ready) /\ Goes(j, todo, jobs[j].seen)
      /\ UNCHANGED <<outbounds, rules, gone>>
    BY <1>0 DEF Resume, tables
<1>2. /\ ~Has(fifo, j) /\ Busy(j) /\ At(j, Statements) /\ Program(jobs[j].todo)
      /\ rest = <<>> \/ Program(rest)
    BY <1>0, <1>1, ResumedIs
<1>3. \A S : At(j, S) <=> old \in S
    BY <1>2 DEF At
<1>4. todo = <<>> \/ Program(todo)
    BY <1>2
<1>5. Has(ready, j) /\ Answered(j)
    BY <1>0, <1>1, QueueShrinks DEF Inv, Lines, Follows
<1>6. /\ jobs'[j] = IF todo = <<>> THEN Idle
                    ELSE [todo |-> todo, id |-> jobs[j].id, new |-> jobs[j].new,
                          seen |-> jobs[j].seen, ok |-> jobs[j].ok]
      /\ jobs'[j].todo = todo
      /\ \A i \in Slots : i # j => jobs'[i] = jobs[i]
    <2>1. Jobs /\ Lines
        BY DEF Inv
    <2> HIDE DEF todo
    <2> QED
        BY <1>1, <1>2, <1>4, <2>1, GoesIs
<1>7. fifo' = fifo \/ fifo' = Append(fifo, j)
    BY <1>1 DEF Goes, Queued
<1>8. \A S : At(j, S)' <=> todo # <<>> /\ Head(todo) \in S
    BY <1>6 DEF At, Busy
<1>9. Moves(j) /\ ~Has(ready', j)
    BY <1>0, <1>1, <1>6, <1>7, ResumedMoves DEF Inv
<1>10. \E S : jobs'[j].seen \in Seq(S)
    <2>1. Idle.seen \in Seq({})
        BY IdleIs
    <2> QED
        <3>1. CASE todo = <<>>
            BY <1>6, <2>1, <3>1
        <3>2. CASE todo # <<>>
            <4>1. jobs'[j].seen = jobs[j].seen
                BY <1>6, <3>2
            <4> QED
                BY <1>5, <4>1 DEF Answered
        <3> QED
            BY <3>1, <3>2
<1>11. \A i \in Slots : i # j => Answered(i)'
    BY <1>1, <1>9, OthersStay DEF Follows
<1>12. ~HasBoth(j)' /\ (HasRules(j)' <=> At(j, {"get_outbounds"})')
    BY <1>9 DEF HasBoth, HasRules
<1>13. (old # "get_outbounds" => router' = router) /\ unloaded' = unloaded
    BY <1>0, <1>3 DEF Resume, Install, Launch, history
<1> HIDE DEF todo
\* An Xray job.
<1>14. CASE old \notin RouterStatements
    <2>1. old \in XSteps
        BY <1>2, <1>3, <1>14, Steps DEF Statements
    <2>2. todo # <<>> => Head(todo) \in XSteps
        BY <1>2, <2>1, NextStep DEF todo
    <2>3. ~At(j, {"get_outbounds"})'
        BY <1>8, <2>2, TablesAre
    <2>4. old # "get_outbounds" /\ ~At(j, RouterStatements \cup {"reload"})
        BY <1>2, <1>3, <1>14, Steps DEF RouterStatements, Hops
    <2> QED
        BY <1>1, <1>9, <1>10, <1>12, <1>13, <2>3, <2>4, Aside
\* The deletion of an inbound.
<1>15. CASE DProgram(jobs[j].todo)
    <2>1. /\ ~RProgram(jobs[j].todo) /\ old \in DSteps
          /\ rest # <<>> => Head(rest) \in DTo[old] /\ DProgram(rest)
          /\ rest = <<>> => old = "commit"
        BY <1>2, <1>15, KindIs, DRest
    <2>2. todo # <<>> => Head(todo) \in DSteps
        BY <2>1, KindIs, <1>2 DEF todo
    <2>3. ~HasRules(j)' /\ old # "get_outbounds"
        <3>1. "get_outbounds" \notin DSteps
            BY DEF DSteps
        <3> QED
            BY <1>8, <1>12, <2>1, <2>2, <3>1
    <2>4. ~Due(j) /\ \A i : ~Ahead(i, j)
        BY <2>1 DEF Due, Ahead
    <2>5. Deleting(j) => jobs[j].new \in gone' \/ (Deleting(j)' /\ jobs'[j].new = jobs[j].new)
        <3>1. CASE At(j, {"delete_inbound"})
            BY <1>1, <1>5, <3>1 DEF Answered
        <3>2. CASE At(j, {"delete_inbound_rules"})
            <4>1. jobs[j].ok
                BY <1>3, <1>5, <3>2 DEF Answered, Sure
            <4>2. old = "delete_inbound_rules" /\ DTo[old] = {"delete_inbound"}
                BY <1>3, <3>2 DEF DTo, DSteps
            <4>3. todo = rest /\ rest # <<>> /\ Head(rest) = "delete_inbound"
                BY <2>1, <4>1, <4>2 DEF todo
            <4>4. At(j, {"delete_inbound"})' /\ jobs'[j].new = jobs[j].new
                BY <1>6, <1>8, <4>3
            <4> QED
                BY <4>4 DEF Deleting
        <3> QED
            BY <3>1, <3>2 DEF Deleting
    <2>6. FewerRows
        <3>1. \A t : Doomed(t) => Doomed(t)'
            BY <1>1, <1>9, <2>5, DoomedStays
        <3> QED
            BY <1>1, <3>1 DEF FewerRows
    <2>7. StaleIsAhead'
        BY <1>9, <2>3, <2>4, <2>6, StaleStays DEF Follows
    <2>8. RouterFollows'
        BY <1>9, <1>13, <2>3, <2>4, <2>6, RouterStays DEF Follows
    <2>9. Answered(j)'
        BY <1>9, <1>10, <1>12, <2>3 DEF Answered
    <2> QED
        BY <1>11, <2>7, <2>8, <2>9 DEF Follows
\* A job that reloads.
<1>16. CASE RProgram(jobs[j].todo)
    <2>1. /\ old \in RSteps /\ (old = "get_outbounds" <=> rest = <<>>)
          /\ rest # <<>> => RProgram(rest) /\ Head(rest) \in RTo[old]
        BY <1>16, RRest
    <2>2. FewerRows
        <3>1. ~Deleting(j)
            <4>1. old \notin {"delete_inbound"} /\ old \notin {"delete_inbound_rules"}
                BY <2>1 DEF RSteps, Hops
            <4> QED
                BY <1>3, <4>1 DEF Deleting
        <3>2. \A t : Doomed(t) => Doomed(t)'
            BY <1>1, <1>9, <3>1, DoomedStays
        <3> QED
            BY <1>1, <3>2 DEF FewerRows
    <2>3. CASE old = "get_outbounds"
        <3>1. todo = <<>> /\ At(j, {"get_outbounds"}) /\ HasRules(j) /\ HasBoth(j)
            BY <1>3, <1>5, <2>1, <2>3 DEF todo, HasRules, HasBoth
        <3>2. ~HasRules(j)'
            BY <1>8, <1>12, <3>1
        <3>3. \A i : ~Ahead(i, j)
            BY <3>1, AheadIsDue
        <3>4. StaleIsAhead'
            BY <1>9, <2>2, <3>2, <3>3, StaleStays DEF Follows
        <3>5. Answered(j)'
            BY <1>9, <1>10, <1>12, <3>2 DEF Answered
        <3>6. RouterFollows'
            <4>1. CASE \E e \in Slots : e # j /\ Due(e)
                <5>1. PICK e \in Slots : e # j /\ Due(e)
                    BY <4>1
                <5>2. Due(e)'
                    BY <1>9, <5>1, OthersStay
                <5> QED
                    BY <5>2 DEF RouterFollows
            <4>2. CASE \A e \in Slots : e # j => ~Due(e)
                <5>1. \A e \in Slots : ~Ahead(j, e)
                    BY <3>3, <4>2, AheadIsDue
                <5>2. RulesCurrent(RulesRead(j)) /\ OutboundsRead(j) = outbounds
                    BY <3>1, <5>1 DEF Follows, StaleIsAhead, Current
                <5>3. Install(j)
                    BY <1>0, <1>3, <2>3 DEF Resume
                <5>4. CASE \E o \in outbounds : o.kind = "bad"
                    BY <1>1, <5>4 DEF RouterFollows
                <5>5. CASE \A o \in outbounds : o.kind # "bad"
                    <6>1. PICK rs : rs = RulesRead(j)
                        OBVIOUS
                    <6>2. router' = [rules |-> rs, outbounds |-> outbounds]
                        BY <3>1, <5>2, <5>3, <5>5, <6>1
                        DEF Install, Last, RulesRead, OutboundsRead
                    <6>3. RulesCurrent(rs)'
                        BY <2>2, <5>2, <6>1, RulesStay
                    <6>4. router'.outbounds = outbounds' /\ rs = router'.rules
                        BY <1>1, <6>2
                    <6>5. RulesCurrent(router.rules)'
                        BY <6>3, <6>4 DEF RulesCurrent
                    <6> QED
                        BY <6>4, <6>5 DEF RouterFollows
                <5> QED
                    BY <5>4, <5>5
            <4> QED
                BY <4>1, <4>2
        <3> QED
            BY <1>11, <3>4, <3>5, <3>6 DEF Follows
    <2>4. CASE old # "get_outbounds"
        <3>1. rest # <<>> /\ RProgram(rest) /\ Head(rest) \in RTo[old]
            BY <2>1, <2>4
        <3>2. jobs[j].ok => /\ todo = rest /\ RProgram(jobs'[j].todo)
                            /\ Head(rest) \in Statements => fifo' = Append(fifo, j)
            BY <1>1, <1>6, <3>1 DEF todo, Goes, Queued
        <3>3. ASSUME Due(j) PROVE Due(j)'
            <4>0. old \notin Hops
                BY <1>2, <1>3, Steps
            <4>1. jobs[j].ok /\ old # "get_rule"
                <5>1. CASE Effective(j)
                    BY <1>3, <5>1 DEF Effective, Edits
                <5>2. CASE At(j, {"order_rule", "commit", "rowid", "reload", "get_rules", "get_outbounds"})
                    <6>1. old \in {"order_rule", "commit", "rowid", "get_rules", "get_outbounds"}
                        BY <1>3, <4>0, <5>2 DEF Hops
                    <6> QED
                        BY <1>3, <1>5, <6>1 DEF Answered, Sure
                <5> QED
                    BY <3>3, <5>1, <5>2 DEF Due
            <4>2. Head(rest) \in {"order_rule", "commit", "rowid", "reload", "get_rules", "get_outbounds"}
                <5>1. old # "toggle"
                    BY <4>0 DEF Hops
                <5> QED
                    BY <2>1, <3>1, <4>1, <5>1, RToIs
            <4> QED
                BY <1>8, <3>1, <3>2, <4>1, <4>2 DEF Due
        <3>4. ASSUME NEW i \in Slots \ {j}, Ahead(i, j) PROVE Ahead(i, j)'
            <4>1. ~Sooner(i, j)
                BY <1>0, <1>1, <1>7, ResumedInOrder DEF Inv
            <4>2. Effective(j) /\ At(i, {"get_outbounds"})
                BY <3>4, <4>1 DEF Ahead
            <4>3. jobs[j].ok /\ old \in Edits
                BY <1>3, <4>2 DEF Effective
            <4>4. Head(rest) \in {"order_rule", "commit"}
                BY <3>1, <4>3, RToIs
            <4>5. At(j, {"order_rule", "commit"})' /\ RProgram(jobs'[j].todo)
                BY <1>8, <3>1, <3>2, <4>3, <4>4
            <4>6. At(i, {"get_outbounds"})'
                BY <1>9, <4>2, OthersStay
            <4>7. Sooner(i, j)'
                <5>1. Has(fifo, i) \/ Has(ready', i)
                    <6>1. At(i, Statements)
                        BY <4>2 DEF At, Statements, RouterStatements
                    <6> QED
                        BY <1>9, <6>1 DEF Inv, Lines, Moves
                <5>2. fifo \in Seq(Slots) /\ fifo' = Append(fifo, j)
                    BY <3>2, <4>3, <4>4 DEF Inv, Lines, Statements, RouterStatements
                <5>3. Has(fifo', j)
                    BY <5>2, QueueGrows
                <5>4. Has(fifo, i) => Before(fifo', i, j)
                    BY <5>2, BeforeGrows
                <5> QED
                    BY <5>1, <5>3, <5>4 DEF Sooner
            <4> QED
                BY <4>5, <4>6, <4>7 DEF Ahead
        <3>5. ASSUME HasRules(j)'
              PROVE  /\ old = "get_rules" /\ jobs[j].ok /\ jobs'[j].seen = jobs[j].seen
                     /\ HasRules(j) /\ ~HasBoth(j)
            <4>1. todo # <<>> /\ Head(todo) = "get_outbounds"
                BY <1>8, <1>12, <3>5
            <4>2. jobs[j].ok /\ Head(rest) = "get_outbounds"
                BY <4>1 DEF todo
            <4>3. old = "get_rules"
                <5>1. "get_outbounds" \in RTo[old]
                    BY <3>1, <4>2
                <5> QED
                    BY <2>1, <5>1, RToIs
            <4> QED
                BY <1>3, <1>5, <1>6, <4>1, <4>2, <4>3 DEF HasRules, HasBoth
        <3>6. ASSUME HasRules(j)' PROVE Current(j)' \/ \E e \in Slots : Ahead(j, e)'
            <4>1. RulesRead(j)' = RulesRead(j) /\ OutboundsRead(j)' = OutboundsRead(j)
                BY <1>12, <3>5, <3>6 DEF RulesRead, OutboundsRead
            <4>2. CASE Current(j)
                BY <1>12, <2>2, <3>5, <3>6, <4>1, <4>2, CurrentStays
            <4>3. ASSUME NEW e \in Slots, Ahead(j, e) PROVE Ahead(j, e)'
                <5>1. ~At(j, {"get_outbounds"})
                    BY <1>3, <3>5, <3>6
                <5>2. Effective(e) /\ RProgram(jobs[e].todo)
                    BY <4>3, <5>1 DEF Ahead
                <5>3. e # j
                    BY <1>3, <3>5, <3>6, <5>2 DEF Effective, Edits
                <5>4. Effective(e)' /\ jobs'[e] = jobs[e] /\ At(j, {"get_outbounds"})'
                    BY <1>9, <1>12, <3>6, <5>2, <5>3, OthersStay
                <5> QED
                    BY <5>2, <5>4 DEF Ahead
            <4> QED
                BY <3>5, <3>6, <4>2, <4>3 DEF Follows, StaleIsAhead
        <3>7. StaleIsAhead'
            BY <1>9, <2>2, <3>4, <3>6, StaleStays DEF Follows
        <3>8. RouterFollows'
            BY <1>9, <1>13, <2>2, <2>4, <3>3, RouterStays DEF Follows
        <3>9. Answered(j)'
            <4>1. HasRules(j)' => Len(jobs'[j].seen) > 0
                BY <1>5, <3>5 DEF Answered
            <4> QED
                BY <1>9, <1>10, <1>12, <4>1 DEF Answered
        <3> QED
            BY <1>11, <3>7, <3>8, <3>9 DEF Follows
    <2> QED
        BY <2>3, <2>4
<1> QED
    BY <1>2, <1>14, <1>15, <1>16, KindIs

\* The thread of a request begins its reload, or gives up.
LEMMA ThreadFollows == ASSUME Inv, Follows, Thread PROVE Follows'
<1>1. ASSUME NEW j \in Slots, At(j, Hops \cup {"check"}),
             NEW todo, todo = <<>> \/ Program(todo), NEW seen, Goes(j, todo, seen),
             \E S : seen \in Seq(S), todo # <<>> => Head(todo) # "get_outbounds",
             UNCHANGED <<outbounds, rules, gone, router, ready>>,
             Due(j) => Due(j)' \/ unloaded', unloaded => unloaded' \/ Due(j)'
      PROVE  Follows'
    <2>1. ~Has(fifo, j) /\ ~Has(ready, j)
        BY <1>1, Steps DEF Inv, Lines, At
    <2>2. /\ jobs'[j] = IF todo = <<>> THEN Idle
                        ELSE [todo |-> todo, id |-> jobs[j].id, new |-> jobs[j].new,
                              seen |-> seen, ok |-> jobs[j].ok]
          /\ jobs'[j].todo = todo
          /\ \A i \in Slots : i # j => jobs'[i] = jobs[i]
        BY <1>1, <2>1, GoesIs DEF Inv
    <2>3. Moves(j)
        BY <1>1, <2>2, QueuedMoves DEF Inv, Goes, Queued
    <2>4. /\ ~Deleting(j) /\ \A i : ~Ahead(i, j)
        <3>1. ~At(j, {"delete_inbound"}) /\ ~At(j, {"delete_inbound_rules"}) /\ ~At(j, Edits)
              /\ ~At(j, {"order_rule", "commit"})
            BY <1>1 DEF At, Hops, Edits
        <3> QED
            BY <3>1 DEF Deleting, Ahead, Effective
    <2>5. ~HasRules(j)' /\ ~HasBoth(j)'
        BY <1>1, <2>1, <2>2 DEF HasRules, HasBoth, At, Busy
    <2>6. FewerRows
        <3>1. \A t : Doomed(t) => Doomed(t)'
            BY <1>1, <2>3, <2>4, DoomedStays
        <3> QED
            BY <1>1, <3>1 DEF FewerRows
    <2>7. StaleIsAhead'
        BY <2>3, <2>4, <2>5, <2>6, StaleStays DEF Follows
    <2>8. RouterFollows'
        BY <1>1, <2>3, <2>6, RouterStays DEF Follows
    <2>9. Answered(j)'
        <3>1. Idle.seen \in Seq({})
            BY IdleIs
        <3>2. \E S : jobs'[j].seen \in Seq(S)
            <4>1. CASE todo = <<>>
                BY <2>2, <3>1, <4>1
            <4>2. CASE todo # <<>>
                BY <1>1, <2>2, <4>2
            <4> QED
                BY <4>1, <4>2
        <3> QED
            BY <1>1, <2>1, <2>5, <3>2 DEF Answered
    <2>10. \A i \in Slots : i # j => Answered(i)'
        BY <1>1, <2>3, OthersStay DEF Follows
    <2> QED
        BY <2>7, <2>8, <2>9, <2>10 DEF Follows
<1>2. ASSUME NEW j \in Slots, Hop(j) PROVE Follows'
    <2> DEFINE todo == Tail(jobs[j].todo)
               seen == jobs[j].seen
               step == Head(jobs[j].todo)
    <2>1. /\ At(j, Hops) /\ Goes(j, todo, seen) /\ unloaded' = (unloaded /\ At(j, {"toggle"}))
          /\ UNCHANGED <<outbounds, rules, gone, router, ready>>
        BY <1>2 DEF Hop, Hops, tables
    <2>2. HopIs(j)
        BY <2>1, HopGoes
    <2>3. Program(todo) /\ Head(todo) = IF step = "reload" THEN "get_rules" ELSE "toggle_rule"
        BY <2>2 DEF HopIs
    <2>4. \E S : seen \in Seq(S)
        BY DEF Follows, Answered
    <2>5. step \in Hops /\ At(j, Hops \cup {"check"})
        BY <2>1 DEF At
    <2>6. ~Has(fifo, j)
        BY <2>1, Steps DEF Inv, Lines, At
    <2>7. ASSUME step = "reload" PROVE Due(j)'
        <3>1. jobs'[j].todo = todo /\ todo # <<>>
            BY <2>1, <2>3, <2>6, GoesIs, ProgramHead DEF Inv
        <3>2. Head(todo) = "get_rules" /\ RProgram(todo)
            BY <2>3, <2>7, KindIs
        <3> QED
            BY <3>1, <3>2 DEF Due, At, Busy
    <2>8. ASSUME step # "reload" PROVE ~Due(j) /\ unloaded' = unloaded
        <3>1. step = "toggle"
            BY <2>5, <2>8 DEF Hops
        <3>2. At(j, {"toggle"}) /\ ~At(j, Edits)
              /\ ~At(j, {"order_rule", "commit", "rowid", "reload", "get_rules", "get_outbounds"})
            BY <2>1, <3>1 DEF At, Edits
        <3>3. unloaded \in BOOLEAN
            BY DEF Inv, Scalars
        <3> QED
            BY <2>1, <3>2, <3>3 DEF Due, Effective
    <2> HIDE DEF todo, seen, step
    <2>9. Head(todo) # "get_outbounds"
        BY <2>3
    <2> QED
        BY <1>1, <2>1, <2>3, <2>4, <2>5, <2>7, <2>8, <2>9
<1>3. ASSUME NEW j \in Slots, GiveUp(j) PROVE Follows'
    <2> DEFINE todo == <<>>
               seen == <<>>
    <2>1. /\ At(j, Hops \cup {"check"}) /\ Goes(j, todo, seen) /\ todo = <<>> /\ seen \in Seq({})
          /\ UNCHANGED <<outbounds, rules, gone, router, ready>>
        BY <1>3 DEF GiveUp, Hops, tables
    <2>2. unloaded' = (unloaded \/ At(j, {"reload"}))
        BY <1>3 DEF GiveUp
    <2>3. Due(j) => At(j, {"reload"})
        <3>1. At(j, Edits) => FALSE
            BY <2>1 DEF At, Hops, Edits
        <3> QED
            BY <2>1, <3>1 DEF Due, Effective, At, Hops
    <2> HIDE DEF todo, seen
    <2> QED
        BY <1>1, <2>1, <2>2, <2>3
<1> QED
    BY <1>2, <1>3 DEF Thread
-----------------------------------------------------------------------------
(* The router follows its tables *)

LEMMA FollowsInit == ASSUME Init PROVE Follows
<1>1. \A j \in Slots : jobs[j] = Idle /\ \A S : ~At(j, S)
    BY DEF Init, At, Busy, Idle
<1>2. router.rules = rules /\ router.outbounds = outbounds
    BY DEF Init
<1>3. StaleIsAhead
    BY <1>1 DEF StaleIsAhead, HasRules
<1>4. RouterFollows
    BY <1>2 DEF RouterFollows, RulesCurrent
<1>5. ASSUME NEW j \in Slots PROVE Answered(j)
    <2>1. jobs[j].seen \in Seq({})
        <3>1. Idle.seen \in Seq({})
            BY IdleIs
        <3> QED
            BY <1>1, <3>1
    <2>2. ~HasRules(j) /\ ~HasBoth(j)
        BY <1>1 DEF HasRules, HasBoth
    <2> QED
        BY <1>1, <2>1, <2>2 DEF Answered
<1> QED
    BY <1>3, <1>4, <1>5 DEF Follows

LEMMA FollowsHolds == Spec => []Follows
<1>1. Init => Follows
    BY FollowsInit
<1>2. ASSUME Follows, UNCHANGED vars PROVE Follows'
    <2>1. UNCHANGED <<outbounds, rules, gone, router, unloaded, jobs, fifo, ready>>
        BY <1>2 DEF vars, tables, history
    <2> QED
        BY <1>2, <2>1, NothingFollows
<1>3. Inv /\ Follows /\ [Next]_vars => Follows'
    BY <1>2, BeginFollows, ServeFollows, ResumeFollows, ThreadFollows,
       ProcessFollows DEF Next
<1> QED
    BY <1>1, <1>3, InvHolds, PTL DEF Spec

\* No edit of the routing tables is under way, and so none is due.
LEMMA SettledIs ==
    ASSUME Settled
    PROVE  \A j \in Slots : ~Due(j) /\ ~Deleting(j)
<1>1. ASSUME NEW j \in Slots, NEW S, S \subseteq RouterStatements \cup Hops PROVE ~At(j, S)
    BY <1>1, Steps DEF Settled, At
<1>2. /\ Edits \subseteq RouterStatements \cup Hops
      /\ {"order_rule", "commit", "rowid", "reload", "get_rules", "get_outbounds"} \subseteq RouterStatements \cup Hops
      /\ {"delete_inbound"} \subseteq RouterStatements \cup Hops
      /\ {"delete_inbound_rules"} \subseteq RouterStatements \cup Hops
    BY DEF Edits, RouterStatements, Hops
<1> QED
    BY <1>1, <1>2 DEF Due, Effective, Deleting

\* Rules that no deleted inbound is named in decide alike when the tables do.
LEMMA SameMatch ==
    ASSUME NEW inb \in InboundTags, NEW rs,
           \A r \in rs \cup rules : r.on /\ r.inb \in {None, inb} => r \in rs /\ r \in rules
    PROVE  Match(rs, inb) = Match(rules, inb)
<1> DEFINE Hits(x) == {r \in x : r.on /\ r.inb \in {None, inb}}
           Best(hits) == CHOOSE r \in hits :
                             \A s \in hits : r.ord < s.ord \/ (r.ord = s.ord /\ r.id <= s.id)
           Tag(hits) == IF hits = {} THEN "direct" ELSE Best(hits).tag
<1>1. Hits(rs) = Hits(rules)
    OBVIOUS
<1>2. Match(rs, inb) = Tag(Hits(rs)) /\ Match(rules, inb) = Tag(Hits(rules))
    BY DEF Match
<1> HIDE DEF Hits, Tag
<1> QED
    BY <1>1, <1>2

\* When no edit of the routing tables is under way and every outbound can be built,
\* connections are routed as the tables say: of all the reloads that the edits asked
\* for, whatever the order in which their statements were served and their threads went
\* on, one that read after the last edit set the router last, unless a request gave up
\* before its reload and none has begun since (router.py 21-52, api.py 98-99, 292-425).
THEOREM RouterFollowsTables == Spec => []RouterIsCurrent
<1>1. Inv /\ Follows => RouterIsCurrent
    <2> SUFFICES ASSUME Inv, Follows, Settled, ~unloaded, \A o \in outbounds : o.kind # "bad",
                        NEW inb \in InboundTags, inb \notin gone
                 PROVE  Route(router.rules, router.outbounds, inb) = Route(rules, outbounds, inb)
        BY DEF RouterIsCurrent
    <2>1. router.outbounds = outbounds /\ RulesCurrent(router.rules)
        BY SettledIs DEF Follows, RouterFollows
    <2>2. ~Doomed(inb) /\ ~Doomed(None)
        BY SettledIs, RowsAssumption DEF Doomed, Inv, Scalars
    <2>3. Match(router.rules, inb) = Match(rules, inb)
        BY <2>1, <2>2, SameMatch DEF RulesCurrent
    <2> QED
        BY <2>1, <2>3 DEF Route
<1> QED
    BY <1>1, InvHolds, FollowsHolds, PTL
-----------------------------------------------------------------------------
(* Starts and restarts of Xray *)

\* A start that reads the tables, how many it had read when it asked for the next, and
\* whether it read table n, if it did, as it is.
Reader(j) == At(j, DOMAIN Reads)
Asked(j) == Reads[Head(jobs[j].todo)]
Fresh(j, n) == Reader(j) /\ (n <= Len(jobs[j].seen) => jobs[j].seen[n] = xtab[Order[n]])

\* An edit of table n that took effect and has yet to ask whether Xray runs, or a restart
\* that has yet to read the tables.
Owing(j, n) ==
    \/ /\ jobs[j].new = Order[n]
       /\ At(j, {"x_commit", "check"}) \/ (At(j, {"x_edit"}) /\ Has(ready, j))
    \/ At(j, {"stop", "wait"}) /\ Tail(jobs[j].todo) # <<>>

\* A start that launches after another.
Behind(i, j) ==
    /\ Reader(i) /\ Reader(j)
    /\ Asked(j) < Asked(i) \/ (Asked(j) = Asked(i) /\ Sooner(i, j))

\* A table that was edited since it was read, for a start or for the process in the
\* handle, is read again by a start that launches later.
ReadsFollow(n) ==
    \A j \in Slots : Reader(j) =>
        Fresh(j, n) \/ \E k \in Slots : Owing(k, n) \/ (Fresh(k, n) /\ Behind(j, k))
RunsFollow(n) ==
    handle # 0 /\ kids[handle].st = "run" =>
        \/ kids[handle].cfg[Order[n]] = xtab[Order[n]]
        \/ \E k \in Slots : Owing(k, n) \/ Fresh(k, n)
XrayFollows == missed \/ \A n \in 1 .. 3 : ReadsFollow(n) /\ RunsFollow(n)

LEMMA Fixed == Reads' = Reads /\ Order' = Order /\ TableOf' = TableOf
BY DEF Reads, Order, TableOf

LEMMA AskedIs ==
    ASSUME NEW j, Reader(j)
    PROVE  Asked(j) \in 0 .. 2 /\ Asked(j) = Reads[Head(jobs[j].todo)]
<1>1. Head(jobs[j].todo) \in DOMAIN Reads
    BY DEF Reader, At
<1> QED
    BY <1>1, ReadsIs DEF Asked

LEMMA OthersFollow ==
    ASSUME NEW j \in Slots, Moves(j), NEW i \in Slots, i # j, NEW n
    PROVE  /\ Reader(i)' <=> Reader(i)
           /\ Asked(i)' = Asked(i)
           /\ Owing(i, n)' <=> Owing(i, n)
           /\ xtab'[Order[n]] = xtab[Order[n]] => (Fresh(i, n)' <=> Fresh(i, n))
           /\ \A k \in Slots \ {j} : Behind(i, k) => Behind(i, k)'
<1>1. \A k \in Slots : k # j =>
          /\ jobs'[k] = jobs[k] /\ \A S : At(k, S)' <=> At(k, S)
          /\ Has(ready', k) <=> Has(ready, k)
    BY DEF Moves, At, Busy
<1>2. \A k \in Slots : k # j => (Reader(k)' <=> Reader(k)) /\ Asked(k)' = Asked(k)
    BY <1>1, Fixed DEF Reader, Asked
<1>3. Owing(i, n)' <=> Owing(i, n)
    BY <1>1, Fixed DEF Owing
<1>4. xtab'[Order[n]] = xtab[Order[n]] => (Fresh(i, n)' <=> Fresh(i, n))
    BY <1>1, <1>2, Fixed DEF Fresh
<1>5. ASSUME NEW k \in Slots \ {j}, Behind(i, k) PROVE Behind(i, k)'
    <2>1. Sooner(i, k) => Sooner(i, k)'
        BY DEF Moves
    <2> QED
        BY <1>2, <1>5, <2>1 DEF Behind
<1> QED
    BY <1>2, <1>3, <1>4, <1>5

\* What one job's move has to keep.
LEMMA ReadsStay ==
    ASSUME NEW n \in 1 .. 3, ReadsFollow(n), NEW j \in Slots, Moves(j),
           xtab'[Order[n]] = xtab[Order[n]],
           Owing(j, n) => Owing(j, n)',
           \A i \in Slots \ {j} : Fresh(j, n) /\ Behind(i, j) => Fresh(j, n)' /\ Behind(i, j)',
           Reader(j)' => Fresh(j, n)' \/ (Reader(j) /\ ~Fresh(j, n)),
           \A i \in Slots \ {j} : Reader(j)' /\ Behind(j, i) => Behind(j, i)'
    PROVE  ReadsFollow(n)'
<1> SUFFICES ASSUME NEW i \in Slots, Reader(i)', ~Fresh(i, n)'
             PROVE  \E k \in Slots : Owing(k, n)' \/ (Fresh(k, n)' /\ Behind(i, k)')
    BY DEF ReadsFollow
<1>1. Reader(i) /\ ~Fresh(i, n)
    BY OthersFollow
<1>2. PICK k \in Slots : Owing(k, n) \/ (Fresh(k, n) /\ Behind(i, k))
    BY <1>1 DEF ReadsFollow
<1>3. CASE Owing(k, n)
    <2>1. Owing(k, n)'
        BY <1>3, OthersFollow
    <2> QED
        BY <2>1
<1>4. CASE Fresh(k, n) /\ Behind(i, k)
    <2>1. k # i
        BY <1>1, <1>4
    <2>2. Fresh(k, n)'
        BY <1>4, <2>1, OthersFollow
    <2>3. Behind(i, k)'
        BY <1>4, <2>1, OthersFollow
    <2> QED
        BY <2>2, <2>3
<1> QED
    BY <1>2, <1>3, <1>4

LEMMA RunsStay ==
    ASSUME NEW n \in 1 .. 3, RunsFollow(n), NEW j \in Slots, Moves(j),
           xtab'[Order[n]] = xtab[Order[n]],
           Owing(j, n) \/ Fresh(j, n) => Owing(j, n)' \/ Fresh(j, n)',
           UNCHANGED <<handle, kids>>
    PROVE  RunsFollow(n)'
<1> SUFFICES ASSUME handle # 0, kids[handle].st = "run",
                    kids[handle].cfg[Order[n]] # xtab[Order[n]]
             PROVE  \E k \in Slots : Owing(k, n)' \/ Fresh(k, n)'
    BY Fixed DEF RunsFollow
<1>1. PICK k \in Slots : Owing(k, n) \/ Fresh(k, n)
    BY DEF RunsFollow
<1>2. Owing(k, n)' \/ Fresh(k, n)'
    BY <1>1, OthersFollow
<1> QED
    BY <1>2

\* A job that reads no table.
LEMMA XAside ==
    ASSUME XrayFollows, NEW j \in Slots, Moves(j), ~Reader(j), ~Reader(j)',
           \A n \in 1 .. 3 : Owing(j, n) => Owing(j, n)',
           UNCHANGED <<xtab, handle, kids, missed>>
    PROVE  XrayFollows'
<1> SUFFICES ASSUME NEW n \in 1 .. 3, ~missed PROVE ReadsFollow(n)' /\ RunsFollow(n)'
    BY DEF XrayFollows
<1>1. ReadsFollow(n) /\ RunsFollow(n)
    BY DEF XrayFollows
<1>2. ~Fresh(j, n) /\ \A i : ~Behind(i, j)
    BY DEF Fresh, Behind
<1>3. ReadsFollow(n)'
    BY <1>1, <1>2, ReadsStay
<1>4. RunsFollow(n)'
    BY <1>1, <1>2, RunsStay
<1> QED
    BY <1>3, <1>4

\* A start that is about to read the tables launches after all others.
LEMMA NewReader ==
    ASSUME Inv, NEW j \in Slots, Moves(j), fifo' = Append(fifo, j), ready' = ready,
           At(j, {"x_inbounds"})', jobs'[j].seen = <<>>, NEW n \in 1 .. 3
    PROVE  ReadsFollow(n)'
<1>1. /\ Reader(j)' /\ Asked(j)' = 0
    BY ReadsIs, Fixed DEF Reader, Asked, At, Busy
<1>2. Fresh(j, n)'
    BY <1>1 DEF Fresh
<1> SUFFICES ASSUME NEW i \in Slots, i # j, Reader(i)' PROVE Behind(i, j)'
    BY <1>2 DEF ReadsFollow
<1>3. Reader(i) /\ Asked(i)' = Asked(i) /\ Asked(i) \in 0 .. 2
    BY OthersFollow, AskedIs
<1>4. Has(fifo, i) \/ Has(ready, i)
    <2>1. At(i, Statements)
        BY <1>3, ReadsIs DEF Reader, At, Statements, XStatements
    <2> QED
        BY <2>1 DEF Inv, Lines
<1>5. Sooner(i, j)'
    <2>1. fifo \in Seq(Slots)
        BY DEF Inv, Lines
    <2>2. Has(fifo', j) /\ (Has(fifo, i) => Before(fifo', i, j))
        BY <2>1, QueueGrows, BeforeGrows
    <2> QED
        BY <1>4, <2>2 DEF Sooner
<1> QED
    BY <1>1, <1>3, <1>5 DEF Behind

LEMMA BeginXFollows == ASSUME Inv, XrayFollows, Requests PROVE XrayFollows'
<1>1. PICK todo, id, new : First(todo, new) /\ Begin(todo, id, new)
    BY RequestIs
<1>2. Jobs /\ Lines /\ requests \in Nat /\ Program(todo)
    BY <1>1 DEF Inv, Scalars, First
<1>3. PICK j \in Slots :
          /\ ~Busy(j)
          /\ jobs'[j] = [todo |-> todo, id |-> id, new |-> new, seen |-> <<>>, ok |-> TRUE]
          /\ \A i \in Slots : i # j => jobs'[i] = jobs[i]
          /\ fifo' = IF Head(todo) \in Statements THEN Append(fifo, j) ELSE fifo
          /\ UNCHANGED <<xtab, ready, handle, kids, missed>>
    BY <1>1, <1>2, BeginIs
<1>4. Moves(j)
    BY <1>2, <1>3, QueuedMoves
<1>5. ~Reader(j) /\ \A n : ~Owing(j, n)
    BY <1>3 DEF Reader, Owing, At
<1>6. Head(todo) \notin DOMAIN Reads
    BY <1>1, ReadsIs DEF First, Edits
<1>7. ~Reader(j)'
    BY <1>3, <1>6, Fixed DEF Reader, At
<1> QED
    BY <1>3, <1>4, <1>5, <1>7, XAside

\* What the connection does to the Xray tables, and reads of them.
XEdit(h) == xtab' = [xtab EXCEPT ![jobs[h].new] = @ + 1]

LEMMA ServeIs ==
    ASSUME Serve
    PROVE  \E ok, read :
              /\ fifo # <<>> /\ Answer(ok, read)
              /\ UNCHANGED xtab \/ ~Busy(Head(fifo)) \/ (At(Head(fifo), {"x_edit"}) /\ XEdit(Head(fifo)))
              /\ At(Head(fifo), DOMAIN TableOf) =>
                    read = <<xtab[TableOf[Head(jobs[Head(fifo)].todo)]]>> /\ UNCHANGED xtab
<1> DEFINE h == Head(fifo)
           Goal(ok, read) ==
              /\ fifo # <<>> /\ Answer(ok, read)
              /\ UNCHANGED xtab \/ ~Busy(h) \/ (At(h, {"x_edit"}) /\ XEdit(h))
              /\ At(h, DOMAIN TableOf) =>
                    read = <<xtab[TableOf[Head(jobs[h].todo)]]>> /\ UNCHANGED xtab
<1>1. ASSUME NEW s, Served(s), s \notin DOMAIN TableOf, NEW ok, NEW read, Answer(ok, read),
             UNCHANGED xtab \/ (s = "x_edit" /\ XEdit(h))
      PROVE  Goal(ok, read)
    BY <1>1 DEF Served, Job, At
<1>2. CASE InsertOutbound \/ UpdateOutbound \/ DeleteOutboundRow
    <2>1. \E s \in {"insert_outbound", "update_outbound", "delete_outbound"}, ok \in BOOLEAN :
              Served(s) /\ Answer(ok, <<>>) /\ UNCHANGED xtab
        BY <1>2, Zenon DEF InsertOutbound, UpdateOutbound, DeleteOutboundRow
    <2>2. PICK s \in {"insert_outbound", "update_outbound", "delete_outbound"}, ok \in BOOLEAN :
              Served(s) /\ Answer(ok, <<>>) /\ UNCHANGED xtab
        BY <2>1
    <2>3. s \notin DOMAIN TableOf
        BY TablesAre
    <2>4. Goal(ok, <<>>)
        BY <1>1, <2>2, <2>3
    <2> QED
        BY <2>4
<1>3. CASE InsertRule \/ UpdateRule \/ WriteToggle \/ OrderRule
    <2>1. \E s \in {"insert_rule", "update_rule", "toggle_rule", "order_rule"}, ok \in BOOLEAN :
              Served(s) /\ Answer(ok, <<>>) /\ UNCHANGED xtab
        BY <1>3, Zenon DEF InsertRule, UpdateRule, WriteToggle, OrderRule, ChangeRule, tables
    <2>2. PICK s \in {"insert_rule", "update_rule", "toggle_rule", "order_rule"}, ok \in BOOLEAN :
              Served(s) /\ Answer(ok, <<>>) /\ UNCHANGED xtab
        BY <2>1
    <2>3. s \notin DOMAIN TableOf
        BY TablesAre
    <2>4. Goal(ok, <<>>)
        BY <1>1, <2>2, <2>3
    <2> QED
        BY <2>4
<1>4. CASE DeleteRuleRow \/ DeleteInboundRules \/ DeleteInboundRow \/ EditXray
    <2>1. \E s \in {"delete_rule", "delete_inbound_rules", "delete_inbound", "x_edit"} :
              Served(s) /\ Answer(TRUE, <<>>) /\ (UNCHANGED xtab \/ (s = "x_edit" /\ XEdit(h)))
        BY <1>4 DEF DeleteRuleRow, DeleteInboundRules, DeleteInboundRow, EditXray, XEdit, Job
    <2>2. PICK s \in {"delete_rule", "delete_inbound_rules", "delete_inbound", "x_edit"} :
              Served(s) /\ Answer(TRUE, <<>>) /\ (UNCHANGED xtab \/ (s = "x_edit" /\ XEdit(h)))
        BY <2>1
    <2>3. s \notin DOMAIN TableOf
        BY TablesAre
    <2>4. Goal(TRUE, <<>>)
        BY <1>1, <2>2, <2>3
    <2> QED
        BY <2>4
<1>5. CASE Select
    <2>1. UNCHANGED xtab
        BY <1>5 DEF Select, tables
    <2>2. \/ \E s \in {"commit", "x_commit", "rowid", "get_rule", "get_rules", "get_outbounds"} :
                 \E ok, read : Served(s) /\ Answer(ok, read)
          \/ \E s \in DOMAIN TableOf : Served(s) /\ Answer(TRUE, <<xtab[TableOf[s]]>>)
        BY <1>5, Zenon DEF Select
    <2>3. CASE \E s \in {"commit", "x_commit", "rowid", "get_rule", "get_rules", "get_outbounds"} :
                   \E ok, read : Served(s) /\ Answer(ok, read)
        <3>1. PICK s \in {"commit", "x_commit", "rowid", "get_rule", "get_rules", "get_outbounds"} :
                   \E ok, read : Served(s) /\ Answer(ok, read)
            BY <2>3
        <3>2. PICK ok, read : Served(s) /\ Answer(ok, read)
            BY <3>1
        <3>3. s \notin DOMAIN TableOf
            BY TablesAre
        <3>4. Goal(ok, read)
            BY <1>1, <2>1, <3>2, <3>3
        <3> QED
            BY <3>4
    <2>4. CASE \E s \in DOMAIN TableOf : Served(s) /\ Answer(TRUE, <<xtab[TableOf[s]]>>)
        <3>1. PICK s \in DOMAIN TableOf : Served(s) /\ Answer(TRUE, <<xtab[TableOf[s]]>>)
            BY <2>4
        <3>2. fifo # <<>> /\ Head(jobs[h].todo) = s
            BY <3>1 DEF Served, Job
        <3>3. Goal(TRUE, <<xtab[TableOf[Head(jobs[h].todo)]]>>)
            BY <2>1, <3>1, <3>2
        <3> QED
            BY <3>3
    <2> QED
        BY <2>2, <2>3, <2>4
<1> QED
    BY <1>2, <1>3, <1>4, <1>5 DEF Serve

LEMMA OneMore ==
    ASSUME NEW s \in Seq(Nat), NEW n \in Nat
    PROVE  /\ Len(s \o <<n>>) = Len(s) + 1
           /\ \A k \in 1 .. Len(s) : (s \o <<n>>)[k] = s[k]
           /\ (s \o <<n>>)[Len(s) + 1] = n
OBVIOUS

LEMMA ServeXFollows == ASSUME Inv, XrayFollows, Serve PROVE XrayFollows'
<1>0. PICK h : h = Head(fifo)
    OBVIOUS
<1>1. PICK ok, read :
          /\ fifo # <<>> /\ Answer(ok, read)
          /\ UNCHANGED xtab \/ ~Busy(h) \/ (At(h, {"x_edit"}) /\ XEdit(h))
          /\ At(h, DOMAIN TableOf) =>
                read = <<xtab[TableOf[Head(jobs[h].todo)]]>> /\ UNCHANGED xtab
    BY <1>0, ServeIs
<1>2. /\ h \in Slots /\ Has(fifo, h) /\ ~Has(ready, h) /\ At(h, Statements)
      /\ jobs'[h] = [todo |-> jobs[h].todo, id |-> jobs[h].id, new |-> jobs[h].new,
                     seen |-> jobs[h].seen \o read, ok |-> ok]
      /\ \A j \in Slots : j # h => jobs'[j] = jobs[j]
      /\ \A j \in Slots : jobs'[j].todo = jobs[j].todo /\ jobs'[j].new = jobs[j].new
      /\ \A y : Has(fifo', y) <=> Has(fifo, y) /\ y # h
      /\ \A y : Has(ready', y) <=> Has(ready, y) \/ y = h
      /\ UNCHANGED <<handle, kids, missed>>
    BY <1>0, <1>1, AnswerIs DEF Inv
<1>3. \A i, k : Sooner(i, k) => Sooner(i, k)'
    BY <1>1, ServedInOrder DEF Inv, Answer
<1>4. Moves(h)
    BY <1>2, <1>3 DEF Moves
<1>5. UNCHANGED xtab \/ (At(h, {"x_edit"}) /\ XEdit(h))
    BY <1>1, <1>2 DEF At
<1>6. \A j \in Slots : /\ \A S : At(j, S)' <=> At(j, S)
                       /\ Reader(j)' <=> Reader(j)
                       /\ Asked(j)' = Asked(j)
    BY <1>2, Fixed DEF At, Busy, Reader, Asked
<1>7. \A i, k \in Slots : Behind(i, k) => Behind(i, k)'
    BY <1>3, <1>6 DEF Behind
<1>8. ASSUME NEW n \in 1 .. 3, Owing(h, n) PROVE Owing(h, n)'
    BY <1>2, <1>6, <1>8, Fixed DEF Owing
<1>9. ASSUME NEW n \in 1 .. 3, Reader(h) PROVE UNCHANGED xtab /\ (Fresh(h, n) => Fresh(h, n)')
    <2> DEFINE s == Head(jobs[h].todo)
               x == xtab[TableOf[s]]
    <2>1. s \in DOMAIN Reads /\ DOMAIN Reads = DOMAIN TableOf
        BY <1>9, ReadsIs, TablesAre DEF Reader, At
    <2>2. read = <<x>> /\ UNCHANGED xtab
        BY <1>1, <1>2, <2>1 DEF At
    <2>3. jobs[h].seen \in Seq(Nat) /\ Len(jobs[h].seen) = Reads[s] + 0
        BY <1>2, <1>9 DEF Inv, Reading, Reader
    <2> HIDE DEF s
    <2>4. Len(jobs[h].seen) \in 0 .. 2 /\ Order[Len(jobs[h].seen) + 1] = TableOf[s]
        BY <2>1, <2>3, TablesAre, ReadsIs
    <2>5. x \in Nat
        <3>1. TableOf[s] \in XTables
            BY <2>1, TablesAre DEF XTables
        <3> QED
            BY <3>1 DEF Inv, Counted
    <2>6. x = xtab[Order[Len(jobs[h].seen) + 1]]
        BY <2>4
    <2> HIDE DEF x
    <2>7. /\ Len(jobs[h].seen \o <<x>>) = Len(jobs[h].seen) + 1
          /\ \A k \in 1 .. Len(jobs[h].seen) : (jobs[h].seen \o <<x>>)[k] = jobs[h].seen[k]
          /\ (jobs[h].seen \o <<x>>)[Len(jobs[h].seen) + 1] = x
        BY <2>3, <2>5, OneMore
    <2>8. jobs'[h].seen = jobs[h].seen \o <<x>>
        BY <1>2, <2>2
    <2>9. ASSUME Fresh(h, n), n <= Len(jobs'[h].seen)
          PROVE  jobs'[h].seen[n] = xtab[Order[n]]
        <3>1. n \in 1 .. Len(jobs[h].seen) \/ n = Len(jobs[h].seen) + 1
            BY <2>4, <2>7, <2>8, <2>9
        <3>2. CASE n \in 1 .. Len(jobs[h].seen)
            BY <2>4, <2>7, <2>8, <2>9, <3>2 DEF Fresh
        <3>3. CASE n = Len(jobs[h].seen) + 1
            BY <2>6, <2>7, <2>8, <3>3
        <3> QED
            BY <3>1, <3>2, <3>3
    <2> QED
        BY <1>2, <1>6, <2>2, <2>9, Fixed DEF Fresh
<1> SUFFICES ASSUME NEW n \in 1 .. 3, ~missed PROVE ReadsFollow(n)' /\ RunsFollow(n)'
    BY <1>2 DEF XrayFollows
<1>10. ReadsFollow(n) /\ RunsFollow(n)
    BY DEF XrayFollows
<1>11. CASE At(h, {"x_edit"}) /\ jobs[h].new = Order[n]
    <2>1. Owing(h, n)'
        BY <1>2, <1>6, <1>11, Fixed DEF Owing
    <2> QED
        BY <1>2, <2>1 DEF ReadsFollow, RunsFollow
<1>12. CASE ~(At(h, {"x_edit"}) /\ jobs[h].new = Order[n])
    <2>1. xtab'[Order[n]] = xtab[Order[n]]
        <3>1. Order[n] \in XTables /\ xtab \in [XTables -> Nat]
            BY TablesAre DEF XTables, Inv, Counted
        <3> QED
            BY <1>5, <1>12, <3>1 DEF XEdit
    <2>2. Fresh(h, n) => Fresh(h, n)'
        BY <1>9 DEF Fresh
    <2>3. Reader(h)' => Fresh(h, n)' \/ (Reader(h) /\ ~Fresh(h, n))
        BY <1>2, <1>6, <2>2
    <2>4. ReadsFollow(n)'
        BY <1>2, <1>4, <1>7, <1>8, <1>10, <2>1, <2>2, <2>3, ReadsStay
    <2>5. RunsFollow(n)'
        BY <1>2, <1>4, <1>8, <1>10, <2>1, <2>2, RunsStay
    <2> QED
        BY <2>4, <2>5
<1> QED
    BY <1>11, <1>12

\* A start that reads one more table, or has read them all, is behind no other.
LEMMA LaunchesFirst ==
    ASSUME Inv, ready # <<>>, ready' = Tail(ready), NEW j \in Slots, j = Head(ready),
           fifo' = fifo \/ fifo' = Append(fifo, j), NEW i \in Slots, i # j, Behind(i, j)
    PROVE  /\ Asked(j) < Asked(i)
           /\ Asked(i) = Asked(j) + 1 /\ fifo' = Append(fifo, j) =>
                  Before(fifo', i, j) \/ (Has(ready', i) /\ Has(fifo', j))
<1>1. ~Sooner(i, j)
    BY ResumedInOrder DEF Inv
<1>2. Asked(j) < Asked(i)
    BY <1>1 DEF Behind
<1>3. Has(fifo, i) \/ Has(ready, i)
    <2>1. At(i, Statements)
        BY ReadsIs DEF Behind, Reader, At, Statements, XStatements
    <2> QED
        BY <2>1 DEF Inv, Lines
<1>4. ASSUME fifo' = Append(fifo, j)
      PROVE  Before(fifo', i, j) \/ (Has(ready', i) /\ Has(fifo', j))
    <2>1. fifo \in Seq(Slots) /\ ready \in Seq(Slots)
        BY DEF Inv, Lines
    <2>2. Has(fifo', j) /\ (Has(fifo, i) => Before(fifo', i, j))
        BY <1>4, <2>1, QueueGrows, BeforeGrows
    <2>3. Has(ready, i) => Has(ready', i)
        BY <2>1, QueueShrinks
    <2> QED
        BY <1>3, <2>2, <2>3
<1> QED
    BY <1>2, <1>4

LEMMA ResumeXFollows == ASSUME Inv, XrayFollows, Resume PROVE XrayFollows'
<1>0. PICK j \in Slots : j = Head(ready)
    <2>1. ready # <<>>
        BY DEF Resume
    <2> QED
        BY <2>1, ResumedIs
<1> DEFINE todo == IF jobs[j].ok THEN Tail(jobs[j].todo) ELSE <<>>
           old == Head(jobs[j].todo)
<1>1. /\ ready # <<>> /\ ready' = Tail(ready) /\ Goes(j, todo, jobs[j].seen)
      /\ UNCHANGED xtab
    BY <1>0 DEF Resume, tables
<1>2. /\ ~Has(fifo, j) /\ Busy(j) /\ At(j, Statements)
      /\ Program(jobs[j].todo)
      /\ Tail(jobs[j].todo) = <<>> \/ Program(Tail(jobs[j].todo))
      /\ At(j, DOMAIN Reads) =>
            jobs[j].seen \in Seq(Nat) /\ Len(jobs[j].seen) = Reads[Head(jobs[j].todo)] + 1
    BY <1>0, <1>1, ResumedIs
<1>3. \A S : At(j, S) <=> old \in S
    BY <1>2 DEF At
\* From a statement of an Xray job to the next.
<1>4. /\ todo # <<>> => (Head(todo) \in XSteps <=> old \in XSteps)
      /\ old \in XSteps => old \in XStatements
      /\ old \in {"x_edit", "x_commit", "x_inbounds", "x_outbounds"} => todo # <<>>
      /\ old = "x_edit" => Head(todo) = "x_commit"
      /\ old = "x_commit" => Head(todo) = "check"
      /\ old = "x_inbounds" => Head(todo) = "x_outbounds"
      /\ old = "x_outbounds" => Head(todo) = "x_clients"
      /\ old = "x_clients" => todo = <<>>
    <2>1. todo # <<>> => todo = Tail(jobs[j].todo)
        OBVIOUS
    <2>2. todo # <<>> => (Head(todo) \in XSteps <=> old \in XSteps)
        BY <1>2, <2>1, NextStep
    <2>3. ASSUME old \in XSteps
          PROVE  XProgram(jobs[j].todo) /\ todo = Tail(jobs[j].todo)
        <3>1. At(j, XSteps)
            BY <1>3, <2>3
        <3>2. jobs[j].ok
            BY <1>2, <3>1 DEF Inv, Reading
        <3> QED
            BY <1>2, <2>3, <3>2, ProgramHead
    <2>4. old \in XSteps => old \in XStatements
        BY <1>2, Steps DEF At
    <2>5. ASSUME old \in XSteps, todo # <<>> PROVE Head(todo) \in XTo[old]
        BY <2>3, <2>5, XRest
    <2>6. ASSUME old \in {"x_edit", "x_commit", "x_inbounds", "x_outbounds"} PROVE todo # <<>>
        <3>1. old \in XSteps /\ old \notin {"check", "x_clients", "stop", "wait"}
            BY <2>6, Steps
        <3> QED
            BY <2>3, <3>1, XRest
    <2>7. old \in {"x_edit", "x_commit", "x_inbounds", "x_outbounds", "x_clients"} => old \in XSteps
        BY Steps
    <2> HIDE DEF todo, old
    <2> QED
        BY <2>2, <2>4, <2>5, <2>6, <2>7, XToIs
<1>5. todo = <<>> \/ Program(todo)
    BY <1>2
<1>6. /\ jobs'[j] = IF todo = <<>> THEN Idle
                    ELSE [todo |-> todo, id |-> jobs[j].id, new |-> jobs[j].new,
                          seen |-> jobs[j].seen, ok |-> jobs[j].ok]
      /\ jobs'[j].todo = todo
      /\ \A i \in Slots : i # j => jobs'[i] = jobs[i]
    <2>1. Jobs /\ Lines
        BY DEF Inv
    <2> HIDE DEF todo
    <2> QED
        BY <1>1, <1>2, <1>5, <2>1, GoesIs
<1> HIDE DEF todo
<1>7. /\ fifo' = fifo \/ fifo' = Append(fifo, j)
      /\ todo # <<>> /\ Head(todo) \in Statements => fifo' = Append(fifo, j)
    BY <1>1 DEF Goes, Queued
<1>8. \A S : At(j, S)' <=> todo # <<>> /\ Head(todo) \in S
    BY <1>6 DEF At, Busy
<1>9. Moves(j)
    BY <1>0, <1>1, <1>6, <1>7, ResumedMoves DEF Inv
\* What becomes of the process.
<1>10. /\ old # "x_clients" => UNCHANGED <<handle, kids, missed>>
       /\ old = "x_clients" => Launch(j)
    <2>1. CASE old = "get_outbounds"
        <3>1. At(j, {"get_outbounds"}) /\ ~At(j, {"x_clients"})
            BY <1>3, <2>1
        <3>2. UNCHANGED <<handle, kids, missed>>
            BY <1>0, <3>1 DEF Resume, Install, xray, history
        <3> QED
            BY <2>1, <3>2
    <2>2. CASE old = "x_clients"
        <3>1. ~At(j, {"get_outbounds"}) /\ At(j, {"x_clients"})
            BY <1>3, <2>2
        <3>2. Launch(j)
            BY <1>0, <3>1 DEF Resume
        <3> QED
            BY <2>2, <3>2
    <2>3. CASE old # "get_outbounds" /\ old # "x_clients"
        <3>1. ~At(j, {"get_outbounds"}) /\ ~At(j, {"x_clients"})
            BY <1>3, <2>3
        <3>2. UNCHANGED <<handle, kids, missed>>
            BY <1>0, <3>1 DEF Resume, xray, history
        <3> QED
            BY <2>3, <3>2
    <2> QED
        BY <2>1, <2>2, <2>3
<1>11. Reader(j) <=> old \in {"x_inbounds", "x_outbounds", "x_clients"}
    BY <1>3, ReadsIs DEF Reader
<1>12. Reader(j)' <=> todo # <<>> /\ Head(todo) \in {"x_inbounds", "x_outbounds", "x_clients"}
    BY <1>8, ReadsIs, Fixed DEF Reader
<1>13. Reader(j) => Asked(j) = Reads[old]
    BY DEF Asked
<1> HIDE DEF old
\* No read of an Xray table.
<1>14. CASE old \notin {"x_inbounds", "x_outbounds", "x_clients"}
    <2>1. ~Reader(j)'
        <3>1. CASE old \in XSteps
            <4>1. old \in {"x_edit", "x_commit"}
                BY <1>4, <1>14, <3>1, Steps
            <4> QED
                BY <1>4, <1>12, <4>1
        <3>2. CASE old \notin XSteps
            BY <1>4, <1>12, <3>2, Steps
        <3> QED
            BY <3>1, <3>2
    <2>2. ASSUME NEW n \in 1 .. 3, Owing(j, n) PROVE Owing(j, n)'
        <3>1. old \notin {"stop", "wait", "check"}
            BY <1>2, <1>3 DEF Statements, RouterStatements, XStatements
        <3>2. jobs[j].new = Order[n] /\ old \in {"x_edit", "x_commit"}
            BY <1>3, <2>2, <3>1 DEF Owing
        <3>3. At(j, {"x_commit", "check"})' /\ jobs'[j].new = jobs[j].new
            BY <1>4, <1>6, <1>8, <3>2
        <3> QED
            BY <3>2, <3>3, Fixed DEF Owing
    <2>3. UNCHANGED <<xtab, handle, kids, missed>>
        BY <1>1, <1>10, <1>14
    <2> QED
        BY <1>9, <1>11, <1>14, <2>1, <2>2, <2>3, XAside
<1>15. ASSUME old \in {"x_inbounds", "x_outbounds", "x_clients"}, NEW n \in 1 .. 3
       PROVE  ~Owing(j, n)
    <2>1. ~At(j, {"x_edit"}) /\ ~At(j, {"x_commit", "check"}) /\ ~At(j, {"stop", "wait"})
        BY <1>3, <1>15
    <2> QED
        BY <2>1 DEF Owing
\* One table more.
<1>16. CASE old \in {"x_inbounds", "x_outbounds"}
    <2>1. /\ Reader(j) /\ Reader(j)' /\ Asked(j)' = Asked(j) + 1 /\ Asked(j) \in Nat
          /\ fifo' = Append(fifo, j)
        <3>1. todo # <<>> /\ Head(todo) \in Statements
            BY <1>4, <1>16, Steps
        <3>2. Asked(j)' = Reads[Head(todo)]
            BY <1>6, Fixed DEF Asked
        <3> QED
            BY <1>4, <1>7, <1>11, <1>12, <1>13, <1>16, <3>1, <3>2, ReadsIs
    <2>2. \A n \in 1 .. 3 : Fresh(j, n)' <=> Fresh(j, n)
        <3>1. jobs'[j].seen = jobs[j].seen
            BY <1>4, <1>6, <1>16
        <3> QED
            BY <1>1, <2>1, <3>1, Fixed DEF Fresh
    <2>3. ASSUME NEW i \in Slots \ {j}, Behind(i, j) PROVE Behind(i, j)'
        <3>1. /\ Asked(j) < Asked(i)
              /\ Asked(i) = Asked(j) + 1 =>
                     Before(fifo', i, j) \/ (Has(ready', i) /\ Has(fifo', j))
            BY <1>0, <1>1, <2>1, <2>3, LaunchesFirst
        <3>2. Asked(i) \in Nat /\ Asked(i)' = Asked(i) /\ Reader(i)'
            BY <1>9, <2>3, AskedIs, OthersFollow DEF Behind
        <3>3. CASE Asked(i) = Asked(j) + 1
            <4>1. Sooner(i, j)'
                BY <3>1, <3>3 DEF Sooner
            <4> QED
                BY <2>1, <3>2, <3>3, <4>1 DEF Behind
        <3>4. CASE Asked(i) # Asked(j) + 1
            <4>1. Asked(j)' < Asked(i)'
                BY <2>1, <3>1, <3>2, <3>4
            <4> QED
                BY <2>1, <3>2, <4>1 DEF Behind
        <3> QED
            BY <3>3, <3>4
    <2>4. ASSUME NEW i \in Slots \ {j}, Behind(j, i) PROVE Behind(j, i)'
        <3>1. Asked(i) \in Nat /\ Asked(i)' = Asked(i) /\ Reader(i)' /\ Asked(i) <= Asked(j)
            BY <1>9, <2>4, AskedIs, OthersFollow DEF Behind
        <3>2. Asked(i)' < Asked(j)'
            BY <2>1, <3>1
        <3> QED
            BY <2>1, <3>1, <3>2 DEF Behind
    <2>5. UNCHANGED <<xtab, handle, kids, missed>>
        BY <1>1, <1>10, <1>16
    <2> SUFFICES ASSUME NEW n \in 1 .. 3, ~missed PROVE ReadsFollow(n)' /\ RunsFollow(n)'
        BY <2>5 DEF XrayFollows
    <2>6. ReadsFollow(n) /\ RunsFollow(n) /\ ~Owing(j, n)
        BY <1>15, <1>16 DEF XrayFollows
    <2>7. ReadsFollow(n)'
        BY <1>9, <2>1, <2>2, <2>3, <2>4, <2>5, <2>6, ReadsStay
    <2>8. RunsFollow(n)'
        BY <1>9, <2>2, <2>5, <2>6, RunsStay
    <2> QED
        BY <2>7, <2>8
\* The start.
<1>17. CASE old = "x_clients"
    <2>1. Launch(j) /\ Reader(j) /\ Asked(j) = 2 /\ ~Reader(j)'
        BY <1>4, <1>10, <1>11, <1>12, <1>13, <1>17, ReadsIs
    <2>2. jobs[j].seen \in Seq(Nat) /\ Len(jobs[j].seen) = 3
        BY <1>2, <2>1 DEF Reader, Asked
    <2> SUFFICES ASSUME ~missed', NEW n \in 1 .. 3 PROVE ReadsFollow(n)' /\ RunsFollow(n)'
        BY DEF XrayFollows
    <2>3. /\ ~missed
          /\ file' = [inbounds |-> jobs[j].seen[1], outbounds |-> jobs[j].seen[2],
                      clients |-> jobs[j].seen[3]]
          /\ \E st : kids' = Append(kids, [st |-> st, cfg |-> file'])
          /\ handle' = Len(kids')
        <3>1. /\ UNCHANGED <<missed, faults>>
              /\ file' = [inbounds |-> jobs[j].seen[1], outbounds |-> jobs[j].seen[2],
                          clients |-> jobs[j].seen[3]]
            BY <2>1 DEF Launch
        <3>2. PICK st : st = IF file' = Broken THEN "dead" ELSE "run"
            OBVIOUS
        <3>3. /\ kids' = Append(kids, [st |-> st, cfg |-> file'])
              /\ handle' = Len(kids')
            BY <2>1, <3>1, <3>2 DEF Launch
        <3> QED
            BY <3>1, <3>3
    <2>4. ReadsFollow(n) /\ ~Owing(j, n)
        BY <1>15, <1>17, <2>3 DEF XrayFollows
    <2>5. \A i \in Slots \ {j} : ~Behind(i, j)
        <3> SUFFICES ASSUME NEW i \in Slots \ {j}, Behind(i, j) PROVE FALSE
            OBVIOUS
        <3>1. Asked(j) < Asked(i)
            BY <1>0, <1>1, <1>7, LaunchesFirst
        <3>2. Asked(i) \in 0 .. 2
            BY AskedIs DEF Behind
        <3> QED
            BY <2>1, <3>1, <3>2
    <2>6. ReadsFollow(n)'
        BY <1>1, <1>9, <2>1, <2>4, <2>5, ReadsStay
    <2>7. RunsFollow(n)'
        <3>1. kids'[handle'].cfg = file'
            <4>1. PICK st : kids' = Append(kids, [st |-> st, cfg |-> file'])
                BY <2>3
            <4>2. kids'[Len(kids')] = [st |-> st, cfg |-> file']
                BY <4>1 DEF Inv, Kids
            <4> QED
                BY <2>3, <4>2
        <3>2. file'[Order[n]] = jobs[j].seen[n]
            <4>1. n = 1 \/ n = 2 \/ n = 3
                OBVIOUS
            <4> QED
                BY <2>3, <4>1, TablesAre
        <3>3. CASE Fresh(j, n)
            <4>1. jobs[j].seen[n] = xtab[Order[n]]
                BY <2>2, <3>3 DEF Fresh
            <4> QED
                BY <1>1, <3>1, <3>2, <4>1, Fixed DEF RunsFollow
        <3>4. CASE ~Fresh(j, n)
            <4>1. PICK k \in Slots : Owing(k, n) \/ (Fresh(k, n) /\ Behind(j, k))
                BY <2>1, <2>4, <3>4 DEF ReadsFollow
            <4>2. k # j
                BY <2>4, <3>4, <4>1
            <4>3. Owing(k, n)' \/ Fresh(k, n)'
                BY <1>1, <1>9, <4>1, <4>2, OthersFollow
            <4> QED
                BY <4>3 DEF RunsFollow
        <3> QED
            BY <3>3, <3>4
    <2> QED
        BY <2>6, <2>7
<1> QED
    BY <1>14, <1>16, <1>17

\* A job that takes a step of its own.
LEMMA StepMoves ==
    ASSUME Inv, NEW j \in Slots, ~Has(fifo, j), NEW todo, todo = <<>> \/ Program(todo),
           NEW seen, Goes(j, todo, seen), ready' = ready
    PROVE  /\ Moves(j) /\ jobs'[j].todo = todo
           /\ \A S : At(j, S)' <=> todo # <<>> /\ Head(todo) \in S
           /\ todo # <<>> => jobs'[j].seen = seen
           /\ todo # <<>> /\ Head(todo) \in Statements => fifo' = Append(fifo, j)
<1>1. /\ jobs'[j] = IF todo = <<>> THEN Idle
                    ELSE [todo |-> todo, id |-> jobs[j].id, new |-> jobs[j].new,
                          seen |-> seen, ok |-> jobs[j].ok]
      /\ jobs'[j].todo = todo
      /\ \A i \in Slots : i # j => jobs'[i] = jobs[i]
    BY GoesIs DEF Inv
<1>2. /\ fifo' = fifo \/ fifo' = Append(fifo, j)
      /\ todo # <<>> /\ Head(todo) \in Statements => fifo' = Append(fifo, j)
    BY DEF Goes, Queued
<1>3. Moves(j)
    BY <1>1, <1>2, QueuedMoves DEF Inv
<1>4. \A S : At(j, S)' <=> todo # <<>> /\ Head(todo) \in S
    BY <1>1 DEF At, Busy
<1> QED
    BY <1>1, <1>2, <1>3, <1>4

LEMMA StepReadsNot ==
    ASSUME NEW j, At(j, {"check", "start", "stop", "wait"})
    PROVE  /\ ~Reader(j) /\ \A n : ~Fresh(j, n) /\ \A i : ~Behind(i, j)
           /\ \A n : Owing(j, n) => \/ At(j, {"check"})
                                    \/ At(j, {"stop", "wait"}) /\ Tail(jobs[j].todo) # <<>>
<1>1. ~Reader(j)
    BY ReadsIs DEF Reader, At
<1>2. ~At(j, {"x_edit"}) /\ (At(j, {"x_commit", "check"}) => At(j, {"check"}))
    BY DEF At
<1> QED
    BY <1>1, <1>2 DEF Fresh, Behind, Owing

\* The end of a stop.
LEMMA StoppedXFollows ==
    ASSUME Inv, XrayFollows, NEW j \in Slots, At(j, {"stop", "wait"}), Stopped(j),
           UNCHANGED <<ready, xtab>>
    PROVE  XrayFollows'
<1> DEFINE rest == Tail(jobs[j].todo)
           todo == IF rest = <<>> THEN rest ELSE Tail(rest)
<1>1. At(j, {"check", "start", "stop", "wait"}) /\ Head(jobs[j].todo) \in {"stop", "wait"}
    BY DEF At
<1>2. XProgram(jobs[j].todo) /\ ~Has(fifo, j)
    BY <1>1, StepIs
<1>3. /\ rest # <<>> => XProgram(todo) /\ todo # <<>> /\ Head(todo) = "x_inbounds"
      /\ rest = <<>> => todo = <<>>
    BY <1>1, <1>2, StopRest
<1>4. Goes(j, todo, <<>>) /\ handle' = 0 /\ missed' = (missed /\ rest = <<>>)
    BY DEF Stopped
<1> HIDE DEF todo
<1> DEFINE seen == <<>>
<1>5. Goes(j, todo, seen) /\ seen = <<>>
    BY <1>4
<1> HIDE DEF seen
<1>6. todo = <<>> \/ Program(todo)
    BY <1>3 DEF Program
<1>7. /\ Moves(j)
      /\ \A S : At(j, S)' <=> todo # <<>> /\ Head(todo) \in S
      /\ todo # <<>> => jobs'[j].seen = <<>>
      /\ todo # <<>> /\ Head(todo) \in Statements => fifo' = Append(fifo, j)
    BY <1>2, <1>5, <1>6, StepMoves
<1> SUFFICES ASSUME ~missed', NEW n \in 1 .. 3 PROVE ReadsFollow(n)' /\ RunsFollow(n)'
    BY DEF XrayFollows
<1>8. RunsFollow(n)'
    BY <1>4 DEF RunsFollow
<1>9. CASE rest = <<>>
    <2>1. ReadsFollow(n)
        BY <1>4, <1>9 DEF XrayFollows
    <2>2. ~Reader(j)'
        BY <1>3, <1>7, <1>9, Fixed DEF Reader
    <2>3. ~At(j, {"check"})
        BY DEF At
    <2>4. ~Owing(j, n) /\ ~Fresh(j, n)
        BY <1>1, <1>9, <2>3, StepReadsNot
    <2>5. ReadsFollow(n)'
        BY <1>7, <2>1, <2>2, <2>4, ReadsStay
    <2> QED
        BY <1>8, <2>5
<1>10. CASE rest # <<>>
    <2>1. todo # <<>> /\ Head(todo) = "x_inbounds"
        BY <1>3, <1>10
    <2>2. Head(todo) \in Statements
        BY <2>1, Steps
    <2>3. ReadsFollow(n)'
        BY <1>7, <2>1, <2>2, NewReader
    <2> QED
        BY <1>8, <2>3
<1> QED
    BY <1>9, <1>10

LEMMA CheckXFollows == ASSUME Inv, XrayFollows, NEW j \in Slots, Check(j) PROVE XrayFollows'
<1> DEFINE todo == IF Alive(handle) THEN Restart ELSE <<>>
           seen == <<>>
<1>1. /\ At(j, {"check"}) /\ At(j, {"check", "start", "stop", "wait"}) /\ Goes(j, todo, seen)
      /\ UNCHANGED <<ready, xtab, handle, kids>>
      /\ missed' = (missed \/ (~Alive(handle) /\ \E i \in Slots : At(i, DOMAIN TableOf)))
    BY DEF Check, At, tables, xray
<1>2. todo = <<>> \/ Program(todo)
    BY RestartIs DEF Program
<1>3. /\ Alive(handle) => todo # <<>> /\ Head(todo) = "stop" /\ Tail(todo) # <<>>
      /\ ~Alive(handle) => todo = <<>>
    <2>1. Restart # <<>> /\ Head(Restart) = "stop" /\ Tail(Restart) # <<>>
        BY DEF Restart, Start
    <2> QED
        BY <2>1
<1> HIDE DEF todo, seen
<1>4. ~Has(fifo, j)
    BY <1>1, StepIs
<1>5. /\ Moves(j) /\ jobs'[j].todo = todo
      /\ \A S : At(j, S)' <=> todo # <<>> /\ Head(todo) \in S
    BY <1>1, <1>2, <1>4, StepMoves
<1>6. ~Reader(j) /\ ~Reader(j)'
    BY <1>1, <1>3, <1>5, StepReadsNot, ReadsIs, Fixed DEF Reader
<1>7. CASE Alive(handle)
    <2>1. \A n \in 1 .. 3 : Owing(j, n)'
        BY <1>3, <1>5, <1>7 DEF Owing
    <2>2. missed' = missed
        BY <1>1, <1>7, Zenon DEF Inv, Scalars
    <2> QED
        BY <1>1, <1>5, <1>6, <2>1, <2>2, XAside
<1>8. CASE ~Alive(handle)
    <2> SUFFICES ASSUME ~missed', NEW n \in 1 .. 3 PROVE ReadsFollow(n)' /\ RunsFollow(n)'
        BY DEF XrayFollows
    <2>1. \A i \in Slots : ~Reader(i)
        BY <1>1, <1>8, TablesAre, ReadsIs DEF Reader
    <2>2. \A i \in Slots : ~Reader(i)'
        BY <1>5, <1>6, <2>1, OthersFollow
    <2>3. handle' = 0 \/ kids'[handle'].st # "run"
        BY <1>1, <1>8 DEF Alive
    <2> QED
        BY <2>2, <2>3 DEF ReadsFollow, RunsFollow
<1> QED
    BY <1>7, <1>8

LEMMA StartXFollows == ASSUME Inv, XrayFollows, NEW j \in Slots, StartXray(j) PROVE XrayFollows'
<1> DEFINE todo == IF Alive(handle) THEN <<>> ELSE Tail(jobs[j].todo)
           seen == <<>>
<1>1. /\ At(j, {"start"}) /\ At(j, {"check", "start", "stop", "wait"}) /\ Goes(j, todo, seen)
      /\ UNCHANGED <<ready, xtab, handle, kids>> /\ missed' = (missed /\ Alive(handle))
    BY DEF StartXray, At, tables, xray
<1>2. XProgram(jobs[j].todo) /\ ~Has(fifo, j)
    BY <1>1, StepIs
<1>3. /\ ~Alive(handle) => XProgram(todo) /\ todo # <<>> /\ Head(todo) = "x_inbounds"
      /\ Alive(handle) => todo = <<>>
    <2>1. Head(jobs[j].todo) = "start"
        BY <1>1 DEF At
    <2> QED
        BY <1>2, <2>1, XRest, XToIs
<1>4. todo = <<>> \/ Program(todo)
    BY <1>3 DEF Program
<1>5. seen = <<>>
    OBVIOUS
<1> HIDE DEF todo, seen
<1>6. /\ Moves(j)
      /\ \A S : At(j, S)' <=> todo # <<>> /\ Head(todo) \in S
      /\ todo # <<>> => jobs'[j].seen = <<>>
      /\ todo # <<>> /\ Head(todo) \in Statements => fifo' = Append(fifo, j)
    BY <1>1, <1>2, <1>4, <1>5, StepMoves
<1>7. CASE Alive(handle)
    <2>1. ~Reader(j) /\ ~Reader(j)'
        BY <1>1, <1>3, <1>6, <1>7, StepReadsNot, Fixed DEF Reader
    <2>2. \A n : ~Owing(j, n)
        <3>1. ~At(j, {"check"}) /\ ~At(j, {"stop", "wait"})
            BY <1>1 DEF At
        <3> QED
            BY <1>1, <3>1, StepReadsNot
    <2>3. missed' = missed
        BY <1>1, <1>7, Zenon DEF Inv, Scalars
    <2> QED
        BY <1>1, <1>6, <2>1, <2>2, <2>3, XAside
<1>8. CASE ~Alive(handle)
    <2> SUFFICES ASSUME NEW n \in 1 .. 3 PROVE ReadsFollow(n)' /\ RunsFollow(n)'
        BY DEF XrayFollows
    <2>1. todo # <<>> /\ Head(todo) = "x_inbounds"
        BY <1>3, <1>8
    <2>2. Head(todo) \in Statements
        BY <2>1, Steps
    <2>3. ReadsFollow(n)'
        BY <1>1, <1>6, <2>1, <2>2, NewReader
    <2>4. handle' = 0 \/ kids'[handle'].st # "run"
        BY <1>1, <1>8 DEF Alive
    <2> QED
        BY <2>3, <2>4 DEF RunsFollow
<1> QED
    BY <1>7, <1>8

LEMMA StopXFollows == ASSUME Inv, XrayFollows, NEW j \in Slots, Stop(j) PROVE XrayFollows'
<1>1. At(j, {"stop"}) /\ UNCHANGED <<ready, xtab>>
    BY DEF Stop, tables
<1>2. CASE Alive(handle)
    <2>1. /\ fifo' = fifo /\ handle' = handle /\ missed' = missed
          /\ jobs' = [jobs EXCEPT ![j].todo[1] = "wait", ![j].id = handle]
          /\ kids' = [kids EXCEPT ![handle].st = "term"]
        BY <1>2 DEF Stop
    <2>2. /\ jobs'[j].todo = [jobs[j].todo EXCEPT ![1] = "wait"]
          /\ XProgram(jobs'[j].todo) /\ Head(jobs'[j].todo) = "wait"
          /\ \A i \in Slots : i # j => jobs'[i] = jobs[i]
        <3>1. /\ jobs'[j] = [todo |-> [jobs[j].todo EXCEPT ![1] = "wait"], id |-> handle,
                             new |-> jobs[j].new, seen |-> jobs[j].seen, ok |-> jobs[j].ok]
              /\ XProgram(jobs'[j].todo) /\ Head(jobs'[j].todo) = "wait"
              /\ \A i \in Slots : i # j => jobs'[i] = jobs[i]
            BY <1>1, <2>1, StopIsWait
        <3> QED
            BY <3>1
    <2>3. Moves(j)
        BY <1>1, <2>1, <2>2, QueuedMoves DEF Inv
    <2>4. At(j, {"check", "start", "stop", "wait"}) /\ ~At(j, {"check"})
        BY <1>1 DEF At
    <2>5. ~Reader(j) /\ ~Reader(j)'
        <3>1. Head(jobs'[j].todo) \notin DOMAIN Reads
            BY <2>2, ReadsIs
        <3> QED
            BY <2>4, <3>1, StepReadsNot, Fixed DEF Reader, At
    <2>6. ASSUME NEW n \in 1 .. 3, Owing(j, n) PROVE Owing(j, n)'
        <3>1. Tail(jobs[j].todo) # <<>>
            BY <2>4, <2>6, StepReadsNot
        <3>2. Tail(jobs'[j].todo) # <<>>
            <4>1. XProgram(jobs[j].todo)
                BY <2>4, StepIs
            <4>2. /\ jobs[j].todo \in Seq(XSteps) /\ jobs[j].todo # <<>>
                  /\ jobs'[j].todo \in Seq(XSteps) /\ jobs'[j].todo # <<>>
                BY <2>2, <4>1 DEF XProgram
            <4>3. Len(jobs'[j].todo) = Len(jobs[j].todo)
                BY <2>2, <4>2
            <4> QED
                BY <3>1, <4>2, <4>3, HeadAndRest
        <3>3. At(j, {"stop", "wait"})'
            BY <2>2 DEF At, Busy, XProgram
        <3> QED
            BY <3>2, <3>3 DEF Owing
    <2>7. kids'[handle'].st # "run"
        BY <1>2, <2>1, HandleIs, KidEnds DEF Inv
    <2> SUFFICES ASSUME ~missed, NEW n \in 1 .. 3 PROVE ReadsFollow(n)' /\ RunsFollow(n)'
        BY <2>1 DEF XrayFollows
    <2>8. ReadsFollow(n)
        BY DEF XrayFollows
    <2>9. ~Fresh(j, n)
        BY <2>5 DEF Fresh
    <2>10. ReadsFollow(n)'
        BY <1>1, <2>3, <2>5, <2>6, <2>8, <2>9, ReadsStay
    <2> QED
        BY <2>7, <2>10 DEF RunsFollow
<1>3. CASE ~Alive(handle)
    <2>1. Stopped(j) /\ At(j, {"stop", "wait"})
        BY <1>1, <1>3 DEF Stop, At
    <2> QED
        BY <1>1, <2>1, StoppedXFollows
<1> QED
    BY <1>2, <1>3

LEMMA WaitXFollows ==
    ASSUME Inv, XrayFollows, NEW j \in Slots, WaitEnds(j) \/ WaitFails(j)
    PROVE  XrayFollows'
<1>1. At(j, {"stop", "wait"}) /\ UNCHANGED <<ready, xtab>>
    BY DEF WaitEnds, WaitFails, At, tables
<1>2. Stopped(j) \/ missed' = TRUE
    BY DEF WaitEnds, WaitFails
<1> QED
    BY <1>1, <1>2, StoppedXFollows DEF XrayFollows

LEMMA NothingXFollows ==
    ASSUME XrayFollows, UNCHANGED <<jobs, fifo, ready, xtab, handle, missed>>,
           handle # 0 /\ kids'[handle].st = "run" => kids'[handle] = kids[handle]
    PROVE  XrayFollows'
<1>1. \A j, S : At(j, S)' <=> At(j, S)
    BY DEF At, Busy
<1>2. \A j : (Reader(j)' <=> Reader(j)) /\ Asked(j)' = Asked(j)
    BY <1>1, Fixed DEF Reader, Asked
<1>3. \A j, n : (Owing(j, n)' <=> Owing(j, n)) /\ (Fresh(j, n)' <=> Fresh(j, n))
    BY <1>1, <1>2, Fixed DEF Owing, Fresh
<1>4. \A i, j : Behind(i, j)' <=> Behind(i, j)
    BY <1>2 DEF Behind, Sooner
<1>5. \A n \in 1 .. 3 : ReadsFollow(n) => ReadsFollow(n)'
    BY <1>2, <1>3, <1>4 DEF ReadsFollow
<1>6. \A n \in 1 .. 3 : RunsFollow(n) => RunsFollow(n)'
    BY <1>3, Fixed DEF RunsFollow
<1> QED
    BY <1>5, <1>6 DEF XrayFollows

LEMMA ProcessXFollows == ASSUME Inv, XrayFollows, Process PROVE XrayFollows'
<1>1. ASSUME NEW k \in DOMAIN kids, Exit(k) PROVE XrayFollows'
    <2>1. /\ UNCHANGED <<jobs, fifo, ready, xtab, handle, missed>>
          /\ kids' = [kids EXCEPT ![k].st = "dead"]
        BY <1>1 DEF Exit, tables
    <2>2. kids'[k].st = "dead" /\ \A i \in DOMAIN kids : i # k => kids'[i] = kids[i]
        BY <2>1, KidEnds DEF Inv
    <2>3. handle # 0 /\ kids'[handle].st = "run" => kids'[handle] = kids[handle]
        BY <2>2, HandleIs DEF Inv
    <2> QED
        BY <2>1, <2>3, NothingXFollows
<1> QED
    BY <1>1, CheckXFollows, StartXFollows, StopXFollows, WaitXFollows DEF Process

LEMMA ThreadXFollows == ASSUME Inv, XrayFollows, Thread PROVE XrayFollows'
<1>1. ASSUME NEW j \in Slots, At(j, Hops), NEW todo, NEW seen, Goes(j, todo, seen),
             todo = <<>> \/ (Program(todo) /\ Head(todo) \notin XSteps),
             UNCHANGED <<ready, xtab, handle, kids>>, missed' = missed
      PROVE  XrayFollows'
    <2>1. ~Has(fifo, j)
        BY <1>1, Steps DEF Inv, Lines, At
    <2>2. Moves(j) /\ \A S : At(j, S)' <=> todo # <<>> /\ Head(todo) \in S
        BY <1>1, <2>1, StepMoves
    <2>3. ~Reader(j)'
        BY <1>1, <2>2, ReadsIs, Steps, Fixed DEF Reader
    <2>4. ~Reader(j) /\ \A n : ~Owing(j, n)
        <3>1. \A S : S \subseteq XSteps => ~At(j, S)
            BY <1>1, Steps DEF At
        <3>2. /\ {"x_commit", "check"} \subseteq XSteps /\ {"x_edit"} \subseteq XSteps
              /\ {"stop", "wait"} \subseteq XSteps /\ DOMAIN Reads \subseteq XSteps
            BY Steps, ReadsIs
        <3> QED
            BY <3>1, <3>2 DEF Reader, Owing
    <2> QED
        BY <1>1, <2>2, <2>3, <2>4, XAside
<1>2. ASSUME NEW j \in Slots, Hop(j) PROVE XrayFollows'
    <2> DEFINE todo == Tail(jobs[j].todo)
               seen == jobs[j].seen
    <2>1. /\ At(j, Hops) /\ Goes(j, todo, seen)
          /\ UNCHANGED <<ready, xtab, handle, kids, missed>>
        BY <1>2 DEF Hop, Hops, tables, xray
    <2>2. Program(todo) /\ Head(todo) \notin XSteps
        BY <2>1, HopGoes DEF HopIs
    <2> HIDE DEF todo, seen
    <2> QED
        BY <1>1, <2>1, <2>2
<1>3. ASSUME NEW j \in Slots, GiveUp(j) PROVE XrayFollows'
    <2>1. /\ At(j, Hops \cup {"check"}) /\ Goes(j, <<>>, <<>>)
          /\ UNCHANGED <<ready, xtab, handle, kids>> /\ missed' = (missed \/ At(j, {"check"}))
        BY <1>3 DEF GiveUp, Hops, tables, xray
    <2>2. CASE At(j, {"check"})
        BY <2>1, <2>2 DEF XrayFollows
    <2>3. CASE ~At(j, {"check"})
        <3> DEFINE todo == <<>>
                   seen == <<>>
        <3>1. At(j, Hops) /\ Goes(j, todo, seen) /\ todo = <<>>
            BY <2>1, <2>3 DEF At
        <3>2. missed' = missed
            BY <2>1, <2>3, Zenon DEF Inv, Scalars
        <3> HIDE DEF todo, seen
        <3> QED
            BY <1>1, <2>1, <3>1, <3>2
    <2> QED
        BY <2>2, <2>3
<1> QED
    BY <1>2, <1>3 DEF Thread
-----------------------------------------------------------------------------
(* Xray follows its tables *)

LEMMA XInit == ASSUME Init PROVE XrayFollows
<1>1. /\ \A j \in Slots : jobs[j].todo = <<>>
      /\ kids = <<[st |-> "run", cfg |-> xtab]>> /\ handle = 1
    BY DEF Init, Idle
<1>2. \A j \in Slots : ~Reader(j)
    BY <1>1 DEF Reader, At, Busy
<1>3. kids[handle].cfg = xtab
    BY <1>1
<1> QED
    BY <1>2, <1>3 DEF XrayFollows, ReadsFollow, RunsFollow

LEMMA XFollowsHolds == Spec => []XrayFollows
<1>1. Init => XrayFollows
    BY XInit
<1>2. ASSUME XrayFollows, UNCHANGED vars PROVE XrayFollows'
    <2>1. UNCHANGED <<jobs, fifo, ready, xtab, handle, kids, missed>>
        BY <1>2 DEF vars, tables, xray, history
    <2> QED
        BY <1>2, <2>1, NothingXFollows
<1>3. Inv /\ XrayFollows /\ [Next]_vars => XrayFollows'
    BY <1>2, BeginXFollows, ServeXFollows, ResumeXFollows, ThreadXFollows,
       ProcessXFollows DEF Next
<1> QED
    BY <1>1, <1>3, InvHolds, PTL DEF Spec

\* However many edits, starts, stops and restarts of Xray overlap, when all are over the
\* process in the handle runs on the tables as they are: an edit that a start had not
\* read is followed by a restart, whose start launches after it.  That is so unless a
\* restart or its file was missed, and again from the next start that reads (xray.py
\* 138-190, api.py 555-685).
THEOREM XrayFollowsTables == Spec => []XrayIsCurrent
<1>1. Inv /\ XrayFollows => XrayIsCurrent
    <2> SUFFICES ASSUME Inv, XrayFollows, ~missed, \A j \in Slots : ~At(j, XSteps),
                        handle # 0, kids[handle].st = "run"
                 PROVE  kids[handle].cfg = xtab
        BY DEF XrayIsCurrent
    <2>1. \A j \in Slots, n \in 1 .. 3 : ~Owing(j, n) /\ ~Fresh(j, n)
        <3>1. \A j \in Slots : \A S : S \subseteq XSteps => ~At(j, S)
            BY DEF At
        <3>2. /\ {"x_commit", "check"} \subseteq XSteps /\ {"x_edit"} \subseteq XSteps
              /\ {"stop", "wait"} \subseteq XSteps /\ DOMAIN Reads \subseteq XSteps
            BY Steps, ReadsIs
        <3> QED
            BY <3>1, <3>2 DEF Owing, Fresh, Reader
    <2>2. \A n \in 1 .. 3 : kids[handle].cfg[Order[n]] = xtab[Order[n]]
        BY <2>1 DEF XrayFollows, RunsFollow
    <2>3. \A t \in XTables : kids[handle].cfg[t] = xtab[t]
        BY <2>2, TablesAre DEF XTables
    <2>4. kids[handle].cfg \in [XTables -> Int] /\ xtab \in [XTables -> Nat]
        <3>1. handle \in DOMAIN kids /\ kids \in Seq(Kid)
            BY HandleIs DEF Inv, Kids, Kid
        <3>2. kids[handle] \in Kid
            BY <3>1
        <3> QED
            BY <3>2 DEF Inv, Counted, Kid
    <2> QED
        BY <2>3, <2>4
<1> QED
    BY <1>1, InvHolds, XFollowsHolds, PTL
=============================================================================
