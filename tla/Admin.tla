------------------------------- MODULE Admin -------------------------------
(***************************************************************************)
(* The panel's edits of the routing tables and of the Xray tables, with    *)
(* what has to follow them: core/router.py and core/xray.py.               *)
(*                                                                         *)
(* The panel's threads and the event loop's tasks send their statements to *)
(* one database connection, which serves them in order (aiosqlite); each   *)
(* answer resumes its job later, in order too.  A job is what is left of   *)
(* its program: statements of the database, steps of its own in which it   *)
(* touches the router or the Xray process, and steps of the panel thread   *)
(* between two coroutines it waits for.  Rows are reduced to what routing  *)
(* tells apart; an Xray table is the number of its edits.                  *)
(***************************************************************************)
EXTENDS Integers, FiniteSets, Sequences, SequencesExt, FiniteSetsExt

CONSTANTS
    InboundTags,    \* inbounds
    NewOutbounds,   \* what a request may write into an outbound: [tag, kind, via]
    NewRules,       \* what a request may write into a rule: [tag, inb]
    MaxJobs,        \* bound: jobs under way
    MaxRequests,    \* bound: what the requests weigh in all
    Weight,         \* bound: what a request of either kind weighs
    MaxId,          \* bound: numbers of rows that requests name
    MaxKids,        \* bound: Xray processes started
    MaxFaults       \* bound: requests that give up, configurations not written,
                    \* Xray processes that crash or do not stop in 5 s

None == "none"
Kinds == {"direct", "block", "bad"}      \* bad: build_outbound raises

ASSUME RowsAssumption ==
    /\ None \notin InboundTags
    /\ \A o \in NewOutbounds : DOMAIN o = {"tag", "kind", "via"} /\ o.kind \in Kinds
    /\ \A r \in NewRules : DOMAIN r = {"tag", "inb"} /\ r.inb \in InboundTags \cup {None}
ASSUME BoundsAssumption ==
    /\ MaxJobs \in Nat \ {0} /\ MaxKids \in Nat \ {0} /\ {MaxRequests, MaxId, MaxFaults} \subseteq Nat
    /\ Weight \in [{"routing", "xray"} -> Nat \ {0}]

VARIABLES
    outbounds,  \* the table: [id, tag, kind, via]
    rules,      \* the table: [id, ord, tag, inb, on]
    gone,       \* inbounds that were deleted
    xtab,       \* the Xray tables
    router,     \* _rules and _outbounds
    unloaded,   \* history: an edit's request gave up, and no reload has begun since
    jobs,       \* coroutines, and the panel threads that wait for them
    fifo,       \* jobs whose statement the connection has yet to serve
    ready,      \* jobs whose answer the event loop has yet to see
    requests,   \* what the requests so far weigh
    handle,     \* XrayManager._process: a number of kids, or 0
    kids,       \* Xray processes, in the order of their start
    file,       \* the tables in the configuration file
    overlap,    \* history: two jobs have handled the process at a time
    missed,     \* history: a restart or its file was missed, and no start has
                \* begun since
    faults

tables == <<outbounds, rules, gone, xtab>>
xray == <<handle, kids, file>>
history == <<unloaded, overlap, missed, faults>>
vars == <<tables, router, jobs, fifo, ready, requests, xray, history>>

Slots == 1 .. MaxJobs
XTables == {"inbounds", "outbounds", "clients"}

RouterStatements ==
    {"insert_outbound", "update_outbound", "delete_outbound", "insert_rule", "update_rule",
     "delete_rule", "get_rule", "toggle_rule", "order_rule", "delete_inbound_rules",
     "delete_inbound", "commit", "rowid", "get_rules", "get_outbounds"}
XStatements == {"x_edit", "x_commit", "x_inbounds", "x_outbounds", "x_clients"}
Statements == RouterStatements \cup XStatements
Handling == {"stop", "wait", "start", "x_inbounds", "x_outbounds", "x_clients"}
XSteps == XStatements \cup {"check"} \cup Handling

\* A file that is half written.
Broken == [t \in XTables |-> -1]

Idle == [todo |-> <<>>, id |-> 0, new |-> None, seen |-> <<>>, ok |-> TRUE]
Busy(j) == jobs[j].todo # <<>>
At(j, steps) == Busy(j) /\ Head(jobs[j].todo) \in steps
Alive(k) == k # 0 /\ kids[k].st # "dead"
ByTag(rows, tag) == {o \in rows : o.tag = tag}

TypeOK ==
    /\ Cardinality({o.tag : o \in outbounds}) = Cardinality(outbounds)
    /\ Cardinality({r.id : r \in rules}) = Cardinality(rules)
    /\ \A r \in rules : ByTag(outbounds, r.tag) # {}      \* the foreign key
    /\ gone \subseteq InboundTags
    /\ xtab \in [XTables -> 0 .. MaxRequests]
    /\ fifo \in Seq(Slots) /\ ready \in Seq(Slots)
    /\ IsInjective(fifo \o ready)
    /\ ToSet(fifo \o ready) = {j \in Slots : At(j, Statements)}
    /\ requests \in 0 .. MaxRequests
    /\ handle \in 0 .. Len(kids) /\ Len(kids) <= MaxKids
    /\ \A k \in DOMAIN kids : kids[k].st \in {"run", "term", "dead"}
    /\ {unloaded, overlap, missed} \subseteq BOOLEAN /\ faults \in 0 .. MaxFaults

\* main: the router is built from the tables, and Xray started from its own.
Init ==
    /\ outbounds = {[id |-> 0, tag |-> "direct", kind |-> "direct", via |-> None],
                    [id |-> 1, tag |-> "x", kind |-> "direct", via |-> None]}
    /\ rules = {[id |-> 1, ord |-> 0, tag |-> "x", inb |-> None, on |-> TRUE]}
    /\ gone = {} /\ xtab = [t \in XTables |-> 0]
    /\ router = [rules |-> rules, outbounds |-> outbounds] /\ unloaded = FALSE
    /\ jobs = [j \in Slots |-> Idle] /\ fifo = <<>> /\ ready = <<>> /\ requests = 0
    /\ kids = <<[st |-> "run", cfg |-> xtab]>> /\ handle = 1 /\ file = xtab
    /\ overlap = FALSE /\ missed = FALSE /\ faults = 0
-----------------------------------------------------------------------------
(* Routing *)

\* match: the tag of the first rule, by (ord, id), that matches; else "direct".
Match(rs, inb) ==
    LET hits == {r \in rs : r.on /\ r.inb \in {None, inb}}
        First(r) == \A s \in hits : r.ord < s.ord \/ (r.ord = s.ord /\ r.id <= s.id)
    IN IF hits = {} THEN "direct" ELSE (CHOOSE r \in hits : First(r)).tag

\* The outbound of a tag, or else the one of "direct".
Chosen(obs, tag) ==
    IF ByTag(obs, tag) # {} THEN ByTag(obs, tag) ELSE ByTag(obs, "direct")

\* connect: whom an outbound dials through, to the end of the chain.  A tag that
\* no outbound has is dialled directly; a chain that returns to itself never ends.
Chain(obs, tag) ==
    LET n == Cardinality(obs)
        hop[i \in 0 .. n] ==
            IF i = 0 THEN Chosen(obs, tag)
            ELSE UNION {IF o.kind = "block" THEN {} ELSE ByTag(obs, o.via) : o \in hop[i - 1]}
    IN [i \in 0 .. n |-> {[tag |-> o.tag, kind |-> o.kind] : o \in hop[i]}]

Route(rs, obs, inb) == Chain(obs, Match(rs, inb))
-----------------------------------------------------------------------------
(* Requests of the panel *)

\* "reload" and "toggle" are steps of the panel thread.
Reload == <<"reload", "get_rules", "get_outbounds">>
Create(stmt) == <<stmt, "commit", "rowid">> \o Reload
Update(stmt) == <<stmt, "commit">> \o Reload
Start == <<"start", "x_inbounds", "x_outbounds", "x_clients">>
Restart == <<"stop">> \o Start

\* Another job handles the process when j begins to.
Overlaps(j, todo) ==
    overlap \/ (Head(todo) \in Handling /\ \E i \in Slots \ {j} : At(i, Handling))

Queued(j, todo) == IF todo # <<>> /\ Head(todo) \in Statements THEN Append(fifo, j) ELSE fifo

Begin(todo, id, new) ==
    LET j == Min({i \in Slots : ~Busy(i)}) IN
    /\ \E i \in Slots : ~Busy(i)
    /\ requests' = requests + Weight[IF Head(todo) \in XSteps THEN "xray" ELSE "routing"]
    /\ requests' <= MaxRequests
    /\ jobs' = [jobs EXCEPT ![j] = [Idle EXCEPT !.todo = todo, !.id = id, !.new = new]]
    /\ fifo' = Queued(j, todo)
    /\ overlap' = Overlaps(j, todo)
    /\ UNCHANGED <<tables, router, ready, xray, unloaded, missed, faults>>

AddOutbound == \E o \in NewOutbounds : Begin(Create("insert_outbound"), 0, o)
SetOutbound ==
    \E id \in 0 .. MaxId, o \in NewOutbounds : Begin(Update("update_outbound"), id, o)
DeleteOutbound == \E id \in 0 .. MaxId : Begin(Update("delete_outbound"), id, None)

AddRule == \E r \in NewRules : Begin(Create("insert_rule"), 0, r)

\* Mutant: no reload after an update.
SetRuleOnly ==
    \E id \in 1 .. MaxId, r \in NewRules : Begin(<<"update_rule", "commit">>, id, r)

SetRule == \E id \in 1 .. MaxId, r \in NewRules : Begin(Update("update_rule"), id, r)
DeleteRule == \E id \in 1 .. MaxId : Begin(Update("delete_rule"), id, None)

\* The flag is read, and its complement written.
ToggleRule == \E id \in 1 .. MaxId : Begin(<<"get_rule", "toggle">> \o Update("toggle_rule"), id, None)

\* One statement per item of the list.
ReorderRules ==
    \E a, b \in 1 .. MaxId :
        Begin(<<"order_rule">> \o Update("order_rule"), 0, <<a, b>>)

\* The rules of an inbound go with it; the router is not reloaded.
DeleteInbound ==
    \E t \in InboundTags : Begin(<<"delete_inbound_rules", "delete_inbound", "commit">>, 0, t)

XrayEdit(t) == Begin(<<"x_edit", "x_commit", "check">>, 0, t)
XrayInbound == XrayEdit("inbounds")
XrayOutbound == XrayEdit("outbounds")
XrayClient == XrayEdit("clients")

XrayStart == Begin(Start, 0, None)
XrayStop == Begin(<<"stop">>, 0, None)

\* The panel's restart, and the one for a client at its limit.
XrayRestart == Begin(Restart, 0, None)
-----------------------------------------------------------------------------
(* The connection *)

\* The statement of the first job takes effect, or fails on a constraint; what it
\* reads is added to what the job has seen.
Job == jobs[Head(fifo)]
Served(step) == fifo # <<>> /\ Head(Job.todo) = step
Answer(ok, read) ==
    /\ jobs' = [jobs EXCEPT ![Head(fifo)].ok = ok, ![Head(fifo)].seen = @ \o read]
    /\ fifo' = Tail(fifo) /\ ready' = Append(ready, Head(fifo))
    /\ UNCHANGED <<router, requests, xray, history>>

NextId(rows) == 1 + Max({0} \cup {r.id : r \in rows})
AsRow(o, id) == [id |-> id, tag |-> o.tag, kind |-> o.kind, via |-> o.via]

InsertOutbound ==
    LET fails == ByTag(outbounds, Job.new.tag) # {} IN
    /\ Served("insert_outbound")
    /\ outbounds' = outbounds \cup
           (IF fails THEN {} ELSE {AsRow(Job.new, NextId(outbounds))})
    /\ Answer(~fails, <<>>) /\ UNCHANGED <<rules, gone, xtab>>

\* A tag that another outbound has is refused, and so is a new tag for an outbound
\* that a rule names.
UpdateOutbound ==
    LET rows == {o \in outbounds : o.id = Job.id}
        fails == \E o \in rows : /\ o.tag # Job.new.tag
                                 /\ \/ ByTag(outbounds, Job.new.tag) # {}
                                    \/ \E r \in rules : r.tag = o.tag
    IN
    /\ Served("update_outbound")
    /\ outbounds' = IF fails THEN outbounds
                    ELSE (outbounds \ rows) \cup {AsRow(Job.new, o.id) : o \in rows}
    /\ Answer(~fails, <<>>) /\ UNCHANGED <<rules, gone, xtab>>

\* Mutant: the rules of the outbound stay.
DeleteOutboundOnly ==
    /\ Served("delete_outbound")
    /\ outbounds' = {o \in outbounds : o.id # Job.id}
    /\ Answer(TRUE, <<>>) /\ UNCHANGED <<rules, gone, xtab>>

\* The rules that name the outbound go with it.
DeleteOutboundRow ==
    /\ Served("delete_outbound")
    /\ outbounds' = {o \in outbounds : o.id # Job.id}
    /\ rules' = {r \in rules : ByTag(outbounds', r.tag) # {}}
    /\ Answer(TRUE, <<>>) /\ UNCHANGED <<gone, xtab>>

InsertRule ==
    LET fails == ByTag(outbounds, Job.new.tag) = {} IN
    /\ Served("insert_rule")
    /\ rules' = rules \cup
           (IF fails THEN {} ELSE {[id |-> NextId(rules), ord |-> 0, tag |-> Job.new.tag,
                                    inb |-> Job.new.inb, on |-> TRUE]})
    /\ Answer(~fails, <<>>) /\ UNCHANGED <<outbounds, gone, xtab>>

ChangeRule(id, Change(_)) ==
    /\ rules' = {IF r.id = id THEN Change(r) ELSE r : r \in rules}
    /\ Answer(TRUE, <<>>) /\ UNCHANGED <<outbounds, gone, xtab>>

UpdateRule ==
    /\ Served("update_rule")
    /\ IF ByTag(outbounds, Job.new.tag) # {} \/ \A r \in rules : r.id # Job.id
       THEN ChangeRule(Job.id, LAMBDA r : [r EXCEPT !.tag = Job.new.tag, !.inb = Job.new.inb])
       ELSE Answer(FALSE, <<>>) /\ UNCHANGED tables

WriteToggle ==
    /\ Served("toggle_rule")
    /\ ChangeRule(Job.id, LAMBDA r : [r EXCEPT !.on = ~Job.seen[1]])

OrderRule ==
    LET item == IF Job.todo[2] = "order_rule" THEN 1 ELSE 2 IN
    /\ Served("order_rule")
    /\ ChangeRule(Job.new[item], LAMBDA r : [r EXCEPT !.ord = item])

DeleteRuleRow ==
    /\ Served("delete_rule")
    /\ rules' = {r \in rules : r.id # Job.id}
    /\ Answer(TRUE, <<>>) /\ UNCHANGED <<outbounds, gone, xtab>>

DeleteInboundRules ==
    /\ Served("delete_inbound_rules")
    /\ rules' = {r \in rules : r.inb # Job.new}
    /\ Answer(TRUE, <<>>) /\ UNCHANGED <<outbounds, gone, xtab>>

DeleteInboundRow ==
    /\ Served("delete_inbound")
    /\ gone' = gone \cup {Job.new}
    /\ Answer(TRUE, <<>>) /\ UNCHANGED <<outbounds, rules, xtab>>

EditXray ==
    /\ Served("x_edit")
    /\ xtab' = [xtab EXCEPT ![Job.new] = @ + 1]
    /\ Answer(TRUE, <<>>) /\ UNCHANGED <<outbounds, rules, gone>>

\* What XrayManager.start reads.
TableOf == [x_inbounds |-> "inbounds", x_outbounds |-> "outbounds", x_clients |-> "clients"]

\* A commit changes nothing that the connection shows; a rule that is not there is
\* answered with a 404.
Select ==
    /\ \/ \E s \in {"commit", "x_commit", "rowid"} : Served(s) /\ Answer(TRUE, <<>>)
       \/ LET row == {r \in rules : r.id = Job.id}
          IN Served("get_rule") /\ Answer(row # {}, <<\E r \in row : r.on>>)
       \/ Served("get_rules") /\ Answer(TRUE, <<{r \in rules : r.on}>>)
       \/ Served("get_outbounds") /\ Answer(TRUE, <<outbounds>>)
       \/ \E s \in DOMAIN TableOf : Served(s) /\ Answer(TRUE, <<xtab[TableOf[s]]>>)
    /\ UNCHANGED tables
-----------------------------------------------------------------------------
(* The event loop resumes a job *)

\* A job that halts, or has no step left, is done.
Goes(j, todo, seen) ==
    /\ jobs' = [jobs EXCEPT ![j] = IF todo = <<>> THEN Idle
                                   ELSE [@ EXCEPT !.todo = todo, !.seen = seen]]
    /\ fifo' = Queued(j, todo)

\* Router.reload has read both tables: when every outbound can be built, both halves
\* of the router are set.
Install(j) ==
    LET seen == jobs[j].seen IN
    /\ router' = IF \A o \in Last(seen) : o.kind # "bad"
                 THEN [rules |-> seen[Len(seen) - 1], outbounds |-> Last(seen)]
                 ELSE router
    /\ UNCHANGED <<xray, history>>

\* XrayManager.start has read its tables: it writes the file and starts a process,
\* without another look at is_running.  A file that cannot be written stays as it was,
\* or is left half written, and a process is started on it, which exits at once when
\* it is broken; or nothing is started.
Launch(j) ==
    /\ Len(kids) < MaxKids
    /\ \/ /\ file' = [inbounds |-> jobs[j].seen[1], outbounds |-> jobs[j].seen[2],
                       clients |-> jobs[j].seen[3]]
          /\ UNCHANGED <<missed, faults>>
       \/ /\ faults < MaxFaults /\ faults' = faults + 1
          /\ file' \in {file, Broken}
          /\ missed' = TRUE
    /\ \/ /\ kids' = Append(kids, [st |-> IF file' = Broken THEN "dead" ELSE "run",
                                   cfg |-> file'])
          /\ handle' = Len(kids')
       \/ missed' /\ faults' # faults /\ UNCHANGED <<kids, handle>>
    /\ UNCHANGED <<router, unloaded, overlap>>

\* A statement that failed ends its request with an error.
Resume ==
    LET j == Head(ready)
        todo == IF jobs[j].ok THEN Tail(jobs[j].todo) ELSE <<>>
    IN
    /\ ready # <<>> /\ ready' = Tail(ready)
    /\ Goes(j, todo, jobs[j].seen)
    /\ CASE At(j, {"get_outbounds"}) -> Install(j)
         [] At(j, {"x_clients"}) -> Launch(j)
         [] OTHER -> UNCHANGED <<router, xray, history>>
    /\ UNCHANGED <<tables, requests>>
-----------------------------------------------------------------------------
(* The panel thread of a request, between two coroutines it waits for *)

\* The answer has come in time: the thread submits the next coroutine.
Hop(j) ==
    /\ At(j, {"reload", "toggle"})
    /\ Goes(j, Tail(jobs[j].todo), jobs[j].seen)
    /\ unloaded' = (unloaded /\ At(j, {"toggle"}))
    /\ UNCHANGED <<tables, router, ready, requests, xray, overlap, missed, faults>>

\* result(timeout=10) expired: the coroutine has gone on to its end and the request
\* ended with an error, without the reload, the write or the restart that follow.
GiveUp(j) ==
    /\ At(j, {"reload", "toggle", "check"}) /\ faults < MaxFaults
    /\ faults' = faults + 1
    /\ Goes(j, <<>>, <<>>)
    /\ unloaded' = (unloaded \/ At(j, {"reload"}))
    /\ missed' = (missed \/ At(j, {"check"}))
    /\ UNCHANGED <<tables, router, ready, requests, xray, overlap>>
-----------------------------------------------------------------------------
(* XrayManager *)

\* Mutant: starts Xray where it should restart it.
CheckStart(j) ==
    /\ At(j, {"check"})
    /\ Goes(j, IF Alive(handle) THEN Start ELSE <<>>, <<>>)
    /\ overlap' = IF Alive(handle) THEN Overlaps(j, Start) ELSE overlap
    /\ missed' = (missed \/ (~Alive(handle) /\ \E i \in Slots : At(i, DOMAIN TableOf)))
    /\ UNCHANGED <<tables, router, ready, requests, xray, unloaded, faults>>

\* The panel thread asks is_running, and has a running Xray restarted; one that is
\* about to be started from tables already read is missed.
Check(j) ==
    /\ At(j, {"check"})
    /\ Goes(j, IF Alive(handle) THEN Restart ELSE <<>>, <<>>)
    /\ overlap' = IF Alive(handle) THEN Overlaps(j, Restart) ELSE overlap
    /\ missed' = (missed \/ (~Alive(handle) /\ \E i \in Slots : At(i, DOMAIN TableOf)))
    /\ UNCHANGED <<tables, router, ready, requests, xray, unloaded, faults>>

\* Mutant: a start does not look whether Xray runs.
StartAnyway(j) ==
    /\ At(j, {"start"})
    /\ Goes(j, Tail(jobs[j].todo), <<>>)
    /\ missed' = FALSE
    /\ UNCHANGED <<tables, router, ready, requests, xray, unloaded, overlap, faults>>

StartXray(j) ==
    /\ At(j, {"start"})
    /\ Goes(j, IF Alive(handle) THEN <<>> ELSE Tail(jobs[j].todo), <<>>)
    /\ missed' = (missed /\ Alive(handle))
    /\ UNCHANGED <<tables, router, ready, requests, xray, unloaded, overlap, faults>>

\* The end of stop, and with it the start of a restart, which finds no process.
Stopped(j) ==
    LET rest == Tail(jobs[j].todo) IN
    /\ handle' = 0
    /\ Goes(j, IF rest = <<>> THEN rest ELSE Tail(rest), <<>>)
    /\ missed' = (missed /\ rest = <<>>)

\* stop terminates the process, and waits for it.
Stop(j) ==
    /\ At(j, {"stop"})
    /\ IF Alive(handle)
       THEN /\ kids' = [kids EXCEPT ![handle].st = "term"]
            /\ jobs' = [jobs EXCEPT ![j].todo[1] = "wait", ![j].id = handle]
            /\ UNCHANGED <<fifo, handle, missed>>
       ELSE Stopped(j) /\ UNCHANGED kids
    /\ UNCHANGED <<tables, router, ready, requests, file, unloaded, overlap, faults>>

WaitEnds(j) ==
    /\ At(j, {"wait"}) /\ ~Alive(jobs[j].id)
    /\ Stopped(j)
    /\ UNCHANGED <<tables, router, ready, requests, kids, file, unloaded, overlap, faults>>

\* After 5 s stop kills the process that is then in the handle; when another stop
\* has emptied it, that raises and ends the job.
WaitFails(j) ==
    /\ At(j, {"wait"}) /\ Alive(jobs[j].id) /\ faults < MaxFaults
    /\ faults' = faults + 1
    /\ IF handle = 0
       THEN Goes(j, <<>>, <<>>) /\ missed' = TRUE /\ UNCHANGED <<kids, handle>>
       ELSE Stopped(j) /\ kids' = [kids EXCEPT ![handle].st = "dead"]
    /\ UNCHANGED <<tables, router, ready, requests, file, unloaded, overlap>>

\* A process exits when it is told to, or by itself.
Exit(k) ==
    /\ kids[k].st = "term" \/ (kids[k].st = "run" /\ faults < MaxFaults)
    /\ faults' = IF kids[k].st = "run" THEN faults + 1 ELSE faults
    /\ kids' = [kids EXCEPT ![k].st = "dead"]
    /\ UNCHANGED <<tables, router, jobs, fifo, ready, requests, handle, file,
                   unloaded, overlap, missed>>
-----------------------------------------------------------------------------
Requests ==
    \/ AddOutbound \/ SetOutbound \/ DeleteOutbound
    \/ AddRule \/ SetRule \/ DeleteRule \/ ToggleRule \/ ReorderRules \/ DeleteInbound
    \/ XrayInbound \/ XrayOutbound \/ XrayClient
    \/ XrayStart \/ XrayStop \/ XrayRestart

Serve ==
    \/ InsertOutbound \/ UpdateOutbound \/ DeleteOutboundRow
    \/ InsertRule \/ UpdateRule \/ WriteToggle \/ OrderRule \/ DeleteRuleRow
    \/ DeleteInboundRules \/ DeleteInboundRow \/ EditXray \/ Select

Thread == \E j \in Slots : Hop(j) \/ GiveUp(j)

Process ==
    \/ \E j \in Slots : Check(j) \/ StartXray(j) \/ Stop(j) \/ WaitEnds(j) \/ WaitFails(j)
    \/ \E k \in DOMAIN kids : Exit(k)

Next == Requests \/ Serve \/ Resume \/ Thread \/ Process

Spec == Init /\ [][Next]_vars
-----------------------------------------------------------------------------
(* Properties *)

Settled == \A j \in Slots : Busy(j) => At(j, XSteps)

\* When no edit of the routing tables is under way and every outbound can be built,
\* connections are routed as the tables say, in whatever order the statements of
\* concurrent edits and reloads were served and their threads went on (router.py 21-52,
\* api.py 98-99, 292-425); after a request that gave up with its edit done, from the
\* next reload on.  An inbound that was deleted is excepted: its rules stay in the
\* router.
RouterIsCurrent ==
    Settled /\ ~unloaded /\ (\A o \in outbounds : o.kind # "bad") =>
        \A inb \in InboundTags \ gone :
            Route(router.rules, router.outbounds, inb) = Route(rules, outbounds, inb)

\* Unless two jobs have handled the process at a time, no running Xray is left
\* without its handle (xray.py 162-190).
NoOrphan ==
    ~overlap => \A k \in DOMAIN kids : kids[k].st = "run" => handle = k

\* However many edits, starts, stops and restarts overlap, when all are over the Xray
\* that has the handle runs on the tables as they are (xray.py 138-190, api.py 555-685),
\* unless a restart was missed and no start has begun to read since: the panel asked
\* is_running while a start that had read tables was yet to launch, gave up before
\* it asked, or the file was not written, or a stop's kill raised.
XrayIsCurrent ==
    ~missed /\ (\A j \in Slots : ~At(j, XSteps)) /\ handle # 0 /\ kids[handle].st = "run" =>
        kids[handle].cfg = xtab
=============================================================================
