---------------------------- MODULE StoreProofs ----------------------------
(***************************************************************************)
(* Proofs about the transactions of prose-store, for any number of tasks,  *)
(* connections, operations and faults, and for both drivers: a             *)
(* read-modify-write is never lost, what is written together is there as a *)
(* whole, and a read sees what was reported as done before it started.     *)
(*                                                                         *)
(* Everything rests on one fact: at most one writer is active (Alone).     *)
(* With SQLite it holds the lock; with IndexedDB it is the oldest of the   *)
(* transactions it overlaps with (InOrder).  So nobody changes the store   *)
(* under a writer (ViewsFit), and what is not yet completed is older than  *)
(* whatever must see it (DoneIsSettled).                                   *)
(***************************************************************************)
EXTENDS Store, TLAPS

-----------------------------------------------------------------------------
(* Statements                                                                *)

\* The operations of the repositories.
LEMMA OpsAre == Ops = {"update", "append", "clear", "set", "put", "delete", "read"}
  BY Zenon DEF Ops, Statements

\* How many statements they have.
LEMMA Lengths ==
    \A op \in Ops : Len(Statements[op]) = IF op \in {"update", "append"} THEN 2 ELSE 1
  <1>1. /\ Statements["update"] = <<"get", "increment">>
        /\ Statements["append"] = <<"putA", "putB">>
        /\ Statements["clear"] = <<"deleteAll">>
        /\ Statements["set"] = <<"set">> /\ Statements["put"] = <<"put">>
        /\ Statements["delete"] = <<"delete">> /\ Statements["read"] = <<"getP">>
    BY Zenon DEF Statements
  <1>2. \A x, y : Len(<<x, y>>) = 2 /\ Len(<<x>>) = 1
    OBVIOUS
  <1>3. QED BY Zenon, <1>1, <1>2, OpsAre

\* Which statement an operation is at.
LEMMA StatementsAre ==
    /\ Statements["update"][1] = "get" /\ Statements["update"][2] = "increment"
    /\ Statements["append"][1] = "putA" /\ Statements["append"][2] = "putB"
    /\ Statements["clear"][1] = "deleteAll"
    /\ Statements["set"][1] = "set" /\ Statements["put"][1] = "put"
    /\ Statements["delete"][1] = "delete" /\ Statements["read"][1] = "getP"
  BY Zenon DEF Statements

\* An operation with more than one statement is an update or an append.
LEMMA AtStatement ==
    ASSUME NEW r, r.op \in Ops, r.at \in 1..3, r.at =< Len(Statements[r.op])
    PROVE  \/ r.op \in {"update", "append"} /\ r.at \in {1, 2}
           \/ r.op \notin {"update", "append"} /\ r.at = 1
  BY Lengths

\* The fields of a task.
LEMMA TaskTypes ==
    ASSUME TypeOK, NEW t \in Tasks
    PROVE  /\ task[t] \in TaskRecords
           /\ task[t].op \in Ops /\ task[t].at \in 1..3
           /\ task[t].pc \in {"idle", "pool", "begin", "run", "completing"}
           /\ task[t].id \in Ids /\ task[t].born \in 0..ops /\ task[t].floor \in Ids
           /\ task[t].work \in Views /\ task[t].n \in Nat /\ task[t].seen \in Points
  BY Zenon DEF TypeOK, TaskRecords

\* The parts of a view of the store.
LEMMA ViewTypes ==
    ASSUME NEW v \in Views
    PROVE  /\ v.n \in Nat /\ v.a \in Ids /\ v.b \in Ids /\ v.p \in Points /\ v.p.id \in Ids
  BY Zenon DEF Views, Points

-----------------------------------------------------------------------------
(* What the steps do to a task                                               *)

\* Task t goes on as s.
Becomes(t, s) == task' = [task EXCEPT ![t] = s]

\* The other tasks stay as they are.
LEMMA OneTask ==
    ASSUME task \in [Tasks -> TaskRecords], NEW t \in Tasks, NEW s, Becomes(t, s)
    PROVE  task'[t] = s /\ \A u \in Tasks : u # t => task'[u] = task[u]
  BY Zenon DEF Becomes

\* s is r, further on or with other fields: what never changes once it has started.
SameOperation(r, s) == s.op = r.op /\ s.born = r.born /\ s.floor = r.floor

\* The types of the parts when the number of transactions grows.
LEMMA TypesGrow ==
    ASSUME TypeOK, serial' \in {serial, serial + 1}
    PROVE  /\ Ids \subseteq Ids' /\ Points \subseteq Points' /\ Views \subseteq Views'
           /\ ops' \in {ops, ops + 1} => TaskRecords \subseteq TaskRecords'
           /\ Empty \in Views' /\ Absent \in Points' /\ 0 \in Ids'
  <1>1. Ids \subseteq Ids' /\ 0 \in Ids'
    BY DEF TypeOK, Ids
  <1>2. Points \subseteq Points' /\ Absent \in Points'
    BY Zenon, <1>1 DEF Points, Absent
  <1>3. Views \subseteq Views' /\ Empty \in Views'
    BY Zenon, <1>1, <1>2 DEF Views, Empty
  <1>4. ops' \in {ops, ops + 1} => 0..ops \subseteq 0..ops'
    BY DEF TypeOK
  <1>5. QED BY Zenon, <1>1, <1>2, <1>3, <1>4 DEF TaskRecords

\* A task that runs nothing.
LEMMA IdleTypes ==
    ASSUME TypeOK
    PROVE  /\ Idle \in TaskRecords
           /\ Idle.pc = "idle" /\ Idle.op = "read" /\ Idle.at = 1
  <1>1. /\ Empty \in Views /\ Absent \in Points /\ 0 \in Ids /\ 0 \in 0..ops
    BY DEF TypeOK, Views, Points, Ids, Empty, Absent
  <1>2. QED BY <1>1, OpsAre DEF TaskRecords, Idle

\* The transaction that starts.
LEMMA StartOutcome ==
    ASSUME TypeOK, NEW t \in Tasks, NEW op \in Ops, Start(t, op)
    PROVE  \E s \in TaskRecords' :
             /\ Becomes(t, s) /\ task[t].pc = "idle" /\ ops' = ops + 1 /\ ops < MaxOps
             /\ UNCHANGED <<driver, db, lock, serial, acked, applied, failed, faults>>
             /\ s.op = op /\ s.pc \in {"pool", "begin"} /\ s.at = 1 /\ s.born = ops + 1
             /\ s.floor = acked
  <1> DEFINE c == IF driver = "sqlite" THEN "pool" ELSE "begin"
             s == [Idle EXCEPT !.op = op, !.born = ops + 1, !.floor = acked, !.pc = c]
  <1>1. Becomes(t, s)
    BY Zenon DEF Start, Becomes
  <1>2. c \in {"pool", "begin"}
    OBVIOUS
  <1>3. ops' \in {ops, ops + 1} /\ ops + 1 \in 0..ops' /\ serial' = serial /\ acked \in Ids'
    BY DEF Start, TypeOK, Ids
  <1>4. Idle \in TaskRecords' /\ Idle.at = 1
    BY Zenon, <1>3, IdleTypes, TypesGrow
  <1> HIDE DEF c
  <1>5. /\ s \in TaskRecords' /\ s.op = op /\ s.pc = c /\ s.at = 1 /\ s.born = ops + 1
        /\ s.floor = acked
    BY Zenon, <1>2, <1>3, <1>4 DEF TaskRecords
  <1>6. QED BY Zenon, <1>1, <1>2, <1>5 DEF Start

\* The transaction that has its connection.
LEMMA AcquireOutcome ==
    ASSUME TypeOK, NEW t \in Tasks, Acquire(t)
    PROVE  \E s \in TaskRecords :
             /\ Becomes(t, s) /\ task[t].pc = "pool" /\ SameOperation(task[t], s)
             /\ UNCHANGED <<driver, db, lock, serial, acked, applied, failed, ops, faults>>
             /\ s.pc = "begin" /\ s.at = task[t].at
  <1> DEFINE s == [task[t] EXCEPT !.pc = "begin"]
  <1>1. s \in TaskRecords /\ SameOperation(task[t], s) /\ s.pc = "begin" /\ s.at = task[t].at
    BY Zenon, TaskTypes DEF TaskRecords, SameOperation
  <1>2. Becomes(t, s)
    BY Zenon DEF Acquire, Becomes, TypeOK
  <1>3. QED BY Zenon, <1>1, <1>2 DEF Acquire

\* The transaction that begins sees what is committed, a writer under a new number.
LEMMA BeginOutcome ==
    ASSUME TypeOK, NEW t \in Tasks, Begin(t)
    PROVE  \E s \in TaskRecords' :
             /\ Becomes(t, s) /\ task[t].pc = "begin" /\ SameOperation(task[t], s)
             /\ UNCHANGED <<driver, db, acked, applied, failed, ops, faults>>
             /\ lock' = IF Writes(task[t].op) /\ driver = "sqlite" THEN t ELSE lock
             /\ serial' = IF Writes(task[t].op) THEN serial + 1 ELSE serial
             /\ s.pc = "run" /\ s.at = task[t].at /\ s.work = db
             /\ s.id = IF Writes(task[t].op) THEN serial + 1 ELSE 0
  <1> DEFINE i == IF Writes(task[t].op) THEN serial + 1 ELSE 0
             s == [task[t] EXCEPT !.pc = "run", !.work = db, !.id = i]
  <1>1. i \in Ids' /\ serial' \in {serial, serial + 1} /\ ops' = ops
    BY DEF Begin, Ids, TypeOK
  <1>2. Becomes(t, s)
    BY Zenon DEF Begin, Becomes, TypeOK
  <1> HIDE DEF i
  <1>3. task[t] \in TaskRecords' /\ db \in Views'
    BY Zenon, <1>1, TaskTypes, TypesGrow DEF TypeOK
  <1>4. /\ s \in TaskRecords' /\ SameOperation(task[t], s)
        /\ s.pc = "run" /\ s.at = task[t].at /\ s.work = db /\ s.id = i
    BY Zenon, <1>1, <1>3 DEF TaskRecords, SameOperation
  <1>5. QED BY Zenon, <1>2, <1>4 DEF Begin, i

\* A statement changes the view of the transaction and nothing else of it.
SameTask(r, e) ==
    /\ e \in TaskRecords /\ SameOperation(r, e)
    /\ e.pc = r.pc /\ e.at = r.at /\ e.id = r.id

\* What every statement does to the view.
LEMMA Effects ==
    ASSUME TypeOK, NEW r \in TaskRecords
    PROVE  /\ LET e == Effect(r, "get")
              IN  SameTask(r, e) /\ e.work = r.work /\ e.n = r.work.n
           /\ LET e == Effect(r, "increment")
              IN  /\ SameTask(r, e) /\ e.work.n = r.n + 1
                  /\ e.work.a = r.work.a /\ e.work.b = r.work.b /\ e.work.p = r.work.p
           /\ LET e == Effect(r, "putA")
              IN  /\ SameTask(r, e) /\ e.work.n = r.work.n
                  /\ e.work.a = r.id /\ e.work.b = r.work.b /\ e.work.p = r.work.p
           /\ LET e == Effect(r, "putB")
              IN  /\ SameTask(r, e) /\ e.work.n = r.work.n
                  /\ e.work.a = r.work.a /\ e.work.b = r.id /\ e.work.p = r.work.p
           /\ LET e == Effect(r, "deleteAll")
              IN  /\ SameTask(r, e) /\ e.work.n = r.work.n
                  /\ e.work.a = 0 /\ e.work.b = 0 /\ e.work.p = r.work.p
           /\ \A w \in {"set", "put", "delete"} :
                LET e == Effect(r, w)
                IN  /\ SameTask(r, e) /\ e.work.n = r.work.n
                    /\ e.work.a = r.work.a /\ e.work.b = r.work.b /\ e.work.p.id = r.id
           /\ LET e == Effect(r, "getP") IN SameTask(r, e) /\ e.seen = db.p
  <1>0. /\ r.work \in Views /\ r.work.n \in Nat /\ r.n \in Nat /\ r.n + 1 \in Nat
        /\ r.id \in Ids /\ 0 \in Ids /\ db.p \in Points
    BY ViewTypes DEF TaskRecords, TypeOK, Views, Ids
  <1>1. LET e == Effect(r, "get") IN SameTask(r, e) /\ e.work = r.work /\ e.n = r.work.n
    BY Zenon, <1>0 DEF Effect, SameTask, SameOperation, TaskRecords
  <1>2. LET e == Effect(r, "increment")
        IN  /\ SameTask(r, e) /\ e.work.n = r.n + 1
            /\ e.work.a = r.work.a /\ e.work.b = r.work.b /\ e.work.p = r.work.p
    BY Zenon, <1>0 DEF Effect, SameTask, SameOperation, TaskRecords, Views
  <1>3. LET e == Effect(r, "putA")
        IN  /\ SameTask(r, e) /\ e.work.n = r.work.n
            /\ e.work.a = r.id /\ e.work.b = r.work.b /\ e.work.p = r.work.p
    BY Zenon, <1>0 DEF Effect, SameTask, SameOperation, TaskRecords, Views
  <1>4. LET e == Effect(r, "putB")
        IN  /\ SameTask(r, e) /\ e.work.n = r.work.n
            /\ e.work.a = r.work.a /\ e.work.b = r.id /\ e.work.p = r.work.p
    BY Zenon, <1>0 DEF Effect, SameTask, SameOperation, TaskRecords, Views
  <1>5. LET e == Effect(r, "deleteAll")
        IN  /\ SameTask(r, e) /\ e.work.n = r.work.n
            /\ e.work.a = 0 /\ e.work.b = 0 /\ e.work.p = r.work.p
    BY Zenon, <1>0 DEF Effect, SameTask, SameOperation, TaskRecords, Views
  <1>6. \A w \in {"set", "put", "delete"} :
                LET e == Effect(r, w)
                IN  /\ SameTask(r, e) /\ e.work.n = r.work.n
                    /\ e.work.a = r.work.a /\ e.work.b = r.work.b /\ e.work.p.id = r.id
    <2>1. ASSUME NEW there \in BOOLEAN
          PROVE  LET e == [r EXCEPT !.work.p = [id |-> r.id, there |-> there]]
                 IN  /\ SameTask(r, e) /\ e.work.n = r.work.n
                     /\ e.work.a = r.work.a /\ e.work.b = r.work.b /\ e.work.p.id = r.id
      <3> DEFINE p == [id |-> r.id, there |-> there]
      <3>1. p \in Points /\ p.id = r.id
        BY Zenon, <1>0 DEF Points
      <3> HIDE DEF p
      <3>2. LET e == [r EXCEPT !.work.p = p]
            IN  /\ SameTask(r, e) /\ e.work.n = r.work.n
                /\ e.work.a = r.work.a /\ e.work.b = r.work.b /\ e.work.p = p
        BY Zenon, <1>0, <3>1 DEF SameTask, SameOperation, TaskRecords, Views
      <3>3. QED BY Zenon, <3>1, <3>2 DEF p
    <2>2. /\ Effect(r, "set") = [r EXCEPT !.work.p = [id |-> r.id, there |-> TRUE]]
          /\ Effect(r, "put") = [r EXCEPT !.work.p = [id |-> r.id, there |-> TRUE]]
          /\ Effect(r, "delete") = [r EXCEPT !.work.p = [id |-> r.id, there |-> FALSE]]
      BY Zenon DEF Effect
    <2>3. QED BY Zenon, <2>1, <2>2
  <1>7. LET e == Effect(r, "getP") IN SameTask(r, e) /\ e.seen = db.p
    BY Zenon, <1>0 DEF Effect, SameTask, SameOperation, TaskRecords
  <1>8. QED BY Zenon, <1>1, <1>2, <1>3, <1>4, <1>5, <1>6, <1>7

\* The transaction that runs a statement: a writer's view still fits.
LEMMA ExecuteOutcome ==
    ASSUME TypeOK, NEW t \in Tasks, Execute(t)
    PROVE  \E s \in TaskRecords :
             /\ Becomes(t, s) /\ Running(t) /\ SameOperation(task[t], s)
             /\ UNCHANGED <<driver, db, lock, serial, acked, applied, failed, ops, faults>>
             /\ s.pc = "run" /\ s.at = task[t].at + 1
             /\ Writes(task[t].op) /\ ViewFits(task[t]) => ViewFits(s)
             /\ task[t].op = "read" => s.seen = db.p
  <1> DEFINE r == task[t]
             e == Effect(r, Statement(t))
             s == [e EXCEPT !.at = r.at + 1]
  <1>0. r \in TaskRecords /\ r.op \in Ops /\ r.at \in 1..3 /\ r.at =< Len(Statements[r.op])
    BY Zenon, TaskTypes DEF Execute, Running
  <1>1. /\ Becomes(t, s) /\ Running(t)
        /\ UNCHANGED <<driver, db, lock, serial, acked, applied, failed, ops, faults>>
    BY Zenon DEF Execute, Becomes
  <1>2. /\ r.op = "update" => r.at \in {1, 2}
        /\ r.op = "append" => r.at \in {1, 2}
        /\ r.op \notin {"update", "append"} => r.at = 1
        /\ r.at + 1 \in 1..3 /\ r.pc = "run"
    BY <1>0, AtStatement DEF Execute, Running
  <1>3. Statement(t) = Statements[r.op][r.at]
    BY Zenon DEF Statement
  <1> HIDE DEF r
  <1>4. /\ SameTask(r, e)
        /\ r.op = "update" /\ r.at = 1 => e.work = r.work /\ e.n = r.work.n
        /\ r.op = "update" /\ r.at = 2
             => /\ e.work.n = r.n + 1
                /\ e.work.a = r.work.a /\ e.work.b = r.work.b /\ e.work.p = r.work.p
        /\ r.op = "append" /\ r.at = 1
             => /\ e.work.n = r.work.n
                /\ e.work.a = r.id /\ e.work.b = r.work.b /\ e.work.p = r.work.p
        /\ r.op = "append" /\ r.at = 2
             => /\ e.work.n = r.work.n
                /\ e.work.a = r.work.a /\ e.work.b = r.id /\ e.work.p = r.work.p
        /\ r.op = "clear"
             => /\ e.work.n = r.work.n
                /\ e.work.a = 0 /\ e.work.b = 0 /\ e.work.p = r.work.p
        /\ SingleWrite(r.op)
             => /\ e.work.n = r.work.n
                /\ e.work.a = r.work.a /\ e.work.b = r.work.b /\ e.work.p.id = r.id
        /\ r.op = "read" => e.seen = db.p
    <2>1. CASE r.op = "update" /\ r.at = 1
      BY <1>0, <1>3, <2>1, Effects, StatementsAre DEF SingleWrite
    <2>2. CASE r.op = "update" /\ r.at = 2
      BY <1>0, <1>3, <2>2, Effects, StatementsAre DEF SingleWrite
    <2>3. CASE r.op = "append" /\ r.at = 1
      BY <1>0, <1>3, <2>3, Effects, StatementsAre DEF SingleWrite
    <2>4. CASE r.op = "append" /\ r.at = 2
      BY <1>0, <1>3, <2>4, Effects, StatementsAre DEF SingleWrite
    <2>5. CASE r.op = "clear"
      BY <1>0, <1>2, <1>3, <2>5, Effects, StatementsAre DEF SingleWrite
    <2>6. CASE r.op \in {"set", "put", "delete"}
      <3>1. Statement(t) = r.op
        BY <1>2, <1>3, <2>6, StatementsAre
      <3>2. /\ SameTask(r, e) /\ e.work.n = r.work.n
            /\ e.work.a = r.work.a /\ e.work.b = r.work.b /\ e.work.p.id = r.id
        BY <1>0, <2>6, <3>1, Effects
      <3>3. QED BY Zenon, <2>6, <3>2
    <2>7. CASE r.op = "read"
      BY <1>0, <1>2, <1>3, <2>7, Effects, StatementsAre DEF SingleWrite
    <2>8. QED BY Zenon, <1>0, <1>2, <2>1, <2>2, <2>3, <2>4, <2>5, <2>6, <2>7, OpsAre
  <1> HIDE DEF e
  <1>5. /\ s \in TaskRecords /\ SameOperation(r, s) /\ s.pc = "run" /\ s.at = r.at + 1
        /\ s.id = r.id /\ s.work = e.work /\ s.n = e.n /\ s.seen = e.seen
    BY Zenon, <1>2, <1>4 DEF TaskRecords, SameTask, SameOperation
  <1>6. s.op = r.op
    BY Zenon, <1>5 DEF SameOperation
  <1> HIDE DEF s
  <1>7. ASSUME Writes(r.op), ViewFits(r)
        PROVE  ViewFits(s)
    <2>0. r.op \in {"update", "append", "clear", "set", "put", "delete"} /\ r.at \in 1..3
      BY Zenon, <1>0, <1>7, OpsAre DEF Writes
    <2>1. CASE r.op = "update" /\ r.at = 1
      BY <1>4, <1>5, <1>6, <1>7, <2>1 DEF ViewFits, SingleWrite
    <2>2. CASE r.op = "update" /\ r.at = 2
      BY <1>4, <1>5, <1>6, <1>7, <2>2 DEF ViewFits, SingleWrite
    <2>3. CASE r.op = "append" /\ r.at = 1
      BY <1>4, <1>5, <1>6, <1>7, <2>3 DEF ViewFits, SingleWrite
    <2>4. CASE r.op = "append" /\ r.at = 2
      BY <1>4, <1>5, <1>6, <1>7, <2>4 DEF ViewFits, SingleWrite
    <2>5. CASE r.op = "clear"
      BY <1>2, <1>4, <1>5, <1>6, <1>7, <2>5 DEF ViewFits, SingleWrite
    <2>6. CASE r.op \in {"set", "put", "delete"}
      BY <1>2, <1>4, <1>5, <1>6, <1>7, <2>6 DEF ViewFits, SingleWrite
    <2>7. QED BY Zenon, <1>2, <2>0, <2>1, <2>2, <2>3, <2>4, <2>5, <2>6
  <1>8. QED BY Zenon, <1>1, <1>4, <1>5, <1>7 DEF r

\* The transaction of t is over: what it wrote has taken effect or not, and a writer that
\* fails half-way leaves the mark of a failure.
Ends(t) ==
    /\ task[t].pc # "idle" /\ Finish(t) /\ UNCHANGED <<driver, serial, ops>>
    /\ failed' \in BOOLEAN /\ (failed => failed') /\ faults' \in 0..MaxFaults
    /\ \/ Discard
       \/ Writing(t) /\ Apply(t) /\ (failed' \/ task[t].op # "append" \/ task[t].at # 2)
    /\ task[t].pc = "completing" => Writing(t) /\ Apply(t)
    /\ \/ acked' = acked
       \/ /\ SingleWrite(task[t].op) /\ task[t].at = 2 /\ task[t].pc = "run"
          /\ acked' = task[t].id /\ (failed' \/ Apply(t))

\* IndexedDB's transaction is dropped, and completes later.
DropLater(t) ==
    /\ task[t].pc = "run" /\ SingleWrite(task[t].op) /\ task[t].at = 2 /\ driver = "idb"
    /\ task' = [task EXCEPT ![t].pc = "completing"]
    /\ acked' = task[t].id
    /\ UNCHANGED <<driver, db, lock, serial, applied, failed, ops, faults>>

\* All its statements are done.
LEMMA AtEnd ==
    ASSUME TypeOK, StepsFit, NEW t \in Tasks, Done(t)
    PROVE  task[t].at = IF task[t].op \in {"update", "append"} THEN 3 ELSE 2
  BY TaskTypes, Lengths DEF Done, StepsFit, StepFits

\* How a transaction comes to its end.
LEMMA Endings ==
    ASSUME TypeOK, StepsFit, NEW t \in Tasks,
           Busy(t) \/ FailStatement(t) \/ Commit(t) \/ DropTx(t) \/ Complete(t)
    PROVE  Ends(t) \/ DropLater(t)
  <1>0. failed \in BOOLEAN /\ faults \in 0..MaxFaults /\ task[t].op \in Ops
    BY Zenon, TaskTypes DEF TypeOK
  <1>1. CASE Busy(t)
    BY Zenon, <1>0, <1>1 DEF Busy, Ends, Discard
  <1>2. CASE FailStatement(t)
    <2>1. \/ faults' = faults /\ failed' = failed /\ Conflicts(t)
          \/ faults' \in 0..MaxFaults /\ failed' = TRUE
      BY <1>0, <1>2, BoundsAreNumbers DEF FailStatement
    <2>2. Conflicts(t) => task[t].op # "append" \/ task[t].at # 2
      BY Zenon, StatementsAre DEF Conflicts, Statement
    <2>3. task[t].pc = "run" /\ Running(t)
      BY Zenon, <1>2 DEF FailStatement, Running
    <2>4. Writes(task[t].op) => Writing(t)
      BY Zenon, <2>3 DEF Writing, Active
    <2>5. QED BY Zenon, <1>0, <1>2, <2>1, <2>2, <2>3, <2>4 DEF FailStatement, Ends
  <1>3. CASE Commit(t)
    <2>0. \/ faults' = faults /\ failed' = failed
          \/ faults < MaxFaults /\ faults' = faults + 1 /\ failed' = TRUE
      BY Zenon, <1>3 DEF Commit
    <2>1. faults' \in 0..MaxFaults /\ failed' \in BOOLEAN /\ (failed => failed')
      <3>1. faults' \in 0..MaxFaults
        BY <1>0, <2>0, BoundsAreNumbers
      <3>2. failed' \in BOOLEAN /\ (failed => failed')
        BY Zenon, <1>0, <2>0
      <3>3. QED BY Zenon, <3>1, <3>2
    <2>2. task[t].pc = "run" /\ Writing(t)
      BY Zenon, <1>3 DEF Commit, Done, Writing, Active, Writes, Commits
    <2>3. task[t].op # "append" \/ task[t].at # 2
      BY <1>3, AtEnd DEF Commit
    <2>4. QED BY Zenon, <1>0, <1>3, <2>1, <2>2, <2>3 DEF Commit, Ends
  <1>4. CASE Complete(t)
    <2>1. SingleWrite(task[t].op)
      BY Zenon, <1>4 DEF Complete, StepsFit, StepFits
    <2>2. Writing(t) /\ task[t].op # "append"
      BY Zenon, <1>4, <2>1 DEF Complete, Writing, Active, Writes, SingleWrite
    <2>3. QED BY Zenon, <1>0, <1>4, <2>2 DEF Complete, Ends
  <1>5. CASE DropTx(t)
    <2>1. task[t].pc = "run" /\ task[t].op \notin {"update", "append", "clear"}
      BY Zenon, <1>5 DEF DropTx, Done, Commits
    <2>2. task[t].at = 2
      BY Zenon, <1>5, <2>1, AtEnd DEF DropTx
    <2>3. Writes(task[t].op) => Writing(t) /\ SingleWrite(task[t].op)
      BY Zenon, <1>0, <2>1, OpsAre DEF Writing, Active, Writes, SingleWrite
    <2>4. CASE ~Writes(task[t].op)
      BY Zenon, <1>0, <1>5, <2>1, <2>4 DEF DropTx, Ends
    <2>5. CASE Writes(task[t].op) /\ driver = "idb"
      BY Zenon, <1>5, <2>1, <2>2, <2>3, <2>5 DEF DropTx, DropLater, Discard
    <2>6. CASE Writes(task[t].op) /\ driver # "idb"
      <3>1. \/ faults' = faults /\ failed' = failed /\ Apply(t)
            \/ faults' \in 0..MaxFaults /\ failed' = TRUE /\ Discard
        BY <1>0, <1>5, <2>6, BoundsAreNumbers DEF DropTx
      <3>2. Finish(t) /\ acked' = task[t].id /\ UNCHANGED <<driver, serial, ops>>
        BY Zenon, <1>5, <2>6 DEF DropTx
      <3>3. QED BY Zenon, <1>0, <2>1, <2>2, <2>3, <2>6, <3>1, <3>2 DEF Ends
    <2>7. QED BY Zenon, <2>4, <2>5, <2>6
  <1>6. QED BY Zenon, <1>1, <1>2, <1>3, <1>4, <1>5

\* The dropped transaction keeps its view.
LEMMA DropOutcome ==
    ASSUME TypeOK, NEW t \in Tasks, DropLater(t)
    PROVE  \E s \in TaskRecords :
             /\ Becomes(t, s) /\ SameOperation(task[t], s)
             /\ s.pc = "completing" /\ s.at = task[t].at /\ s.id = task[t].id
             /\ s.work = task[t].work /\ s.n = task[t].n
  <1> DEFINE s == [task[t] EXCEPT !.pc = "completing"]
  <1>1. /\ s \in TaskRecords /\ SameOperation(task[t], s)
        /\ s.pc = "completing" /\ s.at = task[t].at /\ s.id = task[t].id
        /\ s.work = task[t].work /\ s.n = task[t].n
    BY Zenon, TaskTypes DEF TaskRecords, SameOperation
  <1>2. Becomes(t, s)
    BY Zenon DEF DropLater, Becomes, TypeOK
  <1>3. QED BY Zenon, <1>1, <1>2

\* The task whose transaction is over runs nothing.
LEMMA EndOutcome ==
    ASSUME TypeOK, NEW t \in Tasks, Ends(t)
    PROVE  /\ Becomes(t, Idle) /\ task'[t] = Idle
           /\ \A u \in Tasks : u # t => task'[u] = task[u]
           /\ lock' = IF lock = t THEN "none" ELSE lock
           /\ \/ db' = db /\ applied' = applied
              \/ /\ Writing(t) /\ db' = task[t].work
                 /\ applied' = IF task[t].op = "update" /\ task[t].at > 2 THEN applied + 1
                               ELSE applied
  <1>1. Becomes(t, Idle) /\ lock' = IF lock = t THEN "none" ELSE lock
    BY Zenon DEF Ends, Finish, Becomes
  <1>2. task'[t] = Idle /\ \A u \in Tasks : u # t => task'[u] = task[u]
    BY Zenon, <1>1, OneTask DEF TypeOK
  <1>3. QED BY Zenon, <1>1, <1>2 DEF Ends, Discard, Apply

-----------------------------------------------------------------------------
(* Types                                                                     *)

\* Tasks stay tasks.
LEMMA TaskTypeStep ==
    ASSUME TypeOK, serial' \in {serial, serial + 1}, ops' \in {ops, ops + 1},
           NEW t \in Tasks, NEW s \in TaskRecords', Becomes(t, s)
    PROVE  task' \in [Tasks -> TaskRecords']
  <1>1. task \in [Tasks -> TaskRecords']
    BY Zenon, TypesGrow DEF TypeOK
  <1>2. QED BY Zenon, <1>1 DEF Becomes

\* Every step keeps the types.
LEMMA TypeStep ==
    ASSUME TypeOK, StepsFit, [Next]_vars
    PROVE  TypeOK'
  <1>0. /\ driver \in {"sqlite", "idb"} /\ db \in Views /\ lock \in Tasks \cup {"none"}
        /\ serial \in Nat /\ acked \in Ids /\ applied \in Nat /\ ops \in 0..MaxOps
        /\ failed \in BOOLEAN /\ faults \in 0..MaxFaults
        /\ task \in [Tasks -> TaskRecords]
    BY Zenon DEF TypeOK
  <1>a. serial' = serial /\ ops' = ops => TaskRecords' = TaskRecords /\ Views' = Views /\ Ids' = Ids
    BY Zenon DEF TaskRecords, Views, Points, Ids
  <1>1. ASSUME NEW t \in Tasks, NEW op \in Ops, Start(t, op) PROVE TypeOK'
    <2>1. PICK s \in TaskRecords' :
             /\ Becomes(t, s) /\ ops' = ops + 1 /\ ops < MaxOps
             /\ UNCHANGED <<driver, db, lock, serial, acked, applied, failed, faults>>
      BY Zenon, <1>1, StartOutcome
    <2>2. task' \in [Tasks -> TaskRecords'] /\ db \in Views' /\ acked \in Ids'
      BY Zenon, <1>0, <2>1, TaskTypeStep, TypesGrow
    <2>3. ops' \in 0..MaxOps
      BY <1>0, <2>1, BoundsAreNumbers
    <2>4. QED BY Zenon, <1>0, <2>1, <2>2, <2>3 DEF TypeOK
  <1>2. ASSUME NEW t \in Tasks, Begin(t) PROVE TypeOK'
    <2>1. PICK s \in TaskRecords' :
             /\ Becomes(t, s) /\ UNCHANGED <<driver, db, acked, applied, failed, ops, faults>>
             /\ lock' \in {t, lock} /\ serial' \in {serial, serial + 1}
      BY Zenon, <1>2, BeginOutcome
    <2>2. task' \in [Tasks -> TaskRecords'] /\ db \in Views' /\ acked \in Ids'
      BY Zenon, <1>0, <2>1, TaskTypeStep, TypesGrow
    <2>3. serial' \in Nat /\ lock' \in Tasks \cup {"none"}
      BY <1>0, <2>1
    <2>4. QED BY Zenon, <1>0, <2>1, <2>2, <2>3 DEF TypeOK
  <1>3. ASSUME NEW t \in Tasks, Acquire(t) \/ Execute(t) PROVE TypeOK'
    <2>1. PICK s \in TaskRecords :
             /\ Becomes(t, s)
             /\ UNCHANGED <<driver, db, lock, serial, acked, applied, failed, ops, faults>>
      BY Zenon, <1>3, AcquireOutcome, ExecuteOutcome
    <2>2. task' \in [Tasks -> TaskRecords']
      BY Zenon, <1>a, <2>1, TaskTypeStep
    <2>3. QED BY Zenon, <1>0, <1>a, <2>1, <2>2 DEF TypeOK
  <1>4. ASSUME NEW t \in Tasks, DropLater(t) PROVE TypeOK'
    <2>1. PICK s \in TaskRecords : Becomes(t, s)
      BY Zenon, <1>4, DropOutcome
    <2>2. /\ UNCHANGED <<driver, db, lock, serial, applied, failed, ops, faults>>
          /\ acked' \in Ids
      BY Zenon, <1>4, TaskTypes DEF DropLater
    <2>3. task' \in [Tasks -> TaskRecords']
      BY Zenon, <1>a, <2>1, <2>2, TaskTypeStep
    <2>4. QED BY Zenon, <1>0, <1>a, <2>2, <2>3 DEF TypeOK
  <1>5. ASSUME NEW t \in Tasks, Ends(t) PROVE TypeOK'
    <2>1. /\ UNCHANGED <<driver, serial, ops>> /\ failed' \in BOOLEAN
          /\ faults' \in 0..MaxFaults /\ acked' \in Ids
      BY Zenon, <1>0, <1>5, TaskTypes DEF Ends
    <2>2. db' \in Views /\ lock' \in Tasks \cup {"none"}
      BY Zenon, <1>0, <1>5, EndOutcome, TaskTypes
    <2>3. applied' \in Nat
      BY <1>0, <1>5, EndOutcome
    <2>4. Idle \in TaskRecords'
      BY Zenon, <1>a, <2>1, IdleTypes
    <2>5. task' \in [Tasks -> TaskRecords']
      BY Zenon, <1>5, <2>1, <2>4, EndOutcome, TaskTypeStep
    <2>6. QED BY Zenon, <1>0, <1>a, <2>1, <2>2, <2>3, <2>5 DEF TypeOK
  <1>6. CASE Crash
    <2>1. /\ UNCHANGED <<driver, db, serial, applied, failed, ops>> /\ lock' = "none"
          /\ faults' = faults + 1 /\ faults < MaxFaults /\ acked' = db.p.id
          /\ task' = [t \in Tasks |-> Idle]
      BY Zenon, <1>6 DEF Crash
    <2>2. faults' \in 0..MaxFaults
      BY <1>0, <2>1, BoundsAreNumbers
    <2>3. acked' \in Ids
      BY Zenon, <1>0, <2>1, ViewTypes
    <2>4. Idle \in TaskRecords'
      BY Zenon, <1>a, <2>1, IdleTypes
    <2>5. task' \in [Tasks -> TaskRecords']
      BY Zenon, <2>1, <2>4
    <2>6. QED BY Zenon, <1>0, <1>a, <2>1, <2>2, <2>3, <2>5 DEF TypeOK
  <1>7. CASE UNCHANGED vars
    <2>1. UNCHANGED <<driver, db, task, lock, serial, acked, applied, failed, ops, faults>>
      BY Zenon, <1>7 DEF vars
    <2>2. QED BY Zenon, <1>0, <1>a, <2>1 DEF TypeOK
  <1>8. QED
    BY Zenon, <1>1, <1>2, <1>3, <1>4, <1>5, <1>6, <1>7, Endings DEF Next, Proceed

-----------------------------------------------------------------------------
(* Steps, locks and order                                                    *)

\* Every task is at a statement of its operation, or past the last one.
LEMMA StepsFitStep ==
    ASSUME TypeOK, StepsFit, [Next]_vars
    PROVE  StepsFit'
  <1>0. driver' = driver
    BY Zenon, Endings DEF Next, Proceed, Start, Acquire, Begin, Execute, Ends, DropLater, Crash, vars
  <1>1. \A r : StepFits(r) => StepFits(r)'
    BY Zenon, <1>0 DEF StepFits
  <1>2. ASSUME NEW t \in Tasks, NEW s, Becomes(t, s), StepFits(s) PROVE StepsFit'
    BY Zenon, <1>1, <1>2, OneTask DEF StepsFit, TypeOK
  <1>3. ASSUME NEW t \in Tasks, NEW op \in Ops, Start(t, op) PROVE StepsFit'
    <2>1. PICK s : Becomes(t, s) /\ s.op = op /\ s.pc \in {"pool", "begin"} /\ s.at = 1
      BY <1>3, StartOutcome
    <2>2. StepFits(s)
      BY <2>1, Lengths DEF StepFits
    <2>3. QED BY Zenon, <1>2, <2>1, <2>2
  <1>4. ASSUME NEW t \in Tasks, Acquire(t) \/ Begin(t) PROVE StepsFit'
    <2>1. PICK s : /\ Becomes(t, s) /\ SameOperation(task[t], s) /\ s.pc \in {"begin", "run"}
                   /\ s.at = task[t].at /\ task[t].pc \in {"pool", "begin"}
      BY Zenon, <1>4, AcquireOutcome, BeginOutcome
    <2>2. StepFits(s)
      BY Zenon, <2>1 DEF StepsFit, StepFits, SameOperation
    <2>3. QED BY Zenon, <1>2, <2>1, <2>2
  <1>5. ASSUME NEW t \in Tasks, Execute(t) PROVE StepsFit'
    <2>1. PICK s : /\ Becomes(t, s) /\ SameOperation(task[t], s) /\ s.pc = "run"
                   /\ s.at = task[t].at + 1 /\ Running(t)
      BY Zenon, <1>5, ExecuteOutcome
    <2>2. s.op = task[t].op /\ task[t].op \in Ops /\ task[t].at \in 1..3
      BY Zenon, <2>1, TaskTypes DEF SameOperation
    <2>3. s.at =< Len(Statements[s.op]) + 1
      BY <2>1, <2>2, Lengths DEF Running
    <2>4. StepFits(s)
      BY Zenon, <2>1, <2>3 DEF StepFits
    <2>5. QED BY Zenon, <1>2, <2>1, <2>4
  <1>6. ASSUME NEW t \in Tasks, DropLater(t) PROVE StepsFit'
    <2>1. PICK s : /\ Becomes(t, s) /\ SameOperation(task[t], s) /\ s.pc = "completing"
                   /\ s.at = task[t].at
      BY Zenon, <1>6, DropOutcome
    <2>2. StepFits(s)
      BY Zenon, <1>6, <2>1 DEF StepsFit, StepFits, SameOperation, DropLater
    <2>3. QED BY Zenon, <1>2, <2>1, <2>2
  <1>7. StepFits(Idle)
    BY IdleTypes, Lengths, OpsAre DEF StepFits
  <1>8. ASSUME NEW t \in Tasks, Ends(t) PROVE StepsFit'
    BY Zenon, <1>2, <1>7, <1>8, EndOutcome
  <1>9. CASE Crash
    BY Zenon, <1>1, <1>7, <1>9 DEF Crash, StepsFit
  <1>10. CASE UNCHANGED vars
    BY Zenon, <1>1, <1>10 DEF StepsFit, vars
  <1>11. QED
    BY Zenon, <1>3, <1>4, <1>5, <1>6, <1>8, <1>9, <1>10, Endings DEF Next, Proceed

\* At most one writer is active.
LEMMA Alone ==
    ASSUME TypeOK, WriterHoldsLock, InOrder, NEW s \in Tasks, NEW t \in Tasks,
           Writing(s), Writing(t)
    PROVE  s = t
  <1>1. CASE driver = "sqlite"
    BY Zenon, <1>1 DEF WriterHoldsLock
  <1>2. CASE driver = "idb"
    <2>1. task[s].pc # "idle" /\ task[t].pc # "idle" /\ Active(s) /\ Active(t)
      BY Zenon DEF Writing, Active
    <2>2. task[s].born \in Nat /\ task[t].born \in Nat
      BY TaskTypes DEF TypeOK
    <2>3. ~(task[s].born < task[t].born) /\ ~(task[t].born < task[s].born)
      BY Zenon, <1>2, <2>1 DEF InOrder, Writing
    <2>4. QED BY <2>1, <2>2, <2>3 DEF InOrder
  <1>3. QED BY Zenon, <1>1, <1>2 DEF TypeOK

\* t goes on as s, with the same transaction, and is active only if it was.
GoesOn(t, s) ==
    /\ Becomes(t, s) /\ SameOperation(task[t], s)
    /\ task[t].pc # "idle" /\ s.pc # "idle"
    /\ s.pc \in {"run", "completing"} => Active(t)
    /\ UNCHANGED <<driver, db, lock, serial, applied, failed, ops, faults>>

\* The steps in the middle of a transaction.
LEMMA MiddleSteps ==
    ASSUME TypeOK, NEW t \in Tasks, Acquire(t) \/ Execute(t) \/ DropLater(t)
    PROVE  \E s \in TaskRecords : GoesOn(t, s)
  <1>1. CASE Acquire(t)
    BY Zenon, <1>1, AcquireOutcome DEF GoesOn
  <1>2. CASE Execute(t)
    <2>1. PICK s \in TaskRecords :
             /\ Becomes(t, s) /\ Running(t) /\ SameOperation(task[t], s) /\ s.pc = "run"
             /\ UNCHANGED <<driver, db, lock, serial, acked, applied, failed, ops, faults>>
      BY Zenon, <1>2, ExecuteOutcome
    <2>2. QED BY Zenon, <2>1 DEF GoesOn, Running, Active
  <1>3. CASE DropLater(t)
    <2>1. PICK s \in TaskRecords :
             Becomes(t, s) /\ SameOperation(task[t], s) /\ s.pc = "completing"
      BY Zenon, <1>3, DropOutcome
    <2>2. QED BY Zenon, <1>3, <2>1 DEF GoesOn, DropLater, Active
  <1>4. QED BY Zenon, <1>1, <1>2, <1>3

\* Whoever writes with SQLite holds its lock.
LEMMA LockStep ==
    ASSUME TypeOK, StepsFit, WriterHoldsLock, [Next]_vars
    PROVE  WriterHoldsLock'
  <1> SUFFICES ASSUME driver' = "sqlite", NEW u \in Tasks, Writing(u)'
               PROVE  lock' = u
    BY Zenon DEF WriterHoldsLock
  <1>0. driver' = driver
    BY Zenon, Endings DEF Next, Proceed, Start, Acquire, Begin, Execute, Ends, DropLater, Crash, vars
  <1>1. ASSUME task'[u] = task[u] PROVE lock = u
    BY Zenon, <1>0, <1>1 DEF WriterHoldsLock, Writing, Active
  <1>2. ASSUME NEW t \in Tasks, NEW op \in Ops, Start(t, op) PROVE lock' = u
    <2>1. PICK s : Becomes(t, s) /\ s.pc \in {"pool", "begin"} /\ lock' = lock
      BY Zenon, <1>2, StartOutcome
    <2>2. u # t
      BY <2>1, OneTask DEF TypeOK, Writing, Active
    <2>3. QED BY Zenon, <1>1, <2>1, <2>2, OneTask DEF TypeOK
  <1>3. ASSUME NEW t \in Tasks, Begin(t) PROVE lock' = u
    <2>1. PICK s : /\ Becomes(t, s) /\ SameOperation(task[t], s)
                   /\ lock' = IF Writes(task[t].op) /\ driver = "sqlite" THEN t ELSE lock
      BY Zenon, <1>3, BeginOutcome
    <2>2. CASE u = t
      <3>1. Writes(task[t].op)
        BY Zenon, <2>1, <2>2, OneTask DEF TypeOK, Writing, SameOperation
      <3>2. QED BY Zenon, <1>0, <2>1, <2>2, <3>1
    <2>3. CASE u # t
      <3>1. lock = u
        BY Zenon, <1>1, <2>1, <2>3, OneTask DEF TypeOK
      <3>2. ~Writes(task[t].op)
        BY Zenon, <1>0, <1>3, <3>1, NobodyIsNoTask DEF Begin, MayBegin
      <3>3. QED BY Zenon, <2>1, <3>1, <3>2
    <2>4. QED BY Zenon, <2>2, <2>3
  <1>4. ASSUME NEW t \in Tasks, Acquire(t) \/ Execute(t) \/ DropLater(t) PROVE lock' = u
    <2>1. PICK s : GoesOn(t, s)
      BY Zenon, <1>4, MiddleSteps
    <2>2. Writing(u)
      <3>1. CASE u = t
        BY Zenon, <2>1, <3>1, OneTask DEF GoesOn, TypeOK, Writing, Active, SameOperation
      <3>2. CASE u # t
        BY Zenon, <2>1, <3>2, OneTask DEF GoesOn, TypeOK, Writing, Active
      <3>3. QED BY Zenon, <3>1, <3>2
    <2>3. QED BY Zenon, <1>0, <2>1, <2>2 DEF GoesOn, WriterHoldsLock
  <1>5. ASSUME NEW t \in Tasks, Ends(t) PROVE lock' = u
    <2>1. u # t
      BY Zenon, <1>5, EndOutcome, IdleTypes DEF Writing, Active
    <2>2. QED BY Zenon, <1>1, <1>5, <2>1, EndOutcome
  <1>6. CASE Crash
    BY Zenon, <1>6, IdleTypes DEF Crash, Writing, Active
  <1>7. CASE UNCHANGED vars
    BY Zenon, <1>1, <1>7 DEF vars
  <1>8. QED
    BY Zenon, <1>2, <1>3, <1>4, <1>5, <1>6, <1>7, Endings DEF Next, Proceed

\* Transactions stay in the order of their creation, and an active one overlaps with
\* no older one.
LEMMA OrderStep ==
    ASSUME TypeOK, StepsFit, InOrder, [Next]_vars
    PROVE  InOrder'
  <1>0. driver' = driver
    BY Zenon, Endings DEF Next, Proceed, Start, Acquire, Begin, Execute, Ends, DropLater, Crash, vars
  <1>a. \A u \in Tasks : task[u].born \in Nat /\ task[u].born =< ops /\ ops \in Nat
    BY TaskTypes DEF TypeOK
  <1>1. ASSUME NEW t \in Tasks, NEW op \in Ops, Start(t, op) PROVE InOrder'
    <2>1. PICK s : Becomes(t, s) /\ s.pc \in {"pool", "begin"} /\ s.born = ops + 1
      BY <1>1, StartOutcome
    <2>2. /\ task'[t].pc \in {"pool", "begin"} /\ task'[t].born = ops + 1
          /\ \A u \in Tasks : u # t => task'[u] = task[u]
      BY Zenon, <2>1, OneTask DEF TypeOK
    <2>3. ASSUME NEW u \in Tasks, NEW v \in Tasks, task'[u].pc # "idle",
                 task'[v].pc # "idle", task'[u].born = task'[v].born
          PROVE  u = v
      BY <1>a, <2>2, <2>3 DEF InOrder
    <2>4. ASSUME driver' = "idb", NEW u \in Tasks, NEW v \in Tasks, Active(u)',
                 task'[v].pc # "idle", task'[v].born < task'[u].born
          PROVE  ~Writes(task'[u].op) /\ ~Writes(task'[v].op)
      <3>1. u # t /\ Active(u)
        BY Zenon, <2>2, <2>4 DEF Active
      <3>2. v # t
        BY <1>a, <2>2, <2>4, <3>1
      <3>3. QED BY Zenon, <1>0, <2>2, <2>4, <3>1, <3>2 DEF InOrder
    <2>5. QED BY Zenon, <2>3, <2>4 DEF InOrder
  <1>2. ASSUME NEW t \in Tasks, NEW s, Becomes(t, s), SameOperation(task[t], s),
               task[t].pc # "idle",
               s.pc \in {"run", "completing"} /\ driver = "idb" /\ ~Active(t) => MayBegin(t)
        PROVE  InOrder'
    <2>1. /\ task'[t] = s
          /\ \A u \in Tasks : u # t => task'[u] = task[u]
      BY Zenon, <1>2, OneTask DEF TypeOK
    <2>2. \A u \in Tasks : /\ task'[u].op = task[u].op /\ task'[u].born = task[u].born
                           /\ task'[u].pc # "idle" => task[u].pc # "idle"
      BY Zenon, <1>2, <2>1 DEF SameOperation
    <2>3. ASSUME driver' = "idb", NEW u \in Tasks, NEW v \in Tasks, Active(u)',
                 task'[v].pc # "idle", task'[v].born < task'[u].born
          PROVE  ~Writes(task'[u].op) /\ ~Writes(task'[v].op)
      <3>1. task[v].pc # "idle" /\ task[v].born < task[u].born
        BY Zenon, <2>2, <2>3
      <3>2. CASE Active(u)
        BY Zenon, <1>0, <2>2, <2>3, <3>1, <3>2 DEF InOrder
      <3>3. CASE ~Active(u)
        <4>1. u = t /\ s.pc \in {"run", "completing"}
          BY Zenon, <2>1, <2>3, <3>3 DEF Active
        <4>2. MayBegin(t)
          BY Zenon, <1>0, <1>2, <2>3, <3>3, <4>1
        <4>3. QED BY Zenon, <1>0, <2>2, <2>3, <3>1, <4>1, <4>2 DEF MayBegin
      <3>4. QED BY Zenon, <3>2, <3>3
    <2>4. QED BY <2>2, <2>3 DEF InOrder
  <1>3. ASSUME NEW t \in Tasks, Begin(t) PROVE InOrder'
    <2>1. PICK s : Becomes(t, s) /\ SameOperation(task[t], s) /\ task[t].pc = "begin"
      BY Zenon, <1>3, BeginOutcome
    <2>2. QED BY Zenon, <1>2, <1>3, <2>1 DEF Begin
  <1>4. ASSUME NEW t \in Tasks, Acquire(t) \/ Execute(t) \/ DropLater(t) PROVE InOrder'
    <2>1. PICK s : GoesOn(t, s)
      BY Zenon, <1>4, MiddleSteps
    <2>2. QED BY Zenon, <1>2, <2>1 DEF GoesOn
  <1>5. ASSUME \A u \in Tasks : task'[u] = task[u] \/ task'[u].pc = "idle" PROVE InOrder'
    <2>1. \A u \in Tasks : task'[u].pc # "idle" => task'[u] = task[u]
      BY Zenon, <1>5
    <2>2. \A u \in Tasks : Active(u)' => task'[u] = task[u] /\ Active(u)
      BY Zenon, <2>1 DEF Active
    <2>3. QED BY <1>0, <2>1, <2>2 DEF InOrder
  <1>6. ASSUME NEW t \in Tasks, Ends(t) PROVE InOrder'
    BY Zenon, <1>5, <1>6, EndOutcome, IdleTypes
  <1>7. CASE Crash
    BY Zenon, <1>5, <1>7, IdleTypes DEF Crash
  <1>8. CASE UNCHANGED vars
    BY Zenon, <1>5, <1>8 DEF vars
  <1>9. QED
    BY Zenon, <1>1, <1>3, <1>4, <1>6, <1>7, <1>8, Endings DEF Next, Proceed

\* A writer that begins is the only one that is active.
LEMMA BeginsAlone ==
    ASSUME TypeOK, WriterHoldsLock, InOrder, NEW t \in Tasks, Begin(t), NEW u \in Tasks,
           Writing(u)
    PROVE  ~Writes(task[t].op)
  <1>1. CASE driver = "sqlite"
    BY Zenon, <1>1, NobodyIsNoTask DEF Begin, MayBegin, WriterHoldsLock
  <1>2. CASE driver = "idb"
    <2>1. task[t].pc = "begin" /\ task[u].pc # "idle" /\ Active(u) /\ u # t /\ MayBegin(t)
      BY Zenon DEF Begin, Writing, Active
    <2>2. task[u].born \in Nat /\ task[t].born \in Nat /\ task[u].born # task[t].born
      BY <2>1, TaskTypes DEF TypeOK, InOrder
    <2>3. CASE task[u].born < task[t].born
      BY Zenon, <1>2, <2>1, <2>3 DEF MayBegin
    <2>4. CASE task[t].born < task[u].born
      BY Zenon, <1>2, <2>1, <2>4 DEF InOrder
    <2>5. QED BY <2>2, <2>3, <2>4
  <1>3. QED BY Zenon, <1>1, <1>2 DEF TypeOK

-----------------------------------------------------------------------------
(* What a writer sees and leaves                                             *)

\* The view of a writer fits as long as nobody else changes the store.
LEMMA ViewStays ==
    ASSUME NEW u \in Tasks, NEW r, ViewFits(r), task'[u] = r,
           db' = db, failed \in BOOLEAN, failed => failed'
    PROVE  ViewFits(task[u])'
  BY Zenon DEF ViewFits

\* The views of the writers still fit after a step.
LEMMA ViewsStep ==
    ASSUME TypeOK, StepsFit, WriterHoldsLock, InOrder, ViewsFit, WrittenTogether, [Next]_vars
    PROVE  ViewsFit'
  <1>0. failed \in BOOLEAN /\ db \in Views /\ serial \in Nat
    BY Zenon DEF TypeOK
  <1> SUFFICES ASSUME NEW u \in Tasks, Writing(u)' PROVE ViewFits(task[u])'
    BY Zenon DEF ViewsFit
  <1>1. ASSUME task'[u] = task[u], db' = db, failed => failed' PROVE ViewFits(task[u])'
    <2>1. ViewFits(task[u])
      BY Zenon, <1>1 DEF ViewsFit, Writing, Active
    <2>2. PICK r : r = task[u] /\ ViewFits(r)
      BY Zenon, <2>1
    <2>3. QED BY Zenon, <1>0, <1>1, <2>2, ViewStays
  <1>2. ASSUME NEW t \in Tasks, NEW op \in Ops, Start(t, op) PROVE ViewFits(task[u])'
    <2>1. PICK s : Becomes(t, s) /\ s.pc \in {"pool", "begin"} /\ db' = db /\ failed' = failed
      BY Zenon, <1>2, StartOutcome
    <2>2. u # t
      BY <2>1, OneTask DEF TypeOK, Writing, Active
    <2>3. QED BY Zenon, <1>1, <2>1, <2>2, OneTask DEF TypeOK
  <1>3. ASSUME NEW t \in Tasks, Acquire(t) PROVE ViewFits(task[u])'
    <2>1. PICK s : Becomes(t, s) /\ s.pc = "begin" /\ db' = db /\ failed' = failed
      BY Zenon, <1>3, AcquireOutcome
    <2>2. u # t
      BY <2>1, OneTask DEF TypeOK, Writing, Active
    <2>3. QED BY Zenon, <1>1, <2>1, <2>2, OneTask DEF TypeOK
  <1>4. ASSUME NEW t \in Tasks, Begin(t) PROVE ViewFits(task[u])'
    <2>1. PICK s : /\ Becomes(t, s) /\ SameOperation(task[t], s) /\ db' = db /\ failed' = failed
                   /\ s.at = task[t].at /\ s.work = db /\ task[t].pc = "begin"
                   /\ s.id = IF Writes(task[t].op) THEN serial + 1 ELSE 0
      BY Zenon, <1>4, BeginOutcome
    <2>2. CASE u # t
      BY Zenon, <1>1, <2>1, <2>2, OneTask DEF TypeOK
    <2>3. CASE u = t
      <3>1. task'[u] = s
        BY Zenon, <2>1, <2>3, OneTask DEF TypeOK
      <3>2. Writes(s.op) /\ s.op = task[t].op
        BY Zenon, <2>1, <3>1 DEF Writing, SameOperation
      <3>3. s.id = serial + 1 /\ db.p.id \in Ids
        BY Zenon, <1>0, <2>1, <3>2, ViewTypes
      <3>4. db.p.id < s.id
        BY <1>0, <3>3 DEF Ids
      <3>5. s.at = 1
        BY Zenon, <2>1 DEF StepsFit, StepFits
      <3>6. ViewFits(s)
        BY <2>1, <3>4, <3>5 DEF ViewFits, WrittenTogether
      <3>7. QED BY Zenon, <1>0, <2>1, <3>1, <3>6, ViewStays
    <2>4. QED BY Zenon, <2>2, <2>3
  <1>5. ASSUME NEW t \in Tasks, Execute(t) PROVE ViewFits(task[u])'
    <2>1. PICK s : /\ Becomes(t, s) /\ Running(t) /\ SameOperation(task[t], s)
                   /\ db' = db /\ failed' = failed
                   /\ Writes(task[t].op) /\ ViewFits(task[t]) => ViewFits(s)
      BY Zenon, <1>5, ExecuteOutcome
    <2>2. CASE u # t
      BY Zenon, <1>1, <2>1, <2>2, OneTask DEF TypeOK
    <2>3. CASE u = t
      <3>1. task'[u] = s
        BY Zenon, <2>1, <2>3, OneTask DEF TypeOK
      <3>2. Writes(task[t].op)
        BY Zenon, <2>1, <3>1 DEF Writing, SameOperation
      <3>3. ViewFits(task[t])
        BY Zenon, <2>1, <3>2 DEF ViewsFit, Writing, Active, Running
      <3>4. QED BY Zenon, <1>0, <2>1, <3>1, <3>2, <3>3, ViewStays
    <2>4. QED BY <2>2, <2>3
  <1>6. ASSUME NEW t \in Tasks, DropLater(t) PROVE ViewFits(task[u])'
    <2>1. PICK s : /\ Becomes(t, s) /\ SameOperation(task[t], s)
                   /\ s.at = task[t].at /\ s.id = task[t].id
                   /\ s.work = task[t].work /\ s.n = task[t].n
      BY Zenon, <1>6, DropOutcome
    <2>2. db' = db /\ failed' = failed
      BY Zenon, <1>6 DEF DropLater
    <2>3. CASE u # t
      BY Zenon, <1>1, <2>1, <2>2, <2>3, OneTask DEF TypeOK
    <2>4. CASE u = t
      <3>1. task'[u] = s
        BY Zenon, <2>1, <2>4, OneTask DEF TypeOK
      <3>2. ViewFits(task[t])
        BY Zenon, <1>6 DEF ViewsFit, Writing, Active, DropLater, SingleWrite, Writes
      <3>3. ViewFits(s)
        BY Zenon, <2>1, <3>2 DEF ViewFits, SameOperation
      <3>4. QED BY Zenon, <1>0, <2>2, <3>1, <3>3, ViewStays
    <2>5. QED BY <2>3, <2>4
  <1>7. ASSUME NEW t \in Tasks, Ends(t) PROVE ViewFits(task[u])'
    <2>1. u # t /\ task'[u] = task[u]
      BY Zenon, <1>7, EndOutcome, IdleTypes DEF Writing, Active
    <2>2. Writing(u)
      BY Zenon, <2>1 DEF Writing, Active
    <2>3. ~Writing(t)
      BY Zenon, <2>1, <2>2, Alone
    <2>4. db' = db
      BY Zenon, <1>7, <2>3, EndOutcome
    <2>5. QED BY Zenon, <1>1, <1>7, <2>1, <2>4 DEF Ends
  <1>8. CASE Crash
    BY Zenon, <1>8, IdleTypes DEF Crash, Writing, Active
  <1>9. CASE UNCHANGED vars
    BY Zenon, <1>1, <1>9 DEF vars
  <1>10. QED
    BY Zenon, <1>2, <1>3, <1>4, <1>5, <1>6, <1>7, <1>8, <1>9, Endings DEF Next, Proceed

\* Only the end of a transaction changes what is committed.
LEMMA CommittedFrame ==
    ASSUME TypeOK, StepsFit, [Next]_vars, \A t \in Tasks : ~Ends(t)
    PROVE  UNCHANGED <<db, applied, failed>>
  BY Zenon, Endings DEF Next, Proceed, Start, Acquire, Begin, Execute, DropLater, Crash, vars

\* No update is lost: the one that commits has read what is there.
LEMMA UpdateStep ==
    ASSUME TypeOK, StepsFit, ViewsFit, NoLostUpdate, [Next]_vars
    PROVE  NoLostUpdate'
  <1>1. ASSUME NEW t \in Tasks, Ends(t) PROVE NoLostUpdate'
    <2>1. CASE db' = db /\ applied' = applied
      BY Zenon, <2>1 DEF NoLostUpdate
    <2>2. CASE /\ Writing(t) /\ db' = task[t].work
               /\ applied' = IF task[t].op = "update" /\ task[t].at > 2 THEN applied + 1
                             ELSE applied
      BY Zenon, <2>2 DEF NoLostUpdate, ViewsFit, ViewFits
    <2>3. QED BY Zenon, <1>1, <2>1, <2>2, EndOutcome
  <1>2. CASE \A t \in Tasks : ~Ends(t)
    BY Zenon, <1>2, CommittedFrame DEF NoLostUpdate
  <1>3. QED BY Zenon, <1>1, <1>2

\* What is written together is committed together.
LEMMA TogetherStep ==
    ASSUME TypeOK, StepsFit, ViewsFit, WrittenTogether, [Next]_vars
    PROVE  WrittenTogether'
  <1>0. failed \in BOOLEAN
    BY Zenon DEF TypeOK
  <1>1. ASSUME NEW t \in Tasks, Ends(t) PROVE WrittenTogether'
    <2>0. failed' \in BOOLEAN /\ (failed => failed')
      BY Zenon, <1>1 DEF Ends
    <2> SUFFICES ASSUME ~failed' PROVE db'.a = db'.b
      BY Zenon, <2>0 DEF WrittenTogether
    <2>1. ~failed
      BY Zenon, <1>0, <2>0
    <2>2. CASE db' = db
      BY Zenon, <2>1, <2>2 DEF WrittenTogether
    <2>3. CASE Writing(t) /\ Apply(t) /\ (task[t].op # "append" \/ task[t].at # 2)
      BY Zenon, <2>1, <2>3 DEF ViewsFit, ViewFits, Apply
    <2>4. QED BY Zenon, <1>1, <2>2, <2>3 DEF Ends, Discard
  <1>2. CASE \A t \in Tasks : ~Ends(t)
    BY <1>2, CommittedFrame DEF WrittenTogether
  <1>3. QED BY <1>1, <1>2

-----------------------------------------------------------------------------
(* What was reported as done                                                 *)

\* The number of the last single write grows.
LEMMA NumberGrows ==
    ASSUME TypeOK, ViewsFit, NEW t \in Tasks, Ends(t)
    PROVE  /\ db.p.id \in Nat /\ db'.p.id \in Nat /\ db.p.id =< db'.p.id
           /\ db'.p.id # db.p.id => Writing(t) /\ db' = task[t].work
  <1>1. db.p.id \in Nat /\ task[t].work.p.id \in Nat /\ task[t].id \in Nat
    BY TaskTypes, ViewTypes DEF TypeOK, Ids
  <1>2. CASE db' = db
    BY <1>1, <1>2
  <1>3. CASE Writing(t) /\ db' = task[t].work
    <2>1. ViewFits(task[t])
      BY Zenon, <1>3 DEF ViewsFit
    <2>2. QED BY <1>1, <1>3, <2>1 DEF ViewFits
  <1>4. QED BY Zenon, <1>2, <1>3, EndOutcome

\* What is settled stays settled: a transaction that was completing has completed, or
\* still is.
LEMMA StaysSettled ==
    ASSUME TypeOK, StepsFit, WriterHoldsLock, InOrder, ViewsFit, [Next]_vars, ~Crash,
           NEW i \in Nat, NEW born, Settled(i, born)
    PROVE  Settled(i, born)'
  <1>1. ASSUME NEW t \in Tasks, NEW s, Becomes(t, s), task[t].pc # "completing", db' = db
        PROVE  Settled(i, born)'
    <2>1. \A u \in Tasks : task[u].pc = "completing" => task'[u] = task[u]
      BY Zenon, <1>1, OneTask DEF TypeOK
    <2>2. QED BY Zenon, <1>1, <2>1 DEF Settled
  <1>2. ASSUME NEW t \in Tasks, NEW op \in Ops, Start(t, op) PROVE Settled(i, born)'
    BY <1>1, <1>2, StartOutcome
  <1>3. ASSUME NEW t \in Tasks, Acquire(t) PROVE Settled(i, born)'
    BY Zenon, <1>1, <1>3, AcquireOutcome
  <1>4. ASSUME NEW t \in Tasks, Begin(t) PROVE Settled(i, born)'
    BY Zenon, <1>1, <1>4, BeginOutcome
  <1>5. ASSUME NEW t \in Tasks, Execute(t) PROVE Settled(i, born)'
    BY Zenon, <1>1, <1>5, ExecuteOutcome DEF Running
  <1>6. ASSUME NEW t \in Tasks, DropLater(t) PROVE Settled(i, born)'
    BY Zenon, <1>1, <1>6, DropOutcome DEF DropLater
  <1>7. ASSUME NEW t \in Tasks, Ends(t) PROVE Settled(i, born)'
    <2>0. db.p.id \in Nat /\ db'.p.id \in Nat /\ db.p.id =< db'.p.id
      BY Zenon, <1>7, NumberGrows
    <2>1. CASE i =< db.p.id
      BY <2>0, <2>1 DEF Settled
    <2>2. ASSUME NEW w \in Tasks, task[w].pc = "completing", task[w].born < born,
                 i =< task[w].work.p.id
          PROVE  Settled(i, born)'
      <3>1. CASE w = t
        <4>1. db' = task[w].work
          BY Zenon, <1>7, <2>2, <3>1 DEF Ends, Apply
        <4>2. QED BY Zenon, <2>2, <4>1 DEF Settled
      <3>2. CASE w # t
        <4>1. task'[w] = task[w]
          BY Zenon, <1>7, <3>2, EndOutcome
        <4>2. QED BY Zenon, <2>2, <4>1 DEF Settled
      <3>3. QED BY Zenon, <3>1, <3>2
    <2>3. QED BY Zenon, <2>1, <2>2 DEF Settled
  <1>8. CASE UNCHANGED vars
    BY Zenon, <1>8 DEF vars, Settled
  <1>9. QED
    BY Zenon, <1>2, <1>3, <1>4, <1>5, <1>6, <1>7, <1>8, Endings DEF Next, Proceed

\* A later birth leaves more time to settle.
LEMMA SettledLater ==
    ASSUME TypeOK, NEW i, Settled(i, ops + 1), NEW n \in Nat, ops < n
    PROVE  Settled(i, n)
  <1>1. \A w \in Tasks : task[w].born \in Nat /\ task[w].born =< ops /\ ops \in Nat
    BY TaskTypes DEF TypeOK
  <1>2. QED BY <1>1 DEF Settled

\* A transaction keeps what it was born with; a new one starts from what is done by now.
LEMMA FloorsKept ==
    ASSUME TypeOK, StepsFit, [Next]_vars, ~Crash, NEW u \in Tasks, task'[u].pc # "idle"
    PROVE  \/ /\ task[u].pc # "idle"
              /\ task'[u].floor = task[u].floor /\ task'[u].born = task[u].born
           \/ task'[u].floor = acked /\ task'[u].born = ops + 1
  <1>1. ASSUME NEW t \in Tasks, NEW s, Becomes(t, s), task[t].pc # "idle",
               SameOperation(task[t], s)
        PROVE  /\ task[u].pc # "idle"
               /\ task'[u].floor = task[u].floor /\ task'[u].born = task[u].born
    BY <1>1, OneTask DEF TypeOK, SameOperation
  <1>2. ASSUME NEW t \in Tasks, NEW op \in Ops, Start(t, op), u # t
        PROVE  task'[u] = task[u]
    BY <1>2, StartOutcome, OneTask DEF TypeOK
  <1>3. ASSUME NEW op \in Ops, Start(u, op)
        PROVE  task'[u].floor = acked /\ task'[u].born = ops + 1
    BY <1>3, StartOutcome, OneTask DEF TypeOK
  <1>4. ASSUME NEW t \in Tasks, Begin(t)
        PROVE  /\ task[u].pc # "idle"
               /\ task'[u].floor = task[u].floor /\ task'[u].born = task[u].born
    <2>1. PICK s : Becomes(t, s) /\ task[t].pc = "begin" /\ SameOperation(task[t], s)
      BY Zenon, <1>4, BeginOutcome
    <2>2. QED BY Zenon, <1>1, <2>1
  <1>5. ASSUME NEW t \in Tasks, Acquire(t) \/ Execute(t) \/ DropLater(t)
        PROVE  /\ task[u].pc # "idle"
               /\ task'[u].floor = task[u].floor /\ task'[u].born = task[u].born
    <2>1. PICK s : GoesOn(t, s)
      BY Zenon, <1>5, MiddleSteps
    <2>2. QED BY Zenon, <1>1, <2>1 DEF GoesOn
  <1>6. ASSUME NEW t \in Tasks, Ends(t) PROVE task'[u] = task[u]
    BY Zenon, <1>6, EndOutcome, IdleTypes
  <1>7. CASE UNCHANGED vars
    BY Zenon, <1>7 DEF vars
  <1>8. QED
    BY Zenon, <1>2, <1>3, <1>4, <1>5, <1>6, <1>7, Endings DEF Next, Proceed

\* The number of the operation that starts next.
LEMMA NextNumber ==
    \A m \in Nat : \A n : n \in {m, m + 1} => n + 1 \in Nat /\ m < n + 1
  OBVIOUS

\* When a write is reported as done it is committed, or about to complete.
LEMMA AckedStep ==
    ASSUME TypeOK, StepsFit, WriterHoldsLock, InOrder, ViewsFit, [Next]_vars, ~Crash,
           ~failed', Settled(acked, ops + 1)
    PROVE  Settled(acked, ops + 1)'
  <1>0. ops \in Nat /\ acked \in Nat
    BY DEF TypeOK, Ids
  <1>1. ASSUME acked' = acked, ops' \in {ops, ops + 1} PROVE Settled(acked, ops + 1)'
    <2>0. ops' + 1 \in Nat /\ ops < ops' + 1
      BY Zenon, <1>0, <1>1, NextNumber
    <2>1. PICK i \in Nat : i = acked
      BY Zenon, <1>0
    <2>2. PICK n \in Nat : n = ops' + 1
      BY Zenon, <2>0
    <2>3. Settled(i, n)
      <3>1. Settled(i, ops + 1)
        BY Zenon, <2>1
      <3>2. ops < n
        BY Zenon, <2>0, <2>2
      <3>3. QED BY Zenon, <3>1, <3>2, SettledLater
    <2>4. Settled(i, n)'
      BY Zenon, <2>3, StaysSettled
    <2>5. QED BY Zenon, <1>1, <2>1, <2>2, <2>4 DEF Settled
  <1>2. ASSUME NEW t \in Tasks, SingleWrite(task[t].op), task[t].at = 2, task[t].pc = "run"
        PROVE  Writing(t) /\ task[t].work.p.id = task[t].id /\ task[t].id \in Nat
    <2>1. Writing(t)
      BY Zenon, <1>2 DEF Writing, Active, SingleWrite, Writes
    <2>2. ViewFits(task[t])
      BY Zenon, <2>1 DEF ViewsFit
    <2>3. task[t].id \in Nat
      BY TaskTypes DEF TypeOK, Ids
    <2>4. QED BY <1>2, <2>1, <2>2, <2>3 DEF ViewFits
  <1>3. ASSUME NEW t \in Tasks, DropLater(t) PROVE Settled(acked, ops + 1)'
    <2>1. PICK s : /\ Becomes(t, s) /\ SameOperation(task[t], s)
                   /\ s.pc = "completing" /\ s.work = task[t].work
      BY Zenon, <1>3, DropOutcome
    <2>2. task'[t] = s
      BY Zenon, <2>1, OneTask DEF TypeOK
    <2>3. task[t].work.p.id = task[t].id /\ task[t].id \in Nat /\ acked' = task[t].id
      BY Zenon, <1>2, <1>3 DEF DropLater
    <2>4. task[t].born \in Nat /\ task[t].born < ops + 1 /\ ops' = ops
      BY <1>3, TaskTypes DEF DropLater, TypeOK
    <2>5. QED BY <2>1, <2>2, <2>3, <2>4 DEF Settled, SameOperation
  <1>4. ASSUME NEW t \in Tasks, Ends(t) PROVE Settled(acked, ops + 1)'
    <2>1. CASE acked' = acked
      BY Zenon, <1>1, <1>4, <2>1 DEF Ends
    <2>2. CASE acked' # acked
      <3>1. /\ SingleWrite(task[t].op) /\ task[t].at = 2 /\ task[t].pc = "run"
            /\ acked' = task[t].id /\ db' = task[t].work
        BY Zenon, <1>4, <2>2 DEF Ends, Apply
      <3>2. acked' =< db'.p.id
        BY <1>2, <3>1
      <3>3. QED BY Zenon, <3>2 DEF Settled
    <2>3. QED BY Zenon, <2>1, <2>2
  <1>5. ASSUME \A t \in Tasks : ~Ends(t) /\ ~DropLater(t)
        PROVE  acked' = acked /\ ops' \in {ops, ops + 1}
    BY Zenon, <1>5, Endings DEF Next, Proceed, Start, Acquire, Begin, Execute, vars
  <1>6. QED BY Zenon, <1>1, <1>3, <1>4, <1>5

\* A failure leaves its mark.
LEMMA FailedStays ==
    ASSUME TypeOK, StepsFit, [Next]_vars, ~failed'
    PROVE  ~failed
  <1>1. ASSUME NEW t \in Tasks, Ends(t) PROVE ~failed
    BY Zenon, <1>1 DEF Ends, TypeOK
  <1>2. CASE \A t \in Tasks : ~Ends(t)
    BY Zenon, <1>2, CommittedFrame
  <1>3. QED BY Zenon, <1>1, <1>2

\* What was done before an operation started is settled for it.
LEMMA SettledStep ==
    ASSUME TypeOK, StepsFit, WriterHoldsLock, InOrder, ViewsFit, DoneIsSettled, [Next]_vars
    PROVE  DoneIsSettled'
  <1> SUFFICES ASSUME ~failed'
               PROVE  /\ Settled(acked, ops + 1)'
                      /\ \A u \in Tasks : task'[u].pc # "idle"
                           => Settled(task[u].floor, task[u].born)'
    BY Zenon DEF DoneIsSettled
  <1>0. /\ Settled(acked, ops + 1) /\ ops \in Nat /\ acked \in Nat
        /\ \A t \in Tasks : task[t].pc # "idle" => Settled(task[t].floor, task[t].born)
    BY FailedStays DEF DoneIsSettled, TypeOK, Ids
  <1>1. CASE Crash
    <2>1. acked' = db'.p.id /\ \A u \in Tasks : task'[u].pc = "idle"
      BY Zenon, <1>1, IdleTypes DEF Crash
    <2>2. db'.p.id \in Nat
      BY <1>1, ViewTypes DEF Crash, TypeOK, Ids
    <2>3. QED BY <2>1, <2>2 DEF Settled
  <1>2. CASE ~Crash
    <2>1. Settled(acked, ops + 1)'
      BY Zenon, <1>0, <1>2, AckedStep
    <2>2. ASSUME NEW u \in Tasks, task'[u].pc # "idle"
          PROVE  Settled(task[u].floor, task[u].born)'
      <3>1. task[u].floor \in Nat
        BY TaskTypes DEF TypeOK, Ids
      <3>2. PICK i, n : /\ i \in Nat /\ i = task'[u].floor
                        /\ n = task'[u].born /\ Settled(i, n)
        BY Zenon, <1>0, <1>2, <2>2, <3>1, FloorsKept
      <3>3. Settled(i, n)'
        BY Zenon, <1>2, <3>2, StaysSettled
      <3>4. QED BY Zenon, <3>2, <3>3 DEF Settled
    <2>3. QED BY Zenon, <2>1, <2>2
  <1>3. QED BY Zenon, <1>1, <1>2

\* A read sees what was done before it started: no older writer is left when it runs.
LEMMA ReadStep ==
    ASSUME TypeOK, StepsFit, InOrder, DoneIsSettled, ReadsSeeWhatWasDone, [Next]_vars
    PROVE  ReadsSeeWhatWasDone'
  <1> SUFFICES ASSUME NEW u \in Tasks, Done(u)', task'[u].op = "read", ~failed'
               PROVE  task'[u].seen.id >= task'[u].floor
    BY Zenon DEF ReadsSeeWhatWasDone
  <1>0. ~failed
    BY Zenon, FailedStays
  <1>a. task'[u].pc = "run" /\ task'[u].at > 1
    BY Zenon, Lengths, OpsAre DEF Done
  <1>1. ASSUME task'[u] = task[u] PROVE task'[u].seen.id >= task'[u].floor
    BY Zenon, <1>0, <1>1 DEF ReadsSeeWhatWasDone, Done
  <1>2. ASSUME NEW t \in Tasks, NEW s, Becomes(t, s), s.pc # "run" \/ s.at = 1
        PROVE  task'[u].seen.id >= task'[u].floor
    BY <1>1, <1>2, <1>a, OneTask DEF TypeOK
  <1>3. ASSUME NEW t \in Tasks, NEW op \in Ops, Start(t, op)
        PROVE  task'[u].seen.id >= task'[u].floor
    <2>1. PICK s : Becomes(t, s) /\ s.at = 1
      BY <1>3, StartOutcome
    <2>2. QED BY Zenon, <1>2, <2>1
  <1>4. ASSUME NEW t \in Tasks, Acquire(t) PROVE task'[u].seen.id >= task'[u].floor
    <2>1. PICK s : Becomes(t, s) /\ s.pc = "begin"
      BY Zenon, <1>4, AcquireOutcome
    <2>2. QED BY Zenon, <1>2, <2>1
  <1>5. ASSUME NEW t \in Tasks, Begin(t) PROVE task'[u].seen.id >= task'[u].floor
    <2>1. PICK s : Becomes(t, s) /\ task[t].pc = "begin" /\ s.at = task[t].at
      BY Zenon, <1>5, BeginOutcome
    <2>2. s.at = 1
      BY Zenon, <2>1 DEF StepsFit, StepFits
    <2>3. QED BY Zenon, <1>2, <2>1, <2>2
  <1>6. ASSUME NEW t \in Tasks, DropLater(t) PROVE task'[u].seen.id >= task'[u].floor
    <2>1. PICK s : Becomes(t, s) /\ s.pc = "completing"
      BY Zenon, <1>6, DropOutcome
    <2>2. QED BY Zenon, <1>2, <2>1
  <1>7. ASSUME NEW t \in Tasks, Ends(t) PROVE task'[u].seen.id >= task'[u].floor
    BY Zenon, <1>2, <1>7, EndOutcome, IdleTypes
  <1>8. ASSUME NEW t \in Tasks, Execute(t) PROVE task'[u].seen.id >= task'[u].floor
    <2>1. PICK s : /\ Becomes(t, s) /\ Running(t) /\ SameOperation(task[t], s)
                   /\ task[t].op = "read" => s.seen = db.p
      BY Zenon, <1>8, ExecuteOutcome
    <2>2. CASE u # t
      BY Zenon, <1>1, <2>1, <2>2, OneTask DEF TypeOK
    <2>3. CASE u = t
      <3>1. task'[t] = s /\ task[t].op = "read" /\ s.seen = db.p /\ s.floor = task[t].floor
        BY Zenon, <2>1, <2>3, OneTask DEF TypeOK, SameOperation
      <3>2. task[t].pc = "run" /\ Active(t)
        BY Zenon, <2>1 DEF Running, Active
      <3>3. Settled(task[t].floor, task[t].born)
        BY Zenon, <1>0, <3>2 DEF DoneIsSettled
      <3>4. ASSUME NEW w \in Tasks, task[w].pc = "completing", task[w].born < task[t].born
            PROVE  FALSE
        <4>1. driver = "idb" /\ Writes(task[w].op)
          BY Zenon, <3>4 DEF StepsFit, StepFits, SingleWrite, Writes
        <4>2. QED BY Zenon, <3>2, <3>4, <4>1 DEF InOrder
      <3>5. task[t].floor =< db.p.id
        BY Zenon, <3>3, <3>4 DEF Settled
      <3>6. task[t].floor \in Nat /\ db.p.id \in Nat
        BY TaskTypes, ViewTypes DEF TypeOK, Ids
      <3>7. QED BY Zenon, <2>3, <3>1, <3>5, <3>6
    <2>4. QED BY Zenon, <2>2, <2>3
  <1>9. CASE Crash
    BY Zenon, <1>9, <1>a, IdleTypes DEF Crash
  <1>10. CASE UNCHANGED vars
    BY Zenon, <1>1, <1>10 DEF vars
  <1>11. QED
    BY Zenon, <1>3, <1>4, <1>5, <1>6, <1>7, <1>8, <1>9, <1>10, Endings DEF Next, Proceed

-----------------------------------------------------------------------------
(* The theorems                                                              *)

\* The store starts empty, and nobody uses it.
LEMMA InitInv == Init => Inv
  <1> SUFFICES ASSUME Init PROVE Inv
    OBVIOUS
  <1>1. TypeOK
    <2>1. serial = 0 /\ ops = 0 /\ 0 \in Ids /\ 0 \in 0..ops
      BY DEF Init, Ids
    <2>2. Absent \in Points
      BY Zenon, <2>1 DEF Absent, Points
    <2>3. Empty \in Views
      BY Zenon, <2>1, <2>2 DEF Empty, Views
    <2>4. Idle \in TaskRecords
      BY <2>1, <2>2, <2>3, OpsAre DEF Idle, TaskRecords
    <2>5. task \in [Tasks -> TaskRecords] /\ db \in Views
      BY Zenon, <2>3, <2>4 DEF Init
    <2>6. /\ lock \in Tasks \cup {"none"} /\ driver \in {"sqlite", "idb"}
          /\ serial \in Nat /\ acked \in Ids /\ applied \in Nat /\ ops \in 0..MaxOps
          /\ faults \in 0..MaxFaults
      BY <2>1, BoundsAreNumbers DEF Init
    <2>7. failed \in BOOLEAN
      BY Zenon DEF Init
    <2>8. QED BY Zenon, <2>5, <2>6, <2>7 DEF TypeOK
  <1>2. \A t \in Tasks : task[t] = Idle /\ task[t].pc = "idle"
    BY Zenon, IdleTypes, <1>1 DEF Init
  <1>3. \A t \in Tasks : ~Active(t) /\ ~Writing(t) /\ ~Done(t)
    BY Zenon, <1>2 DEF Active, Writing, Done
  <1>4. StepsFit
    BY <1>1, <1>2, IdleTypes, Lengths, OpsAre DEF StepsFit, StepFits
  <1>5. WriterHoldsLock /\ InOrder /\ ViewsFit /\ ReadsSeeWhatWasDone
    BY Zenon, <1>2, <1>3 DEF WriterHoldsLock, InOrder, ViewsFit, ReadsSeeWhatWasDone
  <1>6. NoLostUpdate /\ WrittenTogether
    BY Zenon DEF Init, Empty, NoLostUpdate, WrittenTogether
  <1>7. DoneIsSettled
    BY <1>2 DEF Init, Empty, Absent, DoneIsSettled, Settled
  <1>8. QED BY Zenon, <1>1, <1>4, <1>5, <1>6, <1>7 DEF Inv

\* The inductive invariant of the store, for both drivers.
THEOREM Invariance == Spec => []Inv
  <1>1. Inv /\ [Next]_vars => Inv'
    BY Zenon, TypeStep, StepsFitStep, LockStep, OrderStep, ViewsStep, SettledStep, UpdateStep,
       TogetherStep, ReadStep DEF Inv
  <1>2. QED BY <1>1, InitInv, PTL DEF Spec

\* Every variable of the store keeps its type.
THEOREM TypeCorrect == Spec => []TypeOK
  <1>1. Inv => TypeOK
    BY Zenon DEF Inv
  <1>2. QED BY <1>1, Invariance, PTL

\* However many tasks read, modify and write the same record, with either driver, and
\* whatever statements and commits fail or processes end: no update that was committed
\* is lost to another one.
THEOREM NoLostUpdateHolds == Spec => []NoLostUpdate
  <1>1. Inv => NoLostUpdate
    BY Zenon DEF Inv
  <1>2. QED BY <1>1, Invariance, PTL

\* As long as no statement and no commit fails, what a transaction writes is committed as
\* a whole, also when the process ends.
THEOREM WrittenTogetherHolds == Spec => []WrittenTogether
  <1>1. Inv => WrittenTogether
    BY Zenon DEF Inv
  <1>2. QED BY <1>1, Invariance, PTL

\* A read that starts after a single write was reported as done sees that write or a later
\* one, although IndexedDB completes it later.
THEOREM ReadsSeeWhatWasDoneHolds == Spec => []ReadsSeeWhatWasDone
  <1>1. Inv => ReadsSeeWhatWasDone
    BY Zenon DEF Inv
  <1>2. QED BY <1>1, Invariance, PTL
=============================================================================
