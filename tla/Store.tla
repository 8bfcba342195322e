------------------------------- MODULE Store -------------------------------
(***************************************************************************)
(* Transactions of prose-store: what the repositories run against the      *)
(* database, with the SQLite driver (a pool of connections, BEGIN          *)
(* IMMEDIATE, a transaction that commits when it is dropped) and with the  *)
(* IndexedDB driver (transactions of overlapping scope run in the order of *)
(* their creation and complete by themselves).                             *)
(*                                                                         *)
(* Operations are the forms the repositories use: a read-modify-write      *)
(* ("update": upsert!, Entry::and_update, LocalRoomSettingsRepository),    *)
(* several writes and a commit ("append": CachingMessageRepository::append *)
(* and "clear": clear_cache), single writes without a commit (Store::set,  *)
(* put and delete), and a read (Store::get).                               *)
(***************************************************************************)
EXTENDS Naturals, FiniteSets, Sequences

CONSTANTS
    Tasks,      \* tasks that use the store
    PoolSize,   \* connections of the pool
    MaxOps,     \* operations started
    MaxFaults   \* failing statements and commits, and crashes

\* The free lock is held by no task.
ASSUME NobodyIsNoTask == "none" \notin Tasks

\* The bounds are numbers.
ASSUME BoundsAreNumbers == MaxOps \in Nat /\ MaxFaults \in Nat

VARIABLES
    driver,     \* "sqlite" or "idb"
    db,         \* what is committed
    task,       \* what each task runs
    lock,       \* who holds SQLite's write lock, or "none"
    serial,     \* write transactions begun so far
    acked,      \* serial number of the last single write reported as done
    applied,    \* read-modify-writes that took effect
    failed,     \* whether a statement or a commit has failed
    ops, faults

vars == <<driver, db, task, lock, serial, acked, applied, failed, ops, faults>>

\* db.n is a counter, db.a and db.b are written together, db.p on its own.
Absent == [id |-> 0, there |-> FALSE]

Empty == [n |-> 0, a |-> 0, b |-> 0, p |-> Absent]

\* The statements of an operation.
Statements ==
    [update |-> <<"get", "increment">>, append |-> <<"putA", "putB">>, clear |-> <<"deleteAll">>,
     set |-> <<"set">>, put |-> <<"put">>, delete |-> <<"delete">>, read |-> <<"getP">>]

Ops == DOMAIN Statements

Writes(op) == op # "read"

\* The operations that end with tx.commit().await.
Commits(op) == op \in {"update", "append", "clear"}

Idle == [op |-> "read", pc |-> "idle", at |-> 1, id |-> 0, born |-> 0, floor |-> 0,
         work |-> Empty, n |-> 0, seen |-> Absent]

---------------------------------------------------------------------------
\* The task is done: its connection goes back to the pool, its lock is free.
Finish(t) ==
    /\ task' = [task EXCEPT ![t] = Idle]
    /\ lock' = IF lock = t THEN "none" ELSE lock

\* The transaction's writes take effect.
Apply(t) ==
    /\ db' = task[t].work
    /\ applied' = IF task[t].op = "update" /\ task[t].at > 2 THEN applied + 1 ELSE applied

Discard == UNCHANGED <<db, applied>>

\* A repository asks for a transaction.  IndexedDB creates it at once, SQLite
\* first waits for a connection of the pool.
Start(t, op) ==
    /\ task[t].pc = "idle"
    /\ ops < MaxOps
    /\ ops' = ops + 1
    /\ task' = [task EXCEPT ![t] = [Idle EXCEPT !.op = op, !.born = ops + 1, !.floor = acked,
                                                !.pc = IF driver = "sqlite" THEN "pool" ELSE "begin"]]
    /\ UNCHANGED <<driver, db, lock, serial, acked, applied, failed, faults>>

\* pool.get().await
Acquire(t) ==
    /\ task[t].pc = "pool"
    /\ Cardinality({s \in Tasks : task[s].pc \notin {"idle", "pool"}}) < PoolSize
    /\ task' = [task EXCEPT ![t].pc = "begin"]
    /\ UNCHANGED <<driver, db, lock, serial, acked, applied, failed, ops, faults>>

\* A bug: the transaction begins without the write lock (BEGIN DEFERRED).
MayBeginDeferred(t) ==
    driver = "sqlite" \/ \A s \in Tasks : /\ task[s].pc # "idle"
                                          /\ task[s].born < task[t].born
                                          => ~Writes(task[s].op) /\ ~Writes(task[t].op)

\* Whether the transaction may begin: BEGIN IMMEDIATE takes the write lock and a
\* reader needs none; IndexedDB waits for the older transactions that overlap.
MayBegin(t) ==
    IF driver = "sqlite" THEN Writes(task[t].op) => lock = "none"
    ELSE \A s \in Tasks : /\ task[s].pc # "idle"
                          /\ task[s].born < task[t].born
                          => ~Writes(task[s].op) /\ ~Writes(task[t].op)

\* SqliteTransaction::new, IndexedDBTransaction::new.
Begin(t) ==
    /\ task[t].pc = "begin"
    /\ MayBegin(t)
    /\ lock' = IF Writes(task[t].op) /\ driver = "sqlite" THEN t ELSE lock
    /\ serial' = IF Writes(task[t].op) THEN serial + 1 ELSE serial
    /\ task' = [task EXCEPT ![t].pc = "run", ![t].work = db,
                            ![t].id = IF Writes(task[t].op) THEN serial + 1 ELSE 0]
    /\ UNCHANGED <<driver, db, acked, applied, failed, ops, faults>>

\* BEGIN IMMEDIATE gives up when the lock is not released in time.
Busy(t) ==
    /\ driver = "sqlite"
    /\ task[t].pc = "begin"
    /\ Writes(task[t].op)
    /\ lock # "none"
    /\ Finish(t)
    /\ UNCHANGED <<driver, db, serial, acked, applied, failed, ops, faults>>

---------------------------------------------------------------------------
\* What one statement does to the transaction's view.  SQLite's readers have no
\* transaction: a SELECT sees what is committed.
Effect(r, s) ==
    CASE s = "get"       -> [r EXCEPT !.n = r.work.n]
      [] s = "increment" -> [r EXCEPT !.work.n = r.n + 1]
      [] s = "putA"      -> [r EXCEPT !.work.a = r.id]
      [] s = "putB"      -> [r EXCEPT !.work.b = r.id]
      [] s = "deleteAll" -> [r EXCEPT !.work.a = 0, !.work.b = 0]
      [] s = "set"       -> [r EXCEPT !.work.p = [id |-> r.id, there |-> TRUE]]
      [] s = "put"       -> [r EXCEPT !.work.p = [id |-> r.id, there |-> TRUE]]
      [] s = "delete"    -> [r EXCEPT !.work.p = [id |-> r.id, there |-> FALSE]]
      [] s = "getP"      -> [r EXCEPT !.seen = db.p]

\* The statement the task is at.
Statement(t) == Statements[task[t].op][task[t].at]

Running(t) == task[t].pc = "run" /\ task[t].at =< Len(Statements[task[t].op])

\* INSERT fails when the key is there (IndexedDB: the driver checks first).
Conflicts(t) == Statement(t) = "set" /\ task[t].work.p.there

\* A statement succeeds.
Execute(t) ==
    /\ Running(t)
    /\ ~Conflicts(t)
    /\ task' = [task EXCEPT ![t] = [Effect(task[t], Statement(t)) EXCEPT !.at = task[t].at + 1]]
    /\ UNCHANGED <<driver, db, lock, serial, acked, applied, failed, ops, faults>>

\* A statement fails and `?` drops the transaction, which then commits
\* (DropBehavior::Commit) or, if that fails too, rolls back; IndexedDB completes
\* the transaction or aborts it.
FailStatement(t) ==
    /\ Running(t)
    /\ \/ Conflicts(t) /\ UNCHANGED <<faults, failed>>
       \/ faults < MaxFaults /\ faults' = faults + 1 /\ failed' = TRUE
    /\ (Writes(task[t].op) /\ Apply(t)) \/ Discard
    /\ Finish(t)
    /\ UNCHANGED <<driver, serial, acked, ops>>

Done(t) == task[t].pc = "run" /\ task[t].at > Len(Statements[task[t].op])

\* tx.commit().await
Commit(t) ==
    /\ Done(t)
    /\ Commits(task[t].op)
    /\ \/ Apply(t) /\ UNCHANGED <<faults, failed>>
       \/ /\ faults < MaxFaults
          /\ faults' = faults + 1
          /\ failed' = TRUE
          /\ Apply(t) \/ Discard
    /\ Finish(t)
    /\ UNCHANGED <<driver, serial, acked, ops>>

\* A bug: IndexedDB's transaction is over when the caller is told.
DropForgets(t) ==
    /\ Done(t)
    /\ ~Commits(task[t].op)
    /\ acked' = IF Writes(task[t].op) THEN task[t].id ELSE acked
    /\ Discard
    /\ Finish(t)
    /\ UNCHANGED <<driver, serial, failed, ops, faults>>

\* The transaction of a single write or of a read is dropped and the caller told
\* that all went well.  SQLite commits in drop, and rolls back without a word
\* when that fails; IndexedDB's transaction completes later.
DropTx(t) ==
    /\ Done(t)
    /\ ~Commits(task[t].op)
    /\ acked' = IF Writes(task[t].op) THEN task[t].id ELSE acked
    /\ \/ /\ driver = "idb" /\ Writes(task[t].op)
          /\ task' = [task EXCEPT ![t].pc = "completing"]
          /\ UNCHANGED <<lock, faults, failed>> /\ Discard
       \/ /\ driver = "sqlite" /\ Writes(task[t].op)
          /\ \/ Apply(t) /\ UNCHANGED <<faults, failed>>
             \/ Discard /\ faults < MaxFaults /\ faults' = faults + 1 /\ failed' = TRUE
          /\ Finish(t)
       \/ ~Writes(task[t].op) /\ Discard /\ Finish(t) /\ UNCHANGED <<faults, failed>>
    /\ UNCHANGED <<driver, serial, ops>>

\* The browser completes the transaction.
Complete(t) ==
    /\ task[t].pc = "completing"
    /\ Apply(t)
    /\ Finish(t)
    /\ UNCHANGED <<driver, serial, acked, failed, ops, faults>>

\* The process ends: what is not committed is gone.
Crash ==
    /\ faults < MaxFaults
    /\ \E t \in Tasks : task[t].pc # "idle"
    /\ faults' = faults + 1
    /\ task' = [t \in Tasks |-> Idle]
    /\ lock' = "none"
    /\ acked' = db.p.id
    /\ UNCHANGED <<driver, db, serial, applied, failed, ops>>

---------------------------------------------------------------------------
Init ==
    /\ driver \in {"sqlite", "idb"}
    /\ db = Empty
    /\ task = [t \in Tasks |-> Idle]
    /\ lock = "none"
    /\ serial = 0 /\ acked = 0 /\ applied = 0 /\ ops = 0 /\ faults = 0
    /\ failed = FALSE

Proceed(t) ==
    \/ Acquire(t) \/ Begin(t) \/ Busy(t) \/ Execute(t) \/ FailStatement(t)
    \/ Commit(t) \/ DropTx(t) \/ Complete(t)

Next ==
    \/ \E t \in Tasks : Proceed(t) \/ \E op \in Ops : Start(t, op)
    \/ Crash

Spec == Init /\ [][Next]_vars

FairSpec == Spec /\ \A t \in Tasks : WF_vars(Proceed(t))

---------------------------------------------------------------------------
(* Properties *)

\* Transactions are known by their serial numbers; 0 stands for none.
Ids == 0..serial

Points == [id : Ids, there : BOOLEAN]

Views == [n : Nat, a : Ids, b : Ids, p : Points]

TaskRecords ==
    [op : Ops, pc : {"idle", "pool", "begin", "run", "completing"}, at : 1..3, id : Ids,
     born : 0..ops, floor : Ids, work : Views, n : Nat, seen : Points]

\* Every variable holds a value of its type.
TypeOK ==
    /\ driver \in {"sqlite", "idb"}
    /\ db \in Views
    /\ task \in [Tasks -> TaskRecords]
    /\ lock \in Tasks \cup {"none"}
    /\ serial \in Nat /\ acked \in Ids /\ applied \in Nat /\ ops \in 0..MaxOps
    /\ failed \in BOOLEAN /\ faults \in 0..MaxFaults

\* No read-modify-write of a record (upsert!, Entry::and_update, the settings
\* repositories) is lost to a concurrent one: the counter equals the number of
\* updates that were committed.
NoLostUpdate == db.n = applied

\* As long as no statement and no commit fails, what one transaction writes is
\* there as a whole or not at all, whenever the process ends.
WrittenTogether == ~failed => db.a = db.b

\* A read that starts after a single write was reported as done sees it or a
\* later one (Store::put returns before IndexedDB's transaction has completed).
ReadsSeeWhatWasDone ==
    \A t \in Tasks : Done(t) /\ task[t].op = "read" /\ ~failed => task[t].seen.id >= task[t].floor

Working(t) == task[t].pc # "idle"

\* Every operation on the store comes to an end.
OperationsEnd == \A t \in Tasks : []<>~Working(t)

---------------------------------------------------------------------------
(* The inductive invariant behind these properties. *)

\* The transaction has begun and is not over.
Active(t) == task[t].pc \in {"run", "completing"}

Writing(t) == Active(t) /\ Writes(task[t].op)

SingleWrite(op) == op \in {"set", "put", "delete"}

\* A task is at a statement of its operation; only IndexedDB completes single writes later.
StepFits(r) ==
    /\ r.at =< Len(Statements[r.op]) + 1
    /\ r.pc \in {"pool", "begin"} => r.at = 1
    /\ r.pc = "completing" => driver = "idb" /\ SingleWrite(r.op) /\ r.at = 2

StepsFit == \A t \in Tasks : StepFits(task[t])

\* A writer of SQLite holds the lock.
WriterHoldsLock == driver = "sqlite" => \A t \in Tasks : Writing(t) => lock = t

\* IndexedDB's transactions are numbered in the order of their creation, and one that
\* is active overlaps with no older one.
InOrder ==
    /\ \A s, t \in Tasks :
        task[s].pc # "idle" /\ task[t].pc # "idle" /\ task[s].born = task[t].born => s = t
    /\ driver = "idb" =>
        \A s, t \in Tasks :
            Active(s) /\ task[t].pc # "idle" /\ task[t].born < task[s].born
                => ~Writes(task[s].op) /\ ~Writes(task[t].op)

\* What the writer r has changed, and that nobody has changed the rest since it began.
ViewFits(r) ==
    /\ r.work.n = IF r.op = "update" /\ r.at > 2 THEN db.n + 1 ELSE db.n
    /\ r.op = "update" /\ r.at = 2 => r.n = db.n
    /\ db.p.id < r.id
    /\ IF SingleWrite(r.op) /\ r.at > 1 THEN r.work.p.id = r.id ELSE r.work.p = db.p
    /\ r.op = "append" /\ r.at = 2 => r.work.a = r.id
    /\ ~failed /\ ~(r.op = "append" /\ r.at = 2) => r.work.a = r.work.b

ViewsFit == \A t \in Tasks : Writing(t) => ViewFits(task[t])

\* The write with serial number i is committed, or will be before what began at born.
Settled(i, born) ==
    \/ i =< db.p.id
    \/ \E w \in Tasks : /\ task[w].pc = "completing"
                        /\ task[w].born < born
                        /\ i =< task[w].work.p.id

\* What was reported as done is settled for every operation that starts later.
DoneIsSettled ==
    ~failed => /\ Settled(acked, ops + 1)
               /\ \A t \in Tasks : task[t].pc # "idle" => Settled(task[t].floor, task[t].born)

Inv ==
    /\ TypeOK
    /\ StepsFit
    /\ WriterHoldsLock
    /\ InOrder
    /\ ViewsFit
    /\ DoneIsSettled
    /\ NoLostUpdate
    /\ WrittenTogether
    /\ ReadsSeeWhatWasDone
===========================================================================
