--------------------------- MODULE StoreUpgrade ---------------------------
(***************************************************************************)
(* Opening the store: open_store hands the driver a list of changes, each  *)
(* for the databases older than some version.  SQLite runs them in one     *)
(* IMMEDIATE transaction and then writes the version; a handler that fails *)
(* drops the transaction, which commits.  The transaction of an upgrade    *)
(* that succeeds is dropped too: when that commit fails it is rolled back, *)
(* and the store is open all the same.  IndexedDB runs the changes in its  *)
(* version change transaction, which an error aborts.                      *)
(***************************************************************************)
EXTENDS StoreSchema

CONSTANTS
    OldVersions,    \* versions of the databases found
    MaxCrashes,     \* times the process ends while the store is opened
    MaxFaults       \* statements that fail for a reason of their own

VARIABLES
    driver,     \* "sqlite" or "idb"
    version,    \* the version committed
    tables,     \* the collections committed
    work,       \* the collections as the upgrade transaction sees them
    at,         \* the next change, or 0 while the store is not being opened
    old,        \* event.old_version
    status,     \* "closed", "opening", "open" or "error"
    crashes,    \* so far
    faults,     \* so far
    mishaps     \* "partial": a part of the changes was committed without the version,
                \* "lost": the store is open although its upgrade was rolled back

vars == <<driver, version, tables, work, at, old, status, crashes, faults, mishaps>>

Init ==
    /\ driver \in {"sqlite", "idb"}
    /\ version \in OldVersions
    /\ tables = Legacy(driver, version)
    /\ work = tables
    /\ at = 0
    /\ old = 0
    /\ status = "closed"
    /\ crashes = 0 /\ faults = 0
    /\ mishaps = {}

\* Driver::open reads the version; the handler runs if it is another one.
Open ==
    /\ status = "closed"
    /\ work' = tables
    /\ old' = version
    /\ \/ version = DbVersion /\ status' = "open" /\ at' = 0
       \/ version # DbVersion /\ status' = "opening" /\ at' = 1
    /\ mishaps' = mishaps \ {"lost"}
    /\ UNCHANGED <<driver, version, tables, crashes, faults>>

\* The rest of a failing handler: `?` drops SQLite's transaction, which commits
\* what was done so far or, if that fails too, rolls back; IndexedDB's is aborted.
HandlerFails(count) ==
    /\ status' = "error"
    /\ at' = 0
    /\ \/ /\ driver = "sqlite" /\ tables' = work
          /\ mishaps' = IF work # tables THEN mishaps \cup {"partial"} ELSE mishaps
          /\ faults' = count
       \/ /\ driver = "sqlite" /\ count < MaxFaults /\ faults' = count + 1
          /\ UNCHANGED <<tables, mishaps>>
       \/ driver = "idb" /\ faults' = count /\ UNCHANGED <<tables, mishaps>>
    /\ UNCHANGED <<driver, version, work, old, crashes>>

\* A bug: off by one.
AppliesThrough(c) == old =< c.below

\* The condition of a block: event.old_version < below.
Applies(c) == old < c.below

\* One change of the handler.
Change ==
    /\ status = "opening"
    /\ at =< Len(ChangesOf[driver])
    /\ LET c == ChangesOf[driver][at] IN
       \/ /\ ~Applies(c) \/ Possible(work, c)
          /\ work' = IF Applies(c) THEN Changed(work, c) ELSE work
          /\ at' = at + 1
          /\ UNCHANGED <<driver, version, tables, old, status, crashes, faults, mishaps>>
       \/ Applies(c) /\ ~Possible(work, c) /\ HandlerFails(faults)
       \/ Applies(c) /\ faults < MaxFaults /\ HandlerFails(faults + 1)

\* All changes are made: the version is written and the transaction commits.
AllChanged == status = "opening" /\ at > Len(ChangesOf[driver])
Upgraded ==
    /\ AllChanged
    /\ version' = DbVersion
    /\ tables' = work
    /\ status' = "open"
    /\ at' = 0
    /\ UNCHANGED <<driver, work, old, crashes, faults, mishaps>>

\* SQLite's INSERT of the version fails, as a change of the handler may.
VersionFails ==
    /\ AllChanged
    /\ driver = "sqlite"
    /\ faults < MaxFaults
    /\ HandlerFails(faults + 1)

\* The commit fails. SQLite's runs in Drop, once Ok(db) is the result, and rolls
\* back without a word; IndexedDB reports the aborted version change.
CommitFails ==
    /\ AllChanged
    /\ faults < MaxFaults
    /\ faults' = faults + 1
    /\ \/ driver = "sqlite" /\ status' = "open" /\ mishaps' = mishaps \cup {"lost"}
       \/ driver = "idb" /\ status' = "error" /\ UNCHANGED mishaps
    /\ at' = 0
    /\ UNCHANGED <<driver, version, tables, work, old, crashes>>

\* The process ends and the store is opened again later.
Crash ==
    /\ status \in {"opening", "open", "error"}
    /\ crashes < MaxCrashes
    /\ crashes' = crashes + 1
    /\ status' = "closed"
    /\ at' = 0
    /\ work' = tables
    /\ UNCHANGED <<driver, version, tables, old, faults, mishaps>>

Next == Open \/ Change \/ Upgraded \/ VersionFails \/ CommitFails \/ Crash

Spec == Init /\ [][Next]_vars

---------------------------------------------------------------------------
(* Properties *)

Names == {ChangesOf["idb"][i].name : i \in DOMAIN ChangesOf["idb"]}

\* Every variable holds a value of its type.
TypeOK ==
    /\ driver \in {"sqlite", "idb"}
    /\ version \in OldVersions \cup {DbVersion}
    /\ tables \subseteq Names /\ work \subseteq Names
    /\ at \in 0..(Len(ChangesOf[driver]) + 1)
    /\ old \in OldVersions \cup {0, DbVersion}
    /\ status \in {"closed", "opening", "open", "error"}
    /\ crashes \in 0..MaxCrashes /\ faults \in 0..MaxFaults
    /\ mishaps \subseteq {"partial", "lost"}

\* Once the store is open it has exactly the collections the repositories use,
\* whichever version was found, wherever an earlier attempt was cut off and
\* whatever failed in it. It has not after SQLite's commit in Drop has failed.
OpenIsCurrent == status = "open" /\ "lost" \notin mishaps => tables = Current(driver)

\* No change of the handler creates a collection that exists or deletes one that
\* does not, whichever version was found and however often the process ends in
\* between, so the store opens. With IndexedDB, which undoes a failed version
\* change as a whole, this also holds after a statement has failed; with SQLite
\* only if nothing was committed then.
UpgradeFits ==
    (status = "opening" /\ at =< Len(ChangesOf[driver]) /\ "partial" \notin mishaps)
    => LET c == ChangesOf[driver][at] IN Applies(c) => Possible(work, c)

===========================================================================
