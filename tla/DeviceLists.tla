----------------------------- MODULE DeviceLists -----------------------------
(* The OMEMO device list of one account. Every device of the account runs     *)
(* this code: it announces itself when it connects (`initialize`), again when *)
(* a pushed list lacks it (`handle_received_device_list`), removes devices    *)
(* that have no bundle when it encrypts (`unpublish_device`) or that the user *)
(* deletes. All of them read, change and replace one list on the server.      *)
(* A request is processed when it is sent, or fails; its answer and the       *)
(* pushes of the server wait in the device's stream, so everything read may   *)
(* be old. A pushed list is stored first and looked at afterwards, and the    *)
(* answer that `get_all` waits for is stored when its task goes on, which may *)
(* be after a later push.                                                     *)
EXTENDS Naturals, FiniteSets, Sequences

CONSTANTS
    Devices,
    Initial,            \* what the list may be at first: sets of devices
    MaxOps              \* bound: operations, failing requests and unpublished devices

VARIABLES
    list,               \* the published device list
    bundles,            \* the devices with a published bundle
    stream,             \* per device: what the server sent and it has not handled
    task,               \* per device: what the user or the connection made it do
    checks,             \* per device: pushed lists without it that it has stored
    cache,              \* per device: option, the stored list of the own account
    local,              \* the devices with a local bundle
    sessions,           \* per device: the devices it has a session with
    attempts,           \* per device: `unpublish_device_attempts`
    ops,                \* how many of them there were
    disabled,           \* OMEMO was disabled and no list was published since
    gaveUp,             \* the devices whose last announcement failed
    stale               \* the devices that stored another list than they were pushed last

vars == <<list, bundles, stream, task, checks, cache, local, sessions, attempts, ops, disabled,
          gaveUp, stale>>

\* Where a task is, the device it is about, and the list it has read.
Doing(step, device, devices) == [at |-> step, device |-> device, read |-> devices]
At(step) == Doing(step, {}, {})
AtWith(step, e) == Doing(step, {e}, {})
AtRead(step, devices) == Doing(step, {}, devices)

Idle == At("idle")
Offline == At("offline")

\* `connect` has returned an error of `initialize`; the connection is still there.
Failed == At("failed")

Online == {d \in Devices : task[d].at # "offline"}

Steps == {"idle", "offline", "failed", "announce", "loading", "loaded", "bundle", "publish",
          "unpublish", "shorter", "deleteBundle", "deleteBundles"}
DeviceTasks == [at : Steps, device : {{}} \cup {{d} : d \in Devices}, read : SUBSET Devices]
StreamMessages == [kind : {"push", "answer"}, list : SUBSET Devices]

\* Every variable holds a value of its type.
TypeOK ==
    /\ list \subseteq Devices /\ bundles \subseteq local /\ local \subseteq Devices
    /\ task \in [Devices -> DeviceTasks]
    /\ stream \in [Devices -> Seq(StreamMessages)]
    /\ cache \in [Devices -> {{}} \cup {{L} : L \in SUBSET Devices}]
    /\ sessions \in [Devices -> SUBSET Devices] /\ attempts \in [Devices -> SUBSET Devices]
    /\ \A d \in Devices : d \notin sessions[d] \cup attempts[d]
    /\ checks \in [Devices -> Seq(SUBSET Devices)]
    /\ ops \in Nat /\ disabled \in BOOLEAN /\ gaveUp \subseteq Devices /\ stale \subseteq Devices

\* Some devices are new, the others are connected and have been for a while.
Init ==
    \E old \in Initial :
        /\ list = old /\ bundles = old /\ local = old
        /\ stream = [d \in Devices |-> <<>>]
        /\ task = [d \in Devices |-> IF d \in old THEN Idle ELSE Offline]
        /\ cache = [d \in Devices |-> IF d \in old THEN {old} ELSE {}]
        /\ sessions = [d \in Devices |-> IF d \in old THEN old \ {d} ELSE {}]
        /\ attempts = [d \in Devices |-> {}]
        /\ checks = [d \in Devices |-> <<>>]
        /\ ops = 0 /\ disabled = FALSE /\ gaveUp = {} /\ stale = {}

-----------------------------------------------------------------------------
(* The server                                                                *)

Message(kind, devices) == [kind |-> kind, list |-> devices]

\* A new list is pushed to every connected device, its publisher included.
Publish(devices) ==
    /\ list' = devices
    /\ disabled' = FALSE
    /\ stream' = [d \in Devices |->
                    IF d \in Online THEN Append(stream[d], Message("push", devices))
                    ELSE stream[d]]

\* There was nothing to publish, or `publish_device_list` fails.
NotPublished == UNCHANGED <<list, stream, disabled>>

\* What the users do, what fails and what is unpublished is bounded.
Spend == ops < MaxOps /\ ops' = ops + 1

-----------------------------------------------------------------------------
(* The caching repository                                                    *)

\* `set_all`: one transaction adds the new and deletes the missing records.
SetAll(d, devices) ==
    cache' = [cache EXCEPT ![d] = {devices}]

\* `get_all` asks the server if it has no list of this connection: only the first
\* one, of `initialize`, can find none. Then it waits for the answer, whatever is
\* pushed meanwhile.
Load(d) ==
    /\ cache[d] = {}
    /\ task[d] = At("announce")
    /\ task' = [task EXCEPT ![d] = At("loading")]
    /\ stream' = [stream EXCEPT ![d] = Append(@, Message("answer", list))]
    /\ UNCHANGED <<list, bundles, checks, cache, local, sessions, attempts, ops, disabled, gaveUp,
                   stale>>

HasList(d) == cache[d] # {}
ListOf(d) == CHOOSE L \in cache[d] : TRUE

-----------------------------------------------------------------------------
(* Connections                                                               *)

\* `reset_before_reconnect` empties the cache; the server pushes the current list
\* to a new connection. `initialize` forgets its attempts and makes the bundle.
Connect(d) ==
    /\ task[d] = Offline
    /\ Spend
    /\ cache' = [cache EXCEPT ![d] = {}]
    /\ attempts' = [attempts EXCEPT ![d] = {}]
    /\ local' = local \cup {d}
    /\ task' = [task EXCEPT ![d] = At("announce")]
    /\ stream' = [stream EXCEPT ![d] = <<Message("push", list)>>]
    /\ gaveUp' = gaveUp \ {d} /\ stale' = stale \ {d}
    /\ UNCHANGED <<list, bundles, checks, sessions, disabled>>

\* Whatever the device was doing is gone, and so is what the server had sent.
Disconnect(d) ==
    /\ task[d] # Offline
    /\ ops < MaxOps
    /\ task' = [task EXCEPT ![d] = Offline]
    /\ stream' = [stream EXCEPT ![d] = <<>>]
    /\ checks' = [checks EXCEPT ![d] = <<>>]
    /\ UNCHANGED <<list, bundles, cache, local, sessions, attempts, ops, disabled, gaveUp, stale>>

\* The device publishes a list with itself, which may fail.
AnnouncedWith(d, L) == Publish(L \cup {d}) /\ gaveUp' = gaveUp \ {d} /\ UNCHANGED ops
NotAnnounced(d) == Spend /\ NotPublished /\ gaveUp' = gaveUp \cup {d}
NothingToAnnounce == NotPublished /\ UNCHANGED <<gaveUp, ops>>

\* `initialize` with the list that is stored,
AnnounceStored(d) ==
    /\ task[d] = At("announce") /\ HasList(d)
    /\ \/ /\ d \in ListOf(d)
          /\ NothingToAnnounce
          /\ task' = [task EXCEPT ![d] = At("bundle")]
       \/ /\ d \notin ListOf(d)
          /\ AnnouncedWith(d, ListOf(d))
          /\ task' = [task EXCEPT ![d] = At("bundle")]
       \/ /\ d \notin ListOf(d)
          /\ NotAnnounced(d)
          /\ task' = [task EXCEPT ![d] = Failed]
    /\ UNCHANGED <<bundles, checks, cache, local, sessions, attempts, stale>>

\* or with the one of the answer, which `get_all` stores even if another was pushed
\* and stored since.
AnnounceLoaded(d) ==
    /\ task[d].at = "loaded"
    /\ SetAll(d, task[d].read)
    /\ stale' = IF HasList(d) /\ cache[d] # {task[d].read} THEN stale \cup {d} ELSE stale
    /\ \/ /\ d \in task[d].read
          /\ NothingToAnnounce
          /\ task' = [task EXCEPT ![d] = At("bundle")]
       \/ /\ d \notin task[d].read
          /\ AnnouncedWith(d, task[d].read)
          /\ task' = [task EXCEPT ![d] = At("bundle")]
       \/ /\ d \notin task[d].read
          /\ NotAnnounced(d)
          /\ task' = [task EXCEPT ![d] = Failed]
    /\ UNCHANGED <<bundles, checks, local, sessions, attempts>>

LoadOwnBundle(d) ==
    /\ task[d] = At("bundle")
    /\ task' = [task EXCEPT ![d] = IF d \in bundles THEN Idle ELSE At("publish")]
    /\ UNCHANGED <<list, bundles, stream, checks, cache, local, sessions, attempts, ops, disabled,
                   gaveUp, stale>>

PublishBundle(d) ==
    /\ task[d] = At("publish")
    /\ task' = [task EXCEPT ![d] = Idle]
    /\ bundles' = bundles \cup {d}
    /\ UNCHANGED <<list, stream, checks, cache, local, sessions, attempts, ops, disabled, gaveUp,
                   stale>>

\* The request for the list or for the own bundle, or the publication of the bundle,
\* fails.
InitializeFails(d) ==
    /\ \/ task[d] = At("announce") /\ ~HasList(d)
       \/ task[d] \in {At("bundle"), At("publish")}
    /\ Spend
    /\ task' = [task EXCEPT ![d] = Failed]
    /\ UNCHANGED <<list, bundles, stream, checks, cache, local, sessions, attempts, disabled,
                   gaveUp, stale>>

-----------------------------------------------------------------------------
(* Pushed lists                                                              *)

\* `handle_received_device_list` stores a pushed list, and is done with one that has
\* the own device; `get_all` gets its answer.
Receive(d) ==
    /\ stream[d] # <<>>
    /\ stream' = [stream EXCEPT ![d] = Tail(@)]
    /\ LET m == Head(stream[d])
       IN  IF m.kind = "push"
           THEN /\ SetAll(d, m.list)
                /\ checks' = [checks EXCEPT ![d] = IF d \in m.list THEN @ ELSE Append(@, m.list)]
                /\ stale' = stale \ {d}
                /\ UNCHANGED task
           ELSE /\ task' = [task EXCEPT ![d] = AtRead("loaded", m.list)]
                /\ UNCHANGED <<cache, checks, stale>>
    /\ UNCHANGED <<list, bundles, local, sessions, attempts, ops, disabled, gaveUp>>

\* Mutant: a device that was dropped from the list does not mind.
ReannounceNever(d, L) == FALSE

\* Does the device announce itself again?
Reannounce(d, L) ==
    d \in local

\* `handle_received_device_list` has looked up the own device.
Check(d) ==
    /\ checks[d] # <<>>
    /\ checks' = [checks EXCEPT ![d] = Tail(@)]
    /\ LET L == Head(checks[d])
       IN  \/ ~Reannounce(d, L) /\ NothingToAnnounce
           \/ Reannounce(d, L) /\ AnnouncedWith(d, L)
           \/ Reannounce(d, L) /\ NotAnnounced(d)
    /\ UNCHANGED <<bundles, task, cache, local, sessions, attempts, stale>>

-----------------------------------------------------------------------------
(* Encrypting, deleting, disabling                                           *)

\* `unpublish_device_attempts`: once per device and connection.
Unpublish(d, e) == e \notin attempts[d]

\* `encrypt_message` starts the missing sessions with the other listed devices. One
\* that has no bundle, or one that cannot be processed, is unpublished
\* (`start_session_with_device`).
Encrypt(d) ==
    /\ task[d] = Idle
    /\ \E e \in ListOf(d) \ (sessions[d] \cup {d}) :
        \/ /\ e \in bundles
           /\ sessions' = [sessions EXCEPT ![d] = @ \cup {e}]
           /\ UNCHANGED <<task, attempts, ops>>
        \/ /\ Unpublish(d, e)
           /\ Spend
           /\ attempts' = [attempts EXCEPT ![d] = @ \cup {e}]
           /\ task' = [task EXCEPT ![d] = AtWith("unpublish", e)]
           /\ UNCHANGED sessions
    /\ UNCHANGED <<list, bundles, stream, checks, cache, local, disabled, gaveUp, stale>>

\* `unpublish_device`; that it failed is not noticed.
UnpublishDevice(d) ==
    /\ task[d].at = "unpublish"
    /\ task' = [task EXCEPT ![d] = Idle]
    /\ \/ /\ task[d].device \cap ListOf(d) # {}
          /\ Publish(ListOf(d) \ task[d].device)
          /\ UNCHANGED ops
       \/ /\ task[d].device \cap ListOf(d) # {}
          /\ NotPublished /\ Spend
       \/ /\ task[d].device \cap ListOf(d) = {}
          /\ NotPublished /\ UNCHANGED ops
    /\ UNCHANGED <<bundles, checks, cache, local, sessions, attempts, gaveUp, stale>>

\* `delete_device` stores the shorter list, publishes it and deletes the bundle.
DeleteDevice(d) ==
    /\ task[d] = Idle
    /\ Spend
    /\ \E e \in ListOf(d) :
        /\ SetAll(d, ListOf(d) \ {e})
        /\ task' = [task EXCEPT ![d] = Doing("shorter", {e}, ListOf(d) \ {e})]
    /\ UNCHANGED <<list, bundles, stream, checks, local, sessions, attempts, disabled, gaveUp, stale>>

\* When the shorter list cannot be published it stays in the store.
PublishShorter(d) ==
    /\ task[d].at = "shorter"
    /\ \/ /\ Publish(task[d].read)
          /\ task' = [task EXCEPT ![d] = Doing("deleteBundle", task[d].device, {})]
          /\ UNCHANGED <<stale, ops>>
       \/ /\ NotPublished /\ Spend
          /\ task' = [task EXCEPT ![d] = Idle]
          /\ stale' = IF cache[d] = {task[d].read} THEN stale \cup {d} ELSE stale
    /\ UNCHANGED <<bundles, checks, cache, local, sessions, attempts, gaveUp>>

\* `delete_device_bundle`, which may fail.
DeleteBundle(d) ==
    /\ task[d].at = "deleteBundle"
    /\ \/ bundles' = bundles \ task[d].device /\ UNCHANGED ops
       \/ UNCHANGED bundles /\ Spend
    /\ task' = [task EXCEPT ![d] = Idle]
    /\ UNCHANGED <<list, stream, checks, cache, local, sessions, attempts, disabled, gaveUp, stale>>

\* `disable_omemo` deletes the node of the list, which pushes no list, and then the
\* bundles of the devices it had read, as far as that succeeds.
DisableOmemo(d) ==
    /\ task[d] = Idle
    /\ Spend
    /\ list' = {}
    /\ disabled' = TRUE
    /\ task' = [task EXCEPT ![d] = AtRead("deleteBundles", ListOf(d))]
    /\ UNCHANGED <<bundles, stream, checks, cache, local, sessions, attempts, gaveUp, stale>>

DeleteBundles(d) ==
    /\ task[d].at = "deleteBundles"
    /\ \/ bundles' = bundles \ task[d].read /\ UNCHANGED ops
       \/ bundles' \in {bundles \ S : S \in SUBSET task[d].read} /\ Spend
    /\ task' = [task EXCEPT ![d] = Idle]
    /\ UNCHANGED <<list, stream, checks, cache, local, sessions, attempts, disabled, gaveUp, stale>>

-----------------------------------------------------------------------------

\* What the code does by itself once it was asked to.
Step(d) ==
    \/ Load(d) \/ AnnounceStored(d) \/ AnnounceLoaded(d) \/ LoadOwnBundle(d) \/ PublishBundle(d)
    \/ InitializeFails(d) \/ UnpublishDevice(d) \/ PublishShorter(d) \/ DeleteBundle(d)
    \/ DeleteBundles(d)

\* What it does with what the server sends.
Handle(d) == Receive(d) \/ Check(d)

Next ==
    \E d \in Devices :
        \/ Connect(d) \/ Disconnect(d) \/ Encrypt(d) \/ DeleteDevice(d) \/ DisableOmemo(d)
        \/ Step(d) \/ Handle(d)

Spec == Init /\ [][Next]_vars

FairSpec == Spec /\ \A d \in Devices : WF_vars(Step(d)) /\ WF_vars(Receive(d)) /\ WF_vars(Check(d))

-----------------------------------------------------------------------------
(* Properties                                                                *)

Quiet ==
    \A d \in Devices : task[d] \in {Idle, Offline, Failed} /\ stream[d] = <<>> /\ checks[d] = <<>>

Listed == disabled \/ \A d \in Online \ gaveUp : d \in list

\* However the devices overwrite each other's lists, remove devices whose bundle
\* they cannot find or process or delete one that is still running: in the end every
\* device that is connected is listed and stays so, unless its last attempt to
\* announce itself failed.
EveryDeviceIsListed == <>[]Listed

\* Once everything was handled, a device has stored the list that is published: no
\* list it had fetched or was pushed earlier is left. The exceptions are a shorter
\* list that was stored and could not be published (`delete_device`), and an answer
\* that was stored after a later push (`get_all`), both until the next push.
CacheIsCurrent ==
    Quiet /\ ~disabled => \A d \in Online \ stale : cache[d] = {list}

\* The devices never all rest while one of them is missing: as long as a connected
\* device is not listed, it has something to handle or to finish, unless its last
\* attempt to announce itself failed.
NobodyRestsUnlisted == Quiet => Listed
=============================================================================
