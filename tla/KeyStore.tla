------------------------------ MODULE KeyStore ------------------------------
(* The repositories of keys and sessions, and the native Signal service. The  *)
(* service is an actor: it takes one request after the other, and the Signal  *)
(* library, which is external, reads and writes the records of the account    *)
(* several times for each. In between, other tasks generate the local bundle, *)
(* replace prekeys, change which devices are active or clear the cache.       *)
(* Each method of a repository that writes is one transaction of the store;   *)
(* one that reads the local bundle is three statements, since a transaction   *)
(* for reading is none in SQLite.                                             *)
EXTENDS Naturals, FiniteSets, Sequences

CONSTANTS
    Accounts,
    Peers,              \* the devices of other users
    PreKeys,
    MaxRequests,        \* bound: requests to the service
    MaxTasks            \* bound: initializations, clearings, device lists, crashes

VARIABLES
    device,             \* [account]: option, LocalDeviceRecord
    signed,             \* [account]: option, SignedPreKeyRecord
    preKeys,            \* [account]: PreKeyRecords, prekey -> generation
    sessions,           \* [account]: SessionRecords, peer -> record
    account,            \* the connected account
    mailbox,            \* the requests that wait for the service
    running,            \* the requests it is working on
    generating,         \* accounts whose new bundle is being generated
    clearing,           \* accounts whose sessions are still to be cleared
    reading,            \* `get_local_device_bundle` calls that have found the device
    used,               \* [account]: prekeys in decryption contexts
    refreshing,         \* [account]: prekeys that are being generated again
    fresh,              \* number for the next device, generation, session
    requests, tasks,    \* how many there were
    handedOut,          \* <<account, peer, data>>: message keys, as often as used
    crashed             \* the process has died

vars == <<device, signed, preKeys, sessions, account, mailbox, running, generating, clearing,
          reading, used, refreshing, fresh, requests, tasks, handedOut, crashed>>

NoKeys == [k \in PreKeys |-> 0]             \* 0: no record
NoSessions == [p \in Peers |-> {}]

Init ==
    /\ device = [a \in Accounts |-> {}]
    /\ signed = [a \in Accounts |-> {}]
    /\ preKeys = [a \in Accounts |-> NoKeys]
    /\ sessions = [a \in Accounts |-> NoSessions]
    /\ account \in Accounts
    /\ mailbox = <<>> /\ running = {} /\ generating = {} /\ clearing = {}
    /\ reading = {}
    /\ used = [a \in Accounts |-> {}]
    /\ refreshing = [a \in Accounts |-> {}]
    /\ fresh = 1 /\ requests = 0 /\ tasks = 0
    /\ handedOut = <<>>
    /\ crashed = FALSE

-----------------------------------------------------------------------------
(* Session records                                                           *)

\* The ratchet of a session moves on with every message key.
Data(session, index) == [session |-> session, index |-> index]

NewRecord == [identity |-> {}, data |-> {}, isActive |-> TRUE]

\* `upsert_session` of `put_session_data` and `put_identity`
Upsert(a, p, field, value) ==
    LET record == IF sessions[a][p] = {} THEN NewRecord
                  ELSE CHOOSE r \in sessions[a][p] : TRUE
    IN  sessions' = [sessions EXCEPT ![a][p] = {[record EXCEPT ![field] = {value}]}]

\* `put_active_devices`
PutActiveDevices(a, devices) ==
    sessions' = [sessions EXCEPT ![a] = [p \in Peers |->
                    {[r EXCEPT !.isActive = p \in devices] : r \in @[p]}]]

\* `load_session`: a record may have no session yet.
LoadSession(a, p) == UNION {r.data : r \in sessions[a][p]}

\* Whom `encrypt_message` encrypts for.
ActiveDevices(a) == {p \in Peers : \E r \in sessions[a][p] : r.isActive}

-----------------------------------------------------------------------------
(* The local bundle                                                          *)

\* `get_local_device_bundle`: the device comes first. `torn` notes that the keys were
\* cleared since.
Reading(a, purpose) ==
    [account |-> a, purpose |-> purpose, step |-> "signed", device |-> device[a], signed |-> {},
     torn |-> FALSE]

Initializing(a) == a \in generating \/ \E r \in reading : r.account = a /\ r.purpose = "initialize"

\* `put_local_encryption_bundle`
PutLocalEncryptionBundle(a) ==
    /\ device' = [device EXCEPT ![a] = {fresh}]
    /\ signed' = [signed EXCEPT ![a] = {fresh}]
    /\ preKeys' = [preKeys EXCEPT ![a] = [k \in PreKeys |-> fresh]]

\* `put_pre_keys` of keys that were generated with the ids of used ones.
PutPreKeys(a, ids) ==
    preKeys' = [preKeys EXCEPT ![a] = [k \in PreKeys |-> IF k \in ids THEN fresh ELSE @[k]]]

\* `EncryptionKeysRepository::clear_cache`
ClearKeys(a) ==
    /\ device' = [device EXCEPT ![a] = {}]
    /\ signed' = [signed EXCEPT ![a] = {}]
    /\ preKeys' = [preKeys EXCEPT ![a] = NoKeys]

\* `SessionRepository::clear_cache`
ClearSessions(a) == sessions' = [sessions EXCEPT ![a] = NoSessions]

-----------------------------------------------------------------------------
(* Tasks                                                                     *)

\* `initialize` reads the bundle, and generates one if it finds none (the generation
\* awaits) …
Initialize ==
    /\ tasks < MaxTasks
    /\ ~Initializing(account)
    /\ IF device[account] = {}
       THEN generating' = generating \cup {account} /\ UNCHANGED reading
       ELSE reading' = reading \cup {Reading(account, "initialize")} /\ UNCHANGED generating
    /\ tasks' = tasks + 1
    /\ UNCHANGED <<device, signed, preKeys, sessions, account, mailbox, running, clearing, used,
                   refreshing, fresh, requests, handedOut, crashed>>

\* `get_local_device_bundle` reads the signed prekey and then, if there is one, the
\* prekeys.
ReadSignedPreKey ==
    \E r \in reading :
        /\ r.step = "signed"
        /\ IF signed[r.account] = {}
           THEN /\ reading' = reading \ {r}
                /\ generating' = IF r.purpose = "initialize" THEN generating \cup {r.account}
                                 ELSE generating
           ELSE /\ reading' = (reading \ {r}) \cup
                        {[r EXCEPT !.step = "preKeys", !.signed = signed[r.account]]}
                /\ UNCHANGED generating
        /\ UNCHANGED <<device, signed, preKeys, sessions, account, mailbox, running, clearing,
                       used, refreshing, fresh, requests, tasks, handedOut, crashed>>

ReadPreKeys ==
    \E r \in reading :
        /\ r.step = "preKeys"
        /\ reading' = reading \ {r}
        /\ UNCHANGED <<device, signed, preKeys, sessions, account, mailbox, running, generating,
                       clearing, used, refreshing, fresh, requests, tasks, handedOut, crashed>>

\* … which is then stored.
StoreBundle ==
    \E a \in generating :
        /\ PutLocalEncryptionBundle(a)
        /\ generating' = generating \ {a}
        /\ fresh' = fresh + 1
        /\ UNCHANGED <<sessions, account, mailbox, running, clearing, reading, used, refreshing,
                       requests, tasks, handedOut, crashed>>

\* `finalize_decryption` takes the context if the account has a device …
FinalizeDecryption ==
    \E a \in Accounts :
        /\ used[a] # {} /\ device[a] # {}
        /\ refreshing' = [refreshing EXCEPT ![a] = @ \cup used[a]]
        /\ used' = [used EXCEPT ![a] = {}]
        /\ UNCHANGED <<device, signed, preKeys, sessions, account, mailbox, running, generating,
                       clearing, reading, fresh, requests, tasks, handedOut, crashed>>

\* … and `refresh_and_publish_prekeys` stores new keys and reads the bundle it is
\* going to publish.
RefreshPreKeys ==
    \E a \in Accounts :
        /\ refreshing[a] # {}
        /\ PutPreKeys(a, refreshing[a])
        /\ refreshing' = [refreshing EXCEPT ![a] = {}]
        /\ fresh' = fresh + 1
        /\ reading' = IF device[a] = {} THEN reading ELSE reading \cup {Reading(a, "publish")}
        /\ UNCHANGED <<device, signed, sessions, account, mailbox, running, generating,
                       clearing, used, requests, tasks, handedOut, crashed>>

\* `EncryptionDomainService::clear_cache`: first the keys, then the sessions. The
\* account is logged out.
ClearCache ==
    /\ tasks < MaxTasks
    /\ ClearKeys(account)
    /\ clearing' = clearing \cup {account}
    /\ reading' = {IF r.account = account THEN [r EXCEPT !.torn = TRUE] ELSE r : r \in reading}
    /\ used' = [used EXCEPT ![account] = {}]
    /\ tasks' = tasks + 1
    /\ UNCHANGED <<sessions, account, mailbox, running, generating, refreshing, fresh, requests,
                   handedOut, crashed>>

FinishClearing ==
    \E a \in clearing :
        /\ ClearSessions(a)
        /\ clearing' = clearing \ {a}
        /\ UNCHANGED <<device, signed, preKeys, account, mailbox, running, generating, reading,
                       used, refreshing, fresh, requests, tasks, handedOut, crashed>>

SwitchAccount ==
    /\ tasks < MaxTasks
    /\ tasks' = tasks + 1
    /\ account' \in Accounts \ {account}
    /\ UNCHANGED <<device, signed, preKeys, sessions, mailbox, running, generating, clearing,
                   reading, used, refreshing, fresh, requests, handedOut, crashed>>

\* The process dies; only what the store has committed is left.
Crash ==
    /\ tasks < MaxTasks
    /\ tasks' = tasks + 1
    /\ mailbox' = <<>> /\ running' = {} /\ generating' = {} /\ clearing' = {}
    /\ reading' = {}
    /\ used' = [a \in Accounts |-> {}]
    /\ refreshing' = [a \in Accounts |-> {}]
    /\ crashed' = TRUE
    /\ UNCHANGED <<device, signed, preKeys, sessions, account, fresh, requests, handedOut>>

-----------------------------------------------------------------------------
(* Requests                                                                  *)

Request(kind, p, k) ==
    [kind |-> kind, account |-> account, peer |-> p, key |-> k, id |-> requests,
     step |-> "load", loaded |-> {}]

Ask(request) ==
    /\ requests < MaxRequests
    /\ device[account] # {}
    /\ mailbox' = Append(mailbox, request)
    /\ requests' = requests + 1

\* `start_sessions_if_needed`: devices without a record get a session.
StartSession ==
    \E p \in Peers, devices \in SUBSET Peers :
        /\ p \in devices
        /\ sessions[account][p] = {}
        /\ Ask(Request("process", p, 0))
        /\ PutActiveDevices(account, devices)
        /\ UNCHANGED <<device, signed, preKeys, account, running, generating, clearing, reading,
                       used, refreshing, fresh, tasks, handedOut, crashed>>

\* `encrypt_key` for an active device.
EncryptKey ==
    \E p \in ActiveDevices(account) :
        /\ Ask(Request("encrypt", p, 0))
        /\ UNCHANGED <<device, signed, preKeys, sessions, account, running, generating,
                       clearing, reading, used, refreshing, fresh, tasks, handedOut, crashed>>

\* `decrypt_key` of a message that starts a session with one of our prekeys, or of one
\* within a session (0).
DecryptKey ==
    \E p \in Peers, k \in PreKeys \cup {0} :
        /\ Ask(Request("decrypt", p, k))
        /\ UNCHANGED <<device, signed, preKeys, sessions, account, running, generating,
                       clearing, reading, used, refreshing, fresh, tasks, handedOut, crashed>>

-----------------------------------------------------------------------------
(* The service                                                               *)

\* Mutant: every request is handled by a task of its own.
MayRunAny == TRUE

\* `run` awaits `handle_message`.
MayRun == running = {}

HandleMessage ==
    /\ mailbox # <<>>
    /\ MayRun
    /\ running' = running \cup {Head(mailbox)}
    /\ mailbox' = Tail(mailbox)
    /\ UNCHANGED <<device, signed, preKeys, sessions, account, generating, clearing, reading,
                   used, refreshing, fresh, requests, tasks, handedOut, crashed>>

Proceed(r, step, loaded) ==
    running' = (running \ {r}) \cup {[r EXCEPT !.step = step, !.loaded = loaded]}

End(r) == running' = running \ {r}

\* The library loads the session first: within one, or to encrypt, there has to be
\* one. A message for a prekey needs that key (`get_pre_key`, `get_signed_pre_key`) and
\* starts a session. A message within a session may turn its ratchet, which starts a
\* chain of new keys.
MaySucceed(r) ==
    CASE r.kind = "process" -> TRUE
      [] r.kind = "decrypt" /\ r.key # 0 ->
            preKeys[r.account][r.key] # 0 /\ signed[r.account] # {}
      [] OTHER -> LoadSession(r.account, r.peer) # {}

Load(r) ==
    /\ r.step = "load"
    /\ \/ ~MaySucceed(r) /\ End(r) /\ UNCHANGED fresh
       \/ /\ MaySucceed(r)
          /\ r.kind = "process" \/ r.kind = "decrypt"
          /\ Proceed(r, "identity", {Data(fresh, 0)})
          /\ fresh' = fresh + 1
       \/ /\ MaySucceed(r)
          /\ r.kind = "decrypt" /\ r.key = 0
          /\ Proceed(r, "identity", LoadSession(r.account, r.peer))
          /\ UNCHANGED fresh
       \/ /\ MaySucceed(r)
          /\ r.kind = "encrypt"
          /\ Proceed(r, "store", LoadSession(r.account, r.peer))
          /\ UNCHANGED fresh
    /\ UNCHANGED <<sessions, used, handedOut>>

\* `save_identity`
SaveIdentity(r) ==
    /\ r.step = "identity"
    /\ Upsert(r.account, r.peer, "identity", r.peer)
    /\ Proceed(r, "store", r.loaded)
    /\ UNCHANGED <<used, fresh, handedOut>>

\* `store_session`: an encrypted message uses the key at the ratchet's position.
StoreSession(r) ==
    LET d == CHOOSE x \in r.loaded : TRUE
    IN  /\ r.step = "store"
        /\ IF r.kind = "encrypt"
           THEN /\ Upsert(r.account, r.peer, "data", Data(d.session, d.index + 1))
                /\ handedOut' = Append(handedOut, <<r.account, r.peer, d>>)
           ELSE /\ Upsert(r.account, r.peer, "data", d)
                /\ UNCHANGED handedOut
        /\ IF r.kind = "decrypt" /\ r.key # 0 THEN Proceed(r, "remove", r.loaded) ELSE End(r)
        /\ UNCHANGED <<used, fresh>>

\* `remove_pre_key` only notes the key in the decryption context.
RemovePreKey(r) ==
    /\ r.step = "remove"
    /\ used' = [used EXCEPT ![r.account] = @ \cup {r.key}]
    /\ End(r)
    /\ UNCHANGED <<sessions, fresh, handedOut>>

Work ==
    \E r \in running :
        /\ Load(r) \/ SaveIdentity(r) \/ StoreSession(r) \/ RemovePreKey(r)
        /\ UNCHANGED <<device, signed, preKeys, account, mailbox, generating, clearing, reading,
                       refreshing, requests, tasks, crashed>>

-----------------------------------------------------------------------------

Next ==
    \/ Initialize \/ ReadSignedPreKey \/ ReadPreKeys \/ StoreBundle \/ FinalizeDecryption \/ RefreshPreKeys
    \/ ClearCache \/ FinishClearing
    \/ SwitchAccount \/ Crash
    \/ StartSession \/ EncryptKey \/ DecryptKey
    \/ HandleMessage \/ Work

Spec == Init /\ [][Next]_vars

-----------------------------------------------------------------------------
(* Properties                                                                *)

\* A record, a bundle or a loaded session that may be missing.
Options(S) == {o \in SUBSET S : \A x, y \in o : x = y}

Positions == [session : Nat, index : Nat]

SessionRecords == [identity : Options(Peers), data : Options(Positions), isActive : BOOLEAN]

RequestRecords ==
    [kind : {"encrypt", "process", "decrypt"}, account : Accounts, peer : Peers,
     key : PreKeys \cup {0}, id : Nat, step : {"load", "identity", "store", "remove"},
     loaded : Options(Positions)]

BundleReads ==
    [account : Accounts, purpose : {"initialize", "publish"}, step : {"signed", "preKeys"},
     device : Options(Nat), signed : Options(Nat), torn : BOOLEAN]

\* Every variable holds a value of its type.
TypeOK ==
    /\ device \in [Accounts -> Options(Nat)]
    /\ signed \in [Accounts -> Options(Nat)]
    /\ preKeys \in [Accounts -> [PreKeys -> Nat]]
    /\ sessions \in [Accounts -> [Peers -> Options(SessionRecords)]]
    /\ account \in Accounts
    /\ mailbox \in Seq(RequestRecords) /\ running \subseteq RequestRecords
    /\ generating \subseteq Accounts /\ clearing \subseteq Accounts
    /\ reading \subseteq BundleReads
    /\ used \in [Accounts -> SUBSET PreKeys]
    /\ refreshing \in [Accounts -> SUBSET PreKeys]
    /\ fresh \in Nat \ {0} /\ requests \in Nat /\ tasks \in Nat
    /\ handedOut \in Seq(Accounts \X Peers \X Positions)
    /\ crashed \in BOOLEAN

\* However encrypting, decrypting and new sessions for the same device follow each
\* other, and wherever the process dies: no message key is used for two messages.
NoKeyTwice ==
    \A i, j \in DOMAIN handedOut : handedOut[i] = handedOut[j] => i = j

\* The bundle `get_local_device_bundle` returns when it has read the prekeys is whole:
\* device, signed prekey and all prekeys are of the same device, also when used keys
\* are replaced or a bundle is generated meanwhile. Only the cache that is cleared
\* between its statements can tear it.
BundleIsWhole ==
    \A r \in reading :
        r.step = "preKeys" /\ ~r.torn
            => r.device = r.signed /\ \A k \in PreKeys : preKeys[r.account][k] # 0

\* As long as the process has not died in between, a device that has a record has a
\* session: it can be encrypted for (`encrypt_message` fails as a whole otherwise).
RecordHasSession ==
    \A a \in Accounts, p \in Peers :
        sessions[a][p] # {} /\ ~crashed /\ (\A r \in running : r.account # a \/ r.peer # p)
            => LoadSession(a, p) # {}

\* A step changes the sessions of an account that is connected, is being cleared or
\* has a request under way.
OwnSessionsOnly ==
    \A a \in Accounts :
        sessions'[a] # sessions[a]
            => a = account \/ a \in clearing \/ \E r \in running : r.account = a

\* Whatever account is connected, a step changes the sessions of the account it was
\* asked to change and of no other one.
OtherAccountsUntouched == [][OwnSessionsOnly]_vars

-----------------------------------------------------------------------------
(* The inductive invariant behind these properties.                          *)

\* A request has gone through the steps of its kind.
RequestFits(r) ==
    /\ r.step \in {"identity", "store"} => r.loaded # {}
    /\ r.step = "identity" => r.kind # "encrypt"
    /\ r.step = "remove" => r.key \in PreKeys

\* The service works on one request at a time, from its start to its end.
OneAtATime ==
    /\ \A r, q \in running : r = q
    /\ \A r \in running : RequestFits(r)
    /\ \A i \in DOMAIN mailbox : mailbox[i].step = "load" /\ RequestFits(mailbox[i])

\* The ratchet at d has not been at that position before, nor behind it.
NotHandedOut(a, p, d) ==
    /\ d.session < fresh
    /\ \A i \in DOMAIN handedOut :
        handedOut[i][1] = a /\ handedOut[i][2] = p /\ handedOut[i][3].session = d.session
            => handedOut[i][3].index < d.index

\* Whatever may be encrypted with next is unused: what is stored, and what the
\* request under way has loaded or generated.
NextKeysUnused ==
    /\ \A i \in DOMAIN handedOut : handedOut[i][3].session < fresh
    /\ \A a \in Accounts, p \in Peers : \A d \in LoadSession(a, p) : NotHandedOut(a, p, d)
    /\ \A r \in running : r.step \in {"identity", "store"}
                            => \A d \in r.loaded : NotHandedOut(r.account, r.peer, d)

\* The device and the signed prekey come and go together, and with the prekeys.
KeysTogether ==
    \A a \in Accounts :
        device[a] = signed[a] /\ (device[a] # {} => \A k \in PreKeys : preKeys[a][k] # 0)

\* A bundle is generated where there is none, and what was read of one is what is
\* stored, unless the keys were cleared.
ReadsAgree ==
    /\ \A a \in generating : device[a] = {}
    /\ \A r \in reading : ~r.torn =>
        /\ r.device = device[r.account] /\ r.device # {}
        /\ r.step = "preKeys" => r.signed = signed[r.account]

\* A record without a session is the one whose session is stored next.
SessionFollows ==
    \A a \in Accounts, p \in Peers :
        sessions[a][p] # {} /\ ~crashed /\ LoadSession(a, p) = {}
            => \E r \in running : /\ r.account = a /\ r.peer = p
                                  /\ r.step = "store" /\ r.kind # "encrypt"

Inv ==
    /\ TypeOK
    /\ OneAtATime
    /\ NextKeysUnused
    /\ NoKeyTwice
    /\ KeysTogether
    /\ ReadsAgree
    /\ SessionFollows
=============================================================================
