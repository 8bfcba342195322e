--------------------------- MODULE KeyStoreProofs ---------------------------
(* Proofs about the key and session repositories and the Signal service, for  *)
(* any accounts, devices and prekeys and any number of requests: no message   *)
(* key is used twice, a bundle that was read is whole unless the cache was    *)
(* cleared meanwhile, a record has its session, and the sessions of other     *)
(* accounts are left alone.                                                   *)
EXTENDS KeyStore, TLAPS

-----------------------------------------------------------------------------
(* The repositories' operations                                              *)

\* A record that is there is the only one.
LEMMA TheRecord ==
    ASSUME TypeOK, NEW a \in Accounts, NEW p \in Peers, sessions[a][p] # {}
    PROVE  \E r \in SessionRecords :
             sessions[a][p] = {r} /\ r = CHOOSE x \in sessions[a][p] : TRUE
  <1> DEFINE r == CHOOSE x \in sessions[a][p] : TRUE
  <1>1. r \in sessions[a][p]
    OBVIOUS
  <1>2. sessions[a][p] \in Options(SessionRecords)
    BY DEF TypeOK
  <1>3. r \in SessionRecords /\ sessions[a][p] = {r}
    BY Zenon, <1>1, <1>2 DEF Options
  <1>4. QED BY Zenon, <1>3

\* A value is an option.
LEMMA Some == ASSUME NEW S, NEW x \in S PROVE {x} \in Options(S)
  BY Zenon DEF Options

\* So is its absence.
LEMMA None == ASSUME NEW S PROVE {} \in Options(S)
  BY Zenon DEF Options

\* What the record of p holds is its session.
LEMMA LoadsData ==
    ASSUME NEW a \in Accounts, NEW p \in Peers, NEW r, sessions[a][p] = {r}
    PROVE  LoadSession(a, p) = r.data
  BY Zenon DEF LoadSession

\* Without a record there is no session.
LEMMA LoadsNothing ==
    ASSUME NEW a \in Accounts, NEW p \in Peers, sessions[a][p] = {}
    PROVE  LoadSession(a, p) = {}
  BY Zenon DEF LoadSession

\* The step leaves r as the record of p.
Becomes(a, p, r) == sessions' = [sessions EXCEPT ![a][p] = {r}]

\* The record that upsert_session starts from.
LEMMA Upserted ==
    ASSUME TypeOK, NEW a \in Accounts, NEW p \in Peers, NEW field, NEW v,
           Upsert(a, p, field, v)
    PROVE  \E r \in SessionRecords :
             /\ LoadSession(a, p) = r.data
             /\ Becomes(a, p, [r EXCEPT ![field] = {v}])
  <1>1. CASE sessions[a][p] = {}
    <2>1. NewRecord \in SessionRecords
      BY Zenon, None DEF NewRecord, SessionRecords
    <2>2. LoadSession(a, p) = NewRecord.data
      BY Zenon, <1>1, LoadsNothing DEF NewRecord
    <2>3. QED BY Zenon, <1>1, <2>1, <2>2 DEF Upsert, Becomes
  <1>2. CASE sessions[a][p] # {}
    <2>1. PICK r \in SessionRecords :
            sessions[a][p] = {r} /\ r = CHOOSE x \in sessions[a][p] : TRUE
      BY Zenon, <1>2, TheRecord
    <2>2. LoadSession(a, p) = r.data
      BY <2>1, LoadsData
    <2>3. QED BY Zenon, <1>2, <2>1, <2>2 DEF Upsert, Becomes
  <1>3. QED BY Zenon, <1>1, <1>2

\* A step that changes one record only.
LEMMA OneRecord ==
    ASSUME TypeOK, NEW a \in Accounts, NEW p \in Peers, NEW r \in SessionRecords,
           Becomes(a, p, r)
    PROVE  /\ sessions' \in [Accounts -> [Peers -> Options(SessionRecords)]]
           /\ sessions'[a][p] = {r}
           /\ LoadSession(a, p)' = r.data
           /\ \A b \in Accounts, q \in Peers :
                a # b \/ p # q => /\ sessions'[b][q] = sessions[b][q]
                                  /\ LoadSession(b, q)' = LoadSession(b, q)
           /\ \A b \in Accounts : a # b => sessions'[b] = sessions[b]
  <1>0. {r} \in Options(SessionRecords)
    BY Zenon, Some
  <1>1. sessions \in [Accounts -> [Peers -> Options(SessionRecords)]]
    BY Zenon DEF TypeOK
  <1>2. sessions' \in [Accounts -> [Peers -> Options(SessionRecords)]]
    BY Zenon, <1>0, <1>1 DEF Becomes
  <1>3. sessions'[a][p] = {r}
    BY Zenon, <1>1 DEF Becomes
  <1>4. \A b \in Accounts, q \in Peers :
          a # b \/ p # q => sessions'[b][q] = sessions[b][q]
    BY Zenon, <1>1 DEF Becomes
  <1>5. \A b \in Accounts : a # b => sessions'[b] = sessions[b]
    BY Zenon, <1>1 DEF Becomes
  <1>6. LoadSession(a, p)' = r.data
    BY Zenon, <1>3 DEF LoadSession
  <1>7. \A b \in Accounts, q \in Peers :
          a # b \/ p # q => LoadSession(b, q)' = LoadSession(b, q)
    BY Zenon, <1>4 DEF LoadSession
  <1>8. QED BY Zenon, <1>2, <1>3, <1>4, <1>5, <1>6, <1>7

\* put_identity leaves the sessions alone.
LEMMA PutIdentity ==
    ASSUME TypeOK, NEW a \in Accounts, NEW p \in Peers,
           Upsert(a, p, "identity", p)
    PROVE  /\ sessions' \in [Accounts -> [Peers -> Options(SessionRecords)]]
           /\ \A b \in Accounts, q \in Peers : LoadSession(b, q)' = LoadSession(b, q)
           /\ \A b \in Accounts, q \in Peers :
                a # b \/ p # q => sessions'[b][q] = sessions[b][q]
           /\ \A b \in Accounts : a # b => sessions'[b] = sessions[b]
  <1>1. PICK r \in SessionRecords :
             /\ LoadSession(a, p) = r.data
             /\ Becomes(a, p, [r EXCEPT !["identity"] = {p}])
    BY Zenon, Upserted
  <1>2. [r EXCEPT !["identity"] = {p}] \in SessionRecords
    BY Zenon, Some DEF SessionRecords
  <1>3. [r EXCEPT !["identity"] = {p}].data = r.data
    BY Zenon DEF SessionRecords
  <1>4. PICK s \in SessionRecords :
          s.data = r.data /\ Becomes(a, p, s)
    BY Zenon, <1>1, <1>2, <1>3
  <1>5. QED BY <1>1, <1>4, OneRecord

\* put_session_data stores the session.
LEMMA PutSessionData ==
    ASSUME TypeOK, NEW a \in Accounts, NEW p \in Peers, NEW d \in Positions,
           Upsert(a, p, "data", d)
    PROVE  /\ sessions' \in [Accounts -> [Peers -> Options(SessionRecords)]]
           /\ LoadSession(a, p)' = {d}
           /\ \A b \in Accounts, q \in Peers :
                a # b \/ p # q => /\ sessions'[b][q] = sessions[b][q]
                                  /\ LoadSession(b, q)' = LoadSession(b, q)
           /\ \A b \in Accounts : a # b => sessions'[b] = sessions[b]
  <1>1. PICK r \in SessionRecords :
             Becomes(a, p, [r EXCEPT !["data"] = {d}])
    BY Zenon, Upserted
  <1>2. [r EXCEPT !["data"] = {d}] \in SessionRecords
    BY Zenon, Some DEF SessionRecords
  <1>3. [r EXCEPT !["data"] = {d}].data = {d}
    BY Zenon DEF SessionRecords
  <1>4. PICK s \in SessionRecords :
          s.data = {d} /\ Becomes(a, p, s)
    BY Zenon, <1>1, <1>2, <1>3
  <1>5. QED BY <1>1, <1>4, OneRecord

\* put_active_devices adds no record, and keeps the sessions of all.
LEMMA PutActive ==
    ASSUME TypeOK, NEW a \in Accounts, NEW devices \in SUBSET Peers,
           PutActiveDevices(a, devices)
    PROVE  /\ sessions' \in [Accounts -> [Peers -> Options(SessionRecords)]]
           /\ \A b \in Accounts, q \in Peers :
                /\ LoadSession(b, q)' = LoadSession(b, q)
                /\ sessions'[b][q] # {} => sessions[b][q] # {}
           /\ \A b \in Accounts : a # b => sessions'[b] = sessions[b]
  <1> DEFINE Changed(q) ==
               {[r EXCEPT !.isActive = q \in devices] : r \in sessions[a][q]}
  <1>0. sessions \in [Accounts -> [Peers -> Options(SessionRecords)]]
    BY Zenon DEF TypeOK
  <1>1. sessions' = [sessions EXCEPT ![a] = [q \in Peers |-> Changed(q)]]
    BY Zenon, <1>0 DEF PutActiveDevices
  <1>2. ASSUME NEW q \in Peers
        PROVE  /\ Changed(q) \in Options(SessionRecords)
               /\ UNION {r.data : r \in Changed(q)} = LoadSession(a, q)
               /\ Changed(q) # {} => sessions[a][q] # {}
    <2>1. CASE sessions[a][q] = {}
      BY Zenon, <2>1, None DEF LoadSession
    <2>2. CASE sessions[a][q] # {}
      <3>1. PICK r \in SessionRecords : sessions[a][q] = {r}
        BY <2>2, TheRecord
      <3> DEFINE s == [r EXCEPT !.isActive = q \in devices]
      <3>2. s \in SessionRecords /\ s.data = r.data
        <4>1. CASE q \in devices
          <5>1. (q \in devices) = TRUE
            BY Zenon, <4>1
          <5>2. QED BY Zenon, <5>1 DEF SessionRecords
        <4>2. CASE q \notin devices
          <5>1. (q \in devices) = FALSE
            BY <4>2
          <5>2. QED BY Zenon, <5>1 DEF SessionRecords
        <4>3. QED BY Zenon, <4>1, <4>2
      <3>3. Changed(q) = {s}
        BY Zenon, <3>1
      <3> HIDE DEF s
      <3>4. Changed(q) \in Options(SessionRecords)
        BY Zenon, <3>2, <3>3, Some
      <3>5. UNION {x.data : x \in Changed(q)} = s.data
        BY Zenon, <3>3
      <3>6. QED BY <2>2, <3>1, <3>2, <3>4, <3>5, LoadsData
    <2>3. QED BY Zenon, <2>1, <2>2
  <1> HIDE DEF Changed
  <1>3. \A q \in Peers : sessions'[a][q] = Changed(q)
    BY Zenon, <1>0, <1>1
  <1>4. \A b \in Accounts : a # b => sessions'[b] = sessions[b]
    BY Zenon, <1>0, <1>1
  <1>5. sessions' \in [Accounts -> [Peers -> Options(SessionRecords)]]
    BY Zenon, <1>0, <1>1, <1>2
  <1>6. \A q \in Peers : LoadSession(a, q)' = LoadSession(a, q)
    BY Zenon, <1>2, <1>3 DEF LoadSession
  <1>7. \A b \in Accounts, q \in Peers : a # b => LoadSession(b, q)' = LoadSession(b, q)
    BY Zenon, <1>4 DEF LoadSession
  <1>8. QED BY Zenon, <1>2, <1>3, <1>4, <1>5, <1>6, <1>7

\* clear_cache deletes the records of the account.
LEMMA Cleared ==
    ASSUME TypeOK, NEW a \in Accounts, ClearSessions(a)
    PROVE  /\ sessions' \in [Accounts -> [Peers -> Options(SessionRecords)]]
           /\ \A q \in Peers : sessions'[a][q] = {} /\ LoadSession(a, q)' = {}
           /\ \A b \in Accounts : a # b => sessions'[b] = sessions[b]
  <1>0. sessions \in [Accounts -> [Peers -> Options(SessionRecords)]]
    BY Zenon DEF TypeOK
  <1>1. NoSessions \in [Peers -> Options(SessionRecords)]
    BY Zenon, None DEF NoSessions
  <1>2. \A q \in Peers : sessions'[a][q] = {}
    BY Zenon, <1>0 DEF ClearSessions, NoSessions
  <1>3. \A q \in Peers : LoadSession(a, q)' = {}
    BY Zenon, <1>2 DEF LoadSession
  <1>4. QED BY Zenon, <1>0, <1>1, <1>2, <1>3 DEF ClearSessions

-----------------------------------------------------------------------------
(* Types                                                                     *)

\* A loaded session is an option.
LEMMA LoadedTypes ==
    ASSUME TypeOK, NEW a \in Accounts, NEW p \in Peers
    PROVE  LoadSession(a, p) \in Options(Positions)
  <1>1. CASE sessions[a][p] = {}
    BY Zenon, <1>1, LoadsNothing, None
  <1>2. CASE sessions[a][p] # {}
    <2>1. PICK r \in SessionRecords : sessions[a][p] = {r}
      BY <1>2, TheRecord
    <2>2. r.data \in Options(Positions)
      BY Zenon DEF SessionRecords
    <2>3. QED BY <2>1, <2>2, LoadsData
  <1>3. QED BY Zenon, <1>1, <1>2

\* A new session is at its first position.
LEMMA NewSession ==
    ASSUME TypeOK
    PROVE  /\ Data(fresh, 0) \in Positions
           /\ {Data(fresh, 0)} \in Options(Positions)
           /\ Data(fresh, 0).session = fresh /\ Data(fresh, 0).index = 0
  <1>1. Data(fresh, 0) \in Positions
    BY Zenon DEF TypeOK, Data, Positions
  <1>2. QED BY Zenon, <1>1, Some DEF Data

\* A request that goes on.
LEMMA ProceedTypes ==
    ASSUME NEW r \in RequestRecords, running \subseteq RequestRecords,
           NEW step \in {"load", "identity", "store", "remove"},
           NEW loaded \in Options(Positions), Proceed(r, step, loaded)
    PROVE  \E s \in RequestRecords :
             /\ running' = (running \ {r}) \cup {s}
             /\ s.account = r.account /\ s.peer = r.peer /\ s.kind = r.kind /\ s.key = r.key
             /\ s.step = step /\ s.loaded = loaded
  <1> DEFINE s == [r EXCEPT !.step = step, !.loaded = loaded]
  <1>1. /\ s \in RequestRecords
        /\ s.account = r.account /\ s.peer = r.peer /\ s.kind = r.kind /\ s.key = r.key
        /\ s.step = step /\ s.loaded = loaded
    BY Zenon DEF RequestRecords
  <1>2. running' = (running \ {r}) \cup {s}
    BY Zenon DEF Proceed
  <1> HIDE DEF s
  <1>3. QED BY Zenon, <1>1, <1>2

\* The request under way ends or goes on to its next step.
LEMMA LoadOutcome ==
    ASSUME TypeOK, NEW r \in running, Load(r)
    PROVE  /\ r \in RequestRecords /\ UNCHANGED <<sessions, used, handedOut>>
           /\ \/ running' = running \ {r} /\ fresh' = fresh
              \/ \E s \in RequestRecords :
                   /\ running' = (running \ {r}) \cup {s}
                   /\ s.account = r.account /\ s.peer = r.peer /\ s.kind = r.kind /\ s.key = r.key
                   /\ \/ /\ r.kind = "encrypt" /\ s.step = "store" /\ fresh' = fresh
                         /\ s.loaded = LoadSession(r.account, r.peer) /\ s.loaded # {}
                      \/ /\ r.kind # "encrypt" /\ s.step = "identity" /\ fresh' = fresh
                         /\ s.loaded = LoadSession(r.account, r.peer) /\ s.loaded # {}
                      \/ /\ r.kind # "encrypt" /\ s.step = "identity"
                         /\ s.loaded = {Data(fresh, 0)} /\ fresh' = fresh + 1
  <1>0. r \in RequestRecords /\ running \subseteq RequestRecords
    BY Zenon DEF TypeOK
  <1>1. /\ r.account \in Accounts /\ r.peer \in Peers
        /\ r.kind \in {"encrypt", "process", "decrypt"}
    BY Zenon, <1>0 DEF RequestRecords
  <1>2. LoadSession(r.account, r.peer) \in Options(Positions)
    BY Zenon, <1>1, LoadedTypes
  <1>3. {Data(fresh, 0)} \in Options(Positions) /\ fresh \in Nat
    BY Zenon, NewSession DEF TypeOK
  <1>4. UNCHANGED <<sessions, used, handedOut>>
    BY Zenon DEF Load
  <1>5. CASE End(r) /\ UNCHANGED fresh
    BY Zenon, <1>0, <1>4, <1>5 DEF End
  <1>6. CASE /\ r.kind = "process" \/ r.kind = "decrypt"
             /\ Proceed(r, "identity", {Data(fresh, 0)}) /\ fresh' = fresh + 1
    <2>1. PICK s \in RequestRecords :
            /\ running' = (running \ {r}) \cup {s}
            /\ s.account = r.account /\ s.peer = r.peer /\ s.kind = r.kind /\ s.key = r.key
            /\ s.step = "identity" /\ s.loaded = {Data(fresh, 0)}
      BY <1>0, <1>3, <1>6, ProceedTypes
    <2>2. r.kind # "encrypt"
      BY Zenon, <1>6
    <2>3. QED BY Zenon, <1>0, <1>4, <1>6, <2>1, <2>2
  <1>7. CASE /\ MaySucceed(r) /\ r.kind = "decrypt" /\ r.key = 0
             /\ Proceed(r, "identity", LoadSession(r.account, r.peer)) /\ fresh' = fresh
    <2>1. LoadSession(r.account, r.peer) # {}
      BY Zenon, <1>7 DEF MaySucceed
    <2>2. PICK s \in RequestRecords :
            /\ running' = (running \ {r}) \cup {s}
            /\ s.account = r.account /\ s.peer = r.peer /\ s.kind = r.kind /\ s.key = r.key
            /\ s.step = "identity" /\ s.loaded = LoadSession(r.account, r.peer)
      BY <1>0, <1>2, <1>7, ProceedTypes
    <2>3. r.kind # "encrypt"
      BY Zenon, <1>7
    <2>4. QED BY Zenon, <1>0, <1>4, <1>7, <2>1, <2>2, <2>3
  <1>8. CASE /\ MaySucceed(r) /\ r.kind = "encrypt"
             /\ Proceed(r, "store", LoadSession(r.account, r.peer)) /\ fresh' = fresh
    <2>1. LoadSession(r.account, r.peer) # {}
      BY Zenon, <1>8 DEF MaySucceed
    <2>2. PICK s \in RequestRecords :
            /\ running' = (running \ {r}) \cup {s}
            /\ s.account = r.account /\ s.peer = r.peer /\ s.kind = r.kind /\ s.key = r.key
            /\ s.step = "store" /\ s.loaded = LoadSession(r.account, r.peer)
      BY <1>0, <1>2, <1>8, ProceedTypes
    <2>3. QED BY Zenon, <1>0, <1>4, <1>8, <2>1, <2>2
  <1>9. QED BY Zenon, <1>5, <1>6, <1>7, <1>8 DEF Load

\* save_identity: the request goes on with what it has loaded.
LEMMA IdentityOutcome ==
    ASSUME TypeOK, NEW r \in running, SaveIdentity(r)
    PROVE  /\ r \in RequestRecords /\ r.account \in Accounts /\ r.peer \in Peers
           /\ UNCHANGED <<used, fresh, handedOut>>
           /\ Upsert(r.account, r.peer, "identity", r.peer)
           /\ \E s \in RequestRecords :
                /\ running' = (running \ {r}) \cup {s}
                /\ s.account = r.account /\ s.peer = r.peer /\ s.kind = r.kind /\ s.key = r.key
                /\ s.step = "store" /\ s.loaded = r.loaded
  <1>0. r \in RequestRecords /\ running \subseteq RequestRecords
    BY DEF TypeOK
  <1>1. r.account \in Accounts /\ r.peer \in Peers /\ r.loaded \in Options(Positions)
    BY Zenon, <1>0 DEF RequestRecords
  <1>2. Proceed(r, "store", r.loaded)
    BY Zenon DEF SaveIdentity
  <1>3. QED BY <1>0, <1>1, <1>2, ProceedTypes DEF SaveIdentity

\* store_session: what an encrypted message uses, and what is stored.
LEMMA StoreOutcome ==
    ASSUME TypeOK, NEW r \in running, StoreSession(r), r.loaded # {}
    PROVE  \E d \in Positions :
             /\ r \in RequestRecords /\ r.account \in Accounts /\ r.peer \in Peers
             /\ r.loaded = {d} /\ UNCHANGED <<used, fresh>>
             /\ \/ /\ r.kind = "encrypt"
                   /\ Upsert(r.account, r.peer, "data", Data(d.session, d.index + 1))
                   /\ handedOut' = Append(handedOut, <<r.account, r.peer, d>>)
                \/ /\ r.kind # "encrypt"
                   /\ Upsert(r.account, r.peer, "data", d)
                   /\ UNCHANGED handedOut
             /\ \/ running' = running \ {r}
                \/ \E s \in RequestRecords :
                     /\ running' = (running \ {r}) \cup {s}
                     /\ r.kind = "decrypt" /\ s.kind = "decrypt" /\ s.key \in PreKeys
                     /\ s.step = "remove"
  <1>0. r \in RequestRecords /\ running \subseteq RequestRecords
    BY Zenon DEF TypeOK
  <1>1. r.account \in Accounts /\ r.peer \in Peers /\ r.loaded \in Options(Positions)
    BY Zenon, <1>0 DEF RequestRecords
  <1> DEFINE d == CHOOSE x \in r.loaded : TRUE
  <1>2. d \in r.loaded
    OBVIOUS
  <1>3. d \in Positions /\ r.loaded = {d}
    BY Zenon, <1>1, <1>2 DEF Options
  <1>4. /\ UNCHANGED <<used, fresh>>
        /\ \/ /\ r.kind = "encrypt"
              /\ Upsert(r.account, r.peer, "data", Data(d.session, d.index + 1))
              /\ handedOut' = Append(handedOut, <<r.account, r.peer, d>>)
           \/ /\ r.kind # "encrypt"
              /\ Upsert(r.account, r.peer, "data", d)
              /\ UNCHANGED handedOut
    BY Zenon DEF StoreSession
  <1>5. \/ running' = running \ {r}
        \/ r.kind = "decrypt" /\ r.key # 0 /\ Proceed(r, "remove", r.loaded)
    BY Zenon DEF StoreSession, End
  <1> HIDE DEF d
  <1>6. ASSUME Proceed(r, "remove", r.loaded), r.key # 0
        PROVE  \E s \in RequestRecords :
                 /\ running' = (running \ {r}) \cup {s}
                 /\ s.kind = r.kind /\ s.key \in PreKeys /\ s.step = "remove"
    <2>1. r.key \in PreKeys
      BY Zenon, <1>0, <1>6 DEF RequestRecords
    <2>2. QED BY <1>0, <1>1, <1>6, <2>1, ProceedTypes
  <1>7. QED BY Zenon, <1>0, <1>1, <1>3, <1>4, <1>5, <1>6

\* A read of the bundle starts with the device.
LEMMA ReadingTypes ==
    ASSUME TypeOK, NEW a \in Accounts, NEW purpose \in {"initialize", "publish"}
    PROVE  /\ Reading(a, purpose) \in BundleReads
           /\ Reading(a, purpose).account = a /\ Reading(a, purpose).device = device[a]
           /\ Reading(a, purpose).step = "signed"
  BY Zenon, None DEF TypeOK, Reading, BundleReads

\* It goes on with the signed prekey.
LEMMA ReadOn ==
    ASSUME TypeOK, NEW r \in reading
    PROVE  \E s \in BundleReads :
             /\ s = [r EXCEPT !.step = "preKeys", !.signed = signed[r.account]]
             /\ s.account = r.account /\ s.device = r.device /\ s.torn = r.torn
             /\ s.step = "preKeys" /\ s.signed = signed[r.account]
  <1>1. r \in BundleReads /\ signed[r.account] \in Options(Nat)
    BY Zenon DEF TypeOK, BundleReads
  <1>2. [r EXCEPT !.step = "preKeys", !.signed = signed[r.account]] \in BundleReads
    BY Zenon, <1>1 DEF BundleReads
  <1>3. QED BY Zenon, <1>1, <1>2 DEF BundleReads

\* Clearing the keys tears the reads of the account.
LEMMA TornReads ==
    ASSUME TypeOK, NEW s \in {IF r.account = account THEN [r EXCEPT !.torn = TRUE] ELSE r : r \in reading}
    PROVE  s \in BundleReads /\ (s.torn = TRUE \/ (s \in reading /\ s.account # account))
  <1>1. PICK r \in reading : s = IF r.account = account THEN [r EXCEPT !.torn = TRUE] ELSE r
    BY Zenon
  <1>2. r \in BundleReads
    BY Zenon DEF TypeOK
  <1>3. QED BY Zenon, <1>1, <1>2 DEF BundleReads

\* Every step keeps the types.
LEMMA TypeStep ==
    ASSUME TypeOK, OneAtATime, [Next]_vars
    PROVE  TypeOK'
  <1>0. /\ running \subseteq RequestRecords
        /\ \A r \in running : RequestFits(r)
    BY Zenon DEF TypeOK, OneAtATime
  <1>1. CASE Initialize
    <2>1. reading' \subseteq BundleReads /\ generating' \subseteq Accounts
      <3>1. account \in Accounts /\ Reading(account, "initialize") \in BundleReads
        BY Zenon, ReadingTypes DEF TypeOK
      <3>2. QED BY Zenon, <1>1, <3>1 DEF Initialize, TypeOK
    <2>2. tasks' \in Nat
      BY <1>1 DEF Initialize, TypeOK
    <2>3. QED BY Zenon, <1>1, <2>1, <2>2 DEF Initialize, TypeOK
  <1>17. CASE ReadSignedPreKey \/ ReadPreKeys
    <2>1. PICK r \in reading :
            /\ \/ reading' = reading \ {r}
               \/ reading' = (reading \ {r}) \cup
                       {[r EXCEPT !.step = "preKeys", !.signed = signed[r.account]]}
            /\ generating' \subseteq generating \cup {r.account}
      BY Zenon, <1>17 DEF ReadSignedPreKey, ReadPreKeys
    <2>0. r.account \in Accounts /\ reading \subseteq BundleReads /\ generating \subseteq Accounts
      BY Zenon DEF TypeOK, BundleReads
    <2>2. reading' \subseteq BundleReads
      <3>1. [r EXCEPT !.step = "preKeys", !.signed = signed[r.account]] \in BundleReads
        BY Zenon, ReadOn
      <3>2. QED BY Zenon, <2>0, <2>1, <3>1
    <2>3. generating' \subseteq Accounts
      BY Zenon, <2>0, <2>1
    <2>4. UNCHANGED <<device, signed, preKeys, sessions, account, mailbox, running, clearing,
                      used, refreshing, fresh, requests, tasks, handedOut, crashed>>
      BY Zenon, <1>17 DEF ReadSignedPreKey, ReadPreKeys
    <2>5. QED BY Zenon, <2>2, <2>3, <2>4 DEF TypeOK
  <1>2. CASE StoreBundle
    <2>1. PICK a \in generating :
            /\ PutLocalEncryptionBundle(a) /\ generating' = generating \ {a}
            /\ fresh' = fresh + 1
            /\ UNCHANGED <<sessions, account, mailbox, running, clearing, reading, used,
                           refreshing, requests, tasks, handedOut, crashed>>
      BY Zenon, <1>2 DEF StoreBundle
    <2>2. {fresh} \in Options(Nat)
      BY Zenon, Some DEF TypeOK
    <2>3. /\ device' \in [Accounts -> Options(Nat)]
          /\ signed' \in [Accounts -> Options(Nat)]
      BY Zenon, <2>1, <2>2 DEF TypeOK, PutLocalEncryptionBundle
    <2>4. preKeys' \in [Accounts -> [PreKeys -> Nat]]
      BY Zenon, <2>1 DEF TypeOK, PutLocalEncryptionBundle
    <2>5. QED BY <2>1, <2>3, <2>4 DEF TypeOK
  <1>3. CASE FinalizeDecryption
    BY <1>3 DEF FinalizeDecryption, TypeOK
  <1>4. CASE RefreshPreKeys
    <2>1. PICK a \in Accounts :
            /\ PutPreKeys(a, refreshing[a])
            /\ refreshing' = [refreshing EXCEPT ![a] = {}]
            /\ fresh' = fresh + 1
            /\ reading' = IF device[a] = {} THEN reading ELSE reading \cup {Reading(a, "publish")}
            /\ UNCHANGED <<device, signed, sessions, account, mailbox, running, generating,
                           clearing, used, requests, tasks, handedOut, crashed>>
      BY Zenon, <1>4 DEF RefreshPreKeys
    <2>2. preKeys' \in [Accounts -> [PreKeys -> Nat]]
      BY Zenon, <2>1 DEF TypeOK, PutPreKeys
    <2>3. refreshing' \in [Accounts -> SUBSET PreKeys]
      BY Zenon, <2>1 DEF TypeOK
    <2>4. reading' \subseteq BundleReads
      BY Zenon, <2>1, ReadingTypes DEF TypeOK
    <2>5. fresh' \in Nat \ {0}
      BY <2>1 DEF TypeOK
    <2>6. QED BY Zenon, <2>1, <2>2, <2>3, <2>4, <2>5 DEF TypeOK
  <1>5. CASE ClearCache
    <2>1. {} \in Options(Nat)
      BY Zenon, None
    <2>2. /\ device' \in [Accounts -> Options(Nat)]
          /\ signed' \in [Accounts -> Options(Nat)]
          /\ preKeys' \in [Accounts -> [PreKeys -> Nat]]
      BY Zenon, <1>5, <2>1 DEF ClearCache, ClearKeys, NoKeys, TypeOK
    <2>3. used' \in [Accounts -> SUBSET PreKeys]
      BY Zenon, <1>5 DEF ClearCache, TypeOK
    <2>4. reading' \subseteq BundleReads
      BY Zenon, <1>5, TornReads DEF ClearCache
    <2>5. tasks' \in Nat /\ clearing' \subseteq Accounts
      BY <1>5 DEF ClearCache, TypeOK
    <2>6. QED BY Zenon, <1>5, <2>2, <2>3, <2>4, <2>5 DEF ClearCache, TypeOK
  <1>6. CASE FinishClearing
    <2>1. PICK a \in clearing :
            /\ ClearSessions(a) /\ clearing' = clearing \ {a}
            /\ UNCHANGED <<device, signed, preKeys, account, mailbox, running, generating,
                           reading, used, refreshing, fresh, requests, tasks, handedOut, crashed>>
      BY Zenon, <1>6 DEF FinishClearing
    <2>2. a \in Accounts
      BY Zenon DEF TypeOK
    <2>3. sessions' \in [Accounts -> [Peers -> Options(SessionRecords)]]
      BY Zenon, <2>1, <2>2, Cleared
    <2>4. QED BY Zenon, <2>1, <2>3 DEF TypeOK
  <1>7. CASE SwitchAccount
    BY <1>7 DEF SwitchAccount, TypeOK
  <1>8. CASE Crash
    BY <1>8 DEF Crash, TypeOK
  <1>9. ASSUME NEW kind \in {"encrypt", "process", "decrypt"}, NEW p \in Peers,
               NEW k \in PreKeys \cup {0}, Ask(Request(kind, p, k))
        PROVE  mailbox' \in Seq(RequestRecords) /\ requests' \in Nat
    <2>1. Request(kind, p, k) \in RequestRecords
      BY Zenon, None DEF TypeOK, Request, RequestRecords
    <2>2. QED BY <1>9, <2>1 DEF Ask, TypeOK
  <1>10. CASE StartSession
    <2>1. PICK p \in Peers, devices \in SUBSET Peers :
            /\ Ask(Request("process", p, 0)) /\ PutActiveDevices(account, devices)
            /\ UNCHANGED <<device, signed, preKeys, account, running, generating, clearing,
                           reading, used, refreshing, fresh, tasks, handedOut, crashed>>
      BY Zenon, <1>10 DEF StartSession
    <2>2. account \in Accounts
      BY Zenon DEF TypeOK
    <2>3. sessions' \in [Accounts -> [Peers -> Options(SessionRecords)]]
      BY Zenon, <2>1, <2>2, PutActive
    <2>4. mailbox' \in Seq(RequestRecords) /\ requests' \in Nat
      BY Zenon, <1>9, <2>1
    <2>5. QED BY Zenon, <2>1, <2>3, <2>4 DEF TypeOK
  <1>11. CASE EncryptKey
    <2>1. PICK p \in Peers :
            /\ Ask(Request("encrypt", p, 0))
            /\ UNCHANGED <<device, signed, preKeys, sessions, account, running, generating,
                           clearing, reading, used, refreshing, fresh, tasks, handedOut, crashed>>
      BY Zenon, <1>11 DEF EncryptKey, ActiveDevices
    <2>2. mailbox' \in Seq(RequestRecords) /\ requests' \in Nat
      BY Zenon, <1>9, <2>1
    <2>3. QED BY Zenon, <2>1, <2>2 DEF TypeOK
  <1>12. CASE DecryptKey
    <2>1. PICK p \in Peers, k \in PreKeys \cup {0} :
            /\ Ask(Request("decrypt", p, k))
            /\ UNCHANGED <<device, signed, preKeys, sessions, account, running, generating,
                           clearing, reading, used, refreshing, fresh, tasks, handedOut, crashed>>
      BY Zenon, <1>12 DEF DecryptKey
    <2>2. mailbox' \in Seq(RequestRecords) /\ requests' \in Nat
      BY Zenon, <1>9, <2>1
    <2>3. QED BY Zenon, <2>1, <2>2 DEF TypeOK
  <1>13. CASE HandleMessage
    BY <1>13 DEF HandleMessage, TypeOK
  <1>14. ASSUME NEW r \in running,
                Load(r) \/ SaveIdentity(r) \/ StoreSession(r) \/ RemovePreKey(r),
                UNCHANGED <<device, signed, preKeys, account, mailbox, generating, clearing,
                            reading, refreshing, requests, tasks, crashed>>
         PROVE  TypeOK'
    <2>1. CASE Load(r)
      <3>1. /\ UNCHANGED <<sessions, used, handedOut>> /\ running' \subseteq RequestRecords
            /\ fresh' \in {fresh, fresh + 1}
        BY Zenon, <1>0, <2>1, LoadOutcome
      <3>2. QED BY <1>14, <3>1 DEF TypeOK
    <2>2. CASE SaveIdentity(r)
      <3>1. /\ UNCHANGED <<used, fresh, handedOut>> /\ running' \subseteq RequestRecords
            /\ r.account \in Accounts /\ r.peer \in Peers
            /\ Upsert(r.account, r.peer, "identity", r.peer)
        BY Zenon, <1>0, <2>2, IdentityOutcome
      <3>2. sessions' \in [Accounts -> [Peers -> Options(SessionRecords)]]
        BY Zenon, <3>1, PutIdentity
      <3>3. QED BY Zenon, <1>14, <3>1, <3>2 DEF TypeOK
    <2>3. CASE StoreSession(r)
      <3>1. r.loaded # {}
        BY Zenon, <1>0, <2>3 DEF StoreSession, RequestFits
      <3>2. PICK d \in Positions :
             /\ r.account \in Accounts /\ r.peer \in Peers
             /\ UNCHANGED <<used, fresh>> /\ running' \subseteq RequestRecords
             /\ \/ /\ Upsert(r.account, r.peer, "data", Data(d.session, d.index + 1))
                   /\ handedOut' = Append(handedOut, <<r.account, r.peer, d>>)
                \/ /\ Upsert(r.account, r.peer, "data", d)
                   /\ UNCHANGED handedOut
        BY Zenon, <1>0, <2>3, <3>1, StoreOutcome
      <3>3. Data(d.session, d.index + 1) \in Positions
        BY DEF Data, Positions
      <3>4. sessions' \in [Accounts -> [Peers -> Options(SessionRecords)]]
        BY Zenon, <3>2, <3>3, PutSessionData
      <3>5. handedOut' \in Seq(Accounts \X Peers \X Positions)
        <4> DEFINE Uses == Accounts \X Peers \X Positions
                   use == <<r.account, r.peer, d>>
        <4>1. use \in Uses
          BY Zenon, <3>2
        <4>2. handedOut \in Seq(Uses)
          BY Zenon DEF TypeOK
        <4>3. handedOut' = Append(handedOut, use) \/ UNCHANGED handedOut
          BY Zenon, <3>2
        <4> HIDE DEF Uses, use
        <4>4. handedOut' \in Seq(Uses)
          BY <4>1, <4>2, <4>3
        <4>5. QED BY Zenon, <4>4 DEF Uses
      <3>6. QED BY Zenon, <1>14, <3>2, <3>4, <3>5 DEF TypeOK
    <2>4. CASE RemovePreKey(r)
      <3>1. r.account \in Accounts /\ r.key \in PreKeys
        BY Zenon, <1>0, <2>4 DEF RemovePreKey, RequestRecords, RequestFits
      <3>2. used' \in [Accounts -> SUBSET PreKeys]
        BY Zenon, <2>4, <3>1 DEF RemovePreKey, TypeOK
      <3>3. QED BY Zenon, <1>14, <2>4, <3>2 DEF RemovePreKey, End, TypeOK
    <2>5. QED BY Zenon, <1>14, <2>1, <2>2, <2>3, <2>4
  <1>15. CASE UNCHANGED vars
    BY Zenon, <1>15 DEF vars, TypeOK
  <1>16. QED
    BY Zenon, <1>1, <1>2, <1>3, <1>4, <1>5, <1>6, <1>7, <1>8, <1>10, <1>11, <1>12, <1>13, <1>14,
       <1>15, <1>17 DEF Next, Work

-----------------------------------------------------------------------------
(* The service                                                               *)

\* The service takes up one request after the other.
LEMMA OneAtATimeStep ==
    ASSUME TypeOK, OneAtATime, [Next]_vars
    PROVE  OneAtATime'
  <1>1. CASE UNCHANGED <<mailbox, running>>
    BY Zenon, <1>1 DEF OneAtATime
  <1>2. CASE Crash
    BY <1>2 DEF Crash, OneAtATime
  <1>3. ASSUME NEW kind, NEW p, NEW k, Ask(Request(kind, p, k)), UNCHANGED running
        PROVE  OneAtATime'
    <2>1. /\ Request(kind, p, k).step = "load"
          /\ RequestFits(Request(kind, p, k))
      BY Zenon, <1>3 DEF Request, RequestFits
    <2>2. mailbox' = Append(mailbox, Request(kind, p, k)) /\ mailbox \in Seq(RequestRecords)
      BY Zenon, <1>3 DEF Ask, TypeOK
    <2>3. \A i \in DOMAIN mailbox' :
            mailbox'[i] = Request(kind, p, k) \/ (i \in DOMAIN mailbox /\ mailbox'[i] = mailbox[i])
      BY <2>2
    <2>4. QED BY Zenon, <1>3, <2>1, <2>3 DEF OneAtATime
  <1>4. CASE StartSession \/ EncryptKey \/ DecryptKey
    BY Zenon, <1>3, <1>4 DEF StartSession, EncryptKey, DecryptKey
  <1>5. CASE HandleMessage
    <2>1. /\ running' = {Head(mailbox)} /\ mailbox' = Tail(mailbox)
          /\ mailbox # <<>> /\ mailbox \in Seq(RequestRecords)
      BY Zenon, <1>5 DEF HandleMessage, MayRun, TypeOK
    <2>2. RequestFits(Head(mailbox))
      BY <2>1 DEF OneAtATime
    <2>3. \A i \in DOMAIN mailbox' : i + 1 \in DOMAIN mailbox /\ mailbox'[i] = mailbox[i + 1]
      BY <2>1
    <2>4. QED BY Zenon, <2>1, <2>2, <2>3 DEF OneAtATime
  <1>6. ASSUME NEW r \in running, UNCHANGED mailbox,
               Load(r) \/ SaveIdentity(r) \/ StoreSession(r) \/ RemovePreKey(r)
        PROVE  OneAtATime'
    <2>0. running = {r} /\ RequestFits(r)
      BY Zenon DEF OneAtATime
    <2>1. CASE running' = running \ {r}
      BY Zenon, <1>6, <2>0, <2>1 DEF OneAtATime
    <2>2. ASSUME NEW s \in RequestRecords, running' = (running \ {r}) \cup {s}, RequestFits(s)
          PROVE  OneAtATime'
      <3>1. running' = {s}
        BY Zenon, <2>0, <2>2
      <3>2. QED BY Zenon, <1>6, <2>2, <3>1 DEF OneAtATime
    <2>3. CASE Load(r)
      BY Zenon, <2>0, <2>1, <2>2, <2>3, LoadOutcome DEF RequestFits
    <2>4. CASE SaveIdentity(r)
      <3>1. r.step = "identity"
        BY Zenon, <2>4 DEF SaveIdentity
      <3>2. QED BY Zenon, <2>0, <2>2, <2>4, <3>1, IdentityOutcome DEF RequestFits
    <2>5. CASE StoreSession(r)
      <3>1. r.loaded # {}
        BY Zenon, <2>0, <2>5 DEF StoreSession, RequestFits
      <3>2. QED BY Zenon, <2>0, <2>1, <2>2, <2>5, <3>1, StoreOutcome DEF RequestFits
    <2>6. CASE RemovePreKey(r)
      BY Zenon, <2>1, <2>6 DEF RemovePreKey, End
    <2>7. QED BY Zenon, <1>6, <2>3, <2>4, <2>5, <2>6
  <1>7. CASE Work
    BY Zenon, <1>6, <1>7 DEF Work
  <1>8. Initialize \/ ReadSignedPreKey \/ ReadPreKeys \/ StoreBundle \/ FinalizeDecryption \/ RefreshPreKeys \/ ClearCache
          \/ FinishClearing \/ SwitchAccount \/ UNCHANGED vars => UNCHANGED <<mailbox, running>>
    BY Zenon DEF Initialize, ReadSignedPreKey, ReadPreKeys, StoreBundle, FinalizeDecryption, RefreshPreKeys, ClearCache,
           FinishClearing, SwitchAccount, vars
  <1>9. QED BY Zenon, <1>1, <1>2, <1>4, <1>5, <1>7, <1>8 DEF Next

-----------------------------------------------------------------------------
(* Message keys                                                              *)

\* What is stored, and what the request has loaded or generated, are positions.
LEMMA LoadedPositions ==
    ASSUME TypeOK
    PROVE  /\ \A a \in Accounts, p \in Peers : LoadSession(a, p) \subseteq Positions
           /\ \A r \in running : r.loaded \subseteq Positions
           /\ \A i \in DOMAIN handedOut : handedOut[i] \in Accounts \X Peers \X Positions
  <1>1. \A a \in Accounts, p \in Peers : LoadSession(a, p) \subseteq Positions
    BY Zenon, LoadedTypes DEF Options
  <1>2. \A r \in running : r.loaded \in Options(Positions)
    BY Zenon DEF TypeOK, RequestRecords
  <1>3. \A r \in running : r.loaded \subseteq Positions
    BY Zenon, <1>2 DEF Options
  <1>4. \A i \in DOMAIN handedOut : handedOut[i] \in Accounts \X Peers \X Positions
    BY DEF TypeOK
  <1>5. QED BY Zenon, <1>1, <1>3, <1>4

\* A position stays unused until its key is handed out.
LEMMA StaysUnused ==
    ASSUME NEW a, NEW p, NEW d \in Positions, NotHandedOut(a, p, d),
           handedOut' = handedOut, fresh \in Nat, fresh' \in {fresh, fresh + 1}
    PROVE  NotHandedOut(a, p, d)'
  <1>1. d.session \in Nat
    BY Zenon DEF Positions
  <1>2. QED BY <1>1 DEF NotHandedOut

\* Steps that hand out nothing and store no new position.
LEMMA KeysFrame ==
    ASSUME TypeOK, NextKeysUnused, handedOut' = handedOut, fresh' \in {fresh, fresh + 1},
           \A a \in Accounts, p \in Peers : LoadSession(a, p)' \subseteq LoadSession(a, p),
           \A s \in running' : s.step \in {"identity", "store"}
             => \A d \in s.loaded : NotHandedOut(s.account, s.peer, d)'
    PROVE  NextKeysUnused'
  <1>0. fresh \in Nat
    BY Zenon DEF TypeOK
  <1>1. \A i \in DOMAIN handedOut' : handedOut'[i][3].session < fresh'
    <2>1. \A i \in DOMAIN handedOut : handedOut[i][3].session \in Nat
      BY Zenon, LoadedPositions DEF Positions
    <2>2. QED BY <1>0, <2>1 DEF NextKeysUnused
  <1>2. ASSUME NEW a \in Accounts, NEW p \in Peers, NEW d \in LoadSession(a, p)'
        PROVE  NotHandedOut(a, p, d)'
    <2>1. d \in LoadSession(a, p) /\ d \in Positions
      BY Zenon, <1>2, LoadedPositions
    <2>2. QED BY Zenon, <1>0, <2>1, StaysUnused DEF NextKeysUnused
  <1>3. QED BY Zenon, <1>1, <1>2 DEF NextKeysUnused

\* store_session hands out the position that was loaded and stores the next one.
LEMMA StoreKeysStep ==
    ASSUME TypeOK, OneAtATime, NextKeysUnused, NoKeyTwice, NEW r \in running, StoreSession(r)
    PROVE  NextKeysUnused' /\ NoKeyTwice'
  <1>0. running = {r} /\ RequestFits(r) /\ fresh \in Nat /\ r.step = "store"
    BY Zenon DEF OneAtATime, TypeOK, StoreSession
  <1>1. r.loaded # {}
    BY Zenon, <1>0 DEF RequestFits
  <1> DEFINE a == r.account
             p == r.peer
  <1>2. PICK d \in Positions :
          /\ a \in Accounts /\ p \in Peers /\ r.loaded = {d} /\ fresh' = fresh
          /\ \/ /\ Upsert(a, p, "data", Data(d.session, d.index + 1))
                /\ handedOut' = Append(handedOut, <<a, p, d>>)
             \/ Upsert(a, p, "data", d) /\ handedOut' = handedOut
          /\ \A s \in running' : s.step = "remove"
    <2>1. \A s \in running \ {r} : s.step = "remove"
      BY Zenon, <1>0
    <2>2. QED BY <1>1, <2>1, StoreOutcome
  <1>3. NotHandedOut(a, p, d)
    BY Zenon, <1>0, <1>2 DEF NextKeysUnused
  <1> HIDE DEF a, p
  <1>4. CASE Upsert(a, p, "data", d) /\ handedOut' = handedOut
    <2>1. /\ LoadSession(a, p)' = {d}
          /\ \A b \in Accounts, q \in Peers :
               a # b \/ p # q => LoadSession(b, q)' = LoadSession(b, q)
      BY <1>2, <1>4, PutSessionData
    <2>2. \A x : NotHandedOut(a, p, x)' = NotHandedOut(a, p, x)
      BY Zenon, <1>2, <1>4 DEF NotHandedOut
    <2>3. ASSUME NEW b \in Accounts, NEW q \in Peers, NEW x \in LoadSession(b, q)'
          PROVE  NotHandedOut(b, q, x)'
      <3>1. NotHandedOut(b, q, x)
        BY Zenon, <1>3, <2>1, <2>3 DEF NextKeysUnused
      <3>2. QED BY Zenon, <1>2, <1>4, <3>1 DEF NotHandedOut
    <2>4. \A i \in DOMAIN handedOut' : handedOut'[i][3].session < fresh'
      BY Zenon, <1>2, <1>4 DEF NextKeysUnused
    <2>5. QED BY Zenon, <1>2, <1>4, <2>3, <2>4 DEF NextKeysUnused, NoKeyTwice
  <1>5. CASE /\ Upsert(a, p, "data", Data(d.session, d.index + 1))
             /\ handedOut' = Append(handedOut, <<a, p, d>>)
    <2> DEFINE n == Len(handedOut)
               e == Data(d.session, d.index + 1)
    <2>0. n \in Nat /\ DOMAIN handedOut = 1 .. n
      BY DEF TypeOK
    <2>1. /\ DOMAIN handedOut' = 1 .. n + 1 /\ handedOut'[n + 1] = <<a, p, d>>
          /\ \A i \in DOMAIN handedOut : handedOut'[i] = handedOut[i]
      BY <1>5, <2>0 DEF TypeOK
    <2>2. \A i \in DOMAIN handedOut' : i \in DOMAIN handedOut \/ i = n + 1
      BY <2>0, <2>1
    <2>3. /\ d.session \in Nat /\ d.index \in Nat /\ d.session < fresh
          /\ e \in Positions /\ e.session = d.session /\ e.index = d.index + 1
      BY <1>3 DEF NotHandedOut, Data, Positions
    <2>4. \A i \in DOMAIN handedOut : /\ handedOut[i][3].session \in Nat
                                      /\ handedOut[i][3].index \in Nat
      BY Zenon, LoadedPositions DEF Positions
    <2> HIDE DEF n, e
    <2>5. /\ LoadSession(a, p)' = {e}
          /\ \A b \in Accounts, q \in Peers :
               a # b \/ p # q => LoadSession(b, q)' = LoadSession(b, q)
      BY <1>2, <1>5, <2>3, PutSessionData DEF e
    <2>6. \A i \in DOMAIN handedOut' : handedOut'[i][3].session < fresh'
      BY <1>2, <2>1, <2>2, <2>3 DEF NextKeysUnused
    <2>7. NotHandedOut(a, p, e)'
      <3>1. ASSUME NEW i \in DOMAIN handedOut', handedOut'[i][1] = a, handedOut'[i][2] = p,
                   handedOut'[i][3].session = d.session
            PROVE  handedOut'[i][3].index < d.index + 1
        <4>1. CASE i = n + 1
          BY <2>1, <2>3, <4>1
        <4>2. CASE i \in DOMAIN handedOut
          <5>1. handedOut[i][3].index < d.index
            BY Zenon, <1>3, <2>1, <3>1, <4>2 DEF NotHandedOut
          <5>2. QED BY <2>1, <2>3, <2>4, <4>2, <5>1
        <4>3. QED BY Zenon, <2>2, <4>1, <4>2
      <3>2. QED BY Zenon, <1>2, <2>3, <3>1 DEF NotHandedOut
    <2>8. ASSUME NEW b \in Accounts, NEW q \in Peers, NEW x \in LoadSession(b, q)'
          PROVE  NotHandedOut(b, q, x)'
      <3>1. CASE b = a /\ q = p
        BY Zenon, <2>5, <2>7, <2>8, <3>1
      <3>2. CASE a # b \/ p # q
        <4>1. NotHandedOut(b, q, x)
          BY Zenon, <2>5, <2>8, <3>2 DEF NextKeysUnused
        <4>2. ASSUME NEW i \in DOMAIN handedOut', handedOut'[i][1] = b, handedOut'[i][2] = q
              PROVE  i \in DOMAIN handedOut /\ handedOut'[i] = handedOut[i]
          BY <2>1, <2>2, <3>2, <4>2
        <4>3. QED BY Zenon, <1>2, <4>1, <4>2 DEF NotHandedOut
      <3>3. QED BY Zenon, <3>1, <3>2
    <2>9. \A i \in DOMAIN handedOut : handedOut[i] # <<a, p, d>>
      <3> SUFFICES ASSUME NEW i \in DOMAIN handedOut, handedOut[i] = <<a, p, d>> PROVE FALSE
        OBVIOUS
      <3>1. d.index < d.index
        BY <1>3 DEF NotHandedOut
      <3>2. QED BY <2>3, <3>1
    <2>10. NoKeyTwice'
      BY Zenon, <2>1, <2>2, <2>9 DEF NoKeyTwice
    <2>11. QED BY Zenon, <1>2, <2>6, <2>8, <2>10 DEF NextKeysUnused
  <1>6. QED BY Zenon, <1>2, <1>4, <1>5

\* The keys that may be used next stay unused.
LEMMA NextKeysStep ==
    ASSUME TypeOK, OneAtATime, NextKeysUnused, NoKeyTwice, [Next]_vars
    PROVE  NextKeysUnused' /\ NoKeyTwice'
  <1>0. fresh \in Nat
    BY Zenon DEF TypeOK
  <1>a. ASSUME handedOut' = handedOut, fresh' \in {fresh, fresh + 1},
               NEW r \in running, r.step \in {"identity", "store"}, NEW d \in r.loaded
        PROVE  NotHandedOut(r.account, r.peer, d)'
    <2>1. d \in Positions /\ NotHandedOut(r.account, r.peer, d)
      BY Zenon, <1>a, LoadedPositions DEF NextKeysUnused
    <2>2. QED BY Zenon, <1>0, <1>a, <2>1, StaysUnused
  <1>1. ASSUME handedOut' = handedOut, fresh' \in {fresh, fresh + 1}, running' \subseteq running,
               \A a \in Accounts, p \in Peers : LoadSession(a, p)' \subseteq LoadSession(a, p)
        PROVE  NextKeysUnused' /\ NoKeyTwice'
    <2>1. \A s \in running' : s.step \in {"identity", "store"}
             => \A d \in s.loaded : NotHandedOut(s.account, s.peer, d)'
      BY Zenon, <1>1, <1>a
    <2>2. QED BY Zenon, <1>1, <2>1, KeysFrame DEF NoKeyTwice
  <1>2. sessions' = sessions
          => \A a \in Accounts, p \in Peers : LoadSession(a, p)' \subseteq LoadSession(a, p)
    BY Zenon DEF LoadSession
  <1>3. CASE Initialize \/ ReadSignedPreKey \/ ReadPreKeys \/ StoreBundle \/ FinalizeDecryption \/ RefreshPreKeys \/ ClearCache
               \/ SwitchAccount \/ Crash \/ EncryptKey \/ DecryptKey \/ UNCHANGED vars
    <2>1. sessions' = sessions /\ handedOut' = handedOut /\ fresh' \in {fresh, fresh + 1}
      BY Zenon, <1>0, <1>3 DEF Initialize, ReadSignedPreKey, ReadPreKeys, StoreBundle, FinalizeDecryption, RefreshPreKeys,
         ClearCache, SwitchAccount, Crash, EncryptKey, DecryptKey, vars
    <2>2. running' \subseteq running
      BY Zenon, <1>3 DEF Initialize, ReadSignedPreKey, ReadPreKeys, StoreBundle, FinalizeDecryption, RefreshPreKeys,
         ClearCache, SwitchAccount, Crash, EncryptKey, DecryptKey, vars
    <2>3. QED BY Zenon, <1>1, <1>2, <2>1, <2>2
  <1>4. CASE FinishClearing
    <2>1. PICK a \in clearing : ClearSessions(a) /\ UNCHANGED <<running, fresh, handedOut>>
      BY Zenon, <1>4 DEF FinishClearing
    <2>2. a \in Accounts
      BY Zenon DEF TypeOK
    <2>3. \A b \in Accounts, p \in Peers : LoadSession(b, p)' \subseteq LoadSession(b, p)
      <3>1. \A p \in Peers : LoadSession(a, p)' = {}
        BY Zenon, <2>1, <2>2, Cleared
      <3>2. \A b \in Accounts : a # b => sessions'[b] = sessions[b]
        BY Zenon, <2>1, <2>2, Cleared
      <3>3. \A b \in Accounts, p \in Peers : a # b => LoadSession(b, p)' = LoadSession(b, p)
        BY Zenon, <3>2 DEF LoadSession
      <3>4. QED BY Zenon, <3>1, <3>3
    <2>4. QED BY Zenon, <1>1, <2>1, <2>3
  <1>5. CASE StartSession
    <2>1. PICK devices \in SUBSET Peers :
            PutActiveDevices(account, devices) /\ UNCHANGED <<running, fresh, handedOut>>
      BY Zenon, <1>5 DEF StartSession
    <2>2. account \in Accounts
      BY Zenon DEF TypeOK
    <2>3. \A b \in Accounts, p \in Peers : LoadSession(b, p)' \subseteq LoadSession(b, p)
      BY Zenon, <2>1, <2>2, PutActive
    <2>4. QED BY Zenon, <1>1, <2>1, <2>3
  <1>6. CASE HandleMessage
    <2>1. /\ running' = {Head(mailbox)} /\ UNCHANGED <<sessions, fresh, handedOut>>
          /\ mailbox # <<>> /\ mailbox \in Seq(RequestRecords)
      BY Zenon, <1>6 DEF HandleMessage, MayRun, TypeOK
    <2>2. Head(mailbox).step = "load"
      BY <2>1 DEF OneAtATime
    <2>3. QED BY Zenon, <1>2, <2>1, <2>2, KeysFrame DEF NoKeyTwice
  <1>7. ASSUME NEW r \in running, Load(r)
        PROVE  NextKeysUnused' /\ NoKeyTwice'
    <2>0. running = {r} /\ r \in RequestRecords
      BY Zenon DEF OneAtATime, TypeOK
    <2>1. r.account \in Accounts /\ r.peer \in Peers
      BY Zenon, <2>0 DEF RequestRecords
    <2>2. sessions' = sessions /\ handedOut' = handedOut /\ fresh' \in {fresh, fresh + 1}
      BY Zenon, <1>7, LoadOutcome
    <2>3. ASSUME NEW d \in LoadSession(r.account, r.peer)
          PROVE  NotHandedOut(r.account, r.peer, d)'
      <3>1. d \in Positions /\ NotHandedOut(r.account, r.peer, d)
        BY Zenon, <2>1, LoadedPositions DEF NextKeysUnused
      <3>2. QED BY Zenon, <1>0, <2>2, <3>1, StaysUnused
    <2>4. ASSUME fresh' = fresh + 1, NEW d, d = Data(fresh, 0)
          PROVE  NotHandedOut(r.account, r.peer, d)'
      <3>1. \A i \in DOMAIN handedOut :
              handedOut[i][3].session \in Nat /\ handedOut[i][3].session < fresh
        BY Zenon, LoadedPositions DEF NextKeysUnused, Positions
      <3>2. \A i \in DOMAIN handedOut : handedOut[i][3].session # fresh
        BY <1>0, <3>1
      <3>3. d.session = fresh
        BY Zenon, <2>4 DEF Data
      <3>4. QED BY <1>0, <2>2, <2>4, <3>2, <3>3 DEF NotHandedOut
    <2>5. CASE running' = running \ {r}
      BY Zenon, <1>1, <1>2, <2>2, <2>5
    <2>6. CASE \E s \in RequestRecords :
                   /\ running' = (running \ {r}) \cup {s}
                   /\ s.account = r.account /\ s.peer = r.peer
                   /\ \/ s.loaded = LoadSession(r.account, r.peer)
                      \/ s.loaded = {Data(fresh, 0)} /\ fresh' = fresh + 1
      <3>1. PICK s \in RequestRecords :
                   /\ running' = {s}
                   /\ s.account = r.account /\ s.peer = r.peer
                   /\ \/ s.loaded = LoadSession(r.account, r.peer)
                      \/ s.loaded = {Data(fresh, 0)} /\ fresh' = fresh + 1
        BY Zenon, <2>0, <2>6
      <3>2. \A d \in s.loaded : NotHandedOut(s.account, s.peer, d)'
        BY Zenon, <2>3, <2>4, <3>1
      <3>3. QED BY Zenon, <1>2, <2>2, <3>1, <3>2, KeysFrame DEF NoKeyTwice
    <2>7. QED BY Zenon, <1>7, <2>5, <2>6, LoadOutcome
  <1>8. ASSUME NEW r \in running, SaveIdentity(r)
        PROVE  NextKeysUnused' /\ NoKeyTwice'
    <2>0. running = {r} /\ r.step = "identity"
      BY Zenon, <1>8 DEF OneAtATime, SaveIdentity
    <2>1. PICK s \in RequestRecords :
            /\ r.account \in Accounts /\ r.peer \in Peers
            /\ UNCHANGED <<fresh, handedOut>> /\ Upsert(r.account, r.peer, "identity", r.peer)
            /\ running' = (running \ {r}) \cup {s}
            /\ s.account = r.account /\ s.peer = r.peer /\ s.loaded = r.loaded
      BY Zenon, <1>8, IdentityOutcome
    <2>2. \A b \in Accounts, p \in Peers : LoadSession(b, p)' \subseteq LoadSession(b, p)
      BY Zenon, <2>1, PutIdentity
    <2>3. running' = {s} /\ \A d \in s.loaded : NotHandedOut(s.account, s.peer, d)'
      BY Zenon, <1>a, <2>0, <2>1
    <2>4. QED BY Zenon, <2>1, <2>2, <2>3, KeysFrame DEF NoKeyTwice
  <1>10. ASSUME NEW r \in running, RemovePreKey(r)
         PROVE  NextKeysUnused' /\ NoKeyTwice'
    BY Zenon, <1>1, <1>2, <1>10 DEF RemovePreKey, End
  <1>11. ASSUME NEW r \in running, StoreSession(r)
         PROVE  NextKeysUnused' /\ NoKeyTwice'
    BY Zenon, <1>11, StoreKeysStep
  <1>12. QED
    BY Zenon, <1>3, <1>4, <1>5, <1>6, <1>7, <1>8, <1>10, <1>11 DEF Next, Work

-----------------------------------------------------------------------------
(* The local bundle                                                          *)

\* The device, the signed prekey and the prekeys stay together.
LEMMA KeysTogetherStep ==
    ASSUME TypeOK, KeysTogether, [Next]_vars
    PROVE  KeysTogether'
  <1>0. /\ fresh \in Nat \ {0}
        /\ device \in [Accounts -> SUBSET Nat] /\ signed \in [Accounts -> SUBSET Nat]
        /\ preKeys \in [Accounts -> [PreKeys -> Nat]]
    BY Zenon DEF TypeOK, Options
  <1>1. CASE UNCHANGED <<device, signed, preKeys>>
    BY Zenon, <1>1 DEF KeysTogether
  <1>2. CASE StoreBundle
    <2>1. PICK a \in generating : PutLocalEncryptionBundle(a)
      BY Zenon, <1>2 DEF StoreBundle
    <2>2. QED BY Zenon, <1>0, <2>1 DEF PutLocalEncryptionBundle, KeysTogether
  <1>3. CASE RefreshPreKeys
    <2>1. PICK a \in Accounts : PutPreKeys(a, refreshing[a]) /\ UNCHANGED <<device, signed>>
      BY Zenon, <1>3 DEF RefreshPreKeys
    <2>2. QED BY Zenon, <1>0, <2>1 DEF PutPreKeys, KeysTogether
  <1>4. CASE ClearCache
    BY Zenon, <1>0, <1>4 DEF ClearCache, ClearKeys, KeysTogether
  <1>5. QED
    BY Zenon, <1>1, <1>2, <1>3, <1>4 DEF Next, Work, Initialize, ReadSignedPreKey, ReadPreKeys, FinalizeDecryption, SwitchAccount,
       Crash, EncryptKey, DecryptKey, FinishClearing, StartSession, HandleMessage, vars

\* What was read stays what is stored, or is torn.
LEMMA ReadsAgreeStep ==
    ASSUME TypeOK, KeysTogether, ReadsAgree, [Next]_vars
    PROVE  ReadsAgree'
  <1>0. /\ generating \subseteq Accounts /\ reading \subseteq BundleReads
        /\ device \in [Accounts -> Options(Nat)] /\ signed \in [Accounts -> Options(Nat)]
        /\ account \in Accounts
    BY Zenon DEF TypeOK
  <1>1. \A r \in reading : r.account \in Accounts
    BY Zenon, <1>0 DEF BundleReads
  <1>2. CASE /\ UNCHANGED <<device, signed>> /\ reading' \subseteq reading
             /\ generating' \subseteq generating
    BY Zenon, <1>2 DEF ReadsAgree
  <1>3. ASSUME NEW a \in Accounts, NEW purpose \in {"initialize", "publish"}, device[a] # {},
               reading' = reading \cup {Reading(a, purpose)},
               UNCHANGED <<device, signed, generating>>
        PROVE  ReadsAgree'
    <2>1. PICK s \in BundleReads :
            /\ reading' = reading \cup {s}
            /\ s.account = a /\ s.device = device[a] /\ s.step = "signed"
      BY Zenon, <1>3, ReadingTypes
    <2>2. s.step # "preKeys"
      BY Zenon, <2>1
    <2>3. QED BY Zenon, <1>3, <2>1, <2>2 DEF ReadsAgree
  <1>4. CASE Initialize
    <2>1. CASE device[account] = {}
      BY Zenon, <1>4, <2>1 DEF Initialize, ReadsAgree
    <2>2. CASE device[account] # {}
      BY Zenon, <1>0, <1>3, <1>4, <2>2 DEF Initialize
    <2>3. QED BY Zenon, <2>1, <2>2
  <1>5. CASE RefreshPreKeys
    <2>1. PICK a \in Accounts :
            /\ reading' = IF device[a] = {} THEN reading ELSE reading \cup {Reading(a, "publish")}
            /\ UNCHANGED <<device, signed, generating>>
      BY Zenon, <1>5 DEF RefreshPreKeys
    <2>2. CASE device[a] = {}
      BY Zenon, <1>2, <2>1, <2>2
    <2>3. CASE device[a] # {}
      BY Zenon, <1>3, <2>1, <2>3
    <2>4. QED BY Zenon, <2>2, <2>3
  <1>6. CASE ReadSignedPreKey
    <2>1. PICK r \in reading :
            /\ UNCHANGED <<device, signed>>
            /\ \/ /\ signed[r.account] = {} /\ reading' = reading \ {r}
                  /\ generating' \subseteq generating \cup {r.account}
               \/ /\ reading' = (reading \ {r}) \cup
                        {[r EXCEPT !.step = "preKeys", !.signed = signed[r.account]]}
                  /\ UNCHANGED generating
      BY Zenon, <1>6 DEF ReadSignedPreKey
    <2>2. CASE /\ signed[r.account] = {} /\ reading' = reading \ {r}
               /\ generating' \subseteq generating \cup {r.account}
      <3>1. device[r.account] = {}
        BY Zenon, <1>1, <2>2 DEF KeysTogether
      <3>2. QED BY Zenon, <2>1, <2>2, <3>1 DEF ReadsAgree
    <2>3. CASE /\ reading' = (reading \ {r}) \cup
                        {[r EXCEPT !.step = "preKeys", !.signed = signed[r.account]]}
               /\ UNCHANGED generating
      <3>1. PICK s \in BundleReads :
              /\ reading' = (reading \ {r}) \cup {s}
              /\ s.account = r.account /\ s.device = r.device /\ s.torn = r.torn
              /\ s.signed = signed[r.account]
        BY Zenon, <2>3, ReadOn
      <3>2. QED BY Zenon, <2>1, <2>3, <3>1 DEF ReadsAgree
    <2>4. QED BY Zenon, <2>1, <2>2, <2>3
  <1>7. CASE StoreBundle
    <2>1. PICK a \in generating :
            PutLocalEncryptionBundle(a) /\ generating' = generating \ {a} /\ UNCHANGED reading
      BY Zenon, <1>7 DEF StoreBundle
    <2>2. device[a] = {} /\ a \in Accounts
      BY Zenon, <1>0 DEF ReadsAgree
    <2>3. \A b \in Accounts : b # a => device'[b] = device[b] /\ signed'[b] = signed[b]
      BY Zenon, <1>0, <2>1 DEF PutLocalEncryptionBundle
    <2>4. \A r \in reading : ~r.torn => r.account # a
      BY Zenon, <2>2 DEF ReadsAgree
    <2>5. QED BY Zenon, <1>0, <1>1, <2>1, <2>3, <2>4 DEF ReadsAgree
  <1>8. CASE ClearCache
    <2>1. /\ device'[account] = {} /\ UNCHANGED generating
          /\ \A b \in Accounts : b # account => device'[b] = device[b] /\ signed'[b] = signed[b]
          /\ reading' = {IF r.account = account THEN [r EXCEPT !.torn = TRUE] ELSE r : r \in reading}
      BY Zenon, <1>0, <1>8 DEF ClearCache, ClearKeys
    <2>2. \A b \in generating' : device'[b] = {}
      BY Zenon, <1>0, <2>1 DEF ReadsAgree
    <2>3. \A s \in reading' : ~s.torn => s \in reading /\ s.account # account
      BY Zenon, <2>1, TornReads
    <2>4. QED BY Zenon, <1>1, <2>1, <2>2, <2>3 DEF ReadsAgree
  <1>9. QED
    BY Zenon, <1>2, <1>4, <1>5, <1>6, <1>7, <1>8 DEF Next, Work, ReadPreKeys, FinalizeDecryption,
       SwitchAccount, Crash, EncryptKey, DecryptKey, FinishClearing, StartSession, HandleMessage,
       vars

-----------------------------------------------------------------------------
(* Records and sessions                                                      *)

\* Only the step that leaves a record without its session may break the rule, and the
\* request that takes it stores the session next.
LEMMA SessionFollowsStep ==
    ASSUME TypeOK, OneAtATime, SessionFollows, [Next]_vars
    PROVE  SessionFollows'
  <1> SUFFICES ASSUME NEW b \in Accounts, NEW q \in Peers,
                      sessions'[b][q] # {}, ~crashed', LoadSession(b, q)' = {}
               PROVE  \E r \in running' : /\ r.account = b /\ r.peer = q
                                          /\ r.step = "store" /\ r.kind # "encrypt"
    BY DEF SessionFollows
  <1>0. crashed' = crashed
    BY Zenon DEF Next, Initialize, ReadSignedPreKey, ReadPreKeys, StoreBundle, FinalizeDecryption, RefreshPreKeys, ClearCache,
       FinishClearing, SwitchAccount, Crash, StartSession, EncryptKey, DecryptKey,
       HandleMessage, Work, vars
  <1>1. ASSUME sessions[b][q] # {}, LoadSession(b, q) = {}
        PROVE  \E r \in running : /\ r.account = b /\ r.peer = q
                                  /\ r.step = "store" /\ r.kind # "encrypt"
    BY SMTT(60), <1>0, <1>1 DEF SessionFollows
  <1>2. sessions' = sessions => sessions[b][q] # {} /\ LoadSession(b, q) = {}
    BY Zenon DEF LoadSession
  <1>3. CASE Initialize \/ ReadSignedPreKey \/ ReadPreKeys \/ StoreBundle \/ FinalizeDecryption \/ RefreshPreKeys \/ ClearCache
               \/ SwitchAccount \/ EncryptKey \/ DecryptKey \/ UNCHANGED vars
    <2>1. sessions' = sessions /\ running' = running
      BY Zenon, <1>3 DEF Initialize, ReadSignedPreKey, ReadPreKeys, StoreBundle, FinalizeDecryption, RefreshPreKeys,
         ClearCache, SwitchAccount, EncryptKey, DecryptKey, vars
    <2>2. QED BY Zenon, <1>1, <1>2, <2>1
  <1>4. CASE Crash
    BY Zenon, <1>4 DEF Crash
  <1>5. CASE FinishClearing
    <2>1. PICK a \in clearing : ClearSessions(a) /\ running' = running
      BY Zenon, <1>5 DEF FinishClearing
    <2>2. a \in Accounts
      BY Zenon DEF TypeOK
    <2>3. a # b /\ sessions'[b] = sessions[b]
      BY Zenon, <2>1, <2>2, Cleared
    <2>4. LoadSession(b, q) = {}
      BY Zenon, <2>3 DEF LoadSession
    <2>5. QED BY Zenon, <1>1, <2>1, <2>3, <2>4
  <1>6. CASE StartSession
    <2>1. PICK devices \in SUBSET Peers :
            PutActiveDevices(account, devices) /\ running' = running
      BY Zenon, <1>6 DEF StartSession
    <2>2. account \in Accounts
      BY Zenon DEF TypeOK
    <2>3. sessions[b][q] # {} /\ LoadSession(b, q) = {}
      BY Zenon, <2>1, <2>2, PutActive
    <2>4. QED BY Zenon, <1>1, <2>1, <2>3
  <1>7. CASE HandleMessage
    BY Zenon, <1>1, <1>2, <1>7 DEF HandleMessage, MayRun
  <1>8. ASSUME NEW r \in running, Load(r) \/ RemovePreKey(r)
        PROVE  FALSE
    <2>1. sessions' = sessions /\ r.step # "store"
      BY Zenon, <1>8 DEF Load, RemovePreKey
    <2>2. QED BY Zenon, <1>1, <1>2, <2>1 DEF OneAtATime
  <1>9. ASSUME NEW r \in running, SaveIdentity(r)
        PROVE  \E s \in running' : /\ s.account = b /\ s.peer = q
                                   /\ s.step = "store" /\ s.kind # "encrypt"
    <2>0. r.step = "identity" /\ r.kind # "encrypt"
      BY Zenon, <1>9 DEF SaveIdentity, OneAtATime, RequestFits
    <2>1. PICK s \in RequestRecords :
            /\ r.account \in Accounts /\ r.peer \in Peers
            /\ Upsert(r.account, r.peer, "identity", r.peer)
            /\ s \in running' /\ s.account = r.account /\ s.peer = r.peer
            /\ s.kind = r.kind /\ s.step = "store"
      BY Zenon, <1>9, IdentityOutcome
    <2>2. CASE r.account = b /\ r.peer = q
      BY Zenon, <2>0, <2>1, <2>2
    <2>3. CASE r.account # b \/ r.peer # q
      <3>1. sessions[b][q] # {} /\ LoadSession(b, q) = {}
        BY <2>1, <2>3, PutIdentity
      <3>2. QED BY Zenon, <1>1, <2>0, <3>1 DEF OneAtATime
    <2>4. QED BY Zenon, <2>2, <2>3
  <1>10. ASSUME NEW r \in running, StoreSession(r)
         PROVE  FALSE
    <2>0. r.loaded # {}
      BY Zenon, <1>10 DEF StoreSession, OneAtATime, RequestFits
    <2>1. PICK d \in Positions :
            /\ r.account \in Accounts /\ r.peer \in Peers
            /\ \/ Upsert(r.account, r.peer, "data", Data(d.session, d.index + 1))
               \/ Upsert(r.account, r.peer, "data", d)
      BY Zenon, <1>10, <2>0, StoreOutcome
    <2>2. Data(d.session, d.index + 1) \in Positions
      BY DEF Data, Positions
    <2>3. PICK e \in Positions : Upsert(r.account, r.peer, "data", e)
      BY Zenon, <2>1, <2>2
    <2>4. r.account # b \/ r.peer # q
      <3>1. LoadSession(r.account, r.peer)' = {e}
        BY <2>1, <2>3, PutSessionData
      <3>2. LoadSession(r.account, r.peer)' # {}
        BY Zenon, <3>1
      <3>3. QED BY Zenon, <3>2
    <2>5. sessions[b][q] # {} /\ LoadSession(b, q) = {}
      BY <2>1, <2>3, <2>4, PutSessionData
    <2>6. QED BY Zenon, <1>1, <2>4, <2>5 DEF OneAtATime
  <1>11. QED
    BY Zenon, <1>3, <1>4, <1>5, <1>6, <1>7, <1>8, <1>9, <1>10 DEF Next, Work

-----------------------------------------------------------------------------
(* The theorems                                                              *)

\* The store starts empty.
LEMMA InitInv == Init => Inv
  <1> SUFFICES ASSUME Init PROVE Inv
    OBVIOUS
  <1>1. TypeOK
    <2>1. /\ device \in [Accounts -> Options(Nat)] /\ signed \in [Accounts -> Options(Nat)]
      <3>1. {} \in Options(Nat)
        BY Zenon, None
      <3>2. QED BY Zenon, <3>1 DEF Init
    <2>2. preKeys \in [Accounts -> [PreKeys -> Nat]]
      BY Zenon DEF Init, NoKeys
    <2>3. sessions \in [Accounts -> [Peers -> Options(SessionRecords)]]
      BY Zenon, None DEF Init, NoSessions
    <2>4. used \in [Accounts -> SUBSET PreKeys] /\ refreshing \in [Accounts -> SUBSET PreKeys]
      BY Zenon DEF Init
    <2>5. \A S : <<>> \in Seq(S)
      OBVIOUS
    <2>6. mailbox \in Seq(RequestRecords) /\ handedOut \in Seq(Accounts \X Peers \X Positions)
      BY Zenon, <2>5 DEF Init
    <2>7. /\ account \in Accounts /\ running \subseteq RequestRecords
          /\ generating \subseteq Accounts /\ clearing \subseteq Accounts
          /\ reading \subseteq BundleReads
          /\ fresh \in Nat \ {0} /\ requests \in Nat /\ tasks \in Nat
      BY DEF Init
    <2>8. crashed \in BOOLEAN
      BY Zenon DEF Init
    <2>9. QED BY Zenon, <2>1, <2>2, <2>3, <2>4, <2>6, <2>7, <2>8 DEF TypeOK
  <1>2. \A a \in Accounts, p \in Peers : sessions[a][p] = {}
    BY Zenon DEF Init, NoSessions
  <1>3. OneAtATime /\ NoKeyTwice /\ KeysTogether /\ ReadsAgree
    BY DEF Init, OneAtATime, NoKeyTwice, KeysTogether, ReadsAgree
  <1>4. NextKeysUnused /\ SessionFollows
    BY <1>2, LoadsNothing DEF Init, NextKeysUnused, SessionFollows
  <1>5. QED BY Zenon, <1>1, <1>3, <1>4 DEF Inv

\* The inductive invariant of the key store and its service.
THEOREM Invariance == Spec => []Inv
  <1>1. Inv /\ [Next]_vars => Inv'
    BY Zenon, TypeStep, OneAtATimeStep, NextKeysStep, KeysTogetherStep, ReadsAgreeStep,
       SessionFollowsStep DEF Inv
  <1>2. QED BY <1>1, InitInv, PTL DEF Spec

\* Every variable of the key store keeps its type: among others, there is at most one
\* record per account and device, as the key of the table demands.
THEOREM TypeCorrect == Spec => []TypeOK
  <1>1. Inv => TypeOK
    BY Zenon DEF Inv
  <1>2. QED BY <1>1, Invariance, PTL

\* However encrypting, decrypting, new sessions and crashes interleave, no message key
\* encrypts two messages (load_session … store_session of the service).
THEOREM NoKeyTwiceHolds == Spec => []NoKeyTwice
  <1>1. Inv => NoKeyTwice
    BY Zenon DEF Inv
  <1>2. QED BY <1>1, Invariance, PTL

\* What get_local_device_bundle puts together from its three statements is whole,
\* whatever was generated and replaced meanwhile, unless the keys of the account were
\* cleared between two of them.
THEOREM BundleIsWholeHolds == Spec => []BundleIsWhole
  <1>1. Inv => BundleIsWhole
    <2> SUFFICES ASSUME Inv, NEW r \in reading, r.step = "preKeys", ~r.torn
                 PROVE  r.device = r.signed /\ \A k \in PreKeys : preKeys[r.account][k] # 0
      BY Zenon DEF BundleIsWhole
    <2>1. r.account \in Accounts
      BY Zenon DEF Inv, TypeOK, BundleReads
    <2>2. r.device = device[r.account] /\ r.device # {} /\ r.signed = signed[r.account]
      BY Zenon DEF Inv, ReadsAgree
    <2>3. QED BY Zenon, <2>1, <2>2 DEF Inv, KeysTogether
  <1>2. QED BY <1>1, Invariance, PTL

\* Unless the process died in between, a device with a record has a session once its
\* request has ended (save_identity … store_session).
THEOREM RecordHasSessionHolds == Spec => []RecordHasSession
  <1>1. Inv => RecordHasSession
    BY DEF Inv, SessionFollows, RecordHasSession
  <1>2. QED BY <1>1, Invariance, PTL

\* A step changes the sessions of no account but the one it works for.
THEOREM OtherAccountsUntouchedHolds == Spec => OtherAccountsUntouched
  <1>1. ASSUME Inv, [Next]_vars PROVE [OwnSessionsOnly]_vars
    <2>0. TypeOK /\ account \in Accounts /\ clearing \subseteq Accounts
      BY Zenon, <1>1 DEF Inv, TypeOK
    <2> SUFFICES ASSUME NEW b \in Accounts, sessions'[b] # sessions[b]
                 PROVE  b = account \/ b \in clearing \/ \E r \in running : r.account = b
      BY Zenon DEF OwnSessionsOnly
    <2>1. CASE FinishClearing
      BY <2>0, <2>1, Cleared DEF FinishClearing
    <2>2. CASE StartSession
      BY Zenon, <2>0, <2>2, PutActive DEF StartSession
    <2>3. ASSUME NEW r \in running, SaveIdentity(r) PROVE r.account = b
      BY Zenon, <2>0, <2>3, IdentityOutcome, PutIdentity
    <2>4. ASSUME NEW r \in running, StoreSession(r) PROVE r.account = b
      <3>0. r.loaded # {}
        BY Zenon, <1>1, <2>4 DEF Inv, StoreSession, OneAtATime, RequestFits
      <3>1. PICK d \in Positions :
              /\ r.account \in Accounts /\ r.peer \in Peers
              /\ \/ Upsert(r.account, r.peer, "data", Data(d.session, d.index + 1))
                 \/ Upsert(r.account, r.peer, "data", d)
        BY Zenon, <2>0, <2>4, <3>0, StoreOutcome
      <3>2. Data(d.session, d.index + 1) \in Positions
        BY DEF Data, Positions
      <3>3. QED BY Zenon, <2>0, <3>1, <3>2, PutSessionData
    <2>5. QED
      BY Zenon, <1>1, <2>1, <2>2, <2>3, <2>4 DEF Next, Work, Initialize, ReadSignedPreKey,
         ReadPreKeys, StoreBundle,
         FinalizeDecryption, RefreshPreKeys, ClearCache, SwitchAccount, Crash, EncryptKey,
         DecryptKey, HandleMessage, Load, RemovePreKey, vars
  <1>2. QED BY <1>1, Invariance, PTL DEF Spec, OtherAccountsUntouched
=============================================================================
