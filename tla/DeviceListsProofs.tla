-------------------------- MODULE DeviceListsProofs --------------------------
(* What the devices of an account agree on once they rest, for any number of   *)
(* devices, operations and failing requests.                                   *)
(* A list reaches a device through its stream, so the invariant is about the   *)
(* newest message of each stream: it is the published list. A device whose     *)
(* stream is empty has handled that message, and then either it is listed, or  *)
(* it is about to announce itself, or its last attempt to do so failed.        *)
EXTENDS DeviceLists, SequenceTheorems, TLAPS

Newest(s) == s[Len(s)]

\* What a device is going to know: the newest message of its stream is the published
\* list, and without a message its cache is. In between are the answer that
\* `get_all` is going to store and the list that `delete_device` has stored and is
\* going to publish.
Fresh(d) ==
    IF stream[d] = <<>>
    THEN \/ cache[d] = {list}
         \/ d \in stale
         \/ task[d].at = "shorter" /\ cache[d] = {task[d].read}
         \/ task[d].at = "loaded" /\ task[d].read = list
    ELSE Newest(stream[d]).list = list

\* A device that has handled all messages is listed, unless it is about to announce
\* itself or has tried to.
Announced(d) ==
    stream[d] = <<>> =>
        \/ d \in list
        \/ d \in gaveUp
        \/ checks[d] # <<>>
        \/ task[d].at = "loaded" /\ d \notin task[d].read

\* Before these steps are over a device need not have a list.
Unloaded == {"offline", "announce", "loading", "loaded", "failed"}

\* Whatever comes after the `get_all` of `initialize` finds a list; nothing waits for
\* a device that is not connected; one that is has made its bundle and, unless the
\* node was deleted, is going to know the list and to be on it.
Sound(d) ==
    /\ task[d].at \notin Unloaded => cache[d] # {}
    /\ task[d].at = "offline" => stream[d] = <<>>
    /\ task[d].at # "offline" => d \in local
    /\ task[d].at # "offline" /\ ~disabled => Fresh(d) /\ Announced(d)

Inv == TypeOK /\ \A d \in Devices : Sound(d)

-----------------------------------------------------------------------------
(* Sequences and records                                                     *)

\* An appended message is the newest.
LEMMA AppendNewest ==
    ASSUME NEW S, NEW s \in Seq(S), NEW m \in S
    PROVE  /\ Append(s, m) \in Seq(S)
           /\ Append(s, m) # <<>>
           /\ Newest(Append(s, m)) = m
BY DEF Newest

\* To handle the first message leaves the newest in place, or is to handle that one.
LEMMA TailNewest ==
    ASSUME NEW S, NEW s \in Seq(S), s # <<>>
    PROVE  /\ Head(s) \in S
           /\ Tail(s) \in Seq(S)
           /\ Tail(s) = <<>> => Newest(s) = Head(s)
           /\ Tail(s) # <<>> => Newest(Tail(s)) = Newest(s)
<1>1. Len(s) \in Nat /\ Len(s) # 0 /\ Head(s) = s[1]
    OBVIOUS
<1>2. Head(s) \in S /\ Tail(s) \in Seq(S)
    OBVIOUS
<1>3. Len(Tail(s)) = Len(s) - 1 /\ \A i \in 1 .. Len(s) - 1 : Tail(s)[i] = s[i + 1]
    BY <1>1
<1>4. CASE Len(s) = 1
    <2>1. Tail(s) = <<>>
        <3>1. Len(Tail(s)) = 0
            BY <1>3, <1>4
        <3> QED
            BY Zenon, <1>2, <3>1, EmptySeq
    <2> QED
        BY Zenon, <1>1, <1>2, <1>4, <2>1 DEF Newest
<1>5. CASE Len(s) # 1
    <2>1. Len(s) - 1 \in 1 .. Len(s) - 1
        <3>1. \A n \in Nat : n # 0 /\ n # 1 => n - 1 \in 1 .. n - 1
            OBVIOUS
        <3> QED
            BY Zenon, <1>1, <1>5, <3>1
    <2>2. Tail(s)[Len(s) - 1] = s[Len(s)]
        BY <1>1, <1>3, <2>1
    <2>3. Tail(s) # <<>>
        BY <1>1, <1>3, <1>5
    <2> QED
        BY Zenon, <1>2, <1>3, <2>2, <2>3 DEF Newest
<1> QED
    BY Zenon, <1>4, <1>5

\* A message has the type of messages.
LEMMA MessageType ==
    ASSUME NEW kind \in {"push", "answer"}, NEW L \in SUBSET Devices
    PROVE  /\ Message(kind, L) \in StreamMessages
           /\ Message(kind, L).list = L
           /\ Message(kind, L).kind = kind
BY Zenon DEF Message, StreamMessages

\* A task has the type of tasks.
LEMMA TaskType ==
    ASSUME NEW step \in Steps, NEW L \in SUBSET Devices,
           NEW e \in {{}} \cup {{d} : d \in Devices}
    PROVE  /\ Doing(step, e, L) \in DeviceTasks
           /\ Doing(step, e, L).at = step
           /\ Doing(step, e, L).device = e
           /\ Doing(step, e, L).read = L
BY Zenon DEF Doing, DeviceTasks

\* `get_all` of a stored list returns a list of devices.
LEMMA ListType ==
    ASSUME TypeOK, NEW d \in Devices, HasList(d)
    PROVE  /\ ListOf(d) \in SUBSET Devices
           /\ cache[d] = {ListOf(d)}
<1>1. PICK L \in SUBSET Devices : cache[d] = {L}
    <2>1. cache[d] \in {{}} \cup {{L} : L \in SUBSET Devices}
        BY Zenon DEF TypeOK
    <2> QED
        BY Zenon, <2>1 DEF HasList
<1>2. ListOf(d) = L
    BY Zenon, <1>1 DEF ListOf
<1> QED
    BY Zenon, <1>1, <1>2

-----------------------------------------------------------------------------
(* The steps that publish, and the steps that do not                         *)

\* A list was published: it is the newest message of every connected device.
Published(L) ==
    /\ L \in SUBSET Devices
    /\ list' = L
    /\ stream' \in [Devices -> Seq(StreamMessages)]
    /\ \A e \in Online : stream'[e] # <<>> /\ Newest(stream'[e]).list = L
    /\ \A e \in Devices \ Online : stream'[e] = stream[e]

\* `publish_device_list` pushes the list to everyone.
LEMMA PublishPublishes ==
    ASSUME TypeOK, NEW L \in SUBSET Devices, Publish(L)
    PROVE  Published(L) /\ disabled' = FALSE
<1>0. Message("push", L) \in StreamMessages /\ Message("push", L).list = L
    BY Zenon, MessageType
<1>1. ASSUME NEW e \in Devices
      PROVE  /\ stream'[e] \in Seq(StreamMessages)
             /\ e \in Online => stream'[e] # <<>> /\ Newest(stream'[e]).list = L
             /\ e \notin Online => stream'[e] = stream[e]
    <2>1. stream[e] \in Seq(StreamMessages)
        BY Zenon DEF TypeOK
    <2>2. CASE e \in Online
        <3>1. stream'[e] = Append(stream[e], Message("push", L))
            BY Zenon, <2>2 DEF Publish
        <3> QED
            BY <1>0, <2>1, <2>2, <3>1, AppendNewest
    <2>3. CASE e \notin Online
        BY Zenon, <2>1, <2>3 DEF Publish
    <2> QED
        BY Zenon, <2>2, <2>3
<1>2. stream' \in [Devices -> Seq(StreamMessages)]
    BY Zenon, <1>1 DEF Publish
<1> QED
    BY Zenon, <1>1, <1>2 DEF Publish, Published, Online

\* No list is published, and nothing happens to the other devices.
Apart(d) ==
    /\ UNCHANGED <<list, disabled>>
    /\ local \subseteq local'
    /\ \A e \in Devices \ {d} :
        /\ task'[e] = task[e] /\ stream'[e] = stream[e] /\ cache'[e] = cache[e]
        /\ checks'[e] = checks[e]
        /\ (e \in stale => e \in stale') /\ (e \in gaveUp => e \in gaveUp')

\* What a step does to one device is all it does to the invariant.
LEMMA ApartKeepsInv ==
    ASSUME Inv, TypeOK', NEW d \in Devices, Apart(d), Sound(d)'
    PROVE  Inv'
<1>1. ASSUME NEW e \in Devices, e # d PROVE Sound(e)'
    <2>1. Sound(e)
        BY Zenon, <1>1 DEF Inv
    <2>2. /\ task'[e] = task[e] /\ stream'[e] = stream[e] /\ cache'[e] = cache[e]
          /\ checks'[e] = checks[e] /\ list' = list /\ disabled' = disabled
          /\ (e \in stale => e \in stale') /\ (e \in gaveUp => e \in gaveUp')
          /\ (e \in local => e \in local')
        BY Zenon, <1>1 DEF Apart
    <2> QED
        BY Zenon, <2>1, <2>2 DEF Sound, Fresh, Announced
<1> QED
    BY Zenon, <1>1 DEF Inv

\* Once a list was published every connected device has a message to handle.
LEMMA PublishedKeepsInv ==
    ASSUME Inv, TypeOK', NEW L, Published(L), Online' = Online, local' = local,
           \A e \in Devices : task'[e].at \notin Unloaded => cache'[e] # {}
    PROVE  Inv'
<1>1. ASSUME NEW e \in Devices PROVE Sound(e)'
    <2>1. Sound(e)
        BY Zenon DEF Inv
    <2>2. CASE e \in Online
        <3>1. /\ stream'[e] # <<>> /\ Newest(stream'[e]).list = L /\ list' = L
              /\ task[e].at # "offline" /\ task'[e].at # "offline"
            BY Zenon, <2>2 DEF Published, Online
        <3>2. Fresh(e)' /\ Announced(e)'
            BY Zenon, <3>1 DEF Fresh, Announced
        <3> QED
            BY Zenon, <2>1, <3>1, <3>2 DEF Sound
    <2>3. CASE e \notin Online
        <3>1. /\ stream'[e] = stream[e]
              /\ task[e].at = "offline" /\ task'[e].at = "offline"
            BY Zenon, <2>3 DEF Published, Online
        <3> QED
            BY Zenon, <2>1, <3>1 DEF Sound
    <2> QED
        BY Zenon, <2>2, <2>3
<1> QED
    BY Zenon, <1>1 DEF Inv

\* What moving one task on does to the tasks.
LEMMA TaskMoved ==
    ASSUME TypeOK, NEW d \in Devices, NEW t \in DeviceTasks, task' = [task EXCEPT ![d] = t]
    PROVE  /\ task' \in [Devices -> DeviceTasks]
           /\ task'[d] = t
           /\ \A e \in Devices : e # d => task'[e] = task[e]
           /\ t.at # "offline" => Online' = Online \cup {d}
<1>1. /\ task' \in [Devices -> DeviceTasks]
      /\ task'[d] = t
      /\ \A e \in Devices : e # d => task'[e] = task[e]
    BY Zenon DEF TypeOK
<1> QED
    BY Zenon, <1>1 DEF Online

\* The steps of the tasks are different.
LEMMA TaskSteps ==
    /\ Idle \in DeviceTasks /\ Idle.at = "idle"
    /\ Offline \in DeviceTasks /\ Offline.at = "offline"
    /\ Failed \in DeviceTasks /\ Failed.at = "failed"
    /\ \A step \in Steps : At(step) \in DeviceTasks /\ At(step).at = step
    /\ \A step \in Steps : \A e \in Devices : AtWith(step, e) \in DeviceTasks /\ AtWith(step, e).at = step
    /\ \A step \in Steps : \A L \in SUBSET Devices :
            /\ AtRead(step, L) \in DeviceTasks
            /\ AtRead(step, L).at = step /\ AtRead(step, L).read = L
<1>1. \A step \in Steps : At(step) \in DeviceTasks /\ At(step).at = step
    BY TaskType DEF At
<1>2. \A step \in Steps : \A e \in Devices : AtWith(step, e) \in DeviceTasks /\ AtWith(step, e).at = step
    BY TaskType DEF AtWith
<1>3. \A step \in Steps : \A L \in SUBSET Devices :
            /\ AtRead(step, L) \in DeviceTasks
            /\ AtRead(step, L).at = step /\ AtRead(step, L).read = L
    BY TaskType DEF AtRead
<1>4. "idle" \in Steps /\ "offline" \in Steps /\ "failed" \in Steps
    BY Zenon DEF Steps
<1> QED
    BY Zenon, <1>1, <1>2, <1>3, <1>4 DEF Idle, Offline, Failed

\* What is left of the types when only tasks, streams and the published list change.
LEMMA TypesKept ==
    ASSUME TypeOK, UNCHANGED <<bundles, checks, cache, local, sessions, attempts>>,
           ops' = ops \/ Spend,
           list' \subseteq Devices, task' \in [Devices -> DeviceTasks],
           stream' \in [Devices -> Seq(StreamMessages)], disabled' \in BOOLEAN,
           gaveUp' \subseteq Devices, stale' \subseteq Devices
    PROVE  TypeOK'
<1>1. ops' \in Nat
    BY DEF TypeOK, Spend
<1> QED
    BY Zenon, <1>1 DEF TypeOK

\* A task past `get_all` has a list.
LEMMA TasksHaveLists ==
    ASSUME Inv, NEW d \in Devices, task[d].at \notin Unloaded
    PROVE  d \in Online /\ HasList(d) /\ ListOf(d) \in SUBSET Devices
<1>1. TypeOK /\ HasList(d) /\ task[d].at # "offline"
    BY Zenon DEF Inv, Sound, HasList, Unloaded
<1> QED
    BY Zenon, <1>1, ListType DEF Online

\* A task that publishes a list and moves on keeps the invariant.
LEMMA PublishingKeepsInv ==
    ASSUME Inv, NEW d \in Online, NEW L \in SUBSET Devices, Publish(L),
           NEW t \in DeviceTasks, t.at # "offline", task' = [task EXCEPT ![d] = t],
           HasList(d), ops' = ops \/ Spend,
           gaveUp' \subseteq Devices, stale' \subseteq Devices,
           UNCHANGED <<bundles, checks, cache, local, sessions, attempts>>
    PROVE  Inv'
<1>0. TypeOK /\ d \in Devices
    BY Zenon DEF Inv, Online
<1>1. /\ task' \in [Devices -> DeviceTasks] /\ task'[d] = t
      /\ \A e \in Devices : e # d => task'[e] = task[e]
      /\ Online' = Online
    <2>1. Online \cup {d} = Online
        OBVIOUS
    <2> QED
        BY Zenon, <1>0, <2>1, TaskMoved
<1>2. Published(L) /\ disabled' = FALSE
    BY Zenon, <1>0, PublishPublishes
<1>3. TypeOK'
    BY Zenon, <1>0, <1>1, <1>2, TypesKept DEF Published
<1>4. \A e \in Devices : task'[e].at \notin Unloaded => cache'[e] # {}
    BY Zenon, <1>1 DEF Inv, Sound, HasList
<1> QED
    BY Zenon, <1>1, <1>2, <1>3, <1>4, PublishedKeepsInv

\* A task that moves on and leaves the lists alone keeps the invariant, unless it
\* held a list that it was going to store or to publish.
LEMMA MovingKeepsInv ==
    ASSUME Inv, TypeOK', NEW d \in Devices, task[d].at \notin {"offline", "shorter", "loaded"},
           NEW t \in DeviceTasks, t.at # "offline", task' = [task EXCEPT ![d] = t],
           HasList(d) \/ t.at \in Unloaded,
           UNCHANGED <<list, stream, checks, cache, local, disabled, stale>>,
           gaveUp \subseteq gaveUp'
    PROVE  Inv'
<1>0. TypeOK /\ Sound(d)
    BY Zenon DEF Inv
<1>1. /\ task'[d] = t
      /\ \A e \in Devices : e # d => task'[e] = task[e]
    BY Zenon, <1>0, TaskMoved
<1>2. Apart(d)
    BY Zenon, <1>1 DEF Apart
<1>3. ~disabled => Fresh(d) /\ Announced(d)
    BY Zenon, <1>0 DEF Sound
<1>4. ~disabled => Fresh(d)' /\ Announced(d)'
    <2>1. Fresh(d) => Fresh(d)'
        BY Zenon, <1>1 DEF Fresh
    <2>2. Announced(d) => Announced(d)'
        BY Zenon, <1>1 DEF Announced
    <2> QED
        BY Zenon, <1>3, <2>1, <2>2
<1>5. Sound(d)'
    BY Zenon, <1>0, <1>1, <1>4 DEF Sound, HasList
<1> QED
    BY Zenon, <1>2, <1>5, ApartKeepsInv

-----------------------------------------------------------------------------
(* The actions                                                               *)

\* `get_all` asks for the list: the answer is the newest message.
LEMMA LoadKeepsInv ==
    ASSUME Inv, NEW d \in Devices, Load(d)
    PROVE  Inv'
<1>0. TypeOK /\ Sound(d) /\ "announce" \in Steps /\ "loading" \in Steps
    BY Zenon DEF Inv, Steps
<1>1. /\ task[d].at = "announce" /\ At("loading") \in DeviceTasks /\ At("loading").at = "loading"
      /\ task' = [task EXCEPT ![d] = At("loading")]
    BY <1>0, TaskSteps DEF Load
<1>2. /\ task' \in [Devices -> DeviceTasks] /\ task'[d].at = "loading"
      /\ \A e \in Devices : e # d => task'[e] = task[e]
    BY Zenon, <1>0, <1>1, TaskMoved
<1>3. Message("answer", list) \in StreamMessages /\ Message("answer", list).list = list
    BY Zenon, <1>0, MessageType DEF TypeOK
<1>4. /\ stream' \in [Devices -> Seq(StreamMessages)]
      /\ stream'[d] # <<>> /\ Newest(stream'[d]).list = list
      /\ \A e \in Devices : e # d => stream'[e] = stream[e]
    <2>1. stream[d] \in Seq(StreamMessages) /\ stream'[d] = Append(stream[d], Message("answer", list))
        BY Zenon, <1>0 DEF TypeOK, Load
    <2>2. /\ Append(stream[d], Message("answer", list)) \in Seq(StreamMessages)
          /\ Append(stream[d], Message("answer", list)) # <<>>
          /\ Newest(Append(stream[d], Message("answer", list))) = Message("answer", list)
        BY Zenon, <1>3, <2>1, AppendNewest
    <2> QED
        BY Zenon, <1>0, <1>3, <2>1, <2>2 DEF TypeOK, Load
<1>5. UNCHANGED <<list, bundles, checks, cache, local, sessions, attempts, ops, disabled, gaveUp,
                  stale>>
    BY Zenon DEF Load
<1>6. TypeOK'
    BY Zenon, <1>0, <1>2, <1>4, <1>5, TypesKept DEF TypeOK
<1>7. Apart(d)
    BY Zenon, <1>2, <1>4, <1>5 DEF Apart
<1>8. Fresh(d)' /\ Announced(d)'
    BY Zenon, <1>4, <1>5 DEF Fresh, Announced
<1>9. Sound(d)'
    BY Zenon, <1>0, <1>1, <1>2, <1>5, <1>8 DEF Sound, Unloaded
<1> QED
    BY Zenon, <1>6, <1>7, <1>9, ApartKeepsInv

\* A new connection is pushed the published list.
LEMMA ConnectKeepsInv ==
    ASSUME Inv, NEW d \in Devices, Connect(d)
    PROVE  Inv'
<1>0. TypeOK /\ "announce" \in Steps
    BY Zenon DEF Inv, Steps
<1>1. /\ At("announce") \in DeviceTasks /\ At("announce").at = "announce"
      /\ task' = [task EXCEPT ![d] = At("announce")]
    BY Zenon, <1>0, TaskSteps DEF Connect
<1>2. /\ task' \in [Devices -> DeviceTasks] /\ task'[d].at = "announce"
      /\ \A e \in Devices : e # d => task'[e] = task[e]
    BY Zenon, <1>0, <1>1, TaskMoved
<1>3. Message("push", list) \in StreamMessages /\ Message("push", list).list = list
    BY Zenon, <1>0, MessageType DEF TypeOK
<1>4. /\ stream' \in [Devices -> Seq(StreamMessages)]
      /\ stream'[d] # <<>> /\ Newest(stream'[d]).list = list
      /\ \A e \in Devices : e # d => stream'[e] = stream[e]
    <2>1. /\ <<Message("push", list)>> \in Seq(StreamMessages)
          /\ <<Message("push", list)>> # <<>>
          /\ Newest(<<Message("push", list)>>) = Message("push", list)
        BY <1>3 DEF Newest
    <2>2. stream' = [stream EXCEPT ![d] = <<Message("push", list)>>]
        BY Zenon DEF Connect
    <2> QED
        BY Zenon, <1>0, <1>3, <2>1, <2>2 DEF TypeOK
<1>5. /\ UNCHANGED <<list, bundles, checks, sessions, disabled>>
      /\ local' = local \cup {d}
      /\ cache' = [cache EXCEPT ![d] = {}]
      /\ attempts' = [attempts EXCEPT ![d] = {}]
      /\ gaveUp' = gaveUp \ {d} /\ stale' = stale \ {d}
      /\ ops' = ops + 1
    BY Zenon DEF Connect, Spend
<1>6. TypeOK'
    <2>1. cache' \in [Devices -> {{}} \cup {{L} : L \in SUBSET Devices}]
        BY Zenon, <1>0, <1>5 DEF TypeOK
    <2>2. /\ attempts' \in [Devices -> SUBSET Devices]
          /\ \A e \in Devices : e \notin sessions'[e] \cup attempts'[e]
        BY Zenon, <1>0, <1>5 DEF TypeOK
    <2>3. /\ list' \subseteq Devices /\ bundles' \subseteq local' /\ local' \subseteq Devices
          /\ ops' \in Nat /\ gaveUp' \subseteq Devices /\ stale' \subseteq Devices
        BY <1>0, <1>5 DEF TypeOK
    <2>4. /\ sessions' \in [Devices -> SUBSET Devices] /\ disabled' \in BOOLEAN
          /\ checks' \in [Devices -> Seq(SUBSET Devices)]
        BY Zenon, <1>0, <1>5 DEF TypeOK
    <2> QED
        BY Zenon, <1>2, <1>4, <2>1, <2>2, <2>3, <2>4 DEF TypeOK
<1>7. Apart(d)
    <2>1. \A e \in Devices : e # d => cache'[e] = cache[e]
        BY Zenon, <1>0, <1>5 DEF TypeOK
    <2> QED
        BY Zenon, <1>2, <1>4, <1>5, <2>1 DEF Apart
<1>8. Fresh(d)' /\ Announced(d)'
    BY Zenon, <1>4, <1>5 DEF Fresh, Announced
<1>9. Sound(d)'
    BY Zenon, <1>2, <1>5, <1>8 DEF Sound, Unloaded
<1> QED
    BY Zenon, <1>6, <1>7, <1>9, ApartKeepsInv

\* A connection that is lost takes its stream and its task along.
LEMMA DisconnectKeepsInv ==
    ASSUME Inv, NEW d \in Devices, Disconnect(d)
    PROVE  Inv'
<1>0. TypeOK
    BY Zenon DEF Inv
<1>1. /\ Offline \in DeviceTasks /\ Offline.at = "offline"
      /\ task' = [task EXCEPT ![d] = Offline]
    BY Zenon, TaskSteps DEF Disconnect
<1>2. /\ task' \in [Devices -> DeviceTasks] /\ task'[d].at = "offline"
      /\ \A e \in Devices : e # d => task'[e] = task[e]
    BY Zenon, <1>0, <1>1, TaskMoved
<1>3. /\ UNCHANGED <<list, bundles, cache, local, sessions, attempts, ops, disabled, gaveUp, stale>>
      /\ stream' = [stream EXCEPT ![d] = <<>>]
      /\ checks' = [checks EXCEPT ![d] = <<>>]
    BY Zenon DEF Disconnect
<1>4. /\ stream' \in [Devices -> Seq(StreamMessages)]
      /\ stream'[d] = <<>>
      /\ \A e \in Devices : e # d => stream'[e] = stream[e]
    BY <1>0, <1>3 DEF TypeOK
<1>5. /\ checks' \in [Devices -> Seq(SUBSET Devices)]
      /\ \A e \in Devices : e # d => checks'[e] = checks[e]
    BY <1>0, <1>3 DEF TypeOK
<1>6. TypeOK'
    BY Zenon, <1>0, <1>2, <1>3, <1>4, <1>5 DEF TypeOK
<1>7. Apart(d)
    BY Zenon, <1>2, <1>3, <1>4, <1>5 DEF Apart
<1>8. Sound(d)'
    BY Zenon, <1>2, <1>4 DEF Sound, Unloaded
<1> QED
    BY Zenon, <1>6, <1>7, <1>8, ApartKeepsInv

\* `initialize` announces the device if the stored list lacks it.
LEMMA AnnounceStoredKeepsInv ==
    ASSUME Inv, NEW d \in Devices, AnnounceStored(d)
    PROVE  Inv'
<1>0. TypeOK /\ "announce" \in Steps /\ "bundle" \in Steps
    BY Zenon DEF Inv, Steps
<1>1. /\ At("bundle") \in DeviceTasks /\ At("bundle").at = "bundle"
      /\ Failed \in DeviceTasks /\ Failed.at = "failed"
      /\ At("announce").at = "announce"
    BY Zenon, <1>0, TaskSteps
<1>2. /\ task[d].at = "announce" /\ HasList(d) /\ d \in Online
      /\ UNCHANGED <<bundles, checks, cache, local, sessions, attempts, stale>>
    BY Zenon, <1>1 DEF AnnounceStored, Online
<1>3. ListOf(d) \in SUBSET Devices
    BY Zenon, <1>0, <1>2, ListType
<1>4. CASE NothingToAnnounce /\ task' = [task EXCEPT ![d] = At("bundle")]
    <2>1. UNCHANGED <<list, stream, disabled, gaveUp, ops>>
        BY Zenon, <1>4 DEF NothingToAnnounce, NotPublished
    <2>2. task' \in [Devices -> DeviceTasks]
        BY Zenon, <1>0, <1>1, <1>4, TaskMoved
    <2>3. TypeOK'
        BY Zenon, <1>0, <1>2, <2>1, <2>2, TypesKept DEF TypeOK
    <2> QED
        BY Zenon, <1>1, <1>2, <1>4, <2>1, <2>3, MovingKeepsInv
<1>5. CASE AnnouncedWith(d, ListOf(d)) /\ task' = [task EXCEPT ![d] = At("bundle")]
    <2>1. /\ ListOf(d) \cup {d} \in SUBSET Devices /\ Publish(ListOf(d) \cup {d})
          /\ gaveUp' \subseteq Devices /\ stale' \subseteq Devices /\ ops' = ops
        BY Zenon, <1>0, <1>2, <1>3, <1>5 DEF AnnouncedWith, TypeOK
    <2> QED
        BY Zenon, <1>1, <1>2, <1>5, <2>1, PublishingKeepsInv
<1>6. CASE NotAnnounced(d) /\ task' = [task EXCEPT ![d] = Failed]
    <2>1. UNCHANGED <<list, stream, disabled>> /\ gaveUp' = gaveUp \cup {d} /\ Spend
        BY Zenon, <1>6 DEF NotAnnounced, NotPublished
    <2>2. task' \in [Devices -> DeviceTasks]
        BY Zenon, <1>0, <1>1, <1>6, TaskMoved
    <2>3. TypeOK'
        <3>1. gaveUp' \subseteq Devices
            BY Zenon, <1>0, <2>1 DEF TypeOK
        <3> QED
            BY Zenon, <1>0, <1>2, <2>1, <2>2, <3>1, TypesKept DEF TypeOK
    <2> QED
        BY Zenon, <1>1, <1>2, <1>6, <2>1, <2>3, MovingKeepsInv
<1> QED
    BY Zenon, <1>4, <1>5, <1>6 DEF AnnounceStored

\* Or if the answer lacks it, which is stored first.
LEMMA AnnounceLoadedKeepsInv ==
    ASSUME Inv, NEW d \in Devices, AnnounceLoaded(d)
    PROVE  Inv'
<1> DEFINE L == task[d].read
<1>0. TypeOK /\ Sound(d) /\ "bundle" \in Steps
    BY Zenon DEF Inv, Steps
<1>1. /\ At("bundle") \in DeviceTasks /\ At("bundle").at = "bundle"
      /\ Failed \in DeviceTasks /\ Failed.at = "failed"
    BY Zenon, <1>0, TaskSteps
<1>2. /\ task[d].at = "loaded" /\ d \in Online
      /\ cache' = [cache EXCEPT ![d] = {L}]
      /\ stale' = IF HasList(d) /\ cache[d] # {L} THEN stale \cup {d} ELSE stale
      /\ UNCHANGED <<bundles, checks, local, sessions, attempts>>
    BY Zenon DEF AnnounceLoaded, Online, SetAll
<1>3. L \in SUBSET Devices
    BY Zenon, <1>0 DEF TypeOK, DeviceTasks
<1>4. /\ cache' \in [Devices -> {{}} \cup {{K} : K \in SUBSET Devices}]
      /\ cache'[d] = {L}
      /\ \A e \in Devices : e # d => cache'[e] = cache[e]
    BY Zenon, <1>0, <1>2, <1>3 DEF TypeOK
<1>5. /\ gaveUp' \in {gaveUp, gaveUp \ {d}, gaveUp \cup {d}}
      /\ ops' = ops \/ ops' = ops + 1
      /\ stale \subseteq stale' /\ stale' \subseteq Devices
    <2>1. gaveUp' \in {gaveUp, gaveUp \ {d}, gaveUp \cup {d}} /\ (ops' = ops \/ ops' = ops + 1)
        BY Zenon DEF AnnounceLoaded, NothingToAnnounce, AnnouncedWith, NotAnnounced, Spend
    <2> QED
        BY Zenon, <1>0, <1>2, <2>1 DEF TypeOK
<1>6. gaveUp' \subseteq Devices /\ ops' \in Nat
    BY <1>0, <1>5 DEF TypeOK
<1>7. PICK t \in {At("bundle"), Failed} : task' = [task EXCEPT ![d] = t]
    BY Zenon DEF AnnounceLoaded
<1>8. t \in DeviceTasks /\ t.at # "offline" /\ t.at # "loaded" /\ t.at # "shorter"
    BY Zenon, <1>1, <1>7
<1>9. /\ task' \in [Devices -> DeviceTasks] /\ task'[d] = t
      /\ \A e \in Devices : e # d => task'[e] = task[e]
      /\ Online' = Online
    <2>1. Online \cup {d} = Online
        BY Zenon, <1>2
    <2> QED
        BY Zenon, <1>0, <1>7, <1>8, <2>1, TaskMoved
<1>10. \A e \in Devices : task'[e].at \notin Unloaded => cache'[e] # {}
    BY Zenon, <1>4, <1>9 DEF Inv, Sound
<1>11. CASE AnnouncedWith(d, L)
    <2>1. L \cup {d} \in SUBSET Devices /\ Publish(L \cup {d})
        BY Zenon, <1>3, <1>11 DEF AnnouncedWith
    <2> HIDE DEF L
    <2>2. Published(L \cup {d}) /\ disabled' = FALSE
        BY Zenon, <1>0, <2>1, PublishPublishes
    <2>3. TypeOK'
        BY Zenon, <1>0, <1>2, <1>4, <1>5, <1>6, <1>9, <2>2 DEF TypeOK, Published
    <2> QED
        BY Zenon, <1>2, <1>9, <1>10, <2>2, <2>3, PublishedKeepsInv
<1>12. CASE (d \in L /\ NothingToAnnounce) \/ (d \notin L /\ NotAnnounced(d))
    <2>1. /\ UNCHANGED <<list, stream, disabled>>
          /\ d \in L \/ d \in gaveUp'
          /\ gaveUp \subseteq gaveUp'
        BY Zenon, <1>12 DEF NothingToAnnounce, NotAnnounced, NotPublished
    <2> HIDE DEF L
    <2>2. TypeOK'
        BY Zenon, <1>0, <1>2, <1>4, <1>5, <1>6, <1>9, <2>1 DEF TypeOK
    <2>3. Apart(d)
        BY Zenon, <1>2, <1>4, <1>5, <1>9, <2>1 DEF Apart
    <2>4. ASSUME ~disabled PROVE Fresh(d)' /\ Announced(d)'
        <3>1. Fresh(d) /\ Announced(d)
            BY Zenon, <1>0, <1>2, <2>4 DEF Sound
        <3>2. Announced(d)'
            BY Zenon, <1>2, <1>9, <2>1, <3>1 DEF Announced, L
        <3>3. CASE stream[d] # <<>>
            BY Zenon, <2>1, <3>1, <3>2, <3>3 DEF Fresh
        <3>4. CASE stream[d] = <<>> /\ L = list
            BY Zenon, <1>4, <2>1, <3>2, <3>4 DEF Fresh
        <3>5. CASE stream[d] = <<>> /\ L # list
            <4>1. cache[d] = {list} \/ d \in stale
                BY <1>2, <3>1, <3>5 DEF Fresh, L
            <4>2. cache[d] = {list} => HasList(d) /\ cache[d] # {L}
                BY Zenon, <3>5 DEF HasList
            <4>3. d \in stale'
                BY Zenon, <1>2, <4>1, <4>2
            <4> QED
                BY Zenon, <2>1, <3>2, <3>5, <4>3 DEF Fresh
        <3> QED
            BY Zenon, <3>3, <3>4, <3>5
    <2>5. Sound(d)'
        BY Zenon, <1>0, <1>2, <1>8, <1>9, <1>10, <2>1, <2>4 DEF Sound
    <2> QED
        BY Zenon, <2>2, <2>3, <2>5, ApartKeepsInv
<1> QED
    BY Zenon, <1>11, <1>12 DEF AnnounceLoaded

\* Loading and publishing the own bundle changes no list, and neither does a failing
\* request.
LEMMA InitializeKeepsInv ==
    ASSUME Inv, NEW d \in Devices, LoadOwnBundle(d) \/ PublishBundle(d) \/ InitializeFails(d)
    PROVE  Inv'
<1>0. /\ TypeOK /\ Sound(d)
      /\ "announce" \in Steps /\ "bundle" \in Steps /\ "publish" \in Steps
    BY Zenon DEF Inv, Steps
<1>1. /\ At("announce").at = "announce" /\ At("bundle").at = "bundle"
      /\ At("publish") \in DeviceTasks /\ At("publish").at = "publish"
      /\ Idle \in DeviceTasks /\ Idle.at = "idle"
      /\ Failed \in DeviceTasks /\ Failed.at = "failed"
    BY Zenon, <1>0, TaskSteps
<1>2. /\ task[d].at \in {"announce", "bundle", "publish"}
      /\ UNCHANGED <<list, stream, checks, cache, local, sessions, attempts, disabled, gaveUp, stale>>
    BY Zenon, <1>1 DEF LoadOwnBundle, PublishBundle, InitializeFails
<1>3. ops' = ops \/ Spend
    BY Zenon DEF LoadOwnBundle, PublishBundle, InitializeFails
<1>4. PICK t \in {Idle, At("publish"), Failed} : task' = [task EXCEPT ![d] = t]
    BY Zenon DEF LoadOwnBundle, PublishBundle, InitializeFails
<1>5. t \in DeviceTasks /\ t.at # "offline"
    BY Zenon, <1>1, <1>4
<1>6. HasList(d) \/ t.at \in Unloaded
    <2>1. CASE task[d].at = "announce"
        <3>1. task' = [task EXCEPT ![d] = Failed]
            BY Zenon, <1>1, <2>1 DEF LoadOwnBundle, PublishBundle, InitializeFails
        <3>2. t = Failed
            BY Zenon, <1>0, <1>4, <3>1 DEF TypeOK
        <3> QED
            BY Zenon, <1>1, <3>2 DEF Unloaded
    <2>2. CASE task[d].at \in {"bundle", "publish"}
        BY Zenon, <1>0, <2>2 DEF Sound, HasList, Unloaded
    <2> QED
        BY Zenon, <1>2, <2>1, <2>2
<1>7. bundles' = bundles \/ bundles' = bundles \cup {d}
    BY Zenon DEF LoadOwnBundle, PublishBundle, InitializeFails
<1>8. TypeOK'
    <2>1. task' \in [Devices -> DeviceTasks]
        BY Zenon, <1>0, <1>4, <1>5, TaskMoved
    <2>2. bundles' \subseteq local'
        BY Zenon, <1>0, <1>2, <1>7 DEF TypeOK, Sound
    <2>3. ops' \in Nat
        BY <1>0, <1>3 DEF TypeOK, Spend
    <2> QED
        BY Zenon, <1>0, <1>2, <2>1, <2>2, <2>3 DEF TypeOK
<1> QED
    BY Zenon, <1>2, <1>4, <1>5, <1>6, <1>8, MovingKeepsInv

\* `handle_received_device_list` stores a list, and `get_all` gets its answer.
LEMMA ReceiveKeepsInv ==
    ASSUME Inv, NEW d \in Devices, Receive(d)
    PROVE  Inv'
<1> DEFINE m == Head(stream[d])
<1>0. TypeOK /\ Sound(d) /\ "loaded" \in Steps
    BY Zenon DEF Inv, Steps
<1>1. /\ stream[d] # <<>>
      /\ stream' = [stream EXCEPT ![d] = Tail(@)]
      /\ UNCHANGED <<list, bundles, local, sessions, attempts, ops, disabled, gaveUp>>
    BY Zenon DEF Receive
<1>2. /\ m \in StreamMessages
      /\ Tail(stream[d]) \in Seq(StreamMessages)
      /\ Tail(stream[d]) = <<>> => Newest(stream[d]) = m
      /\ Tail(stream[d]) # <<>> => Newest(Tail(stream[d])) = Newest(stream[d])
    <2>1. stream[d] \in Seq(StreamMessages)
        BY Zenon, <1>0 DEF TypeOK
    <2> QED
        BY Zenon, <1>1, <2>1, TailNewest
<1>3. m.list \in SUBSET Devices
    BY Zenon, <1>2 DEF StreamMessages
<1>4. /\ stream' \in [Devices -> Seq(StreamMessages)]
      /\ stream'[d] = Tail(stream[d])
      /\ \A e \in Devices : e # d => stream'[e] = stream[e]
    BY Zenon, <1>0, <1>1, <1>2 DEF TypeOK
<1>5. task[d].at # "offline" /\ d \in local
    BY Zenon, <1>0, <1>1 DEF Sound
<1>6. ~disabled =>
        /\ stream'[d] = <<>> => m.list = list
        /\ stream'[d] # <<>> => Newest(stream'[d]).list = list
    <2> SUFFICES ASSUME ~disabled
                 PROVE  /\ stream'[d] = <<>> => m.list = list
                        /\ stream'[d] # <<>> => Newest(stream'[d]).list = list
        OBVIOUS
    <2>1. Newest(stream[d]).list = list
        BY Zenon, <1>0, <1>1, <1>5 DEF Sound, Fresh
    <2> QED
        BY Zenon, <1>2, <1>4, <2>1
<1>7. CASE m.kind = "push"
    <2>1. /\ cache' = [cache EXCEPT ![d] = {m.list}]
          /\ checks' = [checks EXCEPT ![d] = IF d \in m.list THEN @ ELSE Append(@, m.list)]
          /\ stale' = stale \ {d} /\ task' = task
        BY Zenon, <1>7 DEF Receive, SetAll
    <2> HIDE DEF m
    <2>2. /\ cache' \in [Devices -> {{}} \cup {{K} : K \in SUBSET Devices}]
          /\ cache'[d] = {m.list}
          /\ \A e \in Devices : e # d => cache'[e] = cache[e]
        BY Zenon, <1>0, <1>3, <2>1 DEF TypeOK
    <2>3. /\ checks' \in [Devices -> Seq(SUBSET Devices)]
          /\ d \notin m.list => checks'[d] # <<>>
          /\ \A e \in Devices : e # d => checks'[e] = checks[e]
        <3>1. checks[d] \in Seq(SUBSET Devices)
            BY Zenon, <1>0 DEF TypeOK
        <3>2. Append(checks[d], m.list) \in Seq(SUBSET Devices) /\ Append(checks[d], m.list) # <<>>
            BY Zenon, <1>3, <3>1, AppendNewest
        <3> QED
            BY Zenon, <1>0, <2>1, <3>1, <3>2 DEF TypeOK
    <2>4. TypeOK'
        <3>1. stale' \subseteq Devices
            BY Zenon, <1>0, <2>1 DEF TypeOK
        <3> QED
            BY Zenon, <1>0, <1>1, <1>4, <2>1, <2>2, <2>3, <3>1 DEF TypeOK
    <2>5. Apart(d)
        BY Zenon, <1>1, <1>4, <2>1, <2>2, <2>3 DEF Apart
    <2>6. ~disabled => Fresh(d)' /\ Announced(d)'
        BY Zenon, <1>1, <1>6, <2>2, <2>3 DEF Fresh, Announced
    <2>7. Sound(d)'
        BY Zenon, <1>1, <1>5, <2>1, <2>2, <2>6 DEF Sound
    <2> QED
        BY Zenon, <2>4, <2>5, <2>7, ApartKeepsInv
<1>8. CASE m.kind # "push"
    <2>1. task' = [task EXCEPT ![d] = AtRead("loaded", m.list)] /\ UNCHANGED <<cache, checks, stale>>
        BY Zenon, <1>8 DEF Receive
    <2>2. /\ AtRead("loaded", m.list) \in DeviceTasks
          /\ AtRead("loaded", m.list).at = "loaded" /\ AtRead("loaded", m.list).read = m.list
        BY Zenon, <1>0, <1>3, TaskSteps
    <2> HIDE DEF m
    <2>3. /\ task' \in [Devices -> DeviceTasks]
          /\ task'[d].at = "loaded" /\ task'[d].read = m.list
          /\ \A e \in Devices : e # d => task'[e] = task[e]
        BY Zenon, <1>0, <2>1, <2>2, TaskMoved
    <2>4. TypeOK'
        BY Zenon, <1>0, <1>1, <1>4, <2>1, <2>3 DEF TypeOK
    <2>5. Apart(d)
        BY Zenon, <1>1, <1>4, <2>1, <2>3 DEF Apart
    <2>6. ~disabled => Fresh(d)' /\ Announced(d)'
        BY Zenon, <1>1, <1>6, <2>3 DEF Fresh, Announced
    <2>7. Sound(d)'
        BY Zenon, <1>1, <1>5, <2>3, <2>6 DEF Sound, Unloaded
    <2> QED
        BY Zenon, <2>4, <2>5, <2>7, ApartKeepsInv
<1> QED
    BY Zenon, <1>7, <1>8

\* `handle_received_device_list` goes on with a list that lacks the device.
LEMMA CheckKeepsInv ==
    ASSUME Inv, NEW d \in Devices, Check(d)
    PROVE  Inv'
<1> DEFINE L == Head(checks[d])
<1>0. TypeOK /\ Sound(d)
    BY Zenon DEF Inv
<1>1. /\ checks[d] # <<>> /\ checks' = [checks EXCEPT ![d] = Tail(@)]
      /\ UNCHANGED <<bundles, task, cache, local, sessions, attempts, stale>>
    BY Zenon DEF Check
<1>2. L \in SUBSET Devices /\ Tail(checks[d]) \in Seq(SUBSET Devices)
    <2>1. checks[d] \in Seq(SUBSET Devices)
        BY Zenon, <1>0 DEF TypeOK
    <2> QED
        BY Zenon, <1>1, <2>1, TailNewest
<1>3. /\ checks' \in [Devices -> Seq(SUBSET Devices)]
      /\ \A e \in Devices : e # d => checks'[e] = checks[e]
    BY Zenon, <1>0, <1>1, <1>2 DEF TypeOK
<1>4. CASE AnnouncedWith(d, L)
    <2>1. /\ L \cup {d} \in SUBSET Devices /\ Publish(L \cup {d})
          /\ gaveUp' = gaveUp \ {d} /\ ops' = ops
        BY Zenon, <1>2, <1>4 DEF AnnouncedWith
    <2> HIDE DEF L
    <2>2. Published(L \cup {d}) /\ disabled' = FALSE
        BY Zenon, <1>0, <2>1, PublishPublishes
    <2>3. TypeOK'
        <3>1. gaveUp' \subseteq Devices
            BY Zenon, <1>0, <2>1 DEF TypeOK
        <3> QED
            BY Zenon, <1>0, <1>1, <1>3, <2>1, <2>2, <3>1 DEF TypeOK, Published
    <2>4. Online' = Online
        BY Zenon, <1>1 DEF Online
    <2>5. \A e \in Devices : task'[e].at \notin Unloaded => cache'[e] # {}
        BY Zenon, <1>1 DEF Inv, Sound
    <2> QED
        BY Zenon, <1>1, <2>2, <2>3, <2>4, <2>5, PublishedKeepsInv
<1>5. CASE (~Reannounce(d, L) /\ NothingToAnnounce) \/ NotAnnounced(d)
    <2>1. /\ UNCHANGED <<list, stream, disabled>>
          /\ d \notin local \/ d \in gaveUp'
          /\ gaveUp' \in {gaveUp, gaveUp \cup {d}}
          /\ ops' = ops \/ ops' = ops + 1
        BY Zenon, <1>5 DEF Reannounce, NothingToAnnounce, NotAnnounced, NotPublished, Spend
    <2>2. TypeOK'
        <3>1. gaveUp' \subseteq Devices
            BY Zenon, <1>0, <2>1 DEF TypeOK
        <3>2. ops' \in Nat
            BY <1>0, <2>1 DEF TypeOK
        <3> QED
            BY Zenon, <1>0, <1>1, <1>3, <2>1, <3>1, <3>2 DEF TypeOK
    <2>3. Apart(d)
        BY Zenon, <1>1, <1>3, <2>1 DEF Apart
    <2>4. Sound(d)'
        <3>1. Fresh(d) => Fresh(d)'
            BY Zenon, <1>1, <2>1 DEF Fresh
        <3>2. d \in local => Announced(d)'
            BY Zenon, <2>1 DEF Announced
        <3> QED
            BY Zenon, <1>0, <1>1, <2>1, <3>1, <3>2 DEF Sound
    <2> QED
        BY Zenon, <2>2, <2>3, <2>4, ApartKeepsInv
<1> QED
    BY Zenon, <1>4, <1>5 DEF Check

\* `encrypt_message` starts a session or decides to unpublish a device.
LEMMA EncryptKeepsInv ==
    ASSUME Inv, NEW d \in Devices, Encrypt(d)
    PROVE  Inv'
<1>0. TypeOK /\ "unpublish" \in Steps
    BY Zenon DEF Inv, Steps
<1>1. /\ Idle \in DeviceTasks /\ Idle.at = "idle" /\ task[d] = Idle
      /\ task[d].at \notin Unloaded
    BY Zenon, TaskSteps DEF Encrypt, Unloaded
<1>2. d \in Online /\ HasList(d) /\ ListOf(d) \in SUBSET Devices
    BY Zenon, <1>1, TasksHaveLists
<1>3. PICK e \in ListOf(d) \ (sessions[d] \cup {d}) :
        \/ /\ sessions' = [sessions EXCEPT ![d] = @ \cup {e}]
           /\ UNCHANGED <<task, attempts, ops>>
        \/ /\ attempts' = [attempts EXCEPT ![d] = @ \cup {e}]
           /\ task' = [task EXCEPT ![d] = AtWith("unpublish", e)]
           /\ Spend
           /\ UNCHANGED sessions
    BY Zenon DEF Encrypt
<1>4. e \in Devices /\ e # d
    BY Zenon, <1>2, <1>3
<1>5. UNCHANGED <<list, bundles, stream, checks, cache, local, disabled, gaveUp, stale>>
    BY DEF Encrypt
<1>6. CASE sessions' = [sessions EXCEPT ![d] = @ \cup {e}] /\ UNCHANGED <<task, attempts, ops>>
    <2>1. task' = [task EXCEPT ![d] = Idle]
        BY Zenon, <1>0, <1>1, <1>6 DEF TypeOK
    <2>2. /\ sessions' \in [Devices -> SUBSET Devices]
          /\ \A f \in Devices : f \notin sessions'[f] \cup attempts'[f]
        BY <1>0, <1>4, <1>6 DEF TypeOK
    <2>3. TypeOK'
        BY Zenon, <1>0, <1>5, <1>6, <2>2 DEF TypeOK
    <2> QED
        BY Zenon, <1>1, <1>2, <1>5, <2>1, <2>3, MovingKeepsInv
<1>7. CASE /\ attempts' = [attempts EXCEPT ![d] = @ \cup {e}]
           /\ task' = [task EXCEPT ![d] = AtWith("unpublish", e)]
           /\ Spend
           /\ UNCHANGED sessions
    <2>1. AtWith("unpublish", e) \in DeviceTasks /\ AtWith("unpublish", e).at = "unpublish"
        BY <1>0, <1>4, TaskSteps
    <2>2. /\ attempts' \in [Devices -> SUBSET Devices]
          /\ \A f \in Devices : f \notin sessions'[f] \cup attempts'[f]
        BY Zenon, <1>0, <1>4, <1>7 DEF TypeOK
    <2>3. task' \in [Devices -> DeviceTasks]
        BY Zenon, <1>0, <1>7, <2>1, TaskMoved
    <2>4. TypeOK'
        <3>1. ops' \in Nat
            BY <1>0, <1>7 DEF TypeOK, Spend
        <3> QED
            BY Zenon, <1>0, <1>5, <1>7, <2>2, <2>3, <3>1 DEF TypeOK
    <2> QED
        BY Zenon, <1>1, <1>2, <1>5, <1>7, <2>1, <2>4, MovingKeepsInv
<1> QED
    BY Zenon, <1>3, <1>6, <1>7

\* `unpublish_device` publishes the stored list without the device.
LEMMA UnpublishDeviceKeepsInv ==
    ASSUME Inv, NEW d \in Devices, UnpublishDevice(d)
    PROVE  Inv'
<1> DEFINE L == ListOf(d) \ task[d].device
<1>0. TypeOK
    BY Zenon DEF Inv
<1>1. /\ task[d].at = "unpublish" /\ task' = [task EXCEPT ![d] = Idle]
      /\ UNCHANGED <<bundles, checks, cache, local, sessions, attempts, gaveUp, stale>>
      /\ ops' = ops \/ Spend
    BY Zenon DEF UnpublishDevice
<1>2. Idle \in DeviceTasks /\ Idle.at = "idle"
    BY Zenon, TaskSteps
<1>3. d \in Online /\ HasList(d) /\ L \in SUBSET Devices
    <2>1. task[d].at \notin Unloaded
        BY Zenon, <1>1 DEF Unloaded
    <2> QED
        BY Zenon, <2>1, TasksHaveLists
<1>4. gaveUp' \subseteq Devices /\ stale' \subseteq Devices
    BY Zenon, <1>0, <1>1 DEF TypeOK
<1>5. CASE Publish(L)
    <2> HIDE DEF L
    <2> QED
        BY Zenon, <1>1, <1>2, <1>3, <1>4, <1>5, PublishingKeepsInv
<1>6. CASE NotPublished
    <2>1. UNCHANGED <<list, stream, disabled>>
        BY Zenon, <1>6 DEF NotPublished
    <2>2. task' \in [Devices -> DeviceTasks]
        BY Zenon, <1>0, <1>1, <1>2, TaskMoved
    <2>3. TypeOK'
        BY Zenon, <1>0, <1>1, <1>4, <2>1, <2>2, TypesKept DEF TypeOK
    <2> QED
        BY Zenon, <1>1, <1>2, <1>3, <2>1, <2>3, MovingKeepsInv
<1> QED
    BY Zenon, <1>5, <1>6 DEF UnpublishDevice

\* `delete_device` stores the shorter list first.
LEMMA DeleteDeviceKeepsInv ==
    ASSUME Inv, NEW d \in Devices, DeleteDevice(d)
    PROVE  Inv'
<1>0. TypeOK /\ Sound(d) /\ "shorter" \in Steps
    BY Zenon DEF Inv, Steps
<1>1. Idle.at = "idle" /\ task[d] = Idle /\ task[d].at \notin Unloaded
    BY Zenon, TaskSteps DEF DeleteDevice, Unloaded
<1>2. d \in Online /\ ListOf(d) \in SUBSET Devices /\ task[d].at # "offline"
    BY Zenon, <1>1, TasksHaveLists DEF Unloaded
<1>3. PICK e \in ListOf(d) :
        /\ cache' = [cache EXCEPT ![d] = {ListOf(d) \ {e}}]
        /\ task' = [task EXCEPT ![d] = Doing("shorter", {e}, ListOf(d) \ {e})]
    BY Zenon DEF DeleteDevice, SetAll
<1> DEFINE L == ListOf(d) \ {e}
           t == Doing("shorter", {e}, L)
<1>4. L \in SUBSET Devices /\ e \in Devices
    BY Zenon, <1>2, <1>3
<1>5. t \in DeviceTasks /\ t.at = "shorter" /\ t.read = L
    BY <1>0, <1>4, TaskType
<1>6. /\ UNCHANGED <<list, bundles, stream, checks, local, sessions, attempts, disabled, gaveUp, stale>>
      /\ ops' = ops + 1
    BY Zenon DEF DeleteDevice, Spend
<1>7. cache' = [cache EXCEPT ![d] = {L}] /\ task' = [task EXCEPT ![d] = t]
    BY Zenon, <1>3
<1> HIDE DEF L, t
<1>8. /\ task' \in [Devices -> DeviceTasks] /\ task'[d].at = "shorter" /\ task'[d].read = L
      /\ \A f \in Devices : f # d => task'[f] = task[f]
    BY Zenon, <1>0, <1>5, <1>7, TaskMoved
<1>9. /\ cache' \in [Devices -> {{}} \cup {{K} : K \in SUBSET Devices}]
      /\ cache'[d] = {L}
      /\ \A f \in Devices : f # d => cache'[f] = cache[f]
    BY Zenon, <1>0, <1>4, <1>7 DEF TypeOK
<1>10. TypeOK'
    <2>1. ops' \in Nat
        BY <1>0, <1>6 DEF TypeOK
    <2> QED
        BY Zenon, <1>0, <1>6, <1>8, <1>9, <2>1 DEF TypeOK
<1>11. Apart(d)
    BY Zenon, <1>6, <1>8, <1>9 DEF Apart
<1>12. Sound(d)'
    <2>1. Fresh(d) => Fresh(d)'
        BY Zenon, <1>6, <1>8, <1>9 DEF Fresh
    <2>2. Announced(d) => Announced(d)'
        BY Zenon, <1>1, <1>6, <1>8 DEF Announced
    <2> QED
        BY Zenon, <1>0, <1>2, <1>6, <1>8, <1>9, <2>1, <2>2 DEF Sound
<1> QED
    BY Zenon, <1>10, <1>11, <1>12, ApartKeepsInv

\* It then publishes that list, or leaves it in the store.
LEMMA PublishShorterKeepsInv ==
    ASSUME Inv, NEW d \in Devices, PublishShorter(d)
    PROVE  Inv'
<1>0. TypeOK /\ Sound(d) /\ "deleteBundle" \in Steps
    BY Zenon DEF Inv, Steps
<1>1. task[d] \in DeviceTasks
    BY Zenon, <1>0 DEF TypeOK
<1>2. /\ task[d].at = "shorter" /\ task[d].at \notin Unloaded
      /\ task[d].read \in SUBSET Devices
      /\ task[d].device \in {{}} \cup {{e} : e \in Devices}
    BY Zenon, <1>1 DEF DeviceTasks, PublishShorter, Unloaded
<1>3. /\ d \in Online /\ HasList(d)
      /\ UNCHANGED <<bundles, checks, cache, local, sessions, attempts, gaveUp>>
      /\ gaveUp' \subseteq Devices
    BY Zenon, <1>0, <1>2, TasksHaveLists DEF PublishShorter, TypeOK
<1> DEFINE t == Doing("deleteBundle", task[d].device, {})
<1>4. t \in DeviceTasks /\ t.at = "deleteBundle"
    <2>1. {} \in SUBSET Devices
        OBVIOUS
    <2> QED
        BY <1>0, <1>2, <2>1, TaskType
<1>5. CASE Publish(task[d].read) /\ task' = [task EXCEPT ![d] = t] /\ UNCHANGED <<stale, ops>>
    <2>1. stale' \subseteq Devices
        BY Zenon, <1>0, <1>5 DEF TypeOK
    <2> HIDE DEF t
    <2> QED
        BY Zenon, <1>2, <1>3, <1>4, <1>5, <2>1, PublishingKeepsInv
<1>6. CASE /\ NotPublished /\ Spend /\ task' = [task EXCEPT ![d] = Idle]
           /\ stale' = IF cache[d] = {task[d].read} THEN stale \cup {d} ELSE stale
    <2>1. UNCHANGED <<list, stream, disabled>> /\ Idle \in DeviceTasks /\ Idle.at = "idle"
        BY Zenon, <1>6, TaskSteps DEF NotPublished
    <2>2. /\ task' \in [Devices -> DeviceTasks] /\ task'[d].at = "idle"
          /\ \A e \in Devices : e # d => task'[e] = task[e]
        BY Zenon, <1>0, <1>6, <2>1, TaskMoved
    <2>3. stale' \subseteq Devices /\ stale \subseteq stale'
        BY Zenon, <1>0, <1>6 DEF TypeOK
    <2>4. TypeOK'
        BY Zenon, <1>0, <1>3, <1>6, <2>1, <2>2, <2>3, TypesKept DEF TypeOK
    <2>5. Apart(d)
        BY Zenon, <1>3, <2>1, <2>2, <2>3 DEF Apart
    <2>6. Sound(d)'
        <3>1. Fresh(d) => Fresh(d)'
            BY Zenon, <1>2, <1>3, <1>6, <2>1, <2>2, <2>3 DEF Fresh
        <3>2. Announced(d) => Announced(d)'
            BY Zenon, <1>2, <1>3, <2>1, <2>2 DEF Announced
        <3> QED
            BY Zenon, <1>0, <1>2, <1>3, <2>1, <2>2, <3>1, <3>2 DEF Sound, HasList
    <2> QED
        BY Zenon, <2>4, <2>5, <2>6, ApartKeepsInv
<1> QED
    BY Zenon, <1>5, <1>6 DEF PublishShorter

\* Deleting bundles changes no list.
LEMMA DeleteBundlesKeepsInv ==
    ASSUME Inv, NEW d \in Devices, DeleteBundle(d) \/ DeleteBundles(d)
    PROVE  Inv'
<1>0. TypeOK
    BY Zenon DEF Inv
<1>1. /\ task[d].at \in {"deleteBundle", "deleteBundles"}
      /\ task' = [task EXCEPT ![d] = Idle]
      /\ UNCHANGED <<list, stream, checks, cache, local, sessions, attempts, disabled, gaveUp, stale>>
    BY Zenon DEF DeleteBundle, DeleteBundles
<1>2. bundles' \subseteq bundles /\ (ops' = ops \/ Spend)
    BY Zenon DEF DeleteBundle, DeleteBundles
<1>3. Idle \in DeviceTasks /\ Idle.at = "idle"
    BY Zenon, TaskSteps
<1>4. d \in Online /\ HasList(d)
    <2>1. task[d].at \notin Unloaded
        BY Zenon, <1>1 DEF Unloaded
    <2> QED
        BY Zenon, <2>1, TasksHaveLists
<1>5. TypeOK'
    <2>1. task' \in [Devices -> DeviceTasks]
        BY Zenon, <1>0, <1>1, <1>3, TaskMoved
    <2>2. ops' \in Nat
        BY <1>0, <1>2 DEF TypeOK, Spend
    <2> QED
        BY Zenon, <1>0, <1>1, <1>2, <2>1, <2>2 DEF TypeOK
<1> QED
    BY Zenon, <1>1, <1>3, <1>4, <1>5, MovingKeepsInv

\* `disable_omemo` deletes the node: no list is published until a device is asked
\* to publish one.
LEMMA DisableOmemoKeepsInv ==
    ASSUME Inv, NEW d \in Devices, DisableOmemo(d)
    PROVE  Inv'
<1>0. TypeOK /\ "deleteBundles" \in Steps
    BY Zenon DEF Inv, Steps
<1>1. Idle.at = "idle" /\ task[d] = Idle /\ task[d].at \notin Unloaded
    BY Zenon, TaskSteps DEF DisableOmemo, Unloaded
<1>2. HasList(d) /\ ListOf(d) \in SUBSET Devices
    BY Zenon, <1>1, TasksHaveLists
<1> DEFINE t == AtRead("deleteBundles", ListOf(d))
<1>3. t \in DeviceTasks /\ t.at = "deleteBundles"
    BY Zenon, <1>0, <1>2, TaskSteps
<1>4. /\ task' = [task EXCEPT ![d] = t]
      /\ list' = {} /\ disabled' = TRUE /\ ops' = ops + 1
      /\ UNCHANGED <<bundles, stream, checks, cache, local, sessions, attempts, gaveUp, stale>>
    BY Zenon DEF DisableOmemo, Spend
<1> HIDE DEF t
<1>5. /\ task' \in [Devices -> DeviceTasks] /\ task'[d] = t
      /\ \A f \in Devices : f # d => task'[f] = task[f]
    BY Zenon, <1>0, <1>3, <1>4, TaskMoved
<1>6. TypeOK'
    <2>1. ops' \in Nat
        BY <1>0, <1>4 DEF TypeOK
    <2>2. list' \subseteq Devices /\ disabled' \in BOOLEAN
        BY Zenon, <1>4
    <2> QED
        BY Zenon, <1>0, <1>4, <1>5, <2>1, <2>2 DEF TypeOK
<1>7. ASSUME NEW e \in Devices PROVE Sound(e)'
    <2>1. Sound(e)
        BY Zenon DEF Inv
    <2>2. CASE e = d
        <3>1. task[d].at # "offline"
            BY Zenon, <1>1 DEF Unloaded
        <3> QED
            BY Zenon, <1>2, <1>3, <1>4, <1>5, <2>1, <2>2, <3>1 DEF Sound, HasList
    <2>3. CASE e # d
        BY Zenon, <1>4, <1>5, <2>1, <2>3 DEF Sound
    <2> QED
        BY Zenon, <2>2, <2>3
<1> QED
    BY Zenon, <1>6, <1>7 DEF Inv

-----------------------------------------------------------------------------
(* The theorems                                                              *)

\* Devices that have been connected for a while have the list they are on.
LEMMA InitInv ==
    ASSUME Initial \subseteq SUBSET Devices, Init
    PROVE  Inv
<1>1. PICK old \in Initial :
        /\ list = old /\ bundles = old /\ local = old
        /\ stream = [d \in Devices |-> <<>>]
        /\ task = [d \in Devices |-> IF d \in old THEN Idle ELSE Offline]
        /\ cache = [d \in Devices |-> IF d \in old THEN {old} ELSE {}]
        /\ sessions = [d \in Devices |-> IF d \in old THEN old \ {d} ELSE {}]
        /\ attempts = [d \in Devices |-> {}]
        /\ checks = [d \in Devices |-> <<>>]
        /\ ops = 0 /\ disabled = FALSE /\ gaveUp = {} /\ stale = {}
    BY Zenon DEF Init
<1>2. old \in SUBSET Devices
    BY Zenon, <1>1
<1>3. /\ Idle \in DeviceTasks /\ Idle.at = "idle"
      /\ Offline \in DeviceTasks /\ Offline.at = "offline"
    BY Zenon, TaskSteps
<1>4. \A d \in Devices : /\ d \in old => task[d].at = "idle" /\ cache[d] = {old}
                         /\ d \notin old => task[d].at = "offline"
                         /\ stream[d] = <<>>
    BY Zenon, <1>1, <1>3
<1>5. TypeOK
    <2>1. task \in [Devices -> DeviceTasks]
        BY Zenon, <1>1, <1>3
    <2>2. stream \in [Devices -> Seq(StreamMessages)] /\ checks \in [Devices -> Seq(SUBSET Devices)]
        BY <1>1
    <2>3. cache \in [Devices -> {{}} \cup {{L} : L \in SUBSET Devices}]
        BY Zenon, <1>1, <1>2
    <2>4. /\ sessions \in [Devices -> SUBSET Devices] /\ attempts \in [Devices -> SUBSET Devices]
          /\ \A d \in Devices : d \notin sessions[d] \cup attempts[d]
        BY Zenon, <1>1, <1>2
    <2> QED
        BY Zenon, <1>1, <1>2, <2>1, <2>2, <2>3, <2>4 DEF TypeOK
<1>6. ASSUME NEW d \in Devices PROVE Sound(d)
    BY Zenon, <1>1, <1>4 DEF Sound, Fresh, Announced, Unloaded
<1> QED
    BY Zenon, <1>5, <1>6 DEF Inv

\* The invariant, for any devices that were listed at first and any number of
\* connections, deletions, disablings and failing requests.
THEOREM DevicesInvariant ==
    ASSUME Initial \subseteq SUBSET Devices
    PROVE  Spec => []Inv
<1>1. Init => Inv
    BY Zenon, InitInv
<1>2. Inv /\ [Next]_vars => Inv'
    <2> SUFFICES ASSUME Inv, [Next]_vars PROVE Inv'
        OBVIOUS
    <2>1. ASSUME NEW d \in Devices, Step(d) PROVE Inv'
        BY Zenon, <2>1, LoadKeepsInv, AnnounceStoredKeepsInv, AnnounceLoadedKeepsInv,
           InitializeKeepsInv, UnpublishDeviceKeepsInv, PublishShorterKeepsInv,
           DeleteBundlesKeepsInv DEF Step
    <2>2. ASSUME NEW d \in Devices, Handle(d) PROVE Inv'
        BY Zenon, <2>2, ReceiveKeepsInv, CheckKeepsInv DEF Handle
    <2>3. CASE Next
        BY Zenon, <2>1, <2>2, <2>3, ConnectKeepsInv, DisconnectKeepsInv, EncryptKeepsInv,
           DeleteDeviceKeepsInv, DisableOmemoKeepsInv DEF Next
    <2>4. CASE UNCHANGED vars
        BY Zenon, <2>4 DEF vars, Inv, TypeOK, Sound, Fresh, Announced
    <2> QED
        BY Zenon, <2>3, <2>4
<1> QED
    BY <1>1, <1>2, PTL DEF Spec

\* A device of the account that rests has stored the published list: whatever it
\* had fetched or was pushed earlier was replaced. The exceptions are those of the
\* code: what `delete_device` stored and could not publish, and an answer of
\* `get_all` that was stored after a later push, until the next push.
THEOREM RestingCachesAreCurrent ==
    ASSUME Initial \subseteq SUBSET Devices
    PROVE  Spec => []CacheIsCurrent
<1>1. Inv => CacheIsCurrent
    <2> SUFFICES ASSUME Inv, Quiet, ~disabled, NEW d \in Online \ stale
                 PROVE  cache[d] = {list}
        BY Zenon DEF CacheIsCurrent
    <2>1. stream[d] = <<>> /\ task[d] \in {Idle, Offline, Failed} /\ d \in Devices
        BY Zenon DEF Quiet, Online
    <2>2. task[d].at \notin {"shorter", "loaded"} /\ task[d].at # "offline"
        BY Zenon, <2>1, TaskSteps DEF Online
    <2> QED
        BY Zenon, <2>1, <2>2 DEF Inv, Sound, Fresh
<1> QED
    BY <1>1, DevicesInvariant, PTL

\* `handle_received_device_list` is enough to repair what the devices do to each
\* other's lists: they never all rest while a connected one is not listed, unless
\* the last attempt of that device to announce itself failed, which nobody repeats.
THEOREM NobodyRestsWithoutBeingListed ==
    ASSUME Initial \subseteq SUBSET Devices
    PROVE  Spec => []NobodyRestsUnlisted
<1>1. Inv => NobodyRestsUnlisted
    <2> SUFFICES ASSUME Inv, Quiet, ~disabled, NEW d \in Online \ gaveUp
                 PROVE  d \in list
        BY Zenon DEF NobodyRestsUnlisted, Listed
    <2>1. /\ stream[d] = <<>> /\ checks[d] = <<>> /\ task[d] \in {Idle, Offline, Failed}
          /\ d \in Devices
        BY Zenon DEF Quiet, Online
    <2>2. task[d].at # "loaded" /\ task[d].at # "offline"
        BY Zenon, <2>1, TaskSteps DEF Online
    <2> QED
        BY Zenon, <2>1, <2>2 DEF Inv, Sound, Announced
<1> QED
    BY <1>1, DevicesInvariant, PTL
=============================================================================
