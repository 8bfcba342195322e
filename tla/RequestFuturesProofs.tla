------------------------ MODULE RequestFuturesProofs ------------------------
(***************************************************************************)
(* Proofs about the request layer, for any number of requests, connections *)
(* and ticks: the type invariant, PromiseFulfilledOnce and NoLostWakeup.   *)
(***************************************************************************)
EXTENDS RequestFutures, TLAPS

Held(r) == pos[r] # 0 \/ \E a \in Cancellers : r \in taken[a]

\* A future that somebody may still fail or resolve is unresolved, and its
\* caller has not got anything yet.
HeldIsOpen(r) ==
    Held(r) => /\ pc[r] \in {"registered", "awaiting"}
               /\ value[r].present
               /\ result[r] = "none"
               /\ out[r] = "none"

\* The list and the running cancellations share no entry.
HeldOnce(r) ==
    \A a \in Cancellers : r \in taken[a] =>
      /\ pos[r] = 0
      /\ \A b \in Cancellers : r \in taken[b] => b = a

\* An unresolved request is in somebody's hands.
PendingIsHeld(r) ==
    pc[r] \in {"registered", "awaiting"} /\ result[r] = "none" => Held(r)

\* What a request starts with and what it has when it is resolved.
ResultsFit(r) ==
    /\ pc[r] = "idle" => result[r] = "none" /\ value[r].present
    /\ pc[r] \in {"idle", "registered", "awaiting"} => out[r] = "none"
    /\ result[r] = "ok" =>
         value[r].present /\ (r \in JoinRequests => value[r].self)
    /\ result[r] = "timedout" => age[r] = Timeout

\* A parked task has left its waker with an open future, or is about to be
\* woken.
WakeupKept(r) ==
    pc[r] = "awaiting" /\ ~woken[r] =>
      IF result[r] = "none" THEN waker[r] /\ Held(r) ELSE r \in timerWakes

RequestInv(r) ==
    /\ HeldIsOpen(r)
    /\ HeldOnce(r)
    /\ PendingIsHeld(r)
    /\ ResultsFit(r)
    /\ WakeupKept(r)

\* Whoever may start a cancellation has finished the one before.
CancellersReady ==
    /\ client \notin {"reconnecting", "disconnecting"} => taken[0] = {}
    /\ \A c \in Connections :
         /\ reader[c] => c <= opened
         /\ reader[c] \/ c > opened => taken[c] = {}

Inv ==
    /\ TypeOK
    /\ CancellersReady
    /\ \A r \in Requests : RequestInv(r)

\* The step leaves a request alone.
Untouched(r) ==
    /\ pos'[r] = pos[r]
    /\ age'[r] = age[r]
    /\ value'[r] = value[r]
    /\ result'[r] = result[r]
    /\ waker'[r] = waker[r]
    /\ woken'[r] = woken[r]
    /\ pc'[r] = pc[r]
    /\ out'[r] = out[r]
    /\ r \in timerWakes => r \in timerWakes'
    /\ \A a \in Cancellers : r \in taken'[a] <=> r \in taken[a]
-----------------------------------------------------------------------------
(***************************************************************************)
(* Helpers.                                                                *)
(***************************************************************************)

\* A reducer passes an element on, absorbs it or resolves its future with a
\* reply.
LEMMA ReduceType ==
    ASSUME NEW r \in Requests, NEW e \in Elements
    PROVE  Reduce(r, e) \in Replies \cup {"pass", "absorb"}
  <1>1. IqReducer(r, e) \in Replies \cup {"pass", "absorb"}
    BY Zenon DEF IqReducer, Replies
  <1>2. MamReducer(r, e) \in Replies \cup {"pass", "absorb"}
    BY Zenon DEF MamReducer, Replies
  <1>3. JoinReducer(r, e) \in Replies \cup {"pass", "absorb"}
    BY Zenon DEF JoinReducer, Replies
  <1>4. MucReducer(r, e) \in Replies \cup {"pass", "absorb"}
    BY Zenon DEF MucReducer, Replies
  <1>5. QED BY Zenon, <1>1, <1>2, <1>3, <1>4 DEF Reduce

\* Updating a field leaves a reducer's value a value.
LEMMA ValueUpdates ==
    ASSUME NEW v \in Values, NEW p \in BOOLEAN, NEW n \in Nat
    PROVE  /\ [v EXCEPT !.present = p] \in Values
           /\ [v EXCEPT !.self = p, !.collected = n] \in Values
  BY Zenon DEF Values

\* A cancellation that takes the list loses no future.
LEMMA TakeKeepsHeld ==
    ASSUME TypeOK, NEW a \in Cancellers, taken[a] = {}, TakePendingFutures(a)
    PROVE  \A r \in Requests : Held(r)' <=> Held(r)
  <1>1. \A b \in Cancellers : taken'[b] = IF b = a THEN Listed ELSE taken[b]
    BY Zenon DEF TypeOK, TakePendingFutures
  <1>2. \A r \in Requests : pos'[r] = 0
    BY Zenon DEF TakePendingFutures
  <1>3. QED BY Zenon, <1>1, <1>2 DEF Held, Listed

\* A join resolves with Ok only on the subject of its room.
LEMMA JoinNeedsSubject ==
    ASSUME NEW r \in JoinRequests, NEW e \in Elements, Reduce(r, e) = "ok"
    PROVE  e.type = "message" /\ e.room = RoomOf[r] /\ e.subject
  <1>1. r \notin MamRequests /\ r \notin MucRequests
    BY Zenon, ConstantsAssumption DEF ConstantsAssumption
  <1>2. Reduce(r, e) = JoinReducer(r, e)
    BY Zenon, <1>1 DEF Reduce
  <1>3. QED BY Zenon, <1>2 DEF JoinReducer

-----------------------------------------------------------------------------
(***************************************************************************)
(* The type invariant.                                                     *)
(***************************************************************************)

\* Every step of every action preserves the type invariant.
LEMMA TypeStep ==
    ASSUME TypeOK, [Next]_vars
    PROVE  TypeOK'
  <1> USE ConstantsAssumption
      DEF futures, cancels, streams, history, Connections, Cancellers
  <1>1. ASSUME NEW r \in Requests, SendStanzaWithFuture(r)
        PROVE  TypeOK'
    BY <1>1 DEF TypeOK, SendStanzaWithFuture
  <1>2. ASSUME NEW r \in Requests, SendStanza(r)
        PROVE  TypeOK'
    BY Zenon, <1>2 DEF TypeOK, SendStanza
  <1>3. ASSUME NEW r \in Requests, SendStanzaFails(r)
        PROVE  TypeOK'
    <2>1. [value[r] EXCEPT !.present = FALSE] \in Values
      BY Zenon, ValueUpdates DEF TypeOK
    <2>2. value' \in [Requests -> Values]
      BY Zenon, <1>3, <2>1 DEF TypeOK, SendStanzaFails
    <2>3. result' \in [Requests -> Results \cup {"none"}]
      BY Zenon, <1>3 DEF TypeOK, SendStanzaFails, Results
    <2>4. taken' \in [Cancellers -> SUBSET Requests]
      BY Zenon, <1>3 DEF TypeOK, SendStanzaFails
    <2>5. QED BY Zenon, <1>3, <2>2, <2>3, <2>4 DEF TypeOK, SendStanzaFails
  <1>4. ASSUME NEW r \in Requests, PollPending(r)
        PROVE  TypeOK'
    BY Zenon, <1>4 DEF TypeOK, PollPending
  <1>5. ASSUME NEW r \in Requests, PollReady(r)
        PROVE  TypeOK'
    <2>1. value[r] \in Values /\ value[r].present \in BOOLEAN
      BY Zenon DEF TypeOK, Values
    <2>2. [value[r] EXCEPT !.present = @ /\ result[r] # "ok"] \in Values
      BY Zenon, <2>1, ValueUpdates
    <2>3. value' \in [Requests -> Values]
      BY Zenon, <1>5, <2>2 DEF TypeOK, PollReady
    <2>4. QED BY SMTT(60), <1>5, <2>3 DEF TypeOK, PollReady
  <1>6. ASSUME NEW r \in Requests, WakeExpired(r)
        PROVE  TypeOK'
    BY Zenon, <1>6 DEF TypeOK, WakeExpired
  <1>7. ASSUME NEW r \in Requests, PingDisconnects(r)
        PROVE  TypeOK'
    BY <1>7 DEF TypeOK, PingDisconnects, ContextDisconnect, Unwraps
  <1>8. ASSUME NEW a \in Cancellers, NEW r \in Requests,
               FailWithDisconnect(a, r)
        PROVE  TypeOK'
    BY SMTT(60), <1>8 DEF TypeOK, FailWithDisconnect, Results
  <1>9. ASSUME NEW c \in Connections, NEW e \in Elements,
               StanzaForModules(c, e)
        PROVE  TypeOK'
    BY <1>9 DEF TypeOK, StanzaForModules, Remember
  <1>10. ASSUME NEW c \in Connections, NEW e \in Elements, NEW r \in Requests,
                StanzaAbsorbed(c, e, r)
        PROVE  TypeOK'
    <2>1. value[r] \in Values
      BY Zenon DEF TypeOK
    <2>2. Absorbed(r, e) \in Values
      <3>1. value[r].self \in BOOLEAN /\ value[r].collected \in Nat
        BY Zenon, <2>1 DEF Values
      <3> DEFINE s == value[r].self
                       \/ (r \in JoinRequests /\ e.type = "presence"
                             /\ e.occupant = r)
                 n == IF r \in MamRequests THEN value[r].collected + 1
                                          ELSE value[r].collected
      <3>2. s \in BOOLEAN /\ n \in Nat
        BY <3>1
      <3>3. Absorbed(r, e) = [value[r] EXCEPT !.self = s, !.collected = n]
        BY Zenon DEF Absorbed
      <3> HIDE DEF s, n
      <3>4. [value[r] EXCEPT !.self = s, !.collected = n] \in Values
        BY Zenon, <2>1, <3>2, ValueUpdates
      <3>5. QED BY Zenon, <3>3, <3>4
    <2>3. QED BY SMTT(60), <1>10, <2>2 DEF TypeOK, StanzaAbsorbed, Remember
  <1>11. ASSUME NEW c \in Connections, NEW e \in Elements, NEW r \in Requests,
                StanzaResolves(c, e, r)
        PROVE  TypeOK'
    <2>1. HandleElement(r, e) \in Results \cup {"none"}
      BY Zenon, <1>11, ReduceType
      DEF TypeOK, StanzaResolves, Takes, HandleElement, Results, Replies
    <2>2. QED BY SMTT(60), <1>11, <2>1 DEF TypeOK, StanzaResolves, Remember
  <1>12. ASSUME NEW c \in Connections, Disconnected(c)
        PROVE  TypeOK'
    BY Zenon, <1>12 DEF TypeOK, Disconnected, TakePendingFutures, Listed
  <1>13. ASSUME NEW c \in Connections, EndOfStream(c)
        PROVE  TypeOK'
    BY Zenon, <1>13 DEF TypeOK, EndOfStream
  <1>14. ASSUME NEW c \in Connections, WriterFails(c)
        PROVE  TypeOK'
    BY Zenon, <1>14 DEF TypeOK, WriterFails
  <1>15. ASSUME NEW c \in Connections, TimeoutTimer(c)
        PROVE  TypeOK'
    BY Zenon, <1>15 DEF TypeOK, TimeoutTimer, Expired, Listed, Results
  <1>16. CASE BeginConnect
    BY Zenon, <1>16 DEF TypeOK, BeginConnect, TakePendingFutures, Listed
  <1>17. CASE BeginDisconnect
    BY Zenon, <1>17 DEF TypeOK, BeginDisconnect, TakePendingFutures, Listed
  <1>18. CASE ClientDisconnect
    BY <1>18 DEF TypeOK, ClientDisconnect, ContextDisconnect, Unwraps
  <1>19. CASE ConnectorConnects
    BY <1>19 DEF TypeOK, ConnectorConnects
  <1>20. CASE ConnectorFails
    BY Zenon, <1>20 DEF TypeOK, ConnectorFails
  <1>21. CASE StoreConnection
    BY Zenon, <1>21 DEF TypeOK, StoreConnection
  <1>22. CASE Tick
    <2>1. age' \in [Requests -> 0 .. Timeout]
      <3>1. ASSUME NEW r \in Requests
            PROVE  (IF r \in Listed /\ age[r] < Timeout
                    THEN age[r] + 1 ELSE age[r]) \in 0 .. Timeout
        BY DEF TypeOK, ConstantsAssumption
      <3>2. QED BY Zenon, <1>22, <3>1 DEF Tick
    <2>2. QED BY SMTT(60), <1>22, <2>1 DEF TypeOK, Tick
  <1>23. CASE UNCHANGED vars
    BY Zenon, <1>23 DEF TypeOK, vars
  <1>24. QED
    BY Zenon, <1>1, <1>2, <1>3, <1>4, <1>5, <1>6, <1>7, <1>8, <1>9, <1>10, <1>11,
        <1>12, <1>13, <1>14, <1>15, <1>16, <1>17, <1>18, <1>19, <1>20, <1>21,
        <1>22, <1>23
       DEF Next, RequestStep, ConnectionStep, ClientStep, Poll

\* The client starts within its types.
LEMMA InitTypes == Init => TypeOK
  <1> SUFFICES ASSUME Init PROVE TypeOK
    OBVIOUS
  <1>1. value \in [Requests -> Values]
    BY Zenon DEF Init, Values
  <1>2. 0 \in 0 .. Timeout /\ 0 \in 0 .. MaxConnections
    BY ConstantsAssumption DEF ConstantsAssumption
  <1>3. QED BY Zenon, <1>1, <1>2 DEF Init, TypeOK

\* The variables of the request layer stay within their types in every
\* behaviour of the code.
THEOREM TypeCorrect == Spec => []TypeOK
  <1>1. Init => TypeOK
    BY Zenon, InitTypes
  <1>2. TypeOK /\ [Next]_vars => TypeOK'
    BY Zenon, TypeStep
  <1>3. QED BY <1>1, <1>2, PTL DEF Spec

-----------------------------------------------------------------------------
(***************************************************************************)
(* The inductive invariant.                                                *)
(***************************************************************************)

\* A request keeps its part of the invariant in a step that leaves it alone.
LEMMA Elsewhere ==
    ASSUME NEW r \in Requests, RequestInv(r), Untouched(r)
    PROVE  RequestInv(r)'
  <1>1. Held(r)' <=> Held(r)
    BY Zenon DEF Untouched, Held, Cancellers, Connections
  <1>2. HeldIsOpen(r)'
    BY Zenon, <1>1 DEF RequestInv, Untouched, HeldIsOpen
  <1>3. HeldOnce(r)'
    BY Zenon DEF RequestInv, Untouched, HeldOnce, Cancellers, Connections
  <1>4. PendingIsHeld(r)'
    BY Zenon, <1>1 DEF RequestInv, Untouched, PendingIsHeld
  <1>5. ResultsFit(r)'
    BY Zenon DEF RequestInv, Untouched, ResultsFit
  <1>6. WakeupKept(r)'
    BY SMTT(60), <1>1 DEF RequestInv, Untouched, WakeupKept
  <1>7. QED BY Zenon, <1>2, <1>3, <1>4, <1>5, <1>6 DEF RequestInv

\* The invariant survives a step that leaves every request but r alone, if
\* r's part of it does.
LEMMA OneRequest ==
    ASSUME Inv, TypeOK', CancellersReady', NEW r \in Requests, RequestInv(r)',
           \A q \in Requests \ {r} : Untouched(q)
    PROVE  Inv'
  <1>1. ASSUME NEW q \in Requests
        PROVE  RequestInv(q)'
    <2>1. CASE q = r
      BY Zenon, <2>1
    <2>2. CASE q # r
      BY Zenon, <2>2, Elsewhere DEF Inv
    <2>3. QED BY Zenon, <2>1, <2>2
  <1>2. QED BY Zenon, <1>1 DEF Inv

\* The invariant survives a step that leaves all requests alone.
LEMMA NoRequest ==
    ASSUME Inv, TypeOK', CancellersReady',
           UNCHANGED <<pos, age, value, result, waker, woken, pc, out, taken,
                       timerWakes>>
    PROVE  Inv'
  <1>1. ASSUME NEW q \in Requests
        PROVE  RequestInv(q)'
    <2>1. Untouched(q)
      BY Zenon DEF Untouched
    <2>2. QED BY Zenon, <2>1, Elsewhere DEF Inv
  <1>2. QED BY Zenon, <1>1 DEF Inv

\* The running cancellations are untouched.
LEMMA FrameCancellers ==
    ASSUME CancellersReady, UNCHANGED <<taken, client, reader, opened>>
    PROVE  CancellersReady'
  BY Zenon DEF CancellersReady, Connections

\* A canceller that has finished the cancellation before takes the list.
LEMMA TakeStep ==
    ASSUME Inv, TypeOK', CancellersReady', NEW a \in Cancellers,
           taken[a] = {}, TakePendingFutures(a),
           UNCHANGED <<age, value, result, waker, woken, pc, out, timerWakes>>
    PROVE  Inv'
  <1>1. \A r \in Requests : Held(r)' <=> Held(r)
    BY Zenon, TakeKeepsHeld DEF Inv
  <1>2. \A b \in Cancellers : taken'[b] = IF b = a THEN Listed ELSE taken[b]
    BY Zenon DEF Inv, TypeOK, TakePendingFutures
  <1>3. \A r \in Requests : pos'[r] = 0
    BY Zenon DEF TakePendingFutures
  <1>4. ASSUME NEW r \in Requests
        PROVE  RequestInv(r)'
    <2>1. HeldIsOpen(r)'
      BY Zenon, <1>1 DEF Inv, RequestInv, HeldIsOpen
    <2>2. HeldOnce(r)'
      <3>1. CASE pos[r] = 0
        <4>1. r \notin Listed
          BY Zenon, <3>1 DEF Listed
        <4>2. \A b \in Cancellers : r \in taken'[b] => r \in taken[b]
          BY Zenon, <1>2, <4>1
        <4>3. QED BY Zenon, <1>3, <1>4, <4>2
              DEF Inv, RequestInv, HeldOnce, Cancellers, Connections
      <3>2. CASE pos[r] # 0
        <4>1. \A b \in Cancellers : r \notin taken[b]
          BY Zenon, <3>2 DEF Inv, RequestInv, HeldOnce
        <4>2. \A b \in Cancellers : r \in taken'[b] => b = a
          BY Zenon, <1>2, <4>1
        <4>3. QED BY Zenon, <1>3, <4>2 DEF HeldOnce, Cancellers, Connections
      <3>3. QED BY Zenon, <3>1, <3>2
    <2>3. PendingIsHeld(r)'
      BY Zenon, <1>1 DEF Inv, RequestInv, PendingIsHeld
    <2>4. ResultsFit(r)'
      BY Zenon DEF Inv, RequestInv, ResultsFit
    <2>5. WakeupKept(r)'
      BY SMTT(60), <1>1 DEF Inv, RequestInv, WakeupKept
    <2>6. QED BY Zenon, <2>1, <2>2, <2>3, <2>4, <2>5 DEF RequestInv
  <1>5. QED BY Zenon, <1>4 DEF Inv

\* Every step of every action preserves the inductive invariant.
LEMMA InvStep ==
    ASSUME Inv, [Next]_vars
    PROVE  Inv'
  <1> USE DEF futures, cancels, streams, history
  <1>0. TypeOK /\ TypeOK'
    BY Zenon, TypeStep DEF Inv
  <1>a. /\ DOMAIN pos = Requests /\ DOMAIN value = Requests
        /\ DOMAIN result = Requests /\ DOMAIN waker = Requests
        /\ DOMAIN woken = Requests /\ DOMAIN pc = Requests
        /\ DOMAIN out = Requests /\ DOMAIN taken = Cancellers
    BY Zenon, <1>0 DEF TypeOK
  <1>b. \A r \in Requests : RequestInv(r)
    BY Zenon DEF Inv
  <1>1. ASSUME NEW r \in Requests, SendStanzaWithFuture(r)
        PROVE  Inv'
    <2>1. \A q \in Requests \ {r} : Untouched(q)
      BY Zenon, <1>a, <1>1 DEF SendStanzaWithFuture, Untouched
    <2>2. RequestInv(r)'
      <3>1. pc[r] = "idle" /\ pc'[r] = "registered"
        BY Zenon, <1>a, <1>1 DEF SendStanzaWithFuture
      <3>2. /\ pos'[r] # 0 /\ value'[r] = value[r] /\ result'[r] = result[r]
            /\ out'[r] = out[r] /\ age'[r] = age[r] /\ taken' = taken
        BY SMTT(60), <1>0, <1>a, <1>1 DEF TypeOK, SendStanzaWithFuture
      <3>3. value[r].present /\ result[r] = "none" /\ out[r] = "none"
        BY Zenon, <1>b, <3>1 DEF RequestInv, ResultsFit
      <3>4. ~Held(r)
        BY Zenon, <1>b, <3>1 DEF RequestInv, HeldIsOpen
      <3>5. Held(r)' /\ HeldIsOpen(r)' /\ PendingIsHeld(r)' /\ WakeupKept(r)'
        BY Zenon, <3>1, <3>2, <3>3 DEF Held, HeldIsOpen, PendingIsHeld, WakeupKept
      <3>6. HeldOnce(r)'
        BY Zenon, <3>2, <3>4 DEF Held, HeldOnce, Cancellers, Connections
      <3>7. ResultsFit(r)'
        BY Zenon, <3>1, <3>2, <3>3 DEF ResultsFit
      <3>8. QED BY Zenon, <3>5, <3>6, <3>7 DEF RequestInv
    <2>3. CancellersReady'
      BY Zenon, <1>1, FrameCancellers DEF Inv, SendStanzaWithFuture
    <2>4. QED BY Zenon, <1>0, <2>1, <2>2, <2>3, OneRequest
  <1>2. ASSUME NEW r \in Requests, SendStanza(r)
        PROVE  Inv'
    <2>1. \A q \in Requests \ {r} : Untouched(q)
      BY Zenon, <1>a, <1>2 DEF SendStanza, Untouched
    <2>2. RequestInv(r)'
      <3>1. pc[r] = "registered" /\ pc'[r] = "awaiting" /\ woken'[r]
        BY Zenon, <1>a, <1>2 DEF SendStanza
      <3>2. UNCHANGED <<pos, value, result, out, age, taken>>
        BY Zenon, <1>2 DEF SendStanza
      <3>3. Held(r)' <=> Held(r)
        BY Zenon, <3>2 DEF Held, Cancellers, Connections
      <3>4. HeldIsOpen(r)' /\ PendingIsHeld(r)'
        BY Zenon, <1>b, <3>1, <3>2, <3>3 DEF RequestInv, HeldIsOpen, PendingIsHeld
      <3>5. HeldOnce(r)'
        BY Zenon, <1>b, <3>2 DEF RequestInv, HeldOnce, Cancellers, Connections
      <3>6. ResultsFit(r)'
        BY Zenon, <1>b, <3>1, <3>2 DEF RequestInv, ResultsFit
      <3>7. WakeupKept(r)'
        BY Zenon, <3>1 DEF WakeupKept
      <3>8. QED BY Zenon, <3>4, <3>5, <3>6, <3>7 DEF RequestInv
    <2>3. CancellersReady'
      BY Zenon, <1>2, FrameCancellers DEF Inv, SendStanza
    <2>4. QED BY <1>0, <2>1, <2>2, <2>3, OneRequest
  <1>3. ASSUME NEW r \in Requests, SendStanzaFails(r)
        PROVE  Inv'
    <2>0. taken' = [a \in Cancellers |-> taken[a] \ {r}]
      BY Zenon, <1>3 DEF SendStanzaFails
    <2>1. \A q \in Requests \ {r} : Untouched(q)
      <3>1. ASSUME NEW q \in Requests \ {r}
            PROVE  \A a \in Cancellers : q \in taken'[a] <=> q \in taken[a]
        BY Zenon, <2>0
      <3>2. QED BY Zenon, <1>a, <1>3, <3>1 DEF SendStanzaFails, Untouched
    <2>2. RequestInv(r)'
      <3>1. /\ pc'[r] = "awaiting" /\ pc[r] = "registered" /\ woken'[r]
            /\ pos'[r] = 0 /\ out' = out
        BY Zenon, <1>a, <1>3 DEF SendStanzaFails
      <3>2. result'[r] \in {"disconnected", "generic"}
        BY Zenon, <1>a, <1>3 DEF SendStanzaFails
      <3>3. \A a \in Cancellers : r \notin taken'[a]
        BY Zenon, <2>0
      <3>4. ~Held(r)'
        BY Zenon, <3>1, <3>3 DEF Held, Cancellers, Connections
      <3>5. HeldIsOpen(r)' /\ PendingIsHeld(r)' /\ WakeupKept(r)'
        BY Zenon, <3>1, <3>2, <3>4 DEF HeldIsOpen, PendingIsHeld, WakeupKept
      <3>6. HeldOnce(r)'
        BY Zenon, <3>3 DEF HeldOnce, Cancellers, Connections
      <3>7. ResultsFit(r)'
        BY SMTT(60), <1>b, <3>1, <3>2 DEF RequestInv, ResultsFit
      <3>8. QED BY Zenon, <3>5, <3>6, <3>7 DEF RequestInv
    <2>3. CancellersReady'
      <3>1. UNCHANGED <<client, reader, opened>>
        BY Zenon, <1>3 DEF SendStanzaFails
      <3>2. \A a \in Cancellers : taken[a] = {} => taken'[a] = {}
        BY Zenon, <2>0
      <3>3. QED BY Zenon, <3>1, <3>2 DEF Inv, CancellersReady, Cancellers, Connections
    <2>4. QED BY <1>0, <2>1, <2>2, <2>3, OneRequest
  <1>4. ASSUME NEW r \in Requests, PollPending(r)
        PROVE  Inv'
    <2>1. \A q \in Requests \ {r} : Untouched(q)
      BY Zenon, <1>a, <1>4 DEF PollPending, Untouched
    <2>2. RequestInv(r)'
      <3>1. UNCHANGED <<pos, age, value, result, pc, out, taken>>
        BY SMTT(60), <1>4 DEF PollPending
      <3>2. waker'[r] /\ result[r] = "none" /\ pc[r] = "awaiting"
        BY Zenon, <1>a, <1>4 DEF PollPending
      <3>3. Held(r)' <=> Held(r)
        BY Zenon, <3>1 DEF Held, Cancellers, Connections
      <3>4. HeldIsOpen(r)' /\ PendingIsHeld(r)' /\ ResultsFit(r)'
        BY SMTT(60), <1>b, <3>1, <3>3
          DEF RequestInv, HeldIsOpen, PendingIsHeld, ResultsFit
      <3>5. HeldOnce(r)'
        BY SMTT(60), <1>b, <3>1 DEF RequestInv, HeldOnce, Cancellers, Connections
      <3>6. WakeupKept(r)'
        BY Zenon, <1>b, <3>1, <3>2, <3>3 DEF RequestInv, PendingIsHeld, WakeupKept
      <3>7. QED BY Zenon, <3>4, <3>5, <3>6 DEF RequestInv
    <2>3. CancellersReady'
      BY Zenon, <1>4, FrameCancellers DEF Inv, PollPending
    <2>4. QED BY <1>0, <2>1, <2>2, <2>3, OneRequest
  <1>5. ASSUME NEW r \in Requests, PollReady(r)
        PROVE  Inv'
    <2>1. \A q \in Requests \ {r} : Untouched(q)
      BY Zenon, <1>a, <1>5 DEF PollReady, Untouched
    <2>2. RequestInv(r)'
      <3>1. /\ result[r] # "none" /\ result'[r] = "none" /\ pc'[r] = "done"
            /\ UNCHANGED <<pos, taken>>
        BY Zenon, <1>a, <1>5 DEF PollReady
      <3>2. ~Held(r)
        BY Zenon, <1>b, <3>1 DEF RequestInv, HeldIsOpen
      <3>3. ~Held(r)'
        BY Zenon, <3>1, <3>2 DEF Held, Cancellers, Connections
      <3>4. HeldIsOpen(r)' /\ PendingIsHeld(r)' /\ ResultsFit(r)' /\ WakeupKept(r)'
        BY Zenon, <3>1, <3>3
          DEF HeldIsOpen, PendingIsHeld, ResultsFit, WakeupKept
      <3>5. HeldOnce(r)'
        BY Zenon, <3>1, <3>2 DEF Held, HeldOnce, Cancellers, Connections
      <3>6. QED BY Zenon, <3>4, <3>5 DEF RequestInv
    <2>3. CancellersReady'
      BY Zenon, <1>5, FrameCancellers DEF Inv, PollReady
    <2>4. QED BY <1>0, <2>1, <2>2, <2>3, OneRequest
  <1>6. ASSUME NEW r \in Requests, WakeExpired(r)
        PROVE  Inv'
    <2>1. \A q \in Requests \ {r} : Untouched(q)
      BY Zenon, <1>a, <1>6 DEF WakeExpired, Untouched
    <2>2. RequestInv(r)'
      <3>1. UNCHANGED <<pos, age, value, result, pc, out, taken>>
        BY Zenon, <1>6 DEF WakeExpired
      <3>2. pc[r] = "awaiting" => woken'[r]
        BY Zenon, <1>a, <1>6 DEF WakeExpired
      <3>3. Held(r)' <=> Held(r)
        BY <3>1 DEF Held, Cancellers, Connections
      <3>4. HeldIsOpen(r)' /\ PendingIsHeld(r)' /\ ResultsFit(r)'
        BY Zenon, <1>b, <3>1, <3>3
          DEF RequestInv, HeldIsOpen, PendingIsHeld, ResultsFit
      <3>5. HeldOnce(r)'
        BY Zenon, <1>b, <3>1 DEF RequestInv, HeldOnce, Cancellers, Connections
      <3>6. WakeupKept(r)'
        BY Zenon, <3>1, <3>2 DEF WakeupKept
      <3>7. QED BY <3>4, <3>5, <3>6 DEF RequestInv
    <2>3. CancellersReady'
      BY Zenon, <1>6, FrameCancellers DEF Inv, WakeExpired
    <2>4. QED BY <1>0, <2>1, <2>2, <2>3, OneRequest
  <1>7. ASSUME NEW r \in Requests, PingDisconnects(r)
        PROVE  Inv'
    <2>1. \A q \in Requests \ {r} : Untouched(q)
      BY SMTT(60), <1>a, <1>7 DEF PingDisconnects, Untouched
    <2>2. RequestInv(r)'
      <3>1. pc[r] = "done" /\ pc'[r] = "closed"
        BY Zenon, <1>a, <1>7 DEF PingDisconnects
      <3>2. UNCHANGED <<pos, age, value, result, out, taken>>
        BY SMTT(60), <1>7 DEF PingDisconnects
      <3>3. ~Held(r)
        BY Zenon, <1>b, <3>1 DEF RequestInv, HeldIsOpen
      <3>4. ~Held(r)'
        BY Zenon, <3>2, <3>3 DEF Held, Cancellers, Connections
      <3>5. HeldIsOpen(r)' /\ PendingIsHeld(r)' /\ WakeupKept(r)'
        BY Zenon, <3>1, <3>4 DEF HeldIsOpen, PendingIsHeld, WakeupKept
      <3>6. HeldOnce(r)'
        BY Zenon, <3>2, <3>3 DEF Held, HeldOnce, Cancellers, Connections
      <3>7. ResultsFit(r)'
        BY SMTT(60), <1>b, <3>1, <3>2 DEF RequestInv, ResultsFit
      <3>8. QED BY <3>5, <3>6, <3>7 DEF RequestInv
    <2>3. CancellersReady'
      BY Zenon, <1>7, FrameCancellers DEF Inv, PingDisconnects
    <2>4. QED BY <1>0, <2>1, <2>2, <2>3, OneRequest
  <1>8. ASSUME NEW a \in Cancellers, NEW r \in Requests,
               FailWithDisconnect(a, r)
        PROVE  Inv'
    <2>0. \A b \in Cancellers :
             taken'[b] = IF b = a THEN taken[b] \ {r} ELSE taken[b]
      BY SMTT(60), <1>a, <1>8 DEF FailWithDisconnect
    <2>1. \A q \in Requests \ {r} : Untouched(q)
      <3>1. ASSUME NEW q \in Requests \ {r}
            PROVE  \A b \in Cancellers : q \in taken'[b] <=> q \in taken[b]
        BY Zenon, <2>0
      <3>2. QED BY SMTT(60), <1>a, <1>8, <3>1 DEF FailWithDisconnect, Untouched
    <2>2. RequestInv(r)'
      <3>1. r \in taken[a] /\ UNCHANGED <<pos, age, value, pc, out>>
        BY SMTT(60), <1>8 DEF FailWithDisconnect
      <3>2. result'[r] = "disconnected"
        BY Zenon, <1>a, <1>8 DEF FailWithDisconnect
      <3>3. \A b \in Cancellers : r \notin taken'[b]
        BY Zenon, <1>b, <2>0, <3>1 DEF RequestInv, HeldOnce
      <3>4. /\ pos[r] = 0 /\ pc[r] \in {"registered", "awaiting"}
            /\ result[r] = "none" /\ out[r] = "none"
        BY SMTT(60), <1>b, <3>1 DEF RequestInv, HeldOnce, HeldIsOpen, Held
      <3>5. ~Held(r)'
        BY Zenon, <3>1, <3>3, <3>4 DEF Held, Cancellers, Connections
      <3>6. pc[r] = "awaiting" => woken'[r]
        <4>1. pc[r] = "awaiting" => woken[r] \/ waker[r]
          BY SMTT(60), <1>b, <3>4 DEF RequestInv, WakeupKept
        <4>2. QED BY Zenon, <1>a, <1>8, <4>1 DEF FailWithDisconnect
      <3>7. HeldIsOpen(r)' /\ PendingIsHeld(r)' /\ WakeupKept(r)'
        BY Zenon, <3>1, <3>2, <3>5, <3>6 DEF HeldIsOpen, PendingIsHeld, WakeupKept
      <3>8. HeldOnce(r)'
        BY Zenon, <3>3 DEF HeldOnce, Cancellers, Connections
      <3>9. ResultsFit(r)'
        BY Zenon, <3>1, <3>2, <3>4 DEF ResultsFit
      <3>10. QED BY Zenon, <3>7, <3>8, <3>9 DEF RequestInv
    <2>3. CancellersReady'
      <3>1. UNCHANGED <<client, reader, opened>>
        BY Zenon, <1>8 DEF FailWithDisconnect
      <3>2. \A b \in Cancellers : taken[b] = {} => taken'[b] = {}
        BY Zenon, <2>0
      <3>3. QED BY SMTT(60), <3>1, <3>2 DEF Inv, CancellersReady, Cancellers, Connections
    <2>4. QED BY Zenon, <1>0, <2>1, <2>2, <2>3, OneRequest
  <1>9. ASSUME NEW c \in Connections, NEW e \in Elements,
               StanzaForModules(c, e)
        PROVE  Inv'
    <2>1. CancellersReady'
      BY Zenon, <1>9, FrameCancellers DEF Inv, StanzaForModules
    <2>2. QED BY Zenon, <1>0, <1>9, <2>1, NoRequest DEF StanzaForModules
  <1>10. ASSUME NEW c \in Connections, NEW e \in Elements, NEW r \in Requests,
                StanzaAbsorbed(c, e, r)
        PROVE  Inv'
    <2>1. \A q \in Requests \ {r} : Untouched(q)
      BY SMTT(60), <1>a, <1>10 DEF StanzaAbsorbed, Untouched
    <2>2. RequestInv(r)'
      <3>1. UNCHANGED <<pos, age, result, waker, woken, pc, out, taken, timerWakes>>
        BY Zenon, <1>10 DEF StanzaAbsorbed
      <3>2. pos[r] # 0
        BY Zenon, <1>10 DEF StanzaAbsorbed, Takes, Listed
      <3>3. Held(r)
        BY Zenon, <3>2 DEF Held
      <3>4. Held(r)'
        BY Zenon, <3>1, <3>2 DEF Held
      <3>5. /\ pc[r] \in {"registered", "awaiting"} /\ value[r].present
            /\ result[r] = "none" /\ out[r] = "none"
        BY SMTT(60), <1>b, <3>3 DEF RequestInv, HeldIsOpen
      <3>6. value'[r].present
        <4>1. value'[r] = Absorbed(r, e) /\ value[r] \in Values
          BY Zenon, <1>0, <1>a, <1>10 DEF TypeOK, StanzaAbsorbed
        <4>2. Absorbed(r, e).present = value[r].present
          BY Zenon, <4>1 DEF Absorbed, Values
        <4>3. QED BY Zenon, <3>5, <4>1, <4>2
      <3>7. HeldIsOpen(r)' /\ PendingIsHeld(r)'
        BY SMTT(60), <3>1, <3>4, <3>5, <3>6 DEF HeldIsOpen, PendingIsHeld
      <3>8. HeldOnce(r)'
        BY SMTT(60), <1>b, <3>1 DEF RequestInv, HeldOnce, Cancellers, Connections
      <3>9. ResultsFit(r)'
        BY SMTT(60), <3>1, <3>5 DEF ResultsFit
      <3>10. WakeupKept(r)'
        BY SMTT(60), <1>b, <3>1, <3>3, <3>4 DEF RequestInv, WakeupKept
      <3>11. QED BY Zenon, <3>7, <3>8, <3>9, <3>10 DEF RequestInv
    <2>3. CancellersReady'
      BY Zenon, <1>10, FrameCancellers DEF Inv, StanzaAbsorbed
    <2>4. QED BY <1>0, <2>1, <2>2, <2>3, OneRequest
  <1>11. ASSUME NEW c \in Connections, NEW e \in Elements, NEW r \in Requests,
                StanzaResolves(c, e, r)
        PROVE  Inv'
    <2> DEFINE answer == HandleElement(r, e)
    <2>1. \A q \in Requests \ {r} : Untouched(q)
      BY SMTT(60), <1>a, <1>11 DEF StanzaResolves, Untouched
    <2>2. RequestInv(r)'
      <3>1. pos'[r] = 0 /\ result'[r] = answer
        BY SMTT(60), <1>a, <1>11 DEF StanzaResolves
      <3>2. UNCHANGED <<age, value, pc, out, taken>>
        BY Zenon, <1>11 DEF StanzaResolves
      <3>3. pos[r] # 0 /\ answer \notin {"pass", "absorb"}
        BY Zenon, <1>11 DEF StanzaResolves, Takes, Listed
      <3>4. /\ pc[r] \in {"registered", "awaiting"} /\ value[r].present
            /\ result[r] = "none" /\ out[r] = "none"
        BY SMTT(60), <1>b, <3>3 DEF RequestInv, HeldIsOpen, Held
      <3>5. answer = Reduce(r, e)
        BY Zenon, <3>4 DEF HandleElement
      <3> HIDE DEF answer
      <3>6. answer \in Replies
        BY Zenon, <3>3, <3>5, ReduceType
      <3>7. \A a \in Cancellers : r \notin taken'[a]
        BY SMTT(60), <1>b, <3>2, <3>3 DEF RequestInv, HeldOnce
      <3>8. ~Held(r)'
        BY <3>1, <3>7 DEF Held, Cancellers, Connections
      <3>9. pc[r] = "awaiting" => woken'[r]
        <4>1. pc[r] = "awaiting" => woken[r] \/ waker[r]
          BY SMTT(60), <1>b, <3>4 DEF RequestInv, WakeupKept
        <4>2. QED BY Zenon, <1>a, <1>11, <4>1 DEF StanzaResolves
      <3>10. HeldIsOpen(r)' /\ PendingIsHeld(r)' /\ WakeupKept(r)'
        <4>1. answer # "none"
          BY Zenon, <3>6 DEF Replies
        <4>2. QED BY SMTT(60), <3>1, <3>2, <3>8, <3>9, <4>1
              DEF HeldIsOpen, PendingIsHeld, WakeupKept
      <3>11. HeldOnce(r)'
        BY Zenon, <3>7 DEF HeldOnce, Cancellers, Connections
      <3>12. ResultsFit(r)'
        <4>1. answer # "timedout"
          BY Zenon, <3>6 DEF Replies
        <4>2. ASSUME r \in JoinRequests, answer = "ok" PROVE value[r].self
          <5>1. e.type = "message" /\ e.room = RoomOf[r] /\ e.subject
            BY Zenon, <3>5, <4>2, JoinNeedsSubject
          <5>2. \A j \in JoinRequests \cap Listed :
                  RoomOf[j] = e.room => value[j].self
            <6>1. Expected(c, e)
              BY Zenon, <1>11 DEF StanzaResolves
            <6>2. QED BY Zenon, <5>1, <6>1 DEF Expected
          <5>3. QED BY Zenon, <3>3, <4>2, <5>1, <5>2 DEF Listed
        <4>3. QED BY Zenon, <3>1, <3>2, <3>4, <4>1, <4>2 DEF ResultsFit
      <3>13. QED BY Zenon, <3>10, <3>11, <3>12 DEF RequestInv
    <2>3. CancellersReady'
      BY Zenon, <1>11, FrameCancellers DEF Inv, StanzaResolves
    <2>4. QED BY <1>0, <2>1, <2>2, <2>3, OneRequest
  <1>12. ASSUME NEW c \in Connections, Disconnected(c)
        PROVE  Inv'
    <2>1. c \in Cancellers /\ c # 0 /\ TakePendingFutures(c)
      BY <1>12, ConstantsAssumption DEF Disconnected, Cancellers, Connections
    <2>2. taken[c] = {}
      BY Zenon, <1>12 DEF Inv, CancellersReady, Disconnected
    <2>3. CancellersReady'
      <3>1. \A b \in Cancellers \ {c} : taken'[b] = taken[b]
        BY Zenon, <1>a, <2>1 DEF TakePendingFutures
      <3>2. \A b \in Connections \ {c} : reader'[b] = reader[b]
        BY SMTT(60), <1>0, <1>12 DEF TypeOK, Disconnected
      <3>3. ~reader'[c] /\ reader[c] /\ UNCHANGED <<client, opened>>
        BY SMTT(60), <1>0, <1>12 DEF TypeOK, Disconnected
      <3>4. c <= opened /\ c \in Nat /\ opened \in Nat
        BY SMTT(60), <1>0, <3>3 DEF Inv, TypeOK, CancellersReady, Connections
      <3>5. ~(c > opened)
        BY <3>4
      <3>6. QED BY Zenon, <2>1, <3>1, <3>2, <3>3, <3>5
            DEF Inv, CancellersReady, Cancellers, Connections
    <2>4. QED BY Zenon, <1>0, <1>12, <2>1, <2>2, <2>3, TakeStep DEF Disconnected
  <1>13. ASSUME NEW c \in Connections, EndOfStream(c)
        PROVE  Inv'
    <2>1. CancellersReady'
      <3>1. \A b \in Connections : reader'[b] => reader[b]
        BY SMTT(60), <1>0, <1>13 DEF TypeOK, EndOfStream
      <3>2. UNCHANGED <<taken, client, opened>>
        BY Zenon, <1>13 DEF EndOfStream
      <3>3. QED BY SMTT(60), <3>1, <3>2 DEF Inv, CancellersReady, Connections
    <2>2. QED BY Zenon, <1>0, <1>13, <2>1, NoRequest DEF EndOfStream
  <1>14. ASSUME NEW c \in Connections, WriterFails(c)
        PROVE  Inv'
    <2>1. CancellersReady'
      BY Zenon, <1>14, FrameCancellers DEF Inv, WriterFails
    <2>2. QED BY <1>0, <1>14, <2>1, NoRequest DEF WriterFails
  <1>15. ASSUME NEW c \in Connections, TimeoutTimer(c)
        PROVE  Inv'
    <2>1. CancellersReady'
      BY SMTT(60), <1>15, FrameCancellers DEF Inv, TimeoutTimer
    <2>2. ASSUME NEW r \in Requests
          PROVE  RequestInv(r)'
      <3>1. CASE r \notin Expired
        <4>1. /\ pos'[r] = pos[r] /\ result'[r] = result[r]
              /\ r \in timerWakes => r \in timerWakes'
          BY SMTT(60), <1>15, <3>1 DEF TimeoutTimer
        <4>2. waker'[r] = waker[r]
          BY SMTT(60), <1>0, <1>15, <3>1 DEF TypeOK, TimeoutTimer
        <4>3. Untouched(r)
          BY Zenon, <1>15, <4>1, <4>2 DEF TimeoutTimer, Untouched
        <4>4. QED BY <1>b, <4>3, Elsewhere
      <3>2. CASE r \in Expired
        <4>1. pos[r] # 0 /\ age[r] >= Timeout
          BY <3>2 DEF Expired, Listed
        <4>2. age[r] = Timeout
          <5>1. age[r] \in 0 .. Timeout
            BY SMTT(60), <1>0 DEF TypeOK
          <5>2. QED BY SMTT(60), <4>1, <5>1, ConstantsAssumption
        <4>3. pos'[r] = 0 /\ result'[r] = "timedout"
          BY Zenon, <1>15, <3>2 DEF TimeoutTimer
        <4>4. UNCHANGED <<age, woken, pc, out, taken>>
          BY SMTT(60), <1>15 DEF TimeoutTimer
        <4>5. /\ pc[r] \in {"registered", "awaiting"}
              /\ result[r] = "none" /\ out[r] = "none"
          BY SMTT(60), <1>b, <4>1 DEF RequestInv, HeldIsOpen, Held
        <4>6. \A a \in Cancellers : r \notin taken'[a]
          BY SMTT(60), <1>b, <4>1, <4>4 DEF RequestInv, HeldOnce
        <4>7. ~Held(r)'
          BY <4>3, <4>6 DEF Held, Cancellers, Connections
        <4>8. pc[r] = "awaiting" /\ ~woken[r] => r \in timerWakes'
          BY SMTT(60), <1>b, <1>15, <3>2, <4>5 DEF RequestInv, WakeupKept, TimeoutTimer
        <4>9. HeldIsOpen(r)' /\ PendingIsHeld(r)' /\ WakeupKept(r)'
          BY SMTT(60), <4>3, <4>4, <4>7, <4>8 DEF HeldIsOpen, PendingIsHeld, WakeupKept
        <4>10. HeldOnce(r)'
          BY Zenon, <4>6 DEF HeldOnce, Cancellers, Connections
        <4>11. ResultsFit(r)'
          BY SMTT(60), <4>2, <4>3, <4>4, <4>5 DEF ResultsFit
        <4>12. QED BY <4>9, <4>10, <4>11 DEF RequestInv
      <3>3. QED BY Zenon, <3>1, <3>2
    <2>3. QED BY <1>0, <2>1, <2>2 DEF Inv
  <1>16. CASE BeginConnect
    <2>1. 0 \in Cancellers /\ taken[0] = {} /\ TakePendingFutures(0)
      BY Zenon, <1>16 DEF Inv, CancellersReady, BeginConnect, Cancellers
    <2>2. CancellersReady'
      <3>1. \A c \in Connections : taken'[c] = taken[c]
        BY SMTT(60), <1>a, <2>1, ConstantsAssumption
          DEF TakePendingFutures, Cancellers, Connections
      <3>2. client' = "reconnecting" /\ UNCHANGED <<reader, opened>>
        BY Zenon, <1>16 DEF BeginConnect
      <3>3. QED BY Zenon, <3>1, <3>2 DEF Inv, CancellersReady, Connections
    <2>3. QED BY Zenon, <1>0, <1>16, <2>1, <2>2, TakeStep DEF BeginConnect
  <1>17. CASE BeginDisconnect
    <2>1. 0 \in Cancellers /\ taken[0] = {} /\ TakePendingFutures(0)
      BY SMTT(60), <1>17 DEF Inv, CancellersReady, BeginDisconnect, Cancellers
    <2>2. CancellersReady'
      <3>1. \A c \in Connections : taken'[c] = taken[c]
        BY <1>a, <2>1, ConstantsAssumption
          DEF TakePendingFutures, Cancellers, Connections
      <3>2. client' = "disconnecting" /\ UNCHANGED <<reader, opened>>
        BY Zenon, <1>17 DEF BeginDisconnect
      <3>3. QED BY Zenon, <3>1, <3>2 DEF Inv, CancellersReady, Connections
    <2>3. QED BY SMTT(60), <1>0, <1>17, <2>1, <2>2, TakeStep DEF BeginDisconnect
  <1>18. CASE ClientDisconnect
    <2>1. CancellersReady'
      <3>1. taken[0] = {} /\ UNCHANGED <<taken, reader, opened>>
        BY Zenon, <1>18 DEF ClientDisconnect
      <3>2. QED BY Zenon, <3>1 DEF Inv, CancellersReady, Connections
    <2>2. QED BY SMTT(60), <1>0, <1>18, <2>1, NoRequest DEF ClientDisconnect
  <1>19. CASE ConnectorConnects
    <2>1. CancellersReady'
      <3>1. opened + 1 \in 1 .. MaxConnections /\ opened' = opened + 1
        BY SMTT(60), <1>0, <1>19, ConstantsAssumption
          DEF TypeOK, ConnectorConnects, ConstantsAssumption
      <3>2. reader' = [reader EXCEPT ![opened + 1] = TRUE] /\ taken' = taken
        BY Zenon, <1>19 DEF ConnectorConnects
      <3>3. taken[0] = {}
        BY Zenon, <1>19 DEF Inv, CancellersReady, ConnectorConnects
      <3>4. ASSUME NEW c \in Connections
            PROVE  /\ reader'[c] => c <= opened'
                   /\ reader'[c] \/ c > opened' => taken'[c] = {}
        <4>0. c \in Nat /\ opened \in Nat
          BY SMTT(60), <1>0 DEF TypeOK, Connections
        <4>1. CASE c = opened + 1
          <5>1. c > opened /\ c <= opened'
            BY <3>1, <4>0, <4>1
          <5>2. taken[c] = {}
            BY SMTT(60), <5>1 DEF Inv, CancellersReady
          <5>3. QED BY SMTT(60), <3>2, <5>1, <5>2
        <4>2. CASE c # opened + 1
          <5>1. reader'[c] => reader[c]
            BY SMTT(60), <1>0, <3>2, <4>2 DEF TypeOK
          <5>2. c <= opened => c <= opened'
            BY <3>1, <4>0
          <5>3. c > opened' => c > opened
            BY <3>1, <4>0
          <5>4. QED BY SMTT(60), <3>2, <5>1, <5>2, <5>3 DEF Inv, CancellersReady
        <4>3. QED BY <4>1, <4>2
      <3>5. QED BY <3>2, <3>3, <3>4 DEF CancellersReady, Connections
    <2>2. QED BY <1>0, <1>19, <2>1, NoRequest DEF ConnectorConnects
  <1>20. CASE ConnectorFails
    <2>1. CancellersReady'
      <3>1. taken[0] = {} /\ UNCHANGED <<taken, reader, opened>>
        BY SMTT(60), <1>20 DEF Inv, CancellersReady, ConnectorFails
      <3>2. QED BY <3>1 DEF Inv, CancellersReady, Connections
    <2>2. QED BY <1>0, <1>20, <2>1, NoRequest DEF ConnectorFails
  <1>21. CASE StoreConnection
    <2>1. CancellersReady'
      <3>1. taken[0] = {} /\ UNCHANGED <<taken, reader, opened>>
        BY SMTT(60), <1>21 DEF Inv, CancellersReady, StoreConnection
      <3>2. QED BY <3>1 DEF Inv, CancellersReady, Connections
    <2>2. QED BY Zenon, <1>0, <1>21, <2>1, NoRequest DEF StoreConnection
  <1>22. CASE Tick
    <2>1. CancellersReady'
      BY SMTT(60), <1>22, FrameCancellers DEF Inv, Tick
    <2>2. ASSUME NEW r \in Requests
          PROVE  RequestInv(r)'
      <3>1. UNCHANGED <<pos, value, result, waker, woken, pc, out, taken, timerWakes>>
        BY SMTT(60), <1>22 DEF Tick
      <3>2. age[r] = Timeout => age'[r] = Timeout
        BY SMTT(60), <1>22, ConstantsAssumption DEF Tick, ConstantsAssumption
      <3>3. Held(r)' <=> Held(r)
        BY <3>1 DEF Held, Cancellers, Connections
      <3>4. HeldIsOpen(r)' /\ PendingIsHeld(r)' /\ WakeupKept(r)'
        BY SMTT(60), <1>b, <3>1, <3>3
          DEF RequestInv, HeldIsOpen, PendingIsHeld, WakeupKept
      <3>5. HeldOnce(r)'
        BY SMTT(60), <1>b, <3>1 DEF RequestInv, HeldOnce, Cancellers, Connections
      <3>6. ResultsFit(r)'
        BY SMTT(60), <1>b, <3>1, <3>2 DEF RequestInv, ResultsFit
      <3>7. QED BY <3>4, <3>5, <3>6 DEF RequestInv
    <2>3. QED BY <1>0, <2>1, <2>2 DEF Inv
  <1>23. CASE UNCHANGED vars
    <2>1. CancellersReady'
      BY SMTT(60), <1>23, FrameCancellers DEF Inv, vars
    <2>2. QED BY SMTT(60), <1>0, <1>23, <2>1, NoRequest DEF vars
  <1>24. QED
    BY Zenon, <1>1, <1>2, <1>3, <1>4, <1>5, <1>6, <1>7, <1>8, <1>9, <1>10, <1>11,
        <1>12, <1>13, <1>14, <1>15, <1>16, <1>17, <1>18, <1>19, <1>20, <1>21,
        <1>22, <1>23
       DEF Next, RequestStep, ConnectionStep, ClientStep, Poll

\* The inductive invariant holds in every behaviour of the code.
THEOREM Invariance == Spec => []Inv
  <1>1. Init => Inv
    <2> SUFFICES ASSUME Init PROVE Inv
      OBVIOUS
    <2>1. TypeOK
      BY Zenon, InitTypes
    <2>2. CancellersReady
      BY SMTT(60) DEF Init, CancellersReady, Cancellers, Connections
    <2>3. ASSUME NEW r \in Requests
          PROVE  RequestInv(r)
      <3>1. ~Held(r) /\ HeldOnce(r)
        BY SMTT(60) DEF Init, Held, HeldOnce, Cancellers, Connections
      <3>2. /\ pc[r] = "idle" /\ result[r] = "none" /\ out[r] = "none"
            /\ value[r].present
        BY SMTT(60) DEF Init
      <3>3. QED BY SMTT(60), <3>1, <3>2
            DEF RequestInv, HeldIsOpen, PendingIsHeld, ResultsFit, WakeupKept
    <2>4. QED BY Zenon, <2>1, <2>2, <2>3 DEF Inv
  <1>2. Inv /\ [Next]_vars => Inv'
    BY InvStep
  <1>3. QED BY <1>1, <1>2, PTL DEF Spec

\* The expect() calls of handle_element and poll, and what the transformers
\* unwrap, never panic, whatever the server sends in the documented order.
THEOREM PromiseFulfilledOnceHolds == Spec => []PromiseFulfilledOnce
  <1>1. ASSUME Inv, NEW r \in Requests
        PROVE  /\ pos[r] # 0 \/ r \in Taken =>
                    value[r].present /\ result[r] = "none" /\ out[r] = "none"
               /\ result[r] = "ok" =>
                    value[r].present /\ (r \in JoinRequests => value[r].self)
    <2>1. HeldIsOpen(r) /\ ResultsFit(r)
      BY Zenon, <1>1 DEF Inv, RequestInv
    <2>2. pos[r] # 0 \/ r \in Taken => Held(r)
      BY ZenonT(60) DEF Held, Taken
    <2>3. QED BY ZenonT(60), <2>1, <2>2 DEF HeldIsOpen, ResultsFit
  <1>2. Inv => PromiseFulfilledOnce
    BY SMTT(60), <1>1 DEF PromiseFulfilledOnce
  <1>3. QED BY <1>2, Invariance, PTL

\* No interleaving of poll, visit_futures_with_element, purge_expired_futures
\* and cancel_pending_futures loses a wake-up.
THEOREM NoLostWakeupHolds == Spec => []NoLostWakeup
  <1>1. ASSUME Inv, NEW r \in Requests, pc[r] = "awaiting", ~woken[r]
        PROVE  IF result[r] = "none"
               THEN waker[r] /\ (pos[r] # 0 \/ r \in Taken)
               ELSE r \in timerWakes
    <2>1. WakeupKept(r)
      BY SMTT(60), <1>1 DEF Inv, RequestInv
    <2>2. Held(r) => pos[r] # 0 \/ r \in Taken
      BY SMTT(60) DEF Held, Taken
    <2>3. QED BY <1>1, <2>1, <2>2 DEF WakeupKept
  <1>2. Inv => NoLostWakeup
    BY Zenon, <1>1 DEF NoLostWakeup
  <1>3. QED BY <1>2, Invariance, PTL

=============================================================================
