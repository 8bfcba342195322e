------------------------ MODULE RequestServiceProofs ------------------------
(***************************************************************************)
(* What the callers of the request layer get, proved from the invariant of *)
(* RequestFuturesProofs: AnsweredGetsReply, MamComplete and the refinement *)
(* of RequestService.                                                      *)
(***************************************************************************)
EXTENDS RequestFuturesProofs

-----------------------------------------------------------------------------
(***************************************************************************)
(* Replies and archived messages reach the request they are for.           *)
(***************************************************************************)

\* Only what was written is answered, and a request that was answered has its
\* reply, or its caller has.
AnswerKept(r) ==
    /\ sentOn[r] # 0 => pc[r] \notin {"idle", "registered"}
    /\ r \in JoinRequests /\ value[r].self => sentOn[r] # 0
    /\ r \in answered =>
         /\ pc[r] \in {"awaiting", "done", "closed"}
         /\ pc[r] = "awaiting" => result[r] \in Replies
         /\ pc[r] # "awaiting" => out[r] \in Replies

\* An archive query has collected what was read for it.
CollectsAll(r) == r \in MamRequests => value[r].collected = archived[r]

\* The kind of a request decides which reducer it has.
LEMMA Reducers ==
    ASSUME NEW r \in Requests, NEW e \in Elements
    PROVE  /\ r \in MamRequests => Reduce(r, e) = MamReducer(r, e)
           /\ r \in JoinRequests => Reduce(r, e) = JoinReducer(r, e)
           /\ r \in MucRequests => Reduce(r, e) = MucReducer(r, e)
           /\ r \notin RoomRequests => Reduce(r, e) = IqReducer(r, e)
  BY Zenon, ConstantsAssumption DEF ConstantsAssumption, Reduce, RoomRequests

\* The archived messages of a query are passed on by every other request.
LEMMA ArchivedForOne ==
    ASSUME NEW r \in Requests, NEW e \in Elements, e.type = "archived"
    PROVE  Reduce(r, e) = IF r = e.query THEN "absorb" ELSE "pass"
  <1>1. e.query \in MamRequests
    BY Zenon DEF Elements
  <1>2. CASE r \in MamRequests
    BY Zenon, <1>2, Reducers DEF MamReducer
  <1>3. CASE r \in JoinRequests
    BY Zenon, <1>1, <1>3, Reducers, ConstantsAssumption DEF JoinReducer
  <1>4. CASE r \in MucRequests
    BY Zenon, <1>1, <1>4, Reducers, ConstantsAssumption DEF MucReducer
  <1>5. CASE r \notin RoomRequests
    BY <1>1, <1>5, Reducers DEF IqReducer, RoomRequests
  <1>6. QED BY Zenon, <1>2, <1>3, <1>4, <1>5 DEF RoomRequests

\* An archive query absorbs its archived messages and nothing else.
LEMMA AbsorbedByQuery ==
    ASSUME NEW r \in MamRequests, NEW e \in Elements, Reduce(r, e) = "absorb"
    PROVE  e.type = "archived" /\ e.query = r
  <1>1. r \in Requests
    BY Zenon DEF Requests
  <1>2. Reduce(r, e) = MamReducer(r, e)
    BY Zenon, <1>1, Reducers
  <1>3. QED BY Zenon, <1>2 DEF MamReducer

\* What a reply looks like.
LEMMA RepliesOf ==
    ASSUME NEW r \in Requests, NEW e \in Elements, IsReply(r, e)
    PROVE  \/ r \notin JoinRequests \cup MucRequests /\ e.type = "iq" /\ e.id = r
           \/ /\ r \in JoinRequests /\ e.type = "presence"
              /\ e.room = RoomOf[r] /\ e.occupant = r
           \/ /\ r \in JoinRequests /\ e.type = "message"
              /\ e.room = RoomOf[r] /\ e.subject
           \/ /\ r \in MucRequests /\ e.type = "message"
              /\ e.room = RoomOf[r] /\ e.id = r
  <1>1. CASE r \in MamRequests
    <2>1. MamReducer(r, e) \in Replies
      BY Zenon, <1>1, Reducers DEF IsReply
    <2>2. e.type = "iq" /\ e.id = r
      BY Zenon, <2>1 DEF MamReducer, Replies
    <2>3. QED BY Zenon, <1>1, <2>2, ConstantsAssumption DEF ConstantsAssumption
  <1>2. CASE r \in JoinRequests
    <2>1. JoinReducer(r, e) \in Replies
      BY Zenon, <1>2, Reducers DEF IsReply
    <2>2. QED BY Zenon, <1>2, <2>1 DEF JoinReducer, Replies
  <1>3. CASE r \in MucRequests
    <2>1. MucReducer(r, e) \in Replies
      BY Zenon, <1>3, Reducers DEF IsReply
    <2>2. QED BY Zenon, <1>3, <2>1 DEF MucReducer, Replies
  <1>4. CASE r \notin RoomRequests
    <2>1. IqReducer(r, e) \in Replies
      BY Zenon, <1>4, Reducers DEF IsReply
    <2>2. e.type = "iq" /\ e.id = r
      BY Zenon, <2>1 DEF IqReducer, Replies
    <2>3. QED BY Zenon, <1>4, <2>2 DEF RoomRequests
  <1>5. QED BY Zenon, <1>1, <1>2, <1>3, <1>4 DEF RoomRequests

\* Nobody else wants an IQ with the id of a request.
LEMMA IqForOne ==
    ASSUME NEW q \in Requests, NEW e \in Elements, e.type = "iq", e.id # q
    PROVE  Reduce(q, e) = "pass"
  <1>1. CASE q \in MamRequests
    BY Zenon, <1>1, Reducers DEF MamReducer
  <1>2. CASE q \in JoinRequests
    BY Zenon, <1>2, Reducers DEF JoinReducer
  <1>3. CASE q \in MucRequests
    BY Zenon, <1>3, Reducers DEF MucReducer
  <1>4. CASE q \notin RoomRequests
    BY Zenon, <1>4, Reducers DEF IqReducer
  <1>5. QED BY Zenon, <1>1, <1>2, <1>3, <1>4 DEF RoomRequests

\* A request waits as long as it is listed, and no longer.
LEMMA WaitingIsListed ==
    ASSUME Inv, NEW r \in Requests
    PROVE  Waiting(r) <=> r \in Listed
  <1>1. RequestInv(r)
    BY Zenon DEF Inv
  <1>2. Waiting(r) => pos[r] # 0
    BY Zenon, <1>1 DEF RequestInv, PendingIsHeld, Held, Waiting
  <1>3. pos[r] # 0 => Waiting(r)
    BY Zenon, <1>1 DEF RequestInv, HeldIsOpen, HeldOnce, Held, Waiting
  <1>4. QED BY Zenon, <1>2, <1>3 DEF Listed

\* A listed future reduces the element, as it has no result.
LEMMA ListedReduces ==
    ASSUME Inv, NEW r \in Listed, NEW e \in Elements
    PROVE  HandleElement(r, e) = Reduce(r, e)
  <1>1. r \in Requests /\ RequestInv(r) /\ pos[r] # 0
    BY Zenon DEF Inv, Listed
  <1>2. result[r] = "none"
    BY Zenon, <1>1 DEF RequestInv, HeldIsOpen, Held
  <1>3. QED BY Zenon, <1>2 DEF HandleElement

\* Nobody before the request a reply is for wants that reply.
LEMMA ReplyIsFirst ==
    ASSUME OneJoinPerRoom, NEW c \in Connections, NEW e \in Elements,
           Expected(c, e), NEW r \in Requests, IsReply(r, e),
           NEW q \in Listed, q # r
    PROVE  Reduce(q, e) = "pass" \/ pos[r] < pos[q]
  <1>0. q \in Requests
    BY Zenon DEF Listed
  <1>1. CASE e.type = "iq" /\ e.id = r
    BY Zenon, <1>0, <1>1, IqForOne
  <1>2. CASE /\ r \in JoinRequests /\ e.type = "presence"
             /\ e.room = RoomOf[r] /\ e.occupant = r
    <2>1. CASE q \in JoinRequests
      <3>1. RoomOf[q] # e.room
        BY Zenon, <1>2, <2>1 DEF OneJoinPerRoom
      <3>2. QED BY Zenon, <1>0, <1>2, <2>1, <3>1, Reducers DEF JoinReducer
    <2>2. CASE q \in MamRequests
      BY Zenon, <1>0, <1>2, <2>2, Reducers DEF MamReducer
    <2>3. CASE q \in MucRequests
      BY Zenon, <1>0, <1>2, <2>3, Reducers DEF MucReducer
    <2>4. CASE q \notin RoomRequests
      BY Zenon, <1>0, <1>2, <2>4, Reducers DEF IqReducer
    <2>5. QED BY Zenon, <2>1, <2>2, <2>3, <2>4 DEF RoomRequests
  <1>3. CASE /\ r \in JoinRequests /\ e.type = "message"
             /\ e.room = RoomOf[r] /\ e.subject
    <2>0. e.id = Nobody
      BY Zenon, <1>3 DEF Expected
    <2>1. CASE q \in JoinRequests
      <3>1. RoomOf[q] # e.room
        BY Zenon, <1>3, <2>1 DEF OneJoinPerRoom
      <3>2. QED BY Zenon, <1>0, <1>3, <2>1, <3>1, Reducers DEF JoinReducer
    <2>2. CASE q \in MamRequests
      BY Zenon, <1>0, <1>3, <2>2, Reducers DEF MamReducer
    <2>3. CASE q \in MucRequests
      <3>1. e.id # q
        BY Zenon, <1>0, <2>0, ConstantsAssumption DEF ConstantsAssumption
      <3>2. QED BY Zenon, <1>0, <2>3, <3>1, Reducers DEF MucReducer
    <2>4. CASE q \notin RoomRequests
      BY Zenon, <1>0, <1>3, <2>4, Reducers DEF IqReducer
    <2>5. QED BY <2>1, <2>2, <2>3, <2>4 DEF RoomRequests
  <1>4. CASE /\ r \in MucRequests /\ e.type = "message"
             /\ e.room = RoomOf[r] /\ e.id = r
    <2>1. CASE q \in JoinRequests
      <3>1. CASE RoomOf[q] = e.room
        <4>1. e.id # Nobody
          BY Zenon, <1>4, ConstantsAssumption DEF ConstantsAssumption
        <4>2. pos[e.id] < pos[q]
          BY Zenon, <1>4, <2>1, <3>1, <4>1 DEF Expected
        <4>3. QED BY Zenon, <1>4, <4>2
      <3>2. CASE RoomOf[q] # e.room
        BY Zenon, <1>0, <1>4, <2>1, <3>2, Reducers DEF JoinReducer
      <3>3. QED BY Zenon, <3>1, <3>2
    <2>2. CASE q \in MamRequests
      BY Zenon, <1>0, <1>4, <2>2, Reducers DEF MamReducer
    <2>3. CASE q \in MucRequests
      BY Zenon, <1>0, <1>4, <2>3, Reducers DEF MucReducer
    <2>4. CASE q \notin RoomRequests
      BY Zenon, <1>0, <1>4, <2>4, Reducers DEF IqReducer
    <2>5. QED BY <2>1, <2>2, <2>3, <2>4 DEF RoomRequests
  <1>5. QED BY <1>1, <1>2, <1>3, <1>4, RepliesOf

\* A request that waits for a reply takes it, and nobody else does.
LEMMA ReplyTaken ==
    ASSUME Inv, OneJoinPerRoom, NEW c \in Connections, NEW e \in Elements,
           Expected(c, e), NEW r \in Requests, Waiting(r), IsReply(r, e)
    PROVE  /\ Takes(r, e)
           /\ HandleElement(r, e) = Reduce(r, e)
           /\ \A q \in Requests : Takes(q, e) => q = r
  <1>1. r \in Listed
    BY Zenon, WaitingIsListed
  <1>2. HandleElement(r, e) = Reduce(r, e) /\ Reduce(r, e) # "pass"
    BY Zenon, <1>1, ListedReduces DEF IsReply, Replies
  <1>3. ASSUME NEW q \in Listed, q # r
        PROVE  HandleElement(q, e) = "pass" \/ pos[r] < pos[q]
    BY Zenon, <1>3, ReplyIsFirst, ListedReduces
  <1>4. \A q \in Listed : pos[q] \in Nat
    BY Zenon DEF Inv, TypeOK, Listed
  <1>5. \A q \in Listed : pos[q] < pos[r] => q # r /\ ~(pos[r] < pos[q])
    BY <1>1, <1>4
  <1>6. Takes(r, e)
    BY Zenon, <1>1, <1>2, <1>3, <1>5 DEF Takes
  <1>7. ASSUME NEW q \in Requests, Takes(q, e), q # r
        PROVE  FALSE
    BY Zenon, <1>1, <1>2, <1>3, <1>7 DEF Takes
  <1>8. QED BY Zenon, <1>2, <1>6, <1>7

\* A query that waits takes its archived messages, and nobody else does.
LEMMA ArchivedTaken ==
    ASSUME Inv, NEW e \in Elements, e.type = "archived", Waiting(e.query)
    PROVE  /\ Takes(e.query, e)
           /\ HandleElement(e.query, e) = "absorb"
           /\ \A q \in Requests : Takes(q, e) => q = e.query
  <1>1. e.query \in Requests
    BY Zenon DEF Elements, Requests
  <1>2. e.query \in Listed
    BY Zenon, <1>1, WaitingIsListed
  <1>3. \A q \in Listed : /\ q \in Requests
                          /\ HandleElement(q, e) = Reduce(q, e)
    BY Zenon, ListedReduces DEF Listed
  <1>4. \A q \in Listed :
          HandleElement(q, e) = IF q = e.query THEN "absorb" ELSE "pass"
    BY <1>3, ArchivedForOne
  <1>5. pos[e.query] \in Nat
    BY Zenon, <1>1 DEF Inv, TypeOK
  <1>6. \A q \in Listed : pos[q] < pos[e.query] => q # e.query
    BY <1>5
  <1>7. QED BY Zenon, <1>2, <1>4, <1>6 DEF Takes

\* What was answered stands when a step leaves the request alone.
LEMMA AnswerStands ==
    ASSUME NEW r \in Requests, AnswerKept(r),
           pc'[r] = pc[r], result'[r] = result[r], out'[r] = out[r],
           value'[r].self => value[r].self, sentOn'[r] = sentOn[r],
           r \in answered' => r \in answered
    PROVE  AnswerKept(r)'
  BY Zenon DEF AnswerKept

\* Only a request that was written gets a reply.
LEMMA ReplyIsForWritten ==
    ASSUME Inv, NEW c \in Connections, NEW e \in Elements, Expected(c, e),
           NEW r \in Requests, AnswerKept(r), Waiting(r), IsReply(r, e)
    PROVE  pc[r] = "awaiting"
  <1>0. c # 0
    BY ConstantsAssumption DEF Connections, ConstantsAssumption
  <1>1. sentOn[r] # 0
    <2>1. CASE e.type = "iq" /\ e.id = r
      BY Zenon, <1>0, <2>1 DEF Expected
    <2>2. CASE /\ r \in JoinRequests /\ e.type = "presence"
               /\ e.room = RoomOf[r] /\ e.occupant = r
      <3>1. e.occupant # Nobody
        BY Zenon, <2>2, ConstantsAssumption DEF ConstantsAssumption
      <3>2. QED BY Zenon, <1>0, <2>2, <3>1 DEF Expected
    <2>3. CASE /\ r \in JoinRequests /\ e.type = "message"
               /\ e.room = RoomOf[r] /\ e.subject
      <3>1. r \in Listed
        BY Zenon, WaitingIsListed
      <3>2. value[r].self
        BY Zenon, <2>3, <3>1 DEF Expected
      <3>3. QED BY Zenon, <2>3, <3>2 DEF AnswerKept
    <2>4. CASE /\ r \in MucRequests /\ e.type = "message"
               /\ e.room = RoomOf[r] /\ e.id = r
      <3>1. e.id # Nobody
        BY Zenon, <2>4, ConstantsAssumption DEF ConstantsAssumption
      <3>2. QED BY Zenon, <1>0, <2>4, <3>1 DEF Expected
    <2>5. QED BY <2>1, <2>2, <2>3, <2>4, RepliesOf
  <1>2. QED BY Zenon, <1>1 DEF AnswerKept, Waiting

\* Every step keeps the replies.
LEMMA AnswerStep ==
    ASSUME Inv, OneJoinPerRoom, \A r \in Requests : AnswerKept(r), [Next]_vars
    PROVE  \A r \in Requests : AnswerKept(r)'
  <1> SUFFICES ASSUME NEW r \in Requests PROVE AnswerKept(r)'
    OBVIOUS
  <1> USE DEF futures, cancels, streams, history
  <1>0. TypeOK /\ RequestInv(r) /\ AnswerKept(r)
    BY Zenon DEF Inv
  <1>a. /\ DOMAIN value = Requests /\ DOMAIN result = Requests
        /\ DOMAIN pc = Requests /\ DOMAIN out = Requests
        /\ DOMAIN sentOn = Requests
    BY Zenon, <1>0 DEF TypeOK
  <1>b. r \in Listed \/ (\E a \in Cancellers : r \in taken[a])
          => result[r] = "none" /\ pc[r] \in {"registered", "awaiting"}
    BY Zenon, <1>0 DEF RequestInv, HeldIsOpen, Held, Listed
  <1>c. result[r] = "none" /\ pc[r] \in {"registered", "awaiting"} => r \notin answered
    BY Zenon, <1>0 DEF AnswerKept, Replies
  <1>1. ASSUME NEW q \in Requests, SendStanzaWithFuture(q)
        PROVE  AnswerKept(r)'
    <2>1. CASE q = r
      <3>1. /\ pc[r] = "idle" /\ pc'[r] = "registered"
            /\ UNCHANGED <<value, result, out, sentOn, answered>>
        BY Zenon, <1>a, <1>1, <2>1 DEF SendStanzaWithFuture
      <3>2. QED BY Zenon, <1>0, <3>1 DEF AnswerKept
    <2>2. CASE q # r
      BY Zenon, <1>0, <1>a, <1>1, <2>2, AnswerStands DEF SendStanzaWithFuture
    <2>3. QED BY Zenon, <2>1, <2>2
  <1>2. ASSUME NEW q \in Requests, SendStanza(q)
        PROVE  AnswerKept(r)'
    <2>1. CASE q = r
      <3>1. /\ pc[r] = "registered" /\ pc'[r] = "awaiting"
            /\ connection # 0 /\ sentOn'[r] = connection
            /\ UNCHANGED <<value, result, out, answered>>
        BY Zenon, <1>a, <1>2, <2>1 DEF SendStanza
      <3>2. QED BY Zenon, <1>0, <3>1 DEF AnswerKept
    <2>2. CASE q # r
      BY Zenon, <1>0, <1>a, <1>2, <2>2, AnswerStands DEF SendStanza
    <2>3. QED BY <2>1, <2>2
  <1>3. ASSUME NEW q \in Requests, SendStanzaFails(q)
        PROVE  AnswerKept(r)'
    <2>1. CASE q = r
      <3>1. /\ pc[r] = "registered" /\ pc'[r] = "awaiting"
            /\ UNCHANGED <<sentOn, answered>>
        BY Zenon, <1>a, <1>3, <2>1 DEF SendStanzaFails
      <3>2. value'[r].self = value[r].self
        <4>1. value[r] \in Values /\ value' = [value EXCEPT ![r].present = FALSE]
          BY Zenon, <1>0, <1>3, <2>1 DEF TypeOK, SendStanzaFails
        <4>2. QED BY Zenon, <1>a, <4>1 DEF Values
      <3>3. QED BY Zenon, <1>0, <3>1, <3>2 DEF AnswerKept
    <2>2. CASE q # r
      BY Zenon, <1>0, <1>a, <1>3, <2>2, AnswerStands DEF SendStanzaFails
    <2>3. QED BY <2>1, <2>2
  <1>4. ASSUME NEW q \in Requests, PollPending(q)
        PROVE  AnswerKept(r)'
    BY Zenon, <1>0, <1>4, AnswerStands DEF PollPending
  <1>5. ASSUME NEW q \in Requests, PollReady(q)
        PROVE  AnswerKept(r)'
    <2>1. CASE q = r
      <3>1. /\ pc[r] = "awaiting" /\ pc'[r] = "done" /\ out'[r] = result[r]
            /\ UNCHANGED <<sentOn, answered>>
        BY Zenon, <1>a, <1>5, <2>1 DEF PollReady
      <3>2. value'[r].self = value[r].self
        <4>1. value[r] \in Values
          BY Zenon, <1>0 DEF TypeOK
        <4>2. QED BY Zenon, <1>a, <1>5, <2>1, <4>1 DEF PollReady, Values
      <3>3. QED BY Zenon, <1>0, <3>1, <3>2 DEF AnswerKept
    <2>2. CASE q # r
      BY Zenon, <1>0, <1>a, <1>5, <2>2, AnswerStands DEF PollReady
    <2>3. QED BY <2>1, <2>2
  <1>6. ASSUME NEW q \in Requests, WakeExpired(q)
        PROVE  AnswerKept(r)'
    BY Zenon, <1>0, <1>6, AnswerStands DEF WakeExpired
  <1>7. ASSUME NEW q \in Requests, PingDisconnects(q)
        PROVE  AnswerKept(r)'
    <2>1. CASE q = r
      <3>1. /\ pc[r] = "done" /\ pc'[r] = "closed"
            /\ UNCHANGED <<value, result, out, sentOn, answered>>
        BY Zenon, <1>a, <1>7, <2>1 DEF PingDisconnects
      <3>2. QED BY Zenon, <1>0, <3>1 DEF AnswerKept
    <2>2. CASE q # r
      BY Zenon, <1>0, <1>a, <1>7, <2>2, AnswerStands DEF PingDisconnects
    <2>3. QED BY <2>1, <2>2
  <1>8. ASSUME NEW a \in Cancellers, NEW q \in Requests, FailWithDisconnect(a, q)
        PROVE  AnswerKept(r)'
    <2>0. UNCHANGED <<value, pc, out, sentOn, answered>>
      BY Zenon, <1>8 DEF FailWithDisconnect
    <2>1. CASE q = r
      <3>1. r \notin answered
        BY Zenon, <1>8, <1>b, <1>c, <2>1 DEF FailWithDisconnect
      <3>2. QED BY Zenon, <1>0, <2>0, <3>1 DEF AnswerKept
    <2>2. CASE q # r
      <3>1. result'[r] = result[r]
        BY Zenon, <1>a, <1>8, <2>2 DEF FailWithDisconnect
      <3>2. QED BY Zenon, <1>0, <2>0, <3>1, AnswerStands
    <2>3. QED BY Zenon, <2>1, <2>2
  <1>9. ASSUME NEW c \in Connections, NEW e \in Elements, StanzaForModules(c, e)
        PROVE  AnswerKept(r)'
    <2>0. Expected(c, e) /\ Remember(e) /\ UNCHANGED <<value, result, pc, out>>
      BY Zenon, <1>9 DEF StanzaForModules
    <2>1. ~(Waiting(r) /\ IsReply(r, e))
      BY Zenon, <1>9, <2>0, ReplyTaken DEF StanzaForModules
    <2>2. UNCHANGED sentOn /\ (r \in answered' => r \in answered)
      BY Zenon, <2>0, <2>1 DEF Remember
    <2>3. QED BY Zenon, <1>0, <2>0, <2>2, AnswerStands
  <1>10. ASSUME NEW c \in Connections, NEW e \in Elements, NEW q \in Requests,
                StanzaAbsorbed(c, e, q)
         PROVE  AnswerKept(r)'
    <2>0. /\ Expected(c, e) /\ Remember(e) /\ Takes(q, e)
          /\ HandleElement(q, e) = "absorb" /\ UNCHANGED <<result, pc, out>>
          /\ value' = [value EXCEPT ![q] = Absorbed(q, e)]
      BY Zenon, <1>10 DEF StanzaAbsorbed
    <2>1. ~(Waiting(r) /\ IsReply(r, e))
      BY Zenon, <2>0, ReplyTaken DEF IsReply, Replies
    <2>2. UNCHANGED sentOn /\ (r \in answered' => r \in answered)
      BY Zenon, <2>0, <2>1 DEF Remember
    <2>3. CASE q # r
      <3>1. value'[r] = value[r]
        BY Zenon, <1>a, <2>0, <2>3
      <3>2. QED BY Zenon, <1>0, <2>0, <2>2, <3>1, AnswerStands
    <2>4. CASE q = r
      <3>1. /\ value[r] \in Values
            /\ value'[r] = Absorbed(r, e)
        BY Zenon, <1>0, <1>a, <2>0, <2>4 DEF TypeOK
      <3>2. r \in JoinRequests /\ value'[r].self =>
              value[r].self \/ (e.type = "presence" /\ e.occupant = r)
        BY Zenon, <3>1 DEF Absorbed, Values
      <3>3. e.type = "presence" /\ e.occupant = r => sentOn[r] # 0
        <4>1. r # Nobody /\ c # 0
          BY ConstantsAssumption DEF Connections, ConstantsAssumption
        <4>2. QED BY Zenon, <2>0, <4>1 DEF Expected
      <3>4. r \in JoinRequests /\ value'[r].self => sentOn'[r] # 0
        BY Zenon, <1>0, <2>2, <3>2, <3>3 DEF AnswerKept
      <3>5. QED BY Zenon, <1>0, <2>0, <2>2, <3>4 DEF AnswerKept
    <2>5. QED BY Zenon, <2>3, <2>4
  <1>11. ASSUME NEW c \in Connections, NEW e \in Elements, NEW q \in Requests,
                StanzaResolves(c, e, q)
         PROVE  AnswerKept(r)'
    <2>0. /\ Expected(c, e) /\ Remember(e) /\ Takes(q, e)
          /\ UNCHANGED <<value, pc, out>>
          /\ result' = [result EXCEPT ![q] = HandleElement(q, e)]
      BY Zenon, <1>11 DEF StanzaResolves
    <2>1. CASE Waiting(r) /\ IsReply(r, e)
      <3>1. q = r /\ HandleElement(r, e) = Reduce(r, e)
        BY Zenon, <2>0, <2>1, ReplyTaken
      <3>2. result'[r] \in Replies
        BY Zenon, <1>a, <2>0, <2>1, <3>1 DEF IsReply
      <3>3. pc[r] = "awaiting"
        BY Zenon, <1>0, <2>0, <2>1, ReplyIsForWritten
      <3>4. UNCHANGED sentOn
        BY Zenon, <2>0 DEF Remember
      <3>5. QED BY Zenon, <1>0, <2>0, <3>2, <3>3, <3>4 DEF AnswerKept
    <2>2. CASE ~(Waiting(r) /\ IsReply(r, e))
      <3>1. UNCHANGED sentOn /\ (r \in answered' => r \in answered)
        BY Zenon, <2>0, <2>2 DEF Remember
      <3>2. CASE q = r
        <4>1. r \notin answered
          BY Zenon, <1>b, <1>c, <2>0, <3>2 DEF Takes
        <4>2. QED BY Zenon, <1>0, <2>0, <3>1, <4>1 DEF AnswerKept
      <3>3. CASE q # r
        <4>1. result'[r] = result[r]
          BY Zenon, <1>a, <2>0, <3>3
        <4>2. QED BY Zenon, <1>0, <2>0, <3>1, <4>1, AnswerStands
      <3>4. QED BY Zenon, <3>2, <3>3
    <2>3. QED BY Zenon, <2>1, <2>2
  <1>12. ASSUME NEW c \in Connections, TimeoutTimer(c)
         PROVE  AnswerKept(r)'
    <2>0. UNCHANGED <<value, pc, out, sentOn, answered>>
      BY Zenon, <1>12 DEF TimeoutTimer
    <2>1. CASE r \in Expired
      <3>1. r \notin answered
        BY Zenon, <1>b, <1>c, <2>1 DEF Expired
      <3>2. QED BY Zenon, <1>0, <2>0, <3>1 DEF AnswerKept
    <2>2. CASE r \notin Expired
      <3>1. result'[r] = result[r]
        BY Zenon, <1>12, <2>2 DEF TimeoutTimer
      <3>2. QED BY Zenon, <1>0, <2>0, <3>1, AnswerStands
    <2>3. QED BY Zenon, <2>1, <2>2
  <1>13. CASE UNCHANGED <<value, result, pc, out, sentOn, answered>>
    BY Zenon, <1>0, <1>13, AnswerStands
  <1>14. ASSUME NEW c \in Connections, Disconnected(c) \/ EndOfStream(c) \/ WriterFails(c)
         PROVE  UNCHANGED <<value, result, pc, out, sentOn, answered>>
    BY Zenon, <1>14 DEF Disconnected, EndOfStream, WriterFails
  <1>15. ClientStep \/ Tick \/ UNCHANGED vars
           => UNCHANGED <<value, result, pc, out, sentOn, answered>>
    BY Zenon DEF ClientStep, BeginConnect, BeginDisconnect, ClientDisconnect,
           ConnectorConnects, ConnectorFails, StoreConnection, Tick, vars
  <1>16. QED
    BY Zenon, <1>1, <1>2, <1>3, <1>4, <1>5, <1>6, <1>7, <1>8, <1>9, <1>10, <1>11,
       <1>12, <1>13, <1>14, <1>15
       DEF Next, RequestStep, ConnectionStep, Poll

\* As long as no two joins of a room overlap, a reply that was read while its
\* request waited is what the caller of send_stanza_with_future gets: no other
\* future takes it, and no timeout or disconnect replaces it.
THEOREM AnsweredGetsReplyHolds == OneJoinPerRoom => (Spec => []AnsweredGetsReply)
  <1> SUFFICES ASSUME OneJoinPerRoom PROVE Spec => []AnsweredGetsReply
    OBVIOUS
  <1> DEFINE Kept == \A r \in Requests : AnswerKept(r)
  <1>1. Init => Kept
    BY DEF Init, AnswerKept
  <1>2. Inv /\ Kept /\ [Next]_vars => Kept'
    BY Zenon, AnswerStep
  <1>3. Inv /\ Kept => AnsweredGetsReply
    <2> SUFFICES ASSUME Inv, Kept, NEW r \in answered
                 PROVE  \/ out[r] \in Replies
                        \/ out[r] = "none" /\ result[r] \in Replies
      BY Zenon DEF AnsweredGetsReply
    <2>1. r \in Requests
      BY Zenon DEF Inv, TypeOK
    <2>2. AnswerKept(r) /\ ResultsFit(r)
      BY Zenon, <2>1 DEF Inv, RequestInv
    <2>3. QED BY Zenon, <2>2 DEF AnswerKept, ResultsFit
  <1> HIDE DEF Kept
  <1>4. QED BY <1>1, <1>2, <1>3, Invariance, PTL DEF Spec

\* Every step keeps what an archive query has collected and what was read for
\* it the same.
LEMMA CollectStep ==
    ASSUME Inv, \A r \in Requests : CollectsAll(r), [Next]_vars
    PROVE  \A r \in Requests : CollectsAll(r)'
  <1> SUFFICES ASSUME NEW r \in Requests, r \in MamRequests
               PROVE  value'[r].collected = archived'[r]
    BY Zenon DEF CollectsAll
  <1> USE DEF futures, cancels, streams, history
  <1>0. /\ TypeOK /\ value[r].collected = archived[r]
        /\ DOMAIN value = Requests /\ DOMAIN archived = Requests
        /\ value[r] \in Values
    BY Zenon DEF Inv, TypeOK, CollectsAll
  <1>1. ASSUME NEW q \in Requests, SendStanzaFails(q) \/ PollReady(q)
        PROVE  value'[r].collected = archived'[r]
    <2>1. value'[r].collected = value[r].collected
      BY <1>0, <1>1 DEF SendStanzaFails, PollReady, Values
    <2>2. UNCHANGED archived
      BY Zenon, <1>1 DEF SendStanzaFails, PollReady
    <2>3. QED BY Zenon, <1>0, <2>1, <2>2
  <1>2. ASSUME NEW e \in Elements, Remember(e), UNCHANGED value,
               NEW c \in Connections,
               StanzaForModules(c, e) \/ \E q \in Requests : StanzaResolves(c, e, q)
        PROVE  value'[r].collected = archived'[r]
    <2>1. ~(e.type = "archived" /\ e.query = r /\ Waiting(r))
      <3> SUFFICES ASSUME e.type = "archived", e.query = r, Waiting(r) PROVE FALSE
        OBVIOUS
      <3>1. /\ Takes(r, e) /\ HandleElement(r, e) = "absorb"
            /\ \A q \in Requests : Takes(q, e) => q = r
        BY Zenon, ArchivedTaken
      <3>2. QED BY Zenon, <1>2, <3>1 DEF StanzaForModules, StanzaResolves
    <2>2. archived'[r] = archived[r]
      BY Zenon, <1>2, <2>1 DEF Remember
    <2>3. QED BY Zenon, <1>0, <1>2, <2>2
  <1>3. ASSUME NEW c \in Connections, NEW e \in Elements, NEW q \in Requests,
               StanzaAbsorbed(c, e, q)
        PROVE  value'[r].collected = archived'[r]
    <2>0. /\ Takes(q, e) /\ HandleElement(q, e) = "absorb" /\ Remember(e)
          /\ value' = [value EXCEPT ![q] = Absorbed(q, e)]
      BY Zenon, <1>3 DEF StanzaAbsorbed
    <2>1. CASE q = r
      <3>1. r \in Listed /\ Waiting(r)
        BY Zenon, <2>0, <2>1, WaitingIsListed DEF Takes
      <3>2. Reduce(r, e) = "absorb"
        BY Zenon, <2>0, <2>1, <3>1, ListedReduces
      <3>3. e.type = "archived" /\ e.query = r
        BY Zenon, <3>2, AbsorbedByQuery
      <3>4. archived'[r] = archived[r] + 1
        BY Zenon, <2>0, <3>1, <3>3 DEF Remember
      <3>5. value'[r] = Absorbed(r, e)
        BY Zenon, <1>0, <2>0, <2>1
      <3>6. value'[r].collected = value[r].collected + 1
        BY Zenon, <1>0, <3>5 DEF Absorbed, Values
      <3>7. QED BY Zenon, <1>0, <3>4, <3>6
    <2>2. CASE q # r
      <3>1. ~(e.type = "archived" /\ e.query = r /\ Waiting(r))
        BY Zenon, <2>0, <2>2, ArchivedTaken
      <3>2. archived'[r] = archived[r]
        BY Zenon, <2>0, <3>1 DEF Remember
      <3>3. value'[r] = value[r]
        BY Zenon, <1>0, <2>0, <2>2
      <3>4. QED BY Zenon, <1>0, <3>2, <3>3
    <2>3. QED BY Zenon, <2>1, <2>2
  <1>4. ASSUME NEW c \in Connections, NEW e \in Elements,
               StanzaForModules(c, e) \/ \E q \in Requests : StanzaResolves(c, e, q)
        PROVE  Remember(e) /\ UNCHANGED value
    BY Zenon, <1>4 DEF StanzaForModules, StanzaResolves
  <1>5. ASSUME NEW q \in Requests,
               \/ SendStanzaWithFuture(q) \/ SendStanza(q) \/ PollPending(q)
               \/ WakeExpired(q) \/ PingDisconnects(q)
               \/ \E a \in Cancellers : FailWithDisconnect(a, q)
        PROVE  UNCHANGED <<value, archived>>
    BY Zenon, <1>5 DEF SendStanzaWithFuture, SendStanza, PollPending, WakeExpired,
                PingDisconnects, FailWithDisconnect
  <1>6. ASSUME NEW c \in Connections,
               \/ Disconnected(c) \/ EndOfStream(c) \/ WriterFails(c) \/ TimeoutTimer(c)
        PROVE  UNCHANGED <<value, archived>>
    BY Zenon, <1>6 DEF Disconnected, EndOfStream, WriterFails, TimeoutTimer
  <1>7. ClientStep \/ Tick \/ UNCHANGED vars => UNCHANGED <<value, archived>>
    BY Zenon DEF ClientStep, BeginConnect, BeginDisconnect, ClientDisconnect,
           ConnectorConnects, ConnectorFails, StoreConnection, Tick, vars
  <1>8. QED
    BY Zenon, <1>0, <1>1, <1>2, <1>3, <1>4, <1>5, <1>6, <1>7
       DEF Next, RequestStep, ConnectionStep, Poll

\* An archive query that succeeds has all the messages that were read for it,
\* whatever other futures of the room are pending (new_mam_request,
\* join_room_future.rs).
THEOREM MamCompleteHolds == Spec => []MamComplete
  <1> DEFINE Collected == \A r \in Requests : CollectsAll(r)
  <1>1. Init => Collected
    BY DEF Init, CollectsAll
  <1>2. Inv /\ Collected /\ [Next]_vars => Collected'
    BY Zenon, CollectStep
  <1>3. Collected => MamComplete
    BY Zenon DEF CollectsAll, MamComplete, Requests
  <1> HIDE DEF Collected
  <1>4. QED BY <1>1, <1>2, <1>3, Invariance, PTL DEF Spec

-----------------------------------------------------------------------------
(***************************************************************************)
(* The refinement of RequestService.                                       *)
(***************************************************************************)

\* Every step of the request layer is a step of the service or invisible to
\* it.
LEMMA ServiceStep ==
    ASSUME Inv, [Next]_vars
    PROVE  [Service!Next]_(Service!vars)
  <1> USE DEF futures, cancels, streams, history
  <1>0. TypeOK
    BY Zenon DEF Inv
  <1>1. ASSUME NEW r \in Requests, SendStanzaWithFuture(r)
        PROVE  [Service!Next]_(Service!vars)
    <2>1. Service!Issue(r)
      <3>1. Phase[r] = "idle" /\ Phase' = [Phase EXCEPT ![r] = "pending"]
        BY Zenon, <1>0, <1>1 DEF TypeOK, SendStanzaWithFuture, Phase
      <3>2. QED BY Zenon, <1>1, <3>1 DEF Service!Issue, SendStanzaWithFuture
    <2>2. QED BY Zenon, <2>1 DEF Service!Next
  <1>2. ASSUME NEW r \in Requests, SendStanza(r)
        PROVE  [Service!Next]_(Service!vars)
    <2>1. Phase' = Phase
      BY Zenon, <1>0, <1>2 DEF TypeOK, SendStanza, Phase
    <2>2. QED BY Zenon, <1>2, <2>1 DEF SendStanza, Service!vars
  <1>3. ASSUME NEW r \in Requests, SendStanzaFails(r)
        PROVE  [Service!Next]_(Service!vars)
    <2>1. Phase' = Phase
      BY Zenon, <1>0, <1>3 DEF TypeOK, SendStanzaFails, Phase
    <2>2. QED BY Zenon, <1>3, <2>1 DEF SendStanzaFails, Service!vars
  <1>4. ASSUME NEW r \in Requests, PollPending(r)
        PROVE  [Service!Next]_(Service!vars)
    BY Zenon, <1>4 DEF PollPending, Phase, Service!vars
  <1>5. ASSUME NEW r \in Requests, PollReady(r)
        PROVE  [Service!Next]_(Service!vars)
    <2>1. Phase[r] = "pending" /\ Phase' = [Phase EXCEPT ![r] = "done"]
      BY Zenon, <1>0, <1>5 DEF TypeOK, PollReady, Phase
    <2>2. result[r] \in Results
      BY Zenon, <1>0, <1>5 DEF TypeOK, PollReady
    <2>3. result[r] = "timedout" => age[r] = Timeout
      BY SMTT(60) DEF Inv, RequestInv, ResultsFit
    <2>4. Service!Complete(r, result[r])
      BY Zenon, <1>5, <2>1, <2>3 DEF Service!Complete, PollReady
    <2>5. QED BY Zenon, <2>2, <2>4 DEF Service!Next
  <1>6. ASSUME NEW r \in Requests, WakeExpired(r)
        PROVE  [Service!Next]_(Service!vars)
    BY Zenon, <1>6 DEF WakeExpired, Phase, Service!vars
  <1>7. ASSUME NEW r \in Requests, PingDisconnects(r)
        PROVE  [Service!Next]_(Service!vars)
    <2>1. Phase' = Phase
      BY Zenon, <1>0, <1>7 DEF TypeOK, PingDisconnects, Phase
    <2>2. QED BY SMTT(60), <1>7, <2>1 DEF PingDisconnects, Service!vars
  <1>8. ASSUME NEW a \in Cancellers, NEW r \in Requests,
               FailWithDisconnect(a, r)
        PROVE  [Service!Next]_(Service!vars)
    BY Zenon, <1>8 DEF FailWithDisconnect, Phase, Service!vars
  <1>9. ASSUME NEW c \in Connections, NEW e \in Elements,
               StanzaForModules(c, e)
        PROVE  [Service!Next]_(Service!vars)
    BY Zenon, <1>9 DEF StanzaForModules, Phase, Service!vars
  <1>10. ASSUME NEW c \in Connections, NEW e \in Elements, NEW r \in Requests,
                StanzaAbsorbed(c, e, r)
        PROVE  [Service!Next]_(Service!vars)
    BY Zenon, <1>10 DEF StanzaAbsorbed, Phase, Service!vars
  <1>11. ASSUME NEW c \in Connections, NEW e \in Elements, NEW r \in Requests,
                StanzaResolves(c, e, r)
        PROVE  [Service!Next]_(Service!vars)
    BY Zenon, <1>11 DEF StanzaResolves, Phase, Service!vars
  <1>12. ASSUME NEW c \in Connections, Disconnected(c)
        PROVE  [Service!Next]_(Service!vars)
    BY Zenon, <1>12 DEF Disconnected, Phase, Service!vars
  <1>13. ASSUME NEW c \in Connections, EndOfStream(c)
        PROVE  [Service!Next]_(Service!vars)
    BY Zenon, <1>13 DEF EndOfStream, Phase, Service!vars
  <1>14. ASSUME NEW c \in Connections, WriterFails(c)
        PROVE  [Service!Next]_(Service!vars)
    BY Zenon, <1>14 DEF WriterFails, Phase, Service!vars
  <1>15. ASSUME NEW c \in Connections, TimeoutTimer(c)
        PROVE  [Service!Next]_(Service!vars)
    BY Zenon, <1>15 DEF TimeoutTimer, Phase, Service!vars
  <1>16. CASE BeginConnect
    BY Zenon, <1>16 DEF BeginConnect, Phase, Service!vars
  <1>17. CASE BeginDisconnect
    BY Zenon, <1>17 DEF BeginDisconnect, Phase, Service!vars
  <1>18. CASE ClientDisconnect
    BY Zenon, <1>18 DEF ClientDisconnect, Phase, Service!vars
  <1>19. CASE ConnectorConnects
    BY Zenon, <1>19 DEF ConnectorConnects, Phase, Service!vars
  <1>20. CASE ConnectorFails
    BY Zenon, <1>20 DEF ConnectorFails, Phase, Service!vars
  <1>21. CASE StoreConnection
    BY Zenon, <1>21 DEF StoreConnection, Phase, Service!vars
  <1>22. CASE Tick
    <2> DEFINE S == {r \in Listed : age[r] < Timeout}
    <2>1. S \in SUBSET {r \in Requests : Phase[r] = "pending" /\ age[r] < Timeout}
      BY Zenon DEF Inv, RequestInv, HeldIsOpen, Held, Listed, Phase
    <2>2. age' = [r \in Requests |-> IF r \in S THEN age[r] + 1 ELSE age[r]]
      BY SMTT(60), <1>22 DEF Tick
    <2>3. Phase' = Phase /\ out' = out
      BY Zenon, <1>22 DEF Tick, Phase
    <2> HIDE DEF S
    <2>4. Service!Wait
      BY Zenon, <2>1, <2>2, <2>3 DEF Service!Wait
    <2>5. QED BY Zenon, <2>4 DEF Service!Next
  <1>23. CASE UNCHANGED vars
    BY Zenon, <1>23 DEF vars, Phase, Service!vars
  <1>24. QED
    BY SMTT(60), <1>1, <1>2, <1>3, <1>4, <1>5, <1>6, <1>7, <1>8, <1>9, <1>10, <1>11,
        <1>12, <1>13, <1>14, <1>15, <1>16, <1>17, <1>18, <1>19, <1>20, <1>21,
        <1>22, <1>23
       DEF Next, RequestStep, ConnectionStep, ClientStep, Poll

\* The request layer implements RequestService: a request completes at most
\* once, keeps its outcome, and times out only after TIMEOUT_DURATION.
THEOREM Refinement == Spec => ImplementsService
  <1>1. Init => Service!Init
    BY Zenon DEF Init, Phase, Service!Init
  <1>2. Inv /\ [Next]_vars => [Service!Next]_(Service!vars)
    BY Zenon, ServiceStep
  <1>3. QED BY <1>1, <1>2, Invariance, PTL
    DEF Spec, ImplementsService, Service!Spec

=============================================================================
