----------------------- MODULE ConnectionSetupProofs ------------------------
(***************************************************************************)
(* Proofs about ConnectionSetup, for any set of messages and any number of *)
(* calls of connect().  The invariant Inv is inductive; the properties     *)
(* follow from it.                                                         *)
(***************************************************************************)
EXTENDS ConnectionSetup, TLAPS

\* The initial state, before the first connect(), satisfies the invariant.
LEMMA InitInv == Init => Inv
<1>. SUFFICES ASSUME Init PROVE Inv
  OBVIOUS
<1>1. stream \in BOOLEAN /\ ready \in BOOLEAN
  BY Zenon DEF Init
<1>2. msg \in [Messages -> MessageStates]
  BY DEF Init, MessageStates
<1>3. TypeOK
  BY <1>1, <1>2, SetupAssumption DEF Init, TypeOK
<1>4. OneStepPush /\ NoneQueuedWhenConnected
  BY DEF Init, OneStepPush, NoneQueuedWhenConnected
<1>5. FeaturesWhenConnected /\ AccountWhileStreaming /\ NotYetConnected
      /\ OneStream /\ ConnectedWhenReady
  BY DEF Init, FeaturesWhenConnected, AccountWhileStreaming, NotYetConnected,
     OneStream, ConnectedWhenReady
<1>. QED BY <1>3, <1>4, <1>5 DEF Inv

\* Where a message is stays well defined when some messages move on, as drain
\* and push make them.
LEMMA MoveType ==
  ASSUME msg \in [Messages -> MessageStates],
         NEW M, NEW where \in MessageStates, Move(M, where)
  PROVE  /\ msg' \in [Messages -> MessageStates]
         /\ \A m \in Messages : msg'[m] = IF m \in M THEN where ELSE msg[m]
  BY DEF Move

\* Every step of connect() preserves the invariant.
LEMMA ConnectInv ==
  ASSUME Inv,
         \/ BeginConnect
         \/ SettingsLoaded
         \/ Dialed
         \/ DialFails
         \/ Prepared
         \/ FeaturesLoaded
         \/ Finished
         \/ StepFails
         \/ Enter
         \/ Drain
         \/ Announce
  PROVE  Inv'
<1>1. CASE BeginConnect
  <2>1. msg' \in [Messages -> MessageStates]
    BY <1>1, MoveType DEF Inv, TypeOK, MessageStates, BeginConnect
  <2>a. ready' \in BOOLEAN
    BY <1>1, Zenon DEF BeginConnect
  <2>2. TypeOK'
    BY <1>1, <2>1, <2>a, SetupAssumption DEF Inv, TypeOK, BeginConnect, streams
  <2>3. OneStepPush' /\ NoneQueuedWhenConnected'
    BY <1>1 DEF Inv, TypeOK, BeginConnect, Move, OneStepPush, NoneQueuedWhenConnected, Queued
  <2>4. FeaturesWhenConnected' /\ AccountWhileStreaming' /\ NotYetConnected'
          /\ OneStream' /\ ConnectedWhenReady'
    BY <1>1 DEF Inv, TypeOK, BeginConnect, streams, FeaturesWhenConnected,
       AccountWhileStreaming, NotYetConnected, OneStream, ConnectedWhenReady
  <2>. QED BY <2>2, <2>3, <2>4 DEF Inv
<1>2. CASE SettingsLoaded
  <2>a. stream' \in BOOLEAN /\ ready' \in BOOLEAN
    BY <1>2, Zenon DEF SettingsLoaded, EndStream
  <2>b. closing' \in Nat
    BY <1>2 DEF Inv, TypeOK, SettingsLoaded, EndStream
  <2>1. TypeOK'
    BY <1>2, <2>a, <2>b DEF Inv, TypeOK, SettingsLoaded, EndStream, streams
  <2>2. OneStepPush' /\ NoneQueuedWhenConnected'
    BY <1>2 DEF Inv, TypeOK, SettingsLoaded, EndStream, streams, OneStepPush, NoneQueuedWhenConnected, Queued
  <2>3. FeaturesWhenConnected' /\ AccountWhileStreaming' /\ NotYetConnected'
          /\ OneStream' /\ ConnectedWhenReady'
    BY <1>2 DEF Inv, TypeOK, SettingsLoaded, EndStream, streams, FeaturesWhenConnected,
       AccountWhileStreaming, NotYetConnected, OneStream, ConnectedWhenReady
  <2>. QED BY <2>1, <2>2, <2>3 DEF Inv
<1>3. CASE Dialed
  <2>1. TypeOK'
    BY <1>3 DEF Inv, TypeOK, Dialed, streams
  <2>2. OneStepPush' /\ NoneQueuedWhenConnected'
    BY <1>3 DEF Inv, TypeOK, Dialed, streams, OneStepPush, NoneQueuedWhenConnected, Queued
  <2>3. FeaturesWhenConnected' /\ AccountWhileStreaming' /\ NotYetConnected'
          /\ OneStream' /\ ConnectedWhenReady'
    BY <1>3 DEF Inv, TypeOK, Dialed, streams, FeaturesWhenConnected,
       AccountWhileStreaming, NotYetConnected, OneStream, ConnectedWhenReady
  <2>. QED BY <2>1, <2>2, <2>3 DEF Inv
<1>4. CASE DialFails
  <2>1. TypeOK'
    BY <1>4 DEF Inv, TypeOK, DialFails, streams
  <2>2. OneStepPush' /\ NoneQueuedWhenConnected'
    BY <1>4 DEF Inv, TypeOK, DialFails, streams, OneStepPush, NoneQueuedWhenConnected, Queued
  <2>3. FeaturesWhenConnected' /\ AccountWhileStreaming' /\ NotYetConnected'
          /\ OneStream' /\ ConnectedWhenReady'
    BY <1>4 DEF Inv, TypeOK, DialFails, streams, FeaturesWhenConnected,
       AccountWhileStreaming, NotYetConnected, OneStream, ConnectedWhenReady
  <2>. QED BY <2>1, <2>2, <2>3 DEF Inv
<1>5. CASE Prepared
  <2>1. TypeOK'
    BY <1>5 DEF Inv, TypeOK, Prepared, streams
  <2>2. OneStepPush' /\ NoneQueuedWhenConnected'
    BY <1>5 DEF Inv, TypeOK, Prepared, streams, OneStepPush, NoneQueuedWhenConnected, Queued
  <2>3. FeaturesWhenConnected' /\ AccountWhileStreaming' /\ NotYetConnected'
          /\ OneStream' /\ ConnectedWhenReady'
    BY <1>5 DEF Inv, TypeOK, Prepared, streams, FeaturesWhenConnected,
       AccountWhileStreaming, NotYetConnected, OneStream, ConnectedWhenReady
  <2>. QED BY <2>1, <2>2, <2>3 DEF Inv
<1>6. CASE FeaturesLoaded
  <2>1. TypeOK'
    BY <1>6 DEF Inv, TypeOK, FeaturesLoaded, streams
  <2>2. OneStepPush' /\ NoneQueuedWhenConnected'
    BY <1>6 DEF Inv, TypeOK, FeaturesLoaded, streams, OneStepPush, NoneQueuedWhenConnected, Queued
  <2>3. FeaturesWhenConnected' /\ AccountWhileStreaming' /\ NotYetConnected'
          /\ OneStream' /\ ConnectedWhenReady'
    BY <1>6 DEF Inv, TypeOK, FeaturesLoaded, streams, FeaturesWhenConnected,
       AccountWhileStreaming, NotYetConnected, OneStream, ConnectedWhenReady
  <2>. QED BY <2>1, <2>2, <2>3 DEF Inv
<1>7. CASE Finished
  <2>1. TypeOK'
    BY <1>7 DEF Inv, TypeOK, Finished, streams
  <2>2. OneStepPush' /\ NoneQueuedWhenConnected'
    BY <1>7 DEF Inv, TypeOK, Finished, streams, OneStepPush, NoneQueuedWhenConnected, Queued
  <2>3. FeaturesWhenConnected' /\ AccountWhileStreaming' /\ NotYetConnected'
          /\ OneStream' /\ ConnectedWhenReady'
    BY <1>7 DEF Inv, TypeOK, Finished, streams, FeaturesWhenConnected,
       AccountWhileStreaming, NotYetConnected, OneStream, ConnectedWhenReady
  <2>. QED BY <2>1, <2>2, <2>3 DEF Inv
<1>8. CASE StepFails
  <2>1. TypeOK'
    BY <1>8 DEF Inv, TypeOK, StepFails, streams
  <2>2. OneStepPush' /\ NoneQueuedWhenConnected'
    BY <1>8 DEF Inv, TypeOK, StepFails, streams, OneStepPush, NoneQueuedWhenConnected, Queued
  <2>3. FeaturesWhenConnected' /\ AccountWhileStreaming' /\ NotYetConnected'
          /\ OneStream' /\ ConnectedWhenReady'
    BY <1>8 DEF Inv, TypeOK, StepFails, streams, FeaturesWhenConnected,
       AccountWhileStreaming, NotYetConnected, OneStream, ConnectedWhenReady
  <2>. QED BY <2>1, <2>2, <2>3 DEF Inv
<1>9. CASE Enter
  <2>1. msg' \in [Messages -> MessageStates]
    BY <1>9, MoveType DEF Inv, TypeOK, MessageStates, Enter
  <2>2. TypeOK'
    BY <1>9, <2>1 DEF Inv, TypeOK, Enter, streams
  <2>3. OneStepPush'
    BY <1>9 DEF Inv, TypeOK, OneStepPush, Enter, Move
  <2>4. NoneQueuedWhenConnected'
    BY <1>9 DEF Inv, TypeOK, NoneQueuedWhenConnected, Queued, Enter, Move
  <2>5. FeaturesWhenConnected' /\ AccountWhileStreaming' /\ NotYetConnected'
          /\ OneStream' /\ ConnectedWhenReady'
    BY <1>9 DEF Inv, TypeOK, Enter, streams, FeaturesWhenConnected,
       AccountWhileStreaming, NotYetConnected, OneStream, ConnectedWhenReady
  <2>. QED BY <2>2, <2>3, <2>4, <2>5 DEF Inv
<1>10. CASE Drain
  <2>1. msg' \in [Messages -> MessageStates]
    BY <1>10, MoveType DEF Inv, TypeOK, MessageStates, Drain
  <2>2. TypeOK'
    BY <1>10, <2>1, SetupAssumption DEF Inv, TypeOK, Drain, streams
  <2>3. OneStepPush' /\ NoneQueuedWhenConnected'
    BY <1>10 DEF Inv, TypeOK, Drain, Move, OneStepPush, NoneQueuedWhenConnected, Queued
  <2>4. FeaturesWhenConnected' /\ AccountWhileStreaming' /\ NotYetConnected'
          /\ OneStream' /\ ConnectedWhenReady'
    BY <1>10 DEF Inv, TypeOK, Drain, streams, FeaturesWhenConnected,
       AccountWhileStreaming, NotYetConnected, OneStream, ConnectedWhenReady
  <2>. QED BY <2>2, <2>3, <2>4 DEF Inv
<1>11. CASE Announce
  <2>1. TypeOK'
    BY <1>11 DEF Inv, TypeOK, Announce, streams
  <2>2. OneStepPush' /\ NoneQueuedWhenConnected'
    BY <1>11 DEF Inv, TypeOK, Announce, streams, OneStepPush, NoneQueuedWhenConnected, Queued
  <2>3. FeaturesWhenConnected' /\ AccountWhileStreaming' /\ NotYetConnected'
          /\ OneStream' /\ ConnectedWhenReady'
    BY <1>11 DEF Inv, TypeOK, Announce, streams, FeaturesWhenConnected,
       AccountWhileStreaming, NotYetConnected, OneStream, ConnectedWhenReady
  <2>. QED BY <2>1, <2>2, <2>3 DEF Inv
<1>. QED BY <1>1, <1>2, <1>3, <1>4, <1>5, <1>6, <1>7, <1>8, <1>9, <1>10, <1>11

\* Every step of a message preserves the invariant.
LEMMA MessageInv ==
  ASSUME Inv, NEW m \in Messages,
         \/ Arrive(m)
         \/ Receive(m)
         \/ Push(m)
         \/ Replay(m)
         \/ CreateRoom(m)
         \/ HandlingFails(m)
  PROVE  Inv'
<1>. USE DEF Inv, TypeOK
<1>c. UNCHANGED connection
  BY DEF Arrive, Receive, Push, Replay, CreateRoom, HandlingFails, HandleEvent
<1>t. msg' \in [Messages -> MessageStates]
  <2>1. \E where \in MessageStates : Move({m}, where)
    BY DEF Arrive, Receive, Push, Replay, CreateRoom, HandlingFails,
       HandleEvent, MessageStates
  <2>. QED BY <2>1, MoveType
<1>1. TypeOK'
  BY <1>c, <1>t DEF connection, streams
<1>2. OneStepPush'
  BY <1>c DEF connection, OneStepPush, Arrive, Receive, Push, Replay, CreateRoom,
     HandlingFails, HandleEvent, Move
<1>3. NoneQueuedWhenConnected'
  BY <1>c DEF connection, NoneQueuedWhenConnected, OneStepPush, Queued, Arrive,
     Receive, Push, Replay, CreateRoom, HandlingFails, HandleEvent, Move
<1>4. FeaturesWhenConnected' /\ AccountWhileStreaming' /\ NotYetConnected'
          /\ OneStream' /\ ConnectedWhenReady'
  BY <1>c DEF connection, streams, FeaturesWhenConnected, AccountWhileStreaming,
     NotYetConnected, OneStream, ConnectedWhenReady
<1>. QED BY <1>1, <1>2, <1>3, <1>4

\* The end of a stream, its report and disconnect() preserve the invariant.
LEMMA EndInv ==
  ASSUME Inv,
         \/ LoseStream
         \/ StreamCloses
         \/ HandleDisconnected
         \/ Disconnect
         \/ TakeProperties
  PROVE  Inv'
<1>1. CASE LoseStream
  <2>a. stream' \in BOOLEAN /\ ready' \in BOOLEAN
    BY <1>1, Zenon DEF LoseStream
  <2>1. TypeOK'
    BY <1>1, <2>a DEF Inv, TypeOK, LoseStream, streams
  <2>2. OneStepPush' /\ NoneQueuedWhenConnected'
    BY <1>1 DEF Inv, TypeOK, LoseStream, streams, OneStepPush, NoneQueuedWhenConnected, Queued
  <2>3. FeaturesWhenConnected' /\ AccountWhileStreaming' /\ NotYetConnected'
          /\ OneStream' /\ ConnectedWhenReady'
    BY <1>1 DEF Inv, TypeOK, LoseStream, streams, FeaturesWhenConnected,
       AccountWhileStreaming, NotYetConnected, OneStream, ConnectedWhenReady
  <2>. QED BY <2>1, <2>2, <2>3 DEF Inv
<1>2. CASE StreamCloses
  <2>1. TypeOK'
    BY <1>2 DEF Inv, TypeOK, StreamCloses, streams
  <2>2. OneStepPush' /\ NoneQueuedWhenConnected'
    BY <1>2 DEF Inv, TypeOK, StreamCloses, streams, OneStepPush, NoneQueuedWhenConnected, Queued
  <2>3. FeaturesWhenConnected' /\ AccountWhileStreaming' /\ NotYetConnected'
          /\ OneStream' /\ ConnectedWhenReady'
    BY <1>2 DEF Inv, TypeOK, StreamCloses, streams, FeaturesWhenConnected,
       AccountWhileStreaming, NotYetConnected, OneStream, ConnectedWhenReady
  <2>. QED BY <2>1, <2>2, <2>3 DEF Inv
<1>3. CASE HandleDisconnected
  <2>1. TypeOK'
    BY <1>3 DEF Inv, TypeOK, HandleDisconnected, streams
  <2>2. OneStepPush' /\ NoneQueuedWhenConnected'
    BY <1>3 DEF Inv, TypeOK, HandleDisconnected, streams, OneStepPush, NoneQueuedWhenConnected, Queued
  <2>3. FeaturesWhenConnected' /\ AccountWhileStreaming' /\ NotYetConnected'
          /\ OneStream' /\ ConnectedWhenReady'
    BY <1>3 DEF Inv, TypeOK, HandleDisconnected, streams, FeaturesWhenConnected,
       AccountWhileStreaming, NotYetConnected, OneStream, ConnectedWhenReady
  <2>. QED BY <2>1, <2>2, <2>3 DEF Inv
<1>4. CASE Disconnect
  <2>a. stream' \in BOOLEAN /\ ready' \in BOOLEAN
    BY <1>4, Zenon DEF Disconnect, EndStream
  <2>b. closing' \in Nat
    BY <1>4 DEF Inv, TypeOK, Disconnect, EndStream
  <2>1. TypeOK'
    BY <1>4, <2>a, <2>b DEF Inv, TypeOK, Disconnect, EndStream, streams
  <2>2. OneStepPush' /\ NoneQueuedWhenConnected'
    BY <1>4 DEF Inv, TypeOK, Disconnect, EndStream, streams, OneStepPush, NoneQueuedWhenConnected, Queued
  <2>3. FeaturesWhenConnected' /\ AccountWhileStreaming' /\ NotYetConnected'
          /\ OneStream' /\ ConnectedWhenReady'
    BY <1>4 DEF Inv, TypeOK, Disconnect, EndStream, streams, FeaturesWhenConnected,
       AccountWhileStreaming, NotYetConnected, OneStream, ConnectedWhenReady
  <2>. QED BY <2>1, <2>2, <2>3 DEF Inv
<1>5. CASE TakeProperties
  <2>1. TypeOK'
    BY <1>5 DEF Inv, TypeOK, TakeProperties, streams
  <2>2. OneStepPush' /\ NoneQueuedWhenConnected'
    BY <1>5 DEF Inv, TypeOK, TakeProperties, streams, OneStepPush, NoneQueuedWhenConnected, Queued
  <2>3. FeaturesWhenConnected' /\ AccountWhileStreaming' /\ NotYetConnected'
          /\ OneStream' /\ ConnectedWhenReady'
    BY <1>5 DEF Inv, TypeOK, TakeProperties, streams, FeaturesWhenConnected,
       AccountWhileStreaming, NotYetConnected, OneStream, ConnectedWhenReady
  <2>. QED BY <2>1, <2>2, <2>3 DEF Inv
<1>. QED BY <1>1, <1>2, <1>3, <1>4, <1>5

\* Inv is an invariant of connecting and disconnecting.
THEOREM Invariance == Spec => []Inv
<1>1. Inv /\ [Next]_vars => Inv'
  <2>. SUFFICES ASSUME Inv, [Next]_vars PROVE Inv'
    OBVIOUS
  <2>1. CASE UNCHANGED vars
    BY <2>1 DEF Inv, TypeOK, FeaturesWhenConnected, AccountWhileStreaming,
       NotYetConnected, OneStepPush, NoneQueuedWhenConnected, OneStream, ConnectedWhenReady,
       Queued, vars, connection, streams
  <2>2. CASE Next
    BY <2>2, ConnectInv, MessageInv, EndInv DEF Next
  <2>. QED BY <2>1, <2>2
<1>. QED BY <1>1, InitInv, PTL DEF Spec

\* The variables keep their types.
THEOREM TypeCorrect == Spec => []TypeOK
  BY Invariance, PTL DEF Inv

\* The handlers of events have access to the account whenever the stream is up.
THEOREM EventsSeeAccountHolds == Spec => []EventsSeeAccount
<1>1. Inv => EventsSeeAccount
  BY DEF Inv, AccountWhileStreaming, EventsSeeAccount
<1>. QED BY <1>1, Invariance, PTL

\* The Connect event is fired only once the server's features are known.
THEOREM ConnectMeansReadyHolds == Spec => ConnectMeansReady
<1>1. Inv => ReadyAtConnect
  BY DEF Inv, FeaturesWhenConnected, ReadyAtConnect
<1>. QED BY <1>1, Invariance, PTL DEF ConnectMeansReady

\* The handling of a message begins only when the server's features are known:
\* the check of the connection state in handle_event is enough for that.
THEOREM StartsWithFeaturesHolds == Spec => StartsWithFeatures
<1>1. Inv /\ [Next]_vars => [HandledWithFeatures]_vars
  <2>. SUFFICES ASSUME Inv, Next, NEW m \in Messages,
                       msg'[m] \in {"handling", "replayed"}, msg'[m] # msg[m]
                PROVE  props = "full"
    BY DEF HandledWithFeatures
  <2>1. state = "Connected"
    BY DEF Inv, TypeOK, Next, BeginConnect, SettingsLoaded, Dialed, DialFails,
       Prepared, FeaturesLoaded, Finished, StepFails, Enter, Drain, Announce,
       Arrive, Receive, Push, Replay, CreateRoom, HandlingFails, HandleEvent,
       LoseStream, StreamCloses, HandleDisconnected, Disconnect,
       TakeProperties, Move
  <2>. QED BY <2>1 DEF Inv, FeaturesWhenConnected
<1>. QED BY <1>1, Invariance, PTL DEF Spec, StartsWithFeatures

\* In a client without threads whose application waits for the end of the old
\* connection, no collected message stays in the repository after a successful
\* connect().  The run connection_late shows what happens without
\* the second condition.
THEOREM NothingStrandedHolds ==
  ASSUME ~Threads, Patient
  PROVE  Spec => []NothingStranded
<1>1. Inv => NothingStranded
  BY DEF Inv, ConnectedWhenReady, NoneQueuedWhenConnected, NothingStranded
<1>. QED BY <1>1, Invariance, PTL

=============================================================================
