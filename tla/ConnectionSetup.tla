-------------------------- MODULE ConnectionSetup ---------------------------
(***************************************************************************)
(* Connecting (app/services/connection_service.rs) while messages arrive:  *)
(* messages that come before the client is set up are put aside by         *)
(* MessagesEventHandler in the OfflineMessagesRepository and applied at    *)
(* the end of connect.  Every message is handled by a task of its own.     *)
(*                                                                         *)
(* A step is the code between two awaits.  With Threads, the places where  *)
(* the handler and connect use the connection state and the repository one *)
(* after the other are two steps.  The application makes one call of       *)
(* connect or disconnect at a time.  The messages are of senders for whom  *)
(* there is no room yet, so that handling one creates a room.              *)
(***************************************************************************)
EXTENDS Naturals

CONSTANTS
    Messages,       \* messages the server sends
    Threads,        \* tasks run on several threads (not in a browser)
    Patient,        \* the application connects again only after the end of
                    \* the old connection has been reported
    MaxAttempts     \* bound: calls of connect

ASSUME SetupAssumption ==
    /\ Threads \in BOOLEAN
    /\ Patient \in BOOLEAN
    /\ MaxAttempts \in Nat

VARIABLES
    state,      \* AppContext::connection_state
    props,      \* connection_properties: none, without ("partial") or with
                \* ("full") the features of the server
    connect,    \* where connect() or disconnect() is
    attempts,   \* calls of connect() so far
    stream,     \* the current stream is up
    closing,    \* streams that were ended by the client and are still read
    lost,       \* Disconnected events that have not been handled
    ready,      \* history: connect() has succeeded on the current stream
    msg         \* where a message is; "queued" is in the repository, "batch"
                \* in the vector that connect() has drained

streams == <<stream, closing, lost, ready>>
connection == <<state, props, connect, attempts, streams>>
vars == <<connection, msg>>

Init ==
    /\ state = "Disconnected"
    /\ props = "none"
    /\ connect = "idle"
    /\ attempts = 0
    /\ stream = FALSE
    /\ closing = 0
    /\ lost = 0
    /\ ready = FALSE
    /\ msg = [m \in Messages |-> "unsent"]

-----------------------------------------------------------------------------
(***************************************************************************)
(* ConnectionService::connect.                                             *)
(***************************************************************************)

Queued == {m \in Messages : msg[m] = "queued"}

\* The messages of M move on to where.
Move(M, where) == msg' = [m \in Messages |-> IF m \in M THEN where ELSE msg[m]]

\* ModuleContextInner::disconnect: the current stream is ended, but it is
\* read until the server has ended it too.
EndStream ==
    /\ stream' = FALSE
    /\ closing' = IF stream THEN closing + 1 ELSE closing
    /\ ready' = FALSE
    /\ UNCHANGED lost

\* The state is Connecting from the first line on; what is left in the
\* repository is thrown away.
BeginConnect ==
    /\ connect = "idle"
    /\ attempts < MaxAttempts
    /\ Patient => ~stream /\ closing = 0 /\ lost = 0
    /\ attempts' = attempts + 1
    /\ state' = "Connecting"
    /\ Move(Queued, "discarded")
    /\ connect' = "settings"
    /\ ready' = FALSE
    /\ UNCHANGED <<props, stream, closing, lost>>

\* The properties are set before the connection is made, and
\* Client::connect begins by ending the stream there is.
SettingsLoaded ==
    /\ connect = "settings"
    /\ props' = "partial"
    /\ connect' = "dialing"
    /\ EndStream
    /\ UNCHANGED <<state, attempts, msg>>

Dialed ==
    /\ connect = "dialing"
    /\ stream' = TRUE
    /\ connect' = "preparing"
    /\ UNCHANGED <<state, props, attempts, closing, lost, ready, msg>>

DialFails ==
    /\ connect = "dialing"
    /\ props' = "none"
    /\ connect' = "idle"
    /\ UNCHANGED <<state, attempts, streams, msg>>

\* The caches are reset, the contacts are loaded (or not), and the
\* availability is sent.
Prepared ==
    /\ connect = "preparing"
    /\ connect' = "features"
    /\ UNCHANGED <<state, props, attempts, streams, msg>>

\* The server has answered what its features are.
FeaturesLoaded ==
    /\ connect = "features"
    /\ stream
    /\ props' = "full"
    /\ connect' = "finishing"
    /\ UNCHANGED <<state, attempts, streams, msg>>

\* The account settings are saved, the block list is loaded (or not), and the
\* server has answered the last request that initializes the encryption.
Finished ==
    /\ connect = "finishing"
    /\ stream
    /\ connect' = "entering"
    /\ UNCHANGED <<state, props, attempts, streams, msg>>

\* The `?` of one of these steps leaves connect, with the state as it is.
StepFails ==
    /\ connect \in {"settings", "preparing", "features", "finishing"}
    /\ connect' = "idle"
    /\ UNCHANGED <<state, props, attempts, streams, msg>>

\* Mutant: nothing is drained.
EnterWithoutDrain ==
    /\ connect = "entering"
    /\ state' = "Connected"
    /\ connect' = "replaying"
    /\ UNCHANGED <<props, attempts, streams, msg>>

\* The state is Connected, and the repository is drained into a vector.
Enter ==
    /\ connect = "entering"
    /\ state' = "Connected"
    /\ IF Threads
       THEN connect' = "draining" /\ UNCHANGED msg
       ELSE connect' = "replaying" /\ Move(Queued, "batch")
    /\ UNCHANGED <<props, attempts, streams>>

Drain ==
    /\ connect = "draining"
    /\ connect' = "replaying"
    /\ Move(Queued, "batch")
    /\ UNCHANGED <<state, props, attempts, streams>>

\* All drained messages have been handled; the Connect event is fired.
Announce ==
    /\ connect = "replaying"
    /\ \A m \in Messages : msg[m] \notin {"batch", "replayed"}
    /\ connect' = "idle"
    /\ ready' = stream
    /\ UNCHANGED <<state, props, attempts, stream, closing, lost, msg>>

-----------------------------------------------------------------------------
(***************************************************************************)
(* MessagesEventHandler.                                                   *)
(***************************************************************************)

\* A message comes in and a task for it is spawned.
Arrive(m) ==
    /\ stream \/ closing > 0
    /\ msg[m] = "unsent"
    /\ Move({m}, "arrived")
    /\ UNCHANGED connection

\* Mutant: messages are put aside only while the client is disconnected.
HandleWhileConnecting(m, by) ==
    /\ Move({m}, IF state = "Disconnected" THEN "queued" ELSE by)
    /\ UNCHANGED connection

\* handle_event: the state decides whether the message is handled or pushed.
HandleEvent(m, by) ==
    /\ Move({m}, IF state = "Connected" THEN by ELSE "queued")
    /\ UNCHANGED connection

\* handle_event in the task of the message; on several threads the state may
\* change before the push.
Receive(m) ==
    /\ msg[m] = "arrived"
    /\ IF Threads /\ state # "Connected"
       THEN Move({m}, "checked") /\ UNCHANGED connection
       ELSE HandleEvent(m, "handling")

Push(m) ==
    /\ msg[m] = "checked"
    /\ Move({m}, "queued")
    /\ UNCHANGED connection

\* connect() sends the drained messages through the handlers, one by one.
Replay(m) ==
    /\ connect = "replaying"
    /\ msg[m] = "batch"
    /\ \A n \in Messages : msg[n] # "replayed"
    /\ HandleEvent(m, "replayed")

\* handle_message_event, after it has waited for the repository: the room is
\* created with the features there are now, be they complete or not.
CreateRoom(m) ==
    /\ msg[m] \in {"handling", "replayed"}
    /\ props # "none"
    /\ Move({m}, "handled")
    /\ UNCHANGED connection

\* There are no connection properties, or one of the repositories fails.
HandlingFails(m) ==
    /\ msg[m] \in {"handling", "replayed"}
    /\ Move({m}, "failed")
    /\ UNCHANGED connection

-----------------------------------------------------------------------------
(***************************************************************************)
(* The end of a connection.                                                *)
(***************************************************************************)
LoseStream ==
    /\ stream
    /\ stream' = FALSE
    /\ ready' = FALSE
    /\ lost' = lost + 1
    /\ UNCHANGED <<state, props, connect, attempts, closing, msg>>

\* The server has closed a stream that the client had ended.
StreamCloses ==
    /\ closing > 0
    /\ closing' = closing - 1
    /\ lost' = lost + 1
    /\ UNCHANGED <<state, props, connect, attempts, stream, ready, msg>>

\* Mutant: the handler runs without an event.
HandleDisconnectedAlways ==
    /\ lost' = lost - 1
    /\ state' = "Disconnected"
    /\ UNCHANGED <<props, connect, attempts, stream, closing, ready, msg>>

\* ConnectionEventHandler, Disconnected; it does not say of which stream.
HandleDisconnected ==
    /\ lost > 0
    /\ lost' = lost - 1
    /\ state' = "Disconnected"
    /\ UNCHANGED <<props, connect, attempts, stream, closing, ready, msg>>

\* ConnectionService::disconnect.
Disconnect ==
    /\ connect = "idle"
    /\ EndStream
    /\ state' = "Disconnected"
    /\ connect' = "disconnecting"
    /\ UNCHANGED <<props, attempts, msg>>

\* The rooms have been disconnected.
TakeProperties ==
    /\ connect = "disconnecting"
    /\ props' = "none"
    /\ connect' = "idle"
    /\ UNCHANGED <<state, attempts, streams, msg>>

-----------------------------------------------------------------------------
Next ==
    \/ BeginConnect
    \/ SettingsLoaded
    \/ Dialed
    \/ DialFails
    \/ Prepared
    \/ FeaturesLoaded
    \/ Finished
    \/ StepFails
    \/ Enter
    \/ Drain
    \/ Announce
    \/ \E m \in Messages : \/ Arrive(m)
                           \/ Receive(m)
                           \/ Push(m)
                           \/ Replay(m)
                           \/ CreateRoom(m)
                           \/ HandlingFails(m)
    \/ LoseStream
    \/ StreamCloses
    \/ HandleDisconnected
    \/ Disconnect
    \/ TakeProperties

Spec == Init /\ [][Next]_vars

-----------------------------------------------------------------------------
(***************************************************************************)
(* Properties.                                                             *)
(***************************************************************************)
MessageStates == {"unsent", "arrived", "checked", "queued", "batch", "handling",
                  "replayed", "handled", "failed", "discarded"}

\* Type invariant.
TypeOK ==
    /\ state \in {"Disconnected", "Connecting", "Connected"}
    /\ props \in {"none", "partial", "full"}
    /\ connect \in {"idle", "settings", "dialing", "preparing", "features",
                    "finishing", "entering", "draining", "replaying",
                    "disconnecting"}
    /\ attempts \in 0 .. MaxAttempts
    /\ stream \in BOOLEAN
    /\ closing \in Nat
    /\ lost \in Nat
    /\ ready \in BOOLEAN
    /\ msg \in [Messages -> MessageStates]

\* A step in which the handling of a message begins.
HandledWithFeatures ==
    \A m \in Messages :
        msg'[m] \in {"handling", "replayed"} /\ msg'[m] # msg[m] => props = "full"

\* The step in which connect() fires the Connect event and returns.
ReadyAtConnect == connect = "replaying" /\ connect' = "idle" => props = "full"

\* A message that comes in "while we're still connecting" is collected: the
\* handling of a message begins only while the features of the server, on
\* which "some of these rooms rely", are known.
StartsWithFeatures == [][HandledWithFeatures]_vars

\* connect() sets the connected_jid first and clears it when the connection
\* fails: whenever the current stream may deliver events, their handlers
\* "already have access to the connected_jid".
EventsSeeAccount == stream => props # "none"

\* Once connect() fires the Connect event, "SDK consumers can be sure that we
\* have everything we need", the server's features included.
ConnectMeansReady == [][ReadyAtConnect]_vars

\* "The collected messages will be applied by the ConnectionService after the
\* connection was complete and successful": once connect() has succeeded and
\* every old stream is done with, none is left in the repository.
NothingStranded ==
    ready /\ connect = "idle" /\ closing = 0 /\ lost = 0 => Queued = {}

-----------------------------------------------------------------------------
(***************************************************************************)
(* The inductive invariant behind these properties.                        *)
(***************************************************************************)

\* The properties are complete while the state is Connected and from the
\* moment connect() has the features to its end.
FeaturesWhenConnected ==
    state = "Connected"
        \/ connect \in {"finishing", "entering", "draining", "replaying"}
    => props = "full"

\* The account is there from the call of Client::connect to the call of
\* disconnect().
AccountWhileStreaming ==
    stream \/ connect \in {"dialing", "preparing", "features"} => props # "none"

\* connect() leaves the state Connecting or Disconnected until it has entered,
\* and there is no current stream while it dials or disconnect() runs.
NotYetConnected ==
    /\ connect \in {"settings", "dialing", "preparing", "features",
                    "disconnecting"} => state # "Connected"
    /\ connect \in {"dialing", "disconnecting"} => ~stream

\* Without threads, a message is pushed or drained in the step that reads or
\* sets the state.
OneStepPush ==
    ~Threads => /\ connect # "draining"
                /\ \A m \in Messages : msg[m] # "checked"

\* Without threads, nothing is in the repository while the state is Connected.
NoneQueuedWhenConnected == ~Threads /\ state = "Connected" => Queued = {}

\* A patient application has one stream at a time: no event of another one can
\* come once it dials.
OneStream ==
    Patient => /\ connect \in {"settings", "dialing"} => ~stream
               /\ stream \/ connect \in {"settings", "dialing"}
                     => closing = 0 /\ lost = 0

\* While connect() replays, and after it has succeeded, the state of a patient
\* application is Connected as long as the stream is up.
ConnectedWhenReady ==
    /\ ready => stream
    /\ Patient /\ stream /\ (connect \in {"draining", "replaying"} \/ ready)
          => state = "Connected"

Inv ==
    /\ TypeOK
    /\ FeaturesWhenConnected
    /\ AccountWhileStreaming
    /\ NotYetConnected
    /\ OneStepPush
    /\ NoneQueuedWhenConnected
    /\ OneStream
    /\ ConnectedWhenReady

=============================================================================
