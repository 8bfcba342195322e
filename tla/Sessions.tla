------------------------------ MODULE Sessions ------------------------------
(* OMEMO sessions between clients that run this code, one device each. A      *)
(* session is started from a prekey of the peer's published bundle when a     *)
(* message is encrypted; its messages name the prekey until the peer answers. *)
(* Decrypting collects in a decryption context whom to answer, which prekeys  *)
(* to replace and which sessions to repair; `finalize_decryption` does that,  *)
(* once for everything that arrives while the client catches up, and later    *)
(* for each message by itself. A message is handled in steps, with a handle   *)
(* of the context there was when it arrived; that one may have been finalized *)
(* when the message has been decrypted. The Signal protocol is external: a    *)
(* session has an id, a client keeps several with a peer and encrypts with    *)
(* the one it used last.                                                      *)
EXTENDS Naturals, FiniteSets, Sequences, SequencesExt

CONSTANTS
    Clients,
    Pairs,              \* <<from, to>>: who sends messages to whom
    CatchingUp,         \* the clients that are catching up in the beginning
    PreKeys,            \* the ids of the prekeys of a bundle
    MaxSends,           \* bound: messages that users send
    MaxDrops            \* bound: lost connections, failures and second deliveries together

VARIABLES
    store,              \* per client: the generation of each of its prekeys
    bundle,             \* per client: the generations that are published
    sessions,           \* [from][to]: sessions with the peer, latest used first
    pending,            \* per client: sessions that the peer has not answered
    context,            \* per client: `DecryptionContext` of the catch-up
    decrypting,         \* per client: messages that are being decrypted
    tasks,              \* per client: running `finalize_decryption`s
    repairs,            \* per client: `repair_session_attempts`
    net,                \* [from][to]: messages on their way, in order
    next,               \* the numbers of the next session and message
    archive,            \* per client: the messages it was delivered
    read,               \* per client: the ids of messages it has decrypted
    unread,             \* messages that could not be decrypted, and were not before
    consumed,           \* <<client, prekey, generation, session>> of used prekeys
    lost,               \* contexts, or parts of one, that were never finalized
    cut,                \* clients whose new bundle could not be published
    drops               \* how many of MaxDrops happened

vars == <<store, bundle, sessions, pending, context, decrypting, tasks, repairs, net, next,
          archive, read, unread, consumed, lost, cut, drops>>

NoContext == [senders |-> {}, broken |-> {}, used |-> {}]
Closed == [open |-> FALSE, inner |-> NoContext]
Fresh == [open |-> TRUE, inner |-> NoContext]

Init ==
    /\ store = [c \in Clients |-> [k \in PreKeys |-> 0]]
    /\ bundle = store
    /\ sessions = [c \in Clients |-> [p \in Clients |-> <<>>]]
    /\ pending = [c \in Clients |-> {}]
    /\ context = [c \in Clients |-> IF c \in CatchingUp THEN Fresh ELSE Closed]
    /\ decrypting = [c \in Clients |-> {}]
    /\ tasks = [c \in Clients |-> {}]
    /\ repairs = [c \in Clients |-> {}]
    /\ net = [c \in Clients |-> [p \in Clients |-> <<>>]]
    /\ next = [session |-> 1, message |-> 1]
    /\ archive = [c \in Clients |-> {}]
    /\ read = [c \in Clients |-> {}]
    /\ unread = {} /\ consumed = {} /\ lost = {} /\ cut = {} /\ drops = 0

\* Every variable holds a value of its type.
TypeOK ==
    /\ store \in [Clients -> [PreKeys -> Nat]] /\ bundle \in [Clients -> [PreKeys -> Nat]]
    /\ \A c, p \in Clients :
        /\ IsInjective(sessions[c][p])
        /\ sessions[c][c] = <<>>
    /\ \A c \in Clients : /\ context[c].inner.senders \subseteq Clients \ {c}
                          /\ context[c].inner.used \subseteq PreKeys
                          /\ \A d \in decrypting[c] : d.message.to = c

-----------------------------------------------------------------------------
(* The Signal protocol, external                                             *)

\* A session, and the prekey it was started with.
Session(id, k, generation) == [id |-> id, key |-> k, generation |-> generation]

Current(c, p) == Head(sessions[c][p])

\* `put_session_data`: the record of the peer holds the sessions of before, too.
Used(c, p, s) == <<s>> \o SelectSeq(sessions[c][p], LAMBDA r : r # s)

\* Only messages are archived, and only they need an id.
Encrypted(c, p, s, kind, isPending) ==
    [id |-> IF kind = "message" THEN next.message ELSE 0, from |-> c, to |-> p, kind |-> kind, session |-> s,
     isPreKey |-> isPending]

Knows(c, m) == m.session \in Range(sessions[c][m.from])

\* A message can be decrypted once, with a session that is known or with one that
\* starts from a prekey which is still stored.
Decrypts(c, m) ==
    /\ m.id \notin read[c]
    /\ Knows(c, m) \/ (m.isPreKey /\ store[c][m.session.key] = m.session.generation)

-----------------------------------------------------------------------------
(* Encrypting                                                                *)

\* `start_session_with_device`: any prekey of the published bundle.
Startable(p) == {Session(next.session, k, bundle[p][k]) : k \in PreKeys}

\* `encrypt_message`: a session is started with a device that has none.
Send(c, p) ==
    /\ <<c, p>> \in Pairs
    /\ next.message <= MaxSends
    /\ \E s \in IF sessions[c][p] = <<>> THEN Startable(p) ELSE {Current(c, p)} :
        LET isNew == sessions[c][p] = <<>>
        IN  /\ sessions' = [sessions EXCEPT ![c][p] = Used(c, p, s)]
            /\ pending' = IF isNew THEN [pending EXCEPT ![c] = @ \cup {s}] ELSE pending
            /\ net' = [net EXCEPT ![c][p] =
                            Append(@, Encrypted(c, p, s, "message", s \in pending'[c]))]
            /\ next' = [session |-> next.session + (IF isNew THEN 1 ELSE 0),
                        message |-> next.message + 1]
    /\ UNCHANGED <<store, bundle, context, decrypting, tasks, repairs, archive, read, unread,
                   consumed, lost, cut, drops>>

-----------------------------------------------------------------------------
(* Decrypting                                                                *)

Joined(x, y) == [f \in DOMAIN NoContext |-> x[f] \cup y[f]]

\* `insert_message_sender`
Sender(m) == [NoContext EXCEPT !.senders = IF m.isPreKey THEN {m.from} ELSE {}]

\* What `decrypt_key` notes of a message: the prekey it used, or that its session is
\* broken (`handle_received_key_transport_message` does not say so).
Collected(c, m) ==
    [NoContext EXCEPT
        !.broken = IF Decrypts(c, m) \/ m.kind # "message" THEN {} ELSE {m.from},
        !.used = IF Decrypts(c, m) /\ ~Knows(c, m) THEN {m.session.key} ELSE {}]

Lost(cause, inner) == [cause |-> cause, inner |-> inner]
Task(step, inner) == [step |-> step, inner |-> inner]

\* The steps of `finalize_decryption` that have something to do, in their order.
Repair(inner) == IF inner.broken = {} THEN {} ELSE {Task("repair", inner)}
Complete(inner) == IF inner.senders = {} THEN Repair(inner) ELSE {Task("complete", inner)}
Finalize(inner) == IF inner.used = {} THEN Complete(inner) ELSE {Task("refresh", inner)}

\* Whether what is written to the shared context will still be finalized.
Awaited(c) == context[c].open \/ \E t \in tasks[c] : t.step = "take"

\* An entry of the context that d shares with others. If it was finalized or replaced
\* in the meantime, nobody looks at it any more.
Note(c, d, entry) ==
    IF ~d.replaced /\ Awaited(c)
    THEN /\ context' = [context EXCEPT ![c].inner = Joined(@, entry)]
         /\ UNCHANGED lost
    ELSE /\ lost' = IF entry = NoContext THEN lost
                    ELSE lost \cup {Lost("late", Joined(entry, Sender(d.message)))}
         /\ UNCHANGED context

\* What the Signal actor does with the session, and the message that was decrypted.
Decrypted(c, m) ==
    /\ unread' = IF Decrypts(c, m) \/ m.id \in read[c] THEN unread ELSE unread \cup {m}
    /\ IF Decrypts(c, m)
       THEN /\ sessions' = [sessions EXCEPT ![c][m.from] = Used(c, m.from, m.session)]
            /\ pending' = IF m.isPreKey THEN pending
                          ELSE [pending EXCEPT ![c] = @ \ {m.session}]
            /\ read' = [read EXCEPT ![c] = @ \cup ({m.id} \ {0})]
            /\ consumed' = IF Knows(c, m) THEN consumed
                           ELSE consumed \cup {<<c, m.session.key, m.session.generation,
                                                 m.session.id>>}
       ELSE UNCHANGED <<sessions, pending, read, consumed>>

Arrive(c, p) ==
    /\ net[p][c] # <<>>
    /\ net' = [net EXCEPT ![p][c] = Tail(@)]
    /\ archive' = IF Head(net[p][c]).kind = "message"
                  THEN [archive EXCEPT ![c] = @ \cup {Head(net[p][c])}] ELSE archive

\* A message is decrypted with a context of its own, which nobody else sees (one step
\* therefore). It is finalized if the message could be decrypted.
Receive(c, p) ==
    LET m == Head(net[p][c])
        inner == Joined(Sender(m), Collected(c, m))
    IN
    /\ ~context[c].open
    /\ Arrive(c, p)
    /\ Decrypted(c, m)
    /\ IF Decrypts(c, m)
       THEN tasks' = [tasks EXCEPT ![c] = @ \cup Finalize(inner)] /\ UNCHANGED lost
       ELSE lost' = lost \cup {Lost("error", inner)} /\ UNCHANGED tasks
    /\ UNCHANGED <<store, bundle, context, decrypting, repairs, next, cut, drops>>

\* The handling of a message begins with a handle of the context of the catch-up.
Begun(c, m, again) ==
    [decrypting EXCEPT ![c] =
        @ \cup {[message |-> m, again |-> again, noted |-> FALSE, replaced |-> FALSE]}]

ReceiveCatchingUp(c, p) ==
    /\ context[c].open
    /\ Arrive(c, p)
    /\ decrypting' = Begun(c, Head(net[p][c]), FALSE)
    /\ UNCHANGED <<store, bundle, sessions, pending, context, tasks, repairs, next, read, unread,
                   consumed, lost, cut, drops>>

\* While the client catches up, the archive returns a message it had before.
ReceiveAgain(c) ==
    /\ context[c].open
    /\ drops < MaxDrops
    /\ \E m \in archive[c] : decrypting' = Begun(c, m, TRUE)
    /\ drops' = drops + 1
    /\ UNCHANGED <<store, bundle, sessions, pending, context, tasks, repairs, net, next, archive,
                   read, unread, consumed, lost, cut>>

\* The own device has been looked up: `insert_message_sender`.
NoteSender(c, d) ==
    /\ ~d.noted
    /\ Note(c, d, Sender(d.message))
    /\ decrypting' = [decrypting EXCEPT ![c] = (@ \ {d}) \cup {[d EXCEPT !.noted = TRUE]}]
    /\ UNCHANGED <<store, bundle, sessions, pending, tasks, repairs, net, next, archive, read,
                   unread, consumed, cut, drops>>

\* The Signal actor has answered.
DecryptKey(c, d) ==
    /\ d.noted
    /\ Note(c, d, Collected(c, d.message))
    /\ Decrypted(c, d.message)
    /\ decrypting' = [decrypting EXCEPT ![c] = @ \ {d}]
    /\ UNCHANGED <<store, bundle, tasks, repairs, net, next, archive, cut, drops>>

-----------------------------------------------------------------------------
(* Finalizing                                                                *)

\* `start_observing_rooms` takes the context when the rooms have been loaded: messages
\* that arrive from now on have a context of their own.
CaughtUp(c) ==
    /\ context[c].open
    /\ context' = [context EXCEPT ![c].open = FALSE]
    /\ tasks' = [tasks EXCEPT ![c] = @ \cup {Task("take", NoContext)}]
    /\ UNCHANGED <<store, bundle, sessions, pending, decrypting, repairs, net, next, archive, read,
                   unread, consumed, lost, cut, drops>>

Continued(c, t, rest) == [tasks EXCEPT ![c] = (@ \ {t}) \cup rest]

\* `finalize_decryption` has looked up the own device: `into_inner`. What is inserted
\* from now on, by messages that came with the context, is not seen.
TakeContext(c, t) ==
    /\ t.step = "take"
    /\ context' = [context EXCEPT ![c] = Closed]
    /\ tasks' = Continued(c, t, Finalize(context[c].inner))
    /\ UNCHANGED <<store, bundle, sessions, pending, decrypting, repairs, net, next, archive, read,
                   unread, consumed, lost, cut, drops>>

\* `generate_pre_keys_with_ids`, `put_pre_keys`
Refreshed(c, used) == [k \in PreKeys |-> store[c][k] + IF k \in used THEN 1 ELSE 0]

RefreshPreKeys(c, t) ==
    /\ t.step = "refresh"
    /\ store' = [store EXCEPT ![c] = Refreshed(c, t.inner.used)]
    /\ tasks' = Continued(c, t, {Task("publish", t.inner)})
    /\ UNCHANGED <<bundle, sessions, pending, context, decrypting, repairs, net, next, archive,
                   read, unread, consumed, lost, cut, drops>>

\* Mutant: only the keys that this context has used are published.
PublishedOld(c, used) == [k \in PreKeys |-> IF k \in used THEN bundle[c][k] ELSE store[c][k]]

\* The bundle is read when it is published, with all keys that are stored.
Published(c, used) == store[c]

PublishPreKeys(c, t) ==
    /\ t.step = "publish"
    /\ bundle' = [bundle EXCEPT ![c] = Published(c, t.inner.used)]
    /\ cut' = cut \ {c}
    /\ tasks' = Continued(c, t, Complete(t.inner))
    /\ UNCHANGED <<store, sessions, pending, context, decrypting, repairs, net, next, archive,
                   read, unread, consumed, lost, drops>>

\* One of the steps of `refresh_and_publish_prekeys` fails, which is only logged.
PreKeysFail(c, t) ==
    /\ drops < MaxDrops
    /\ t.step \in {"refresh", "publish"}
    /\ drops' = drops + 1
    /\ cut' = IF t.step = "publish" THEN cut \cup {c} ELSE cut
    /\ tasks' = Continued(c, t, Complete(t.inner))
    /\ UNCHANGED <<store, bundle, sessions, pending, context, decrypting, repairs, net, next,
                   archive, read, unread, consumed, lost>>

\* `complete_session` with every sender, by an empty key transport message. It fails
\* where there is no session.
CompleteSessions(c, t) ==
    /\ t.step = "complete"
    /\ LET to == {p \in t.inner.senders : sessions[c][p] # <<>>}
       IN  net' = [net EXCEPT ![c] = [p \in Clients |->
                        IF p \in to
                        THEN Append(@[p], Encrypted(c, p, Current(c, p), "transport",
                                                    Current(c, p) \in pending[c]))
                        ELSE @[p]]]
    /\ tasks' = Continued(c, t, Repair(t.inner))
    /\ UNCHANGED <<store, bundle, sessions, pending, context, decrypting, repairs, next, archive,
                   read, unread, consumed, lost, cut, drops>>

\* Broken sessions are started again, once per peer and connection.
RepairSessions(c, t) ==
    /\ t.step = "repair"
    /\ LET broken == t.inner.broken \ repairs[c]
       IN  IF broken = {}
           THEN /\ tasks' = Continued(c, t, {})
                /\ UNCHANGED <<sessions, pending, repairs, next>>
           ELSE \E p \in broken : \E s \in Startable(p) :
                /\ sessions' = [sessions EXCEPT ![c][p] = Used(c, p, s)]
                /\ pending' = [pending EXCEPT ![c] = @ \cup {s}]
                /\ repairs' = [repairs EXCEPT ![c] = @ \cup {p}]
                /\ next' = [next EXCEPT !.session = @ + 1]
                /\ UNCHANGED tasks
    /\ UNCHANGED <<store, bundle, context, decrypting, net, archive, read, unread, consumed, lost,
                   cut, drops>>

\* The connection is lost with all the requests that were under way, and a new one is
\* made, with a new context (`initialize` keeps a bundle that is published).
Reconnect(c) ==
    /\ drops < MaxDrops
    /\ drops' = drops + 1
    /\ context' = [context EXCEPT ![c] = Fresh]
    /\ decrypting' = [decrypting EXCEPT ![c] =
            {[d EXCEPT !.replaced = TRUE] : d \in @}]
    /\ tasks' = [tasks EXCEPT ![c] = {}]
    /\ repairs' = [repairs EXCEPT ![c] = {}]
    /\ cut' = IF \E t \in tasks[c] : t.step = "publish" THEN cut \cup {c} ELSE cut
    /\ lost' = lost \cup {Lost("connection", t.inner) : t \in tasks[c]}
                    \cup {Lost("connection", context[c].inner)}
    /\ UNCHANGED <<store, bundle, sessions, pending, net, next, archive, read, unread, consumed>>

-----------------------------------------------------------------------------

Step(c) ==
    \/ CaughtUp(c)
    \/ \E p \in Clients : Receive(c, p) \/ ReceiveCatchingUp(c, p)
    \/ \E d \in decrypting[c] : NoteSender(c, d) \/ DecryptKey(c, d)
    \/ \E t \in tasks[c] : \/ TakeContext(c, t) \/ RefreshPreKeys(c, t) \/ PublishPreKeys(c, t)
                           \/ CompleteSessions(c, t) \/ RepairSessions(c, t)

Next ==
    \E c \in Clients :
        \/ \E p \in Clients : Send(c, p)
        \/ ReceiveAgain(c) \/ Reconnect(c) \/ Step(c)
        \/ \E t \in tasks[c] : PreKeysFail(c, t)

Spec == Init /\ [][Next]_vars

FairSpec == Spec /\ \A c \in Clients : WF_vars(Step(c))

-----------------------------------------------------------------------------
(* Properties                                                                *)

\* A message is unreadable only if it starts a session from a prekey that another
\* session took before it. Sessions started from both sides, restarted ones, repaired
\* ones, answers sent in between, contexts finalized while a message is decrypted and
\* prekeys that could not be published make no message unreadable.
ReadUnlessTaken ==
    \A m \in unread :
        /\ m.isPreKey
        /\ \E use \in consumed : /\ use[1] = m.to /\ use[2] = m.session.key
                                 /\ use[3] = m.session.generation /\ use[4] # m.session.id

\* When nothing is being finalized, every published prekey is one the client can
\* still decrypt with, unless the last attempt to publish them failed.
PublishedPreKeysWork ==
    \A c \in Clients : tasks[c] = {} /\ c \notin cut => bundle[c] = store[c]

Silence ==
    \A c \in Clients : tasks[c] = {} /\ decrypting[c] = {} /\ \A p \in Clients : net[c][p] = <<>>

\* The answers come to an end: two clients do not keep completing each other's
\* sessions.
AnswersEnd == <>[]Silence

\* In the end, a session whose first message was read is complete on both sides:
\* the client that started it no longer sends prekey messages on it, unless the
\* connection was lost before the answer was sent or the context of the catch-up was
\* finalized while the message was being decrypted.
SessionsComplete ==
    Silence /\ (\A c \in Clients : ~context[c].open)
        => \A c, p \in Clients :
             sessions[c][p] # <<>> /\ Current(c, p) \in pending[c]
                => \/ Current(c, p) \notin Range(sessions[p][c])
                   \/ \E l \in lost : c \in l.inner.senders

\* `DecryptionContext` says: "If you're creating a `DecryptionContext` make sure to call
\* `EncryptionDomainService::finalize_decryption` after use." A context that found a
\* broken session is finalized too, so that the session is repaired.
BrokenSessionsAreRepaired ==
    \A l \in lost : l.cause = "error" => l.inner.broken = {}
=============================================================================
