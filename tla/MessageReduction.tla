--------------------------- MODULE MessageReduction ---------------------------
(***************************************************************************)
(* What the user sees of a room: the archive is a log of texts and of        *)
(* modifiers (corrections, reactions, receipts, retractions) that are        *)
(* reduced to messages (Message::reducing_messages).  The UI loads pages     *)
(* from the newest to the oldest (Room::load_messages, one answer of the     *)
(* archive or of the repository at a time) while new messages arrive, of     *)
(* which it learns by id (Room::load_messages_with_ids).                     *)
(*                                                                          *)
(* Position, server id and time of a message are the same number; the        *)
(* remote id is another one.  Bodies are the positions of the messages they  *)
(* came with.                                                               *)
(***************************************************************************)
EXTENDS Naturals, Sequences, FiniteSets, SequencesExt

CONSTANTS Authors, Me, Emojis, Lists, PageSize, MaxPages, MaxLog, MaxArrivals

VARIABLES
    muc,      \* in a MUC room reactions and receipts name the server id
    log,
    cache,    \* MessagesRepository: the modifiers it holds (a text is asked for by id)
    shown,    \* what the UI shows: position |-> message
    before,   \* 0: nothing loaded, 1: all loaded, else the oldest message loaded
    loading,  \* the `load_messages` under way, if any
    opened,   \* 0, or the first message that can arrive after the room was opened
    missed    \* history: the texts whose modifiers arrived while they were loaded

vars == <<muc, log, cache, shown, before, loading, opened, missed>>

RemoteId(i) == <<"remote", i>>
ServerId(i) == <<"server", i>>
NoTarget == <<"none", 0>>

\* MessageLikePayload: what targets a message, and by which of its ids.
Kinds == {"text", "correction", "delivered", "read", "reaction", "retraction"}
TargetId(kind, i) ==
    CASE kind = "text" -> NoTarget
      [] kind \in {"correction", "retraction"} -> RemoteId(i)
      [] OTHER -> IF muc THEN ServerId(i) ELSE RemoteId(i)
MessageLike(i, kind, from, target, emojis) ==
    [pos |-> i, kind |-> kind, from |-> from, target |-> TargetId(kind, target), emojis |-> emojis]

-----------------------------------------------------------------------------
\* Message::reducing_messages
Message(m) ==
    [pos |-> m.pos, from |-> m.from, body |-> m.pos, edited |-> FALSE, delivered |-> FALSE,
     read |-> FALSE, reactions |-> <<>>, retracted |-> FALSE]

Without(s, x) == SelectSeq(s, LAMBDA y : y # x)
RemoveLast(s, x) ==
    LET at == CHOOSE i \in DOMAIN s : s[i] = x /\ \A j \in DOMAIN s : j > i => s[j] # x
    IN RemoveAt(s, at)

\* The loop over the reactions there are: the author is added to those of the
\* list, and the emoji taken off it; it is removed from the others.
ReactTo(reactions, from, emojis) ==
    FoldLeft(LAMBDA acc, r :
        IF Contains(acc.emojis, r.emoji)
        THEN [emojis |-> RemoveLast(acc.emojis, r.emoji),
              reactions |-> Append(acc.reactions,
                  IF Contains(r.from, from) THEN r ELSE [r EXCEPT !.from = Append(@, from)])]
        ELSE [acc EXCEPT !.reactions = Append(@, [r EXCEPT !.from = Without(@, from)])],
        [emojis |-> emojis, reactions |-> <<>>], reactions)
WithReactionAdded(reactions, from, emojis) ==
    LET done == ReactTo(reactions, from, emojis)
    IN done.reactions \o [i \in DOMAIN done.emojis |-> [emoji |-> done.emojis[i], from |-> <<from>>]]
WithReaction(reactions, from, emojis) ==
    LET done == ReactTo(reactions, from, emojis)
        kept == SelectSeq(done.reactions, LAMBDA r : r.from # <<>>)
    IN kept \o [i \in DOMAIN done.emojis |-> [emoji |-> done.emojis[i], from |-> <<from>>]]

Modify(message, m) ==
    CASE message.retracted -> message
      [] m.kind = "correction" -> [message EXCEPT !.body = m.pos, !.edited = TRUE]
      [] m.kind = "delivered" -> [message EXCEPT !.delivered = TRUE]
      [] m.kind = "read" -> [message EXCEPT !.read = TRUE]
      [] m.kind = "reaction" -> [message EXCEPT !.reactions = WithReaction(@, m.from, m.emojis)]
      [] m.kind = "retraction" -> [message EXCEPT !.retracted = TRUE]

\* The ids of a text; its targets are looked up among the texts of the batch.
Ids(m) == {RemoteId(m.pos), ServerId(m.pos)}
ModifyInOrder(messages, m) ==
    [i \in DOMAIN messages |-> IF m.target \in Ids(messages[i]) THEN Modify(messages[i], m) ELSE messages[i]]
Reducing(batch) ==
    LET texts == SelectSeq(batch, LAMBDA m : m.kind = "text")
        modifiers == SelectSeq(batch, LAMBDA m : m.kind # "text")
        messages == FoldLeft(ModifyInOrder, [i \in DOMAIN texts |-> Message(texts[i])], modifiers)
    IN SelectSeq(messages, LAMBDA message : ~message.retracted)

-----------------------------------------------------------------------------
\* CachingMessageRepository: get and get_all, a message and all that targets
\* it; get_messages_targeting, those newer than a time.  Both sorted by time.
TextsOf(l) == {p \in DOMAIN l : l[p].kind = "text"}
At(l, positions) ==
    LET order == SelectSeq([p \in 1 .. Len(l) |-> p], LAMBDA p : p \in positions)
    IN [i \in DOMAIN order |-> l[order[i]]]
Get(l, c, i) == At(l, {i} \cup {p \in c : l[p].target \in Ids(l[i])})
GetMessagesTargeting(ids, newest) == At(log, {p \in cache : log[p].target \in ids /\ p > newest})

\* `load_messages`: what it has found so far. `cursor` is 0 for None; `since` is the
\* newest message that the answers it goes by could know of.
Load(from) ==
    [before |-> from, cursor |-> from, positions |-> {}, pages |-> 0, isLast |-> FALSE,
     since |-> 0, later |-> <<>>, step |-> "pages"]
Texts(positions) == positions \cap TextsOf(log)

\* An answer of the archive: the messages before the cursor, or the newest ones.
End(l) == IF l.cursor = 0 THEN Len(log) + 1 ELSE l.cursor
PageOf(l) == {p \in 1 .. Len(log) : p < End(l) /\ p + PageSize >= End(l)}
PushPage(l) ==
    [l EXCEPT !.cursor = IF PageOf(l) = {} THEN 0 ELSE Min(PageOf(l)),
              !.positions = @ \cup PageOf(l), !.pages = @ + 1,
              !.isLast = End(l) <= PageSize + 1,
              !.since = IF l.pages = 0 THEN Len(log) ELSE @]

\* The loop ends with enough texts. Modifiers are looked up only if there was a
\* `before`, and if a text was found.
Enough(l) ==
    Cardinality(Texts(l.positions)) >= PageSize \/ l.pages >= MaxPages \/ l.isLast
StepAfter(l) ==
    CASE ~Enough(l) -> "pages"
      [] l.before # 0 /\ Texts(l.positions) # {} -> "later"
      [] OTHER -> "store"

NoLaterOnes(l) == <<>>
LaterTargetingEarlier(l) ==
    GetMessagesTargeting(UNION {Ids(log[p]) : p \in Texts(l.positions)}, Max(l.positions))

\* The UI puts the messages it is given beside those it has.
ByPosition(messages) ==
    [p \in {messages[i].pos : i \in DOMAIN messages} |->
        messages[CHOOSE i \in DOMAIN messages : messages[i].pos = p]]
Beside(new, old) == [p \in DOMAIN new \cup DOMAIN old |-> IF p \in DOMAIN new THEN new[p] ELSE old[p]]

-----------------------------------------------------------------------------
Init ==
    /\ muc \in BOOLEAN
    /\ log = <<>> /\ cache = {} /\ shown = <<>> /\ before = 0
    /\ loading = {} /\ opened = 0 /\ missed = {}

Posts(kind, from, target, emojis) ==
    log' = Append(log, MessageLike(Len(log) + 1, kind, from, target, emojis))
MayPost == Len(log) < MaxLog /\ (opened # 0 => Len(log) + 1 < opened + MaxArrivals)

\* A message of an earlier session, which the repository may hold.
PostedBefore(kind, from, target, emojis) ==
    /\ opened = 0
    /\ Posts(kind, from, target, emojis)
    /\ cache' \in {cache, cache \cup ({Len(log) + 1} \ TextsOf(log'))}
    /\ UNCHANGED <<muc, shown, before, loading, opened, missed>>

\* A message arrives while the UI shows or loads the room: MessagesAppended with
\* its id, MessagesUpdated or MessagesDeleted with the id of its target, after
\* which the UI loads the message with that id, if it shows it.
Reload(i) ==
    LET messages == Reducing(Get(log', cache', i))
    IN IF messages = <<>> THEN [p \in DOMAIN shown \ {i} |-> shown[p]]
       ELSE Beside(ByPosition(messages), shown)
MessageArrives(kind, from, target, emojis) ==
    /\ opened # 0
    /\ Posts(kind, from, target, emojis)
    /\ cache' = cache \cup ({Len(log) + 1} \ TextsOf(log'))
    /\ shown' = IF kind = "text" THEN Reload(Len(log) + 1)
                ELSE IF target \in DOMAIN shown THEN Reload(target) ELSE shown
    /\ missed' = missed \ {p \in DOMAIN shown : kind # "text" /\ p = target}
    /\ UNCHANGED <<muc, before, loading, opened>>

\* load_latest_messages, load_messages_before.
LoadLatestMessages ==
    /\ before = 0 /\ loading = {}
    /\ loading' = {Load(0)} /\ opened' = IF opened = 0 THEN Len(log) + 1 ELSE opened
    /\ UNCHANGED <<muc, log, cache, shown, before, missed>>
LoadMessagesBefore ==
    /\ before > 1 /\ loading = {}
    /\ loading' = {Load(before)}
    /\ UNCHANGED <<muc, log, cache, shown, before, opened, missed>>

\* The archive answers with a page …
LoadPage ==
    \E l \in loading :
        /\ l.step = "pages"
        /\ loading' = {[PushPage(l) EXCEPT !.step = StepAfter(PushPage(l))]}
        /\ UNCHANGED <<muc, log, cache, shown, before, opened, missed>>

\* … the repository with the modifiers that are newer than all pages …
LookUpLater ==
    \E l \in loading :
        /\ l.step = "later"
        /\ loading' = {[l EXCEPT !.later = LaterTargetingEarlier(l), !.since = Len(log),
                                 !.step = "store"]}
        /\ UNCHANGED <<muc, log, cache, shown, before, opened, missed>>

\* … the pages are saved, reduced with these modifiers and returned. What the UI
\* shows already it has loaded by its id meanwhile.
Return ==
    \E l \in loading :
        LET messages == ByPosition(Reducing(At(log, l.positions) \o l.later)) IN
        /\ l.step = "store"
        /\ cache' = cache \cup (l.positions \ TextsOf(log))
        /\ shown' = Beside(shown, messages)
        /\ missed' = missed \cup
               {p \in Texts(l.positions) \ DOMAIN shown :
                   \E q \in DOMAIN log : q > l.since /\ log[q].target \in Ids(log[p])}
        /\ before' = IF l.isLast \/ l.cursor = 0 THEN 1 ELSE l.cursor
        /\ loading' = {}
        /\ UNCHANGED <<muc, log, opened>>

\* Any of the requests may fail, and nothing was saved.
LoadFails ==
    /\ loading # {} /\ loading' = {}
    /\ UNCHANGED <<muc, log, cache, shown, before, opened, missed>>

Posted == TextsOf(log)
Next ==
    \/ /\ MayPost
       /\ \/ \E from \in Authors :
                PostedBefore("text", from, 0, <<>>) \/ MessageArrives("text", from, 0, <<>>)
          \/ \E target \in Posted, kind \in Kinds \ {"text", "reaction"}, from \in Authors :
                /\ (kind \in {"correction", "retraction"}) <=> (from = log[target].from)
                /\ PostedBefore(kind, from, target, <<>>) \/ MessageArrives(kind, from, target, <<>>)
          \/ \E target \in Posted, from \in Authors, emojis \in Lists :
                PostedBefore("reaction", from, target, emojis)
                \/ MessageArrives("reaction", from, target, emojis)
    \/ LoadLatestMessages \/ LoadMessagesBefore
    \/ LoadPage \/ LookUpLater \/ Return \/ LoadFails

Spec == Init /\ [][Next]_vars

-----------------------------------------------------------------------------
\* Message::toggle_reaction and reactions_from, which
\* Room::toggle_reaction_to_message sends as the reactions of the user.
ToggleReaction(reactions, user, emoji) ==
    IF \A i \in DOMAIN reactions : reactions[i].emoji # emoji
    THEN Append(reactions, [emoji |-> emoji, from |-> <<user>>])
    ELSE LET i == CHOOSE i \in DOMAIN reactions :
                      reactions[i].emoji = emoji /\ \A j \in 1 .. i - 1 : reactions[j].emoji # emoji
         IN [reactions EXCEPT ![i].from =
                IF Contains(@, user) THEN Without(@, user) ELSE Append(@, user)]
ReactionsFrom(reactions, user) ==
    LET theirs == SelectSeq(reactions, LAMBDA r : Contains(r.from, user))
    IN [i \in DOMAIN theirs |-> theirs[i].emoji]

-----------------------------------------------------------------------------
\* What the log says of a text.
LastOf(kind, target, from) ==
    {p \in DOMAIN log : /\ log[p].kind = kind /\ log[p].target = TargetId(kind, target)
                        /\ log[p].from = from
                        /\ \A q \in DOMAIN log : q > p => ~(/\ log[q].kind = kind /\ log[q].from = from
                                                           /\ log[q].target = log[p].target)}
Targeted(kind, target) == \E p \in DOMAIN log : log[p].kind = kind /\ log[p].target = TargetId(kind, target)
ReactionsOf(message, from) ==
    {message.reactions[i].emoji : i \in {j \in DOMAIN message.reactions :
                                            Contains(message.reactions[j].from, from)}}
Meant(message) ==
    LET i == message.pos
        corrections == LastOf("correction", i, log[i].from)
    IN /\ log[i].kind = "text"
       /\ ~Targeted("retraction", i)
       /\ message.body = (IF corrections = {} THEN i ELSE CHOOSE p \in corrections : TRUE)
       /\ message.edited = Targeted("correction", i)
       /\ message.delivered = Targeted("delivered", i)
       /\ message.read = Targeted("read", i)
       /\ \A from \in Authors :
            ReactionsOf(message, from) =
                UNION {es : es \in {{log[p].emojis[k] : k \in DOMAIN log[p].emojis} :
                                               p \in LastOf("reaction", i, from)}}

\* The UI shows values of the types it is given, no reaction without an author
\* and none twice.
TypeOK ==
    /\ \A p \in DOMAIN log : log[p].pos = p /\ log[p].kind \in Kinds /\ log[p].emojis \in Lists \cup {<<>>}
    /\ before \in 0 .. Len(log) \cup {1}
    /\ cache \subseteq DOMAIN log \ Posted /\ missed \subseteq Posted
    /\ Cardinality(loading) <= 1 /\ opened \in 0 .. Len(log) + 1
    /\ \A l \in loading : l.positions \subseteq DOMAIN log /\ l.pages \in 0 .. MaxPages
    /\ \A p \in DOMAIN shown : \A i, j \in DOMAIN shown[p].reactions :
          /\ shown[p].reactions[i].from # <<>>
          /\ shown[p].reactions[i].emoji = shown[p].reactions[j].emoji => i = j

\* Whatever pages the UI has loaded, however often a load failed and whatever arrived
\* before, during and after it, every message it shows is what the log makes of
\* it: the last correction of its text, the last reactions of everybody, its
\* receipts; a retracted message is not shown. Modifiers newer than a page are
\* taken from the cache. What arrives after they were looked up, or after the first
\* page of the latest messages, for which they are not, and before the page is
\* returned, is missing until the message is modified again.
ShownAsMeant == \A p \in DOMAIN shown \ missed : Meant(shown[p])

\* Once all pages are loaded the UI shows every text that is not retracted.
AllShown ==
    before = 1 => DOMAIN shown \ missed = {p \in Posted \ missed : ~Targeted("retraction", p)}

\* Toggling a reaction, as the list of reactions that is sent is reduced,
\* changes that reaction of that user and no other.
ToggleChangesOne ==
    \A p \in DOMAIN shown, emoji \in Emojis :
        LET sent == ReactionsFrom(ToggleReaction(shown[p].reactions, Me, emoji), Me)
            after == [shown[p] EXCEPT !.reactions = WithReaction(@, Me, sent)]
            old == ReactionsOf(shown[p], Me)
        IN /\ ReactionsOf(after, Me) = IF emoji \in old THEN old \ {emoji} ELSE old \cup {emoji}
           /\ \A other \in Authors \ {Me} : ReactionsOf(after, other) = ReactionsOf(shown[p], other)
=============================================================================
