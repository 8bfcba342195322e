--------------------------- MODULE MessageStanzas ---------------------------
(* From what a user does in a room to what the other clients make of it:      *)
(* the messaging service builds a stanza, the server delivers it directly,    *)
(* through a room, as a carbon copy or from the archive, the chat module      *)
(* turns it into events and the message parser into a MessageLike.            *)
(* Texts are sequences of tokens, JIDs are pairs <<bare, resource>>.          *)
EXTENDS StanzaTypes, FiniteSets

CONSTANTS
    Me, You,        \* the local parts of two users
    Muc,            \* a room
    Now             \* the time at which stanzas are parsed

VARIABLES
    op,             \* what the sender did
    stanza,         \* option: the stanza that was sent
    delivered,      \* option: the stanza that arrives, and how
    events,         \* option: the events of the chat module
    parsed          \* option of option: what the parser returned

vars == <<op, stanza, delivered, events, parsed>>

Bare(name) == <<name, "">>
BareOf(jid) == Bare(jid[1])
IsFull(jid) == jid[2] # ""

-----------------------------------------------------------------------------
(* Stanzas                                                                   *)

NewMessage(type, from, to) ==
    [type |-> type, from |-> from, to |-> {to}, id |-> {}, thread |-> {}, body |-> {},
     payloads |-> <<>>]

\* The setters of the builder push their payload.
With(m, payloads) ==
    [m EXCEPT !.payloads = @ \o payloads]

Payloads(m, name) ==
    SelectSeq(m.payloads, LAMBDA e : e.name = name)

\* `typed_payload`: the first payload of that name, if it can be parsed.
Typed(m, name, Parse(_)) ==
    UNION {Parse(e) : e \in FirstOf(Payloads(m, name))}

\* `content_with_type`
Markdown(m) ==
    {c.text : c \in FirstOf(SelectSeq(Payloads(m, "content"),
                                    LAMBDA e : AttrOf(e, "type") = {"text/markdown"}))}

IsGroupchatMessage(m) ==
    m.type = "groupchat" \/ Payloads(m, "x muc#user") # <<>>

ServerId(m) ==
    {sid.id : sid \in Typed(m, "stanza-id", StanzaIdFromElement)}

-----------------------------------------------------------------------------
(* Attachments and mentions                                                  *)

\* A URL is <<scheme, file name, extension>>; the extensions stand for the media
\* types that `mime_guess` has for them, "" for application/octet-stream.
MediaTypes == {"image", "audio", "video", ""}

FileNameOrHash(url) ==
    <<IF url[2] = "" THEN "sha1" ELSE url[2], IF url[3] = "" THEN "bin" ELSE url[3]>>

ThumbnailOut(t) ==
    [uri |-> t.url, media_type |-> {t.media_type}, width |-> t.width, height |-> t.height]

ThumbnailIn(t) ==
    {[url |-> t.uri, media_type |-> UnwrapOr(media_type, ""), width |-> t.width,
      height |-> t.height] :
        media_type \in Transposed(t.media_type, LAMBDA x : {x} \cap MediaTypes)}

BestThumbnail(file) ==
    FirstOf(FilterMapped(ThumbnailIn, file.thumbnails))

OOBOut(attachment) ==
    [url |-> attachment.url, desc |-> {}]

\* `From<Url>`: an out-of-band link only has its path to tell what it is.
AttachmentOfUrl(url) ==
    [duration |-> {}, thumbnail |-> {}, url |-> url, media_type |-> url[3],
     file_name |-> FileNameOrHash(url), file_size |-> {}]

MediaShareOut(a) ==
    [file |-> [media_type |-> a.media_type, name |-> {a.file_name},
               size |-> UnwrapOr(a.file_size, 0), desc |-> {},
               duration |-> a.duration,
               hashes |-> <<>>,
               thumbnails |-> IF a.thumbnail = {} THEN <<>>
                              ELSE <<ThumbnailOut(The(a.thumbnail))>>],
     sources |-> <<DataReference(a.url)>>]

FirstHttpSourceUrl(share) ==
    {s.uri : s \in FirstOf(SelectSeq(share.sources,
                                   LAMBDA s : s.type = "data" /\ s.uri[1] \in {"http", "https"}))}

MediaShareIn(share) ==
    {[duration |-> IF media_type \in {"audio", "video"} THEN share.file.duration ELSE {},
      thumbnail |-> IF media_type \in {"image", "video"}
                    THEN BestThumbnail(share.file) ELSE {},
      url |-> url, media_type |-> media_type,
      file_name |-> UnwrapOr(share.file.name, FileNameOrHash(url)),
      file_size |-> {share.file.size}] :
        url \in FirstHttpSourceUrl(share), media_type \in {share.file.media_type} \cap MediaTypes}

\* Each attachment is sent as a media share and as an out-of-band link.
AppendAttachments(m, attachments) ==
    With(m, Flattened(Each(
        LAMBDA a : <<Element("reference", {<<"type", "data">>}, "",
                             <<MediaShareToElement(MediaShareOut(a))>>),
                     OOBToElement(OOBOut(a))>>, attachments)))

\* `media_shares`: the first child of a data reference.
MediaShares(m) ==
    FilterMapped(MediaShareFromElement,
        Each(LAMBDA e : e.children[1],
             SelectSeq(Payloads(m, "reference"),
                       LAMBDA e : AttrOf(e, "type") = {"data"} /\ e.children # <<>>)))

UniqueByUrl(attachments) ==
    LET first(i) == \A j \in 1 .. i - 1 : attachments[j].url # attachments[i].url
        kept == SelectSeq([i \in DOMAIN attachments |-> i], first)
    IN  [k \in DOMAIN kept |-> attachments[kept[k]]]

Attachments(m) ==
    UniqueByUrl(FilterMapped(MediaShareIn, MediaShares(m))
                \o Each(LAMBDA oob : AttachmentOfUrl(oob.url),
                        FilterMapped(OOBFromElement, Payloads(m, "x oob"))))

\* A mention carries its user as an IRI.
MentionOut(mention) ==
    [type |-> "mention", uri |-> <<"xmpp", mention.user>>, anchor |-> {},
     begin |-> {r[1] : r \in mention.range}, end |-> {r[2] : r \in mention.range}]

MentionIn(reference) ==
    IF reference.type # "mention" \/ reference.uri[1] # "xmpp"
    THEN {}
    ELSE {[user |-> reference.uri[2],
           range |-> {<<b, e>> : b \in reference.begin, e \in reference.end}]}

Mentions(m) ==
    FilterMapped(MentionIn,
        FilterMapped(ReferenceFromElement,
            SelectSeq(Payloads(m, "reference"), LAMBDA e : AttrOf(e, "type") = {"mention"})))

-----------------------------------------------------------------------------
(* What the messaging service and the chat module send                       *)

MessageType(room) ==
    IF room = Muc THEN "groupchat" ELSE "chat"

OmemoNotice == <<"[This message is OMEMO encrypted]">>

\* The ciphertext is the text itself, which only the decryption reads. A key
\* transport message has no payload.
SetOmemoPayload(m, payload) ==
    With(m, <<Element("encrypted", {<<"sid", "7">>}, "",
                      IF payload = {} THEN <<>> ELSE <<Leaf("payload", The(payload))>>),
              Empty("encryption", {})>>)

SetMessageBody(m, body) ==
    IF body = {}
    THEN m
    ELSE LET b == The(body)
             n == With(m, Each(LAMBDA x : ReferenceToElement(MentionOut(x)), b.mentions))
         IN  IF b.encrypted
             THEN [SetOmemoPayload(n, {b.message}) EXCEPT !.body = {OmemoNotice}]
             ELSE [With(n, <<ContentToElement([type |-> "text/markdown",
                                               content |-> b.message])>>)
                   EXCEPT !.body = {b.fallback}]

ActiveMarkableStored ==
    <<Empty("active chat-state", {}), Empty("markable", {}), Empty("store", {})>>

Sender == <<Me, "phone">>

Stanza(o) ==
    NewMessage(MessageType(o.room), {Sender}, Bare(o.room))

SendMessage(o) ==
    AppendAttachments(
        With(SetMessageBody([Stanza(o) EXCEPT !.id = {"new"}, !.thread = {"new"}], o.body),
             ActiveMarkableStored), o.attachments)

SendMessageToThread(o) ==
    AppendAttachments(
        With([SetMessageBody([Stanza(o) EXCEPT !.id = {"new"}], o.body)
              EXCEPT !.thread = {"thread"}], ActiveMarkableStored), o.attachments)

SendKeyTransportMessage(o) ==
    With(SetOmemoPayload(Stanza(o), {}), <<Empty("store", {})>>)

UpdateMessage(o) ==
    AppendAttachments(
        With(SetMessageBody([Stanza(o) EXCEPT !.id = {"new"}], o.body),
             <<Empty("replace", {<<"id", "target">>}), Empty("store", {})>>), o.attachments)

RetractMessage(o) ==
    With([Stanza(o) EXCEPT !.id = {"new"}, !.body = {<<"This person attempted to retract">>}],
         <<ApplyToToElement([id |-> "target", clear |-> FALSE,
                             payloads |-> <<RetractToElement>>]),
           FallbackToElement([for |-> {}, subjects |-> <<>>, bodies |-> <<>>])>>)

ReactToMessage(o) ==
    With([Stanza(o) EXCEPT !.id = {"new"}],
         <<ReactionsToElement([id |-> "target", reactions |-> <<"e", "f">>]),
           Empty("store", {})>>)

SetUserIsComposing(o) ==
    With(Stanza(o), <<Empty("composing chat-state", {})>>)

MarkMessageReceived(o) ==
    With([Stanza(o) EXCEPT !.id = {"new"}],
         <<MarkerToElement([marker |-> "received chat-markers", id |-> "target"])>>)

\* A message of another room's archive, sent again by whoever moves the history: all
\* its payloads are kept, the old room's stanza id too.
RelayArchivedMessageToRoom(o) ==
    With([SendMessage(o) EXCEPT !.from = {}],
         <<StanzaIdToElement([id |-> "old", by |-> Bare("old")]), Leaf("delay", "1")>>)

\* A message of ours that comes back from its addressee.
Bounce(o) ==
    With([Stanza(o) EXCEPT !.type = "error", !.id = {"new"}], <<Empty("error", {})>>)

\* A reply of another client: the quoted text is a prefix of the body that the
\* fallback range marks.
ForeignReply(o) ==
    With([Stanza(o) EXCEPT !.id = {"new"}, !.body = {o.reply.body}],
         <<ReplyToElement([id |-> "target", to |-> o.reply.to]),
           FallbackToElement([for |-> {"reply"}, subjects |-> <<>>,
                              bodies |-> <<o.reply.range>>])>>)

Built(o) ==
    CASE o.kind = "send" -> SendMessage(o)
      [] o.kind = "thread" -> SendMessageToThread(o)
      [] o.kind = "keys" -> SendKeyTransportMessage(o)
      [] o.kind = "update" -> UpdateMessage(o)
      [] o.kind = "retract" -> RetractMessage(o)
      [] o.kind = "react" -> ReactToMessage(o)
      [] o.kind = "composing" -> SetUserIsComposing(o)
      [] o.kind = "receipt" -> MarkMessageReceived(o)
      [] o.kind = "relay" -> RelayArchivedMessageToRoom(o)
      [] o.kind = "bounce" -> Bounce(o)
      [] o.kind = "reply" -> ForeignReply(o)

-----------------------------------------------------------------------------
(* The chat module                                                           *)

\* `handle_message_stanza`: archive results are for the archive module, a carbon
\* copy counts only if our own account sent it.
HandleMessageStanza(d) ==
    IF d.via = "archive"
    THEN <<>>
    ELSE (IF d.via = "plain"
             /\ \E i \in DOMAIN d.stanza.payloads :
                    d.stanza.payloads[i].name \in {"active chat-state", "composing chat-state"}
          THEN <<"chat_state">> ELSE <<>>)
         \o CASE d.via = "plain" /\ d.stanza.payloads = <<>> /\ d.stanza.body = {} -> <<>>
              [] d.via = "local" -> <<"sent">>
              [] d.via \in {"received", "sent"} ->
                    IF d.by = Bare(d.reader) THEN <<"carbon">> ELSE <<>>
              [] OTHER -> <<"message">>

-----------------------------------------------------------------------------
(* The message parser                                                        *)

User(bare) == [kind |-> "user", jid |-> bare]
Occupant(full) == [kind |-> "occupant", jid |-> full]

\* `parse_sender`: in a room the real JID of the message, or the one the room's
\* participant list has for the occupant id.
ParseSender(m, participants) ==
    IF m.from = {}
    THEN {}
    ELSE LET from == The(m.from)
             item == {BareOf(jid) : jid \in UNION {s.jid : s \in
                        Typed(m, "x muc#user", SenderFromElement)}}
             occupant == UNION {participants[id] : id \in
                            UNION {AttrOf(e, "id") : e \in FirstOf(Payloads(m, "occupant-id"))}}
         IN  IF ~IsGroupchatMessage(m)
             THEN {[participant |-> User(BareOf(from)), user |-> {BareOf(from)}]}
             ELSE IF ~IsFull(from)
                  THEN {}
                  ELSE {[participant |-> Occupant(from), user |-> Or(item, occupant)]}

\* Mutant: a room's messages are found by the id of their sender, too.
TargetIdRemote(m, id) ==
    [kind |-> "remote", id |-> id]

TargetId(m, id) ==
    [kind |-> IF IsGroupchatMessage(m) THEN "server" ELSE "remote", id |-> id]

RemoteId(id) ==
    [kind |-> "remote", id |-> id]

\* Range and slice of a text in unicode scalars; both ends have to be inside.
Utf8Range(text, range) ==
    IF range[1] <= Len(text) /\ range[2] <= Len(text) THEN {range} ELSE {}

SafeSlice(text, start, end) ==
    IF start <= end /\ end <= Len(text) THEN {SubSeq(text, start + 1, end)} ELSE {}

\* Trailing white space and the prefix "> " of every line are dropped.
TrimmedQuote(text) ==
    LET last == CHOOSE n \in 0 .. Len(text) :
                    /\ n > 0 => text[n] \notin {" ", "\n"}
                    /\ \A i \in n + 1 .. Len(text) : text[i] \in {" ", "\n"}
        prefix(i) == /\ i < last /\ text[i] = ">" /\ text[i + 1] = " "
                     /\ i = 1 \/ text[i - 1] = "\n"
        keep(i) == ~prefix(i) /\ ~(i > 1 /\ prefix(i - 1))
        kept == SelectSeq([i \in 1 .. last |-> i], keep)
    IN  [k \in DOMAIN kept |-> text[kept[k]]]

ReplyFallbackRange(m) ==
    UNION {{<<s, e>> : s \in r.start, e \in r.end} :
            r \in UNION {FirstOf(f.bodies) :
                    f \in UNION {FallbackFromElement(e) :
                        e \in FirstOf(SelectSeq(Payloads(m, "fallback"),
                                              LAMBDA e : AttrOf(e, "for") = {"reply"}))}}}

ReplyTo(m, body) ==
    {[target |-> TargetId(m, reply.id),
      to |-> IF IsGroupchatMessage(m)
             THEN {Occupant(jid) : jid \in {j \in reply.to : IsFull(j)}}
             ELSE {User(BareOf(jid)) : jid \in reply.to},
      quote |-> {TrimmedQuote(t) : t \in
                    UNION {SafeSlice(body, r[1], r[2]) :
                        r \in UNION {Utf8Range(body, r) : r \in ReplyFallbackRange(m)}}}] :
        reply \in Typed(m, "reply", ReplyFromElement)}

WithoutQuote(m, body) ==
    UnwrapOr(UNION {SafeSlice(body, r[2], Len(body)) :
                        r \in UNION {Utf8Range(body, r) : r \in ReplyFallbackRange(m)}}, body)

\* `parse_message_body`: {} no body, "empty" for key material, else the texts.
ParseMessageBody(m, user, decrypts) ==
    LET omemo == FirstOf(Payloads(m, "encrypted"))
        payload == UNION {FirstText(e, "payload") : e \in omemo}
    IN  IF user # {} /\ omemo # {}
        THEN IF payload = {}
             THEN {[kind |-> "empty", message |-> {}, fallback |-> <<>>]}
             ELSE {[kind |-> "encrypted", message |-> {},
                    fallback |-> IF decrypts THEN The(payload)
                                 ELSE UnwrapOr(m.body, <<"Message failed to decrypt">>)]}
        ELSE {[kind |-> "plain", message |-> Markdown(m), fallback |-> b] : b \in m.body}

\* `parse_message_payload`, in the order in which it looks at the payloads.
ParseMessagePayload(m, user, decrypts) ==
    LET reactions == Typed(m, "reactions", ReactionsFromElement)
        fastening == {f \in Typed(m, "apply-to", ApplyToFromElement) : HasRetract(f)}
        receivedMarker == Typed(m, "received chat-markers", ReceivedFromElement)
        displayedMarker == Typed(m, "displayed chat-markers", DisplayedFromElement)
        body == Or(ParseMessageBody(m, user, decrypts),
                   IF Attachments(m) # <<>>
                   THEN {[kind |-> "plain", message |-> {}, fallback |-> <<>>]} ELSE {})
        replace == UNION {AttrOf(e, "id") : e \in FirstOf(Payloads(m, "replace"))}
        text(b) == UnwrapOr(b.message, WithoutQuote(m, b.fallback))
    IN  IF Payloads(m, "error") # <<>> THEN {[kind |-> "error"]}
        ELSE IF reactions # {}
        THEN {[kind |-> "reaction", target |-> TargetId(m, r.id), emojis |-> r.reactions] :
                r \in reactions}
        ELSE IF fastening # {}
        THEN {[kind |-> "retraction", target |-> RemoteId(f.id)] : f \in fastening}
        ELSE IF receivedMarker # {}
        THEN {[kind |-> "delivery_receipt", target |-> TargetId(m, r.id)] : r \in receivedMarker}
        ELSE IF displayedMarker # {}
        THEN {[kind |-> "read_receipt", target |-> TargetId(m, d.id)] : d \in displayedMarker}
        ELSE {IF replace # {}
              THEN [kind |-> "correction", target |-> RemoteId(The(replace)), body |-> text(b),
                    mentions |-> Mentions(m), attachments |-> Attachments(m),
                    encrypted |-> b.kind = "encrypted"]
              ELSE [kind |-> "message", body |-> text(b), mentions |-> Mentions(m),
                    attachments |-> Attachments(m), encrypted |-> b.kind = "encrypted",
                    transient |-> IsGroupchatMessage(m) /\ m.type = "chat",
                    reply |-> IF b.message = {} THEN ReplyTo(m, b.fallback) ELSE {},
                    thread |-> m.thread] :
                b \in {x \in body : x.kind # "empty"}}

DelayOf(m) ==
    UNION {ParseOffset(e.text) : e \in FirstOf(Payloads(m, "delay"))}

ParseMessage(m, participants, decrypts) ==
    UNION {{[remote |-> m.id, server |-> ServerId(m), from |-> UnwrapOr({User(u) : u \in s.user}, s.participant),
             timestamp |-> UnwrapOr(DelayOf(m), Now), payload |-> p] :
                p \in ParseMessagePayload(m, s.user, decrypts)} :
            s \in ParseSender(m, participants)}

\* The messages event handler and the archive: a room's echo of our own message is
\* turned around and, like every sent message, is from our account whatever was
\* parsed; the id and the delay of the archive, the delay of a copy win.
ParseDelivered(d) ==
    LET own == d.via = "plain" /\ d.stanza.type = "groupchat" /\ d.stanza.from = {<<Muc, d.reader>>}
        sent == own \/ d.via \in {"sent", "local"}
        m == IF own
             THEN [d.stanza EXCEPT !.from = d.stanza.to, !.to = {Bare(Muc)}] ELSE d.stanza
    IN  {[p EXCEPT !.server = IF d.via = "archive" THEN {"archived"} ELSE @,
                   !.from = IF sent THEN User(Bare(d.reader)) ELSE @,
                   !.timestamp = UnwrapOr(d.delay, @)] :
            p \in ParseMessage(m, d.participants, d.decrypts)}

-----------------------------------------------------------------------------
(* The operations, and the server                                            *)

NoReply == [to |-> {}, range |-> [start |-> {}, end |-> {}], body |-> <<>>]

Op(kind, room, body, attachments, reply) ==
    [kind |-> kind, room |-> room, body |-> body, attachments |-> attachments, reply |-> reply]

TextBody(encrypted, mentions) ==
    [message |-> <<"*", "t", "*">>, fallback |-> <<"t">>, encrypted |-> encrypted,
     mentions |-> mentions]

Bodies ==
    {TextBody(encrypted, mentions) : encrypted \in BOOLEAN,
        mentions \in {<<>>, <<[user |-> Bare(You), range |-> {}]>>,
                      <<[user |-> Bare(You), range |-> {<<0, 1>>}]>>}}

Attachment(url, media_type, size) ==
    [duration |-> IF media_type \in {"audio", "video"} THEN {2} ELSE {},
     thumbnail |-> IF media_type = "image"
                   THEN {[url |-> <<"https", "small", "image">>, media_type |-> "image",
                          width |-> {1}, height |-> {}]} ELSE {},
     url |-> url, media_type |-> media_type, file_name |-> <<"name", "">>, file_size |-> size]

AttachmentLists ==
    {<<>>} \cup {<<Attachment(<<"https", "f", x>>, x, size)>> :
                    x \in MediaTypes, size \in Option({1})}
           \cup {<<Attachment(<<"https", "", "">>, "image", {1}),
                   Attachment(<<"ftp", "f", "audio">>, "audio", {1})>>}

\* What another client marks as the quoted part of its reply.
Replies ==
    {[to |-> to, range |-> [start |-> start, end |-> end],
      body |-> <<">", " ", "t", "\n", "t", " ">>] :
        to \in {{}, {<<You, "laptop">>}, {Bare(You)}},
        start \in Option({0, 1}), end \in Option(0 .. 7)}

Ops ==
    {Op(kind, room, body, attachments, NoReply) :
        kind \in {"send", "thread", "update", "relay"}, room \in {You, Muc},
        body \in Option(Bodies), attachments \in AttachmentLists}
    \cup {Op(kind, room, {}, <<>>, NoReply) :
        kind \in {"retract", "react", "composing", "receipt"}, room \in {You, Muc}}
    \cup {Op(kind, You, {}, <<>>, NoReply) : kind \in {"keys", "bounce"}}
    \cup {Op("reply", room, {}, <<>>, reply) : room \in {You, Muc}, reply \in Replies}

\* The kinds that the chat module announces itself as sent.
Announced == {"retract", "react", "receipt"}

\* What the server adds: its id and, in a room, the occupant and perhaps their JID.
Stamped(m, reader, item) ==
    IF m.type = "groupchat"
    THEN With([m EXCEPT !.from = {<<Muc, Me>>}, !.to = {<<reader, "laptop">>}],
              <<StanzaIdToElement([id |-> "archived", by |-> Bare(Muc)]),
                Empty("occupant-id", {<<"id", "o">>})>>
              \o IF item THEN <<SenderToElement([jid |-> {Sender}, affiliation |-> "member",
                                                 role |-> "participant"])>> ELSE <<>>)
    ELSE With([m EXCEPT !.from = {Sender}],
              <<StanzaIdToElement([id |-> "archived", by |-> Bare(reader)])>>)

Deliveries(o, m) ==
    [via : {"plain", "archive"}, reader : IF o.room = Muc THEN {Me, You} ELSE {You},
     by : {Bare(Me)}, item : BOOLEAN, delay : {{}}, decrypts : BOOLEAN,
     participants : {[id \in {"o"} |-> user] : user \in {{}, {Bare(Me)}}}]
    \cup (IF o.room = Muc THEN {} ELSE
          [via : {"received"}, reader : {You}, by : {Bare(You), Bare(Me)}, item : {FALSE},
           delay : Option({1}), decrypts : BOOLEAN, participants : {[id \in {"o"} |-> {}]}]
          \cup [via : {"sent"}, reader : {Me}, by : {Bare(Me), Bare(You)}, item : {FALSE},
                delay : Option({1}), decrypts : BOOLEAN, participants : {[id \in {"o"} |-> {}]}])
    \cup (IF o.kind \notin Announced THEN {} ELSE
          [via : {"local"}, reader : {Me}, by : {Bare(Me)}, item : {FALSE}, delay : {{}},
           decrypts : {TRUE}, participants : {[id \in {"o"} |-> {}]}])

Arriving(d, m) ==
    d @@ [stanza |-> IF d.via = "local" THEN m ELSE Stamped(m, d.reader, d.item)]

Init ==
    /\ op \in Ops
    /\ stanza = {} /\ delivered = {} /\ events = {} /\ parsed = {}

Send ==
    /\ stanza = {}
    /\ stanza' = {Built(op)}
    /\ UNCHANGED <<op, delivered, events, parsed>>

Deliver ==
    /\ delivered = {}
    /\ \E m \in stanza :
        \E d \in Deliveries(op, m) :
            delivered' = {Arriving(IF d.via = "archive" THEN [d EXCEPT !.delay = {2}] ELSE d, m)}
    /\ UNCHANGED <<op, stanza, events, parsed>>

Receive ==
    /\ events = {}
    /\ \E d \in delivered : events' = {HandleMessageStanza(d)}
    /\ UNCHANGED <<op, stanza, delivered, parsed>>

\* Every event but a chat state is parsed, and so is every result of the archive.
Handle ==
    /\ parsed = {}
    /\ \E d \in delivered :
        /\ \/ d.via = "archive"
           \/ \E e \in events : \E i \in DOMAIN e : e[i] # "chat_state"
        /\ parsed' = {ParseDelivered(d)}
    /\ UNCHANGED <<op, stanza, delivered, events>>

Next == Send \/ Deliver \/ Receive \/ Handle

Spec == Init /\ [][Next]_vars

-----------------------------------------------------------------------------
(* Properties                                                                *)

Targets == [kind : {"remote", "server"}, id : {"target"}]

\* A stanza yields at most one message, and one that points to another message
\* names it by an id that this kind of room knows.
TypeOK ==
    /\ \A p \in parsed : Cardinality(p) <= 1
    /\ \A p \in UNION parsed :
        /\ Cardinality(p.server) <= 1
        /\ p.timestamp \in {1, 2, Now}
        /\ p.payload.kind \in {"reaction", "retraction", "correction", "delivery_receipt"} =>
            p.payload.target \in Targets

Unique(attachments) ==
    [i \in DOMAIN attachments |->
        [attachments[i] EXCEPT !.file_size = {UnwrapOr(@, 0)}]]

\* An attachment that cannot be shared (no web link) arrives as a link.
Arrives(attachments) ==
    [i \in DOMAIN attachments |->
        IF attachments[i].url[1] = "ftp"
        THEN AttachmentOfUrl(attachments[i].url) ELSE Unique(attachments)[i]]

ArrivesInOrder(attachments) ==
    SelectSeq(Arrives(attachments), LAMBDA a : a.url[1] # "ftp")
    \o SelectSeq(Arrives(attachments), LAMBDA a : a.url[1] = "ftp")

Readable(d, p) ==
    d.decrypts /\ p.payload.encrypted

\* What another client reads is what the user sent: the text, the mentions, the
\* attachments, the reactions and the message that a correction, a retraction or
\* a reaction is about, in the id that the room's messages are found by. An
\* encrypted text that cannot be read is replaced by a notice, never by nothing.
SentIsReceived ==
    \A d \in delivered : \A r \in parsed :
        CASE op.kind \in {"send", "thread", "update", "relay"} ->
                /\ (r = {}) = (op.body = {} /\ op.attachments = <<>>)
                /\ \A p \in r :
                    /\ p.remote = {"new"}
                    /\ p.payload.kind = IF op.kind = "update" THEN "correction" ELSE "message"
                    /\ op.kind = "update" => p.payload.target = RemoteId("target")
                    /\ p.payload.attachments = ArrivesInOrder(op.attachments)
                    /\ \A b \in op.body :
                        /\ p.payload.mentions = b.mentions
                        /\ p.payload.body = IF b.encrypted /\ ~Readable(d, p)
                                            THEN OmemoNotice ELSE b.message
          [] op.kind = "react" ->
                \A p \in r : /\ p.payload.kind = "reaction" /\ p.payload.emojis = <<"e", "f">>
                             /\ p.payload.target.kind = IF op.room = Muc THEN "server" ELSE "remote"
          [] op.kind = "retract" ->
                \A p \in r : p.payload = [kind |-> "retraction", target |-> RemoteId("target")]
          [] op.kind \in {"keys", "composing"} -> r = {}
          [] OTHER -> r # {}

\* A message is from its sender's account whenever the conversation, the room or
\* its participant list tells it, and otherwise from the occupant.
SenderIsKnown ==
    \A d \in delivered : \A p \in UNION parsed :
        p.from = IF \/ op.room # Muc \/ d.via \in {"local", "sent"}
                    \/ d.via = "plain" /\ d.reader = Me /\ d.stanza.type = "groupchat"
                    \/ d.item /\ d.stanza.type = "groupchat"
                    \/ d.participants["o"] # {} /\ d.stanza.type = "groupchat"
                 THEN User(Bare(Me)) ELSE Occupant(<<Muc, Me>>)

\* Nothing of a reply's text is lost: what is cut from the body is shown as the
\* quote, and a range that makes no sense cuts nothing.
ReplyKeepsText ==
    \A p \in UNION parsed :
        op.kind = "reply" /\ op.reply.range.start = {0} =>
            LET body == op.reply.body
                cut == SubSeq(body, 1, Len(body) - Len(p.payload.body))
            IN  /\ body = cut \o p.payload.body
                /\ \A reply \in p.payload.reply :
                    IF cut = <<>> THEN reply.quote \subseteq {<<>>}
                    ELSE reply.quote = {TrimmedQuote(cut)}

\* A message means the same whether it is received or found in the archive. Own
\* messages of a room that hides its members, and relayed messages, which carry
\* the id of their old room, are the exceptions.
SameFromArchive ==
    \A d \in delivered : \A p \in UNION parsed :
        d.via = "plain" /\ op.kind # "relay" /\ d.reader # Me =>
            \E q \in ParseDelivered([d EXCEPT !.via = "archive"]) :
                [q EXCEPT !.timestamp = Now] = p

\* A copy that another account claims to have made is never shown.
OnlyOwnCarbons ==
    \A d \in delivered :
        d.via \in {"received", "sent"} /\ d.by # Bare(d.reader) => parsed = {}
=============================================================================
