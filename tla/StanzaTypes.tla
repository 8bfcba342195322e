----------------------------- MODULE StanzaTypes -----------------------------
(* The stanza types of prose-xmpp (src/stanza): how each value is written to   *)
(* an XML element and read from one.                                           *)
EXTENDS Elements

CONSTANTS
    BareJids,       \* valid bare JIDs
    FullJids,       \* valid full JIDs
    MaxNumber       \* bound on lengths, offsets, sizes and timestamps

Jids == BareJids \cup FullJids
Numbers == 0 .. MaxNumber

ParseBareJid(text) ==
    {text} \cap BareJids

ParseJid(text) ==
    {text} \cap Jids

ParseOffset(text) ==
    ParseNumber(text, MaxNumber)

-----------------------------------------------------------------------------
(* Message payloads: markers, ids, replies, content                          *)

MarkerToElement(v) ==
    Empty(v.marker, {<<"id", v.id>>})

MarkerFromElement(name, e) ==
    IfNamed(e, name, {[marker |-> name, id |-> id] : id \in AttrOf(e, "id")})

ReceivedFromElement(e) ==
    MarkerFromElement("received chat-markers", e)

DisplayedFromElement(e) ==
    MarkerFromElement("displayed chat-markers", e)

AcknowledgedFromElement(e) ==
    MarkerFromElement("acknowledged chat-markers", e)

OriginIdFromElement(e) ==
    MarkerFromElement("origin-id", e)

StanzaIdToElement(v) ==
    Empty("stanza-id", {<<"id", v.id>>, <<"by", v.by>>})

StanzaIdFromElement(e) ==
    IfNamed(e, "stanza-id",
        {[id |-> id, by |-> by] :
            id \in AttrOf(e, "id"), by \in UNION {ParseJid(t) : t \in AttrOf(e, "by")}})

ReplyToElement(v) ==
    Empty("reply", {<<"id", v.id>>} \cup Attr("to", v.to))

ReplyFromElement(e) ==
    IfNamed(e, "reply",
        {[id |-> id, to |-> to] :
            id \in AttrOf(e, "id"), to \in Transposed(AttrOf(e, "to"), ParseJid)})

ContentToElement(v) ==
    Element("content", {<<"type", v.type>>}, v.content, <<>>)

ContentFromElement(e) ==
    IfNamed(e, "content",
        {[type |-> type, content |-> e.text] : type \in AttrOf(e, "type")})

\* The reaction elements are xmpp_parsers' own.
ReactionsToElement(v) ==
    Element("reactions", {<<"id", v.id>>}, "",
            Each(LAMBDA emoji : Leaf("reaction", emoji), v.reactions))

ReactionsFromElement(e) ==
    IfNamed(e, "reactions",
        {[id |-> id, reactions |-> Each(LAMBDA c : c.text, e.children)] :
            id \in IF \E i \in DOMAIN e.children : e.children[i].name # "reaction"
                   THEN {} ELSE AttrOf(e, "id")})

-----------------------------------------------------------------------------
(* Fallback ranges and fastenings                                            *)

RangeToElement(name, range) ==
    Empty(name, Attr("start", Written(range.start)) \cup Attr("end", Written(range.end)))

RangeFromElement(e) ==
    {[start |-> start, end |-> end] :
        start \in Transposed(AttrOf(e, "start"), ParseOffset),
        end \in Transposed(AttrOf(e, "end"), ParseOffset)}

FallbackToElement(v) ==
    Element("fallback", Attr("for", v.for), "",
        Each(LAMBDA r : RangeToElement("subject", r), v.subjects)
        \o Each(LAMBDA r : RangeToElement("body", r), v.bodies))

FallbackFromElement(e) ==
    IfNamed(e, "fallback",
        {[for |-> AttrOf(e, "for"), subjects |-> subjects, bodies |-> bodies] :
            subjects \in Collected(RangeFromElement, Named(e, {"subject"})),
            bodies \in Collected(RangeFromElement, Named(e, {"body"}))})

ApplyToToElement(v) ==
    Element("apply-to",
            {<<"id", v.id>>} \cup IF v.clear THEN {<<"clear", "true">>} ELSE {},
            "", v.payloads)

ApplyToFromElement(e) ==
    IfNamed(e, "apply-to",
        {[id |-> id, clear |-> AttrOf(e, "clear") = {"true"}, payloads |-> e.children] :
            id \in AttrOf(e, "id")})

RetractToElement ==
    Empty("retract", {})

HasRetract(fastening) ==
    \E i \in DOMAIN fastening.payloads : fastening.payloads[i].name = "retract"

-----------------------------------------------------------------------------
(* Multi-user chat: invitations, queries, users                              *)

DirectInviteToElement(v) ==
    Empty("x direct-invite",
          {<<"jid", v.jid>>} \cup Attr("password", v.password) \cup Attr("reason", v.reason)
          \cup AttrBoolOpt("continue", v.continue) \cup Attr("thread", v.thread))

DirectInviteFromElement(e) ==
    IfNamed(e, "x direct-invite",
        {[jid |-> jid, password |-> AttrOf(e, "password"), reason |-> AttrOf(e, "reason"),
          continue |-> continue, thread |-> AttrOf(e, "thread")] :
            jid \in UNION {ParseBareJid(t) : t \in AttrOf(e, "jid")},
            continue \in Transposed(AttrOf(e, "continue"), ParseBool)})

InviteToElement(v) ==
    Element("invite", Attr("from", v.from) \cup Attr("to", v.to), "",
            Leaves("reason", v.reason))

InviteFromElement(e) ==
    IfNamed(e, "invite",
        {[from |-> from, to |-> to, reason |-> FirstText(e, "reason")] :
            from \in Transposed(AttrOf(e, "from"), ParseJid),
            to \in Transposed(AttrOf(e, "to"), ParseJid)})

MediatedInviteToElement(v) ==
    Parent("x muc#user", Each(InviteToElement, v.invites) \o Leaves("password", v.password))

MediatedInviteFromElement(e) ==
    IfNamed(e, "x muc#user",
        {[invites |-> invites, password |-> LastText(e, "password")] :
            invites \in Collected(InviteFromElement, Named(e, {"invite"})) \ {<<>>}})

MucInviteToElement(v) ==
    Parent("x muc#user",
        <<Element("item", {<<"jid", v.jid>>, <<"affiliation", v.affiliation>>}, "",
                  Leaves("reason", v.reason))>>)

Affiliations == {"owner", "admin", "member", "outcast", "none"}

\* The reason is the first one that is not empty.
MucInviteFromElement(e) ==
    IfNamed(e, "x muc#user",
        UNION {{[jid |-> jid, affiliation |-> affiliation,
                 reason |-> FirstOf(SelectSeq(Each(LAMBDA c : c.text, Named(item, {"reason"})),
                                            LAMBDA t : t # ""))] :
                    jid \in UNION {ParseBareJid(t) : t \in AttrOf(item, "jid")},
                    affiliation \in AttrOf(item, "affiliation") \cap Affiliations} :
                item \in FirstOf(Named(e, {"item"}))})

Roles == {"moderator", "participant", "visitor", "none"}

\* `MucUser` of a message: the real JID, affiliation and role of its sender.
SenderToElement(v) ==
    Parent("x muc#user",
        <<Empty("item", Attr("jid", v.jid)
                        \cup {<<"affiliation", v.affiliation>>, <<"role", v.role>>})>>)

SenderFromElement(e) ==
    IfNamed(e, "x muc#user",
        UNION {{[jid |-> jid, affiliation |-> affiliation, role |-> role] :
                    jid \in Transposed(AttrOf(item, "jid"), ParseJid),
                    affiliation \in AttrOf(item, "affiliation") \cap Affiliations,
                    role \in AttrOf(item, "role") \cap Roles} :
                item \in FirstOf(Named(e, {"item"}))})

DestroyToElement(v) ==
    Element("destroy", Attr("jid", v.jid), "", Leaves("reason", v.reason))

DestroyFromElement(e) ==
    IfNamed(e, "destroy",
        {[jid |-> jid, reason |-> FirstText(e, "reason")] :
            jid \in Transposed(AttrOf(e, "jid"), ParseBareJid)})

\* `MucUser` of a presence. It knows items, statuses and one destroy element and
\* refuses everything else; items and statuses are xmpp_parsers' own.
MucUserToElement(v) ==
    Parent("x muc#user",
        Each(LAMBDA s : Leaf("status", s), v.status) \o Each(LAMBDA i : Leaf("item", i), v.items)
        \o IF v.destroy = {} THEN <<>> ELSE <<DestroyToElement(The(v.destroy))>>)

MucUserFromElement(e) ==
    IfNamed(e, "x muc#user",
        {[status |-> Each(LAMBDA c : c.text, Named(e, {"status"})),
          items |-> Each(LAMBDA c : c.text, Named(e, {"item"})), destroy |-> LastOf(destroyed)] :
            destroyed \in IF Named(e, {"status", "item", "destroy"}) # e.children
                         THEN {}
                         ELSE Collected(DestroyFromElement, Named(e, {"destroy"}))})

\* A query for owners or admins; the role is the namespace. The items it is read with
\* are of one of these namespaces.
QueryToElement(v) ==
    Parent(IF v.role = "owner" THEN "query muc#owner" ELSE "query muc#admin", v.payloads)

QueryFromElement(e) ==
    IF e.name \notin {"query muc#owner", "query muc#admin"}
       \/ Named(e, {"item muc#owner", "item muc#admin", "x data-form"}) # e.children
    THEN {}
    ELSE {[role |-> IF e.name = "query muc#owner" THEN "owner" ELSE "admin",
           payloads |-> e.children]}

-----------------------------------------------------------------------------
(* References and shared media                                               *)

ReferenceToElement(v) ==
    Empty("reference",
          {<<"type", v.type>>, <<"uri", v.uri>>} \cup Attr("anchor", v.anchor)
          \cup Attr("begin", Written(v.begin)) \cup Attr("end", Written(v.end)))

\* Mutant: the end is read from the begin attribute.
ReferenceFromElementBegin(e) ==
    IfNamed(e, "reference",
        {[type |-> type, uri |-> uri, anchor |-> AttrOf(e, "anchor"), begin |-> begin,
          end |-> begin] :
            type \in AttrOf(e, "type") \cap {"data", "mention"}, uri \in AttrOf(e, "uri"),
            begin \in Transposed(AttrOf(e, "begin"), ParseOffset)})

ReferenceFromElement(e) ==
    IfNamed(e, "reference",
        {[type |-> type, uri |-> uri, anchor |-> AttrOf(e, "anchor"), begin |-> begin,
          end |-> end] :
            type \in AttrOf(e, "type") \cap {"data", "mention"}, uri \in AttrOf(e, "uri"),
            begin \in Transposed(AttrOf(e, "begin"), ParseOffset),
            end \in Transposed(AttrOf(e, "end"), ParseOffset)})

DataReference(uri) ==
    [type |-> "data", uri |-> uri, anchor |-> {}, begin |-> {}, end |-> {}]

OOBToElement(v) ==
    Parent("x oob", <<Leaf("url", v.url)>> \o Leaves("desc", v.desc))

OOBFromElement(e) ==
    IfNamed(e, "x oob",
        {[url |-> url, desc |-> FirstText(e, "desc")] : url \in FirstText(e, "url")})

ThumbnailToElement(v) ==
    Empty("thumbnail",
          {<<"uri", v.uri>>} \cup Attr("media-type", v.media_type)
          \cup Attr("width", Written(v.width)) \cup Attr("height", Written(v.height)))

ThumbnailFromElement(e) ==
    IfNamed(e, "thumbnail",
        {[uri |-> uri, media_type |-> AttrOf(e, "media-type"), width |-> width,
          height |-> height] :
            uri \in AttrOf(e, "uri"),
            width \in Transposed(AttrOf(e, "width"), ParseOffset),
            height \in Transposed(AttrOf(e, "height"), ParseOffset)})

FileToElement(v) ==
    Parent("file",
        <<Leaf("media-type", v.media_type)>> \o Leaves("name", v.name)
        \o <<Leaf("size", ToString(v.size))>> \o Leaves("desc", v.desc)
        \o Leaves("duration", Written(v.duration))
        \o Each(LAMBDA h : Leaf("hash", h), v.hashes)
        \o Each(ThumbnailToElement, v.thumbnails))

FileFromElement(e) ==
    IfNamed(e, "file",
        {[media_type |-> media_type, name |-> LastText(e, "name"), size |-> size,
          desc |-> LastText(e, "desc") \ {""}, duration |-> duration,
          hashes |-> Each(LAMBDA c : c.text, Named(e, {"hash"})), thumbnails |-> thumbnails] :
            media_type \in LastText(e, "media-type"),
            size \in UNION {ParseOffset(t) : t \in LastText(e, "size")},
            duration \in Transposed(LastText(e, "duration"), ParseOffset),
            thumbnails \in Collected(ThumbnailFromElement, Named(e, {"thumbnail"}))})

MediaShareToElement(v) ==
    Parent("media-sharing",
        <<FileToElement(v.file), Parent("sources", Each(ReferenceToElement, v.sources))>>)

\* One file, and at least one source.
MediaShareFromElement(e) ==
    IfNamed(e, "media-sharing",
        {[file |-> file, sources |-> sources] :
            file \in IF Len(Named(e, {"file"})) # 1
                    THEN {}
                    ELSE FileFromElement(Named(e, {"file"})[1]),
            sources \in
                Collected(ReferenceFromElement,
                          Flattened(Each(LAMBDA c : Named(c, {"reference"}),
                                         Named(e, {"sources"})))) \ {<<>>}})

-----------------------------------------------------------------------------
(* Avatars, activities, devices                                              *)

InfoToElement(v) ==
    Empty("info",
          {<<"bytes", ToString(v.bytes)>>, <<"id", v.id>>, <<"type", v.type>>}
          \cup Attr("width", Written(v.width)) \cup Attr("height", Written(v.height))
          \cup Attr("url", v.url))

InfoFromElement(e) ==
    IfNamed(e, "info",
        {[bytes |-> bytes, width |-> width, height |-> height, id |-> id, type |-> type,
          url |-> AttrOf(e, "url")] :
            bytes \in UNION {ParseOffset(t) : t \in AttrOf(e, "bytes")},
            width \in Transposed(AttrOf(e, "width"), ParseOffset),
            height \in Transposed(AttrOf(e, "height"), ParseOffset),
            id \in AttrOf(e, "id"), type \in AttrOf(e, "type")})

MetadataToElement(v) ==
    Parent("metadata", Each(InfoToElement, v.infos))

MetadataFromElement(e) ==
    IfNamed(e, "metadata",
        {[infos |-> infos] : infos \in Collected(InfoFromElement, e.children)})

\* The status is the element's own text; an empty text is no text at all.
LastActivityToElement(v) ==
    Element("query last", {<<"seconds", ToString(v.seconds)>>}, UnwrapOr(v.status, ""), <<>>)

LastActivityFromElement(e) ==
    {[seconds |-> seconds, status |-> NonEmptyText(e)] :
        seconds \in UNION {ParseOffset(t) : t \in AttrOf(e, "seconds")}}

\* `General` and `Specific` stand for their lists of names; `other` carries a text.
Generals == {"undefined", "working"}
Specifics == {"coding", "other"}

SpecificToElement(specific) ==
    Leaf(specific.name, UnwrapOr(specific.text, ""))

ActivityToElement(v) ==
    Parent(v.general, IF v.specific = {} THEN <<>> ELSE <<SpecificToElement(The(v.specific))>>)

SpecificFromElement(e) ==
    {[name |-> name, text |-> IF name = "other" THEN NonEmptyText(e) ELSE {}] :
        name \in {e.name} \cap Specifics}

ActivityFromElement(e) ==
    {[general |-> general, specific |-> LastOf(specifics)] :
        general \in {e.name} \cap Generals,
        specifics \in Collected(SpecificFromElement, e.children)}

UserActivityToElement(v) ==
    Parent("activity",
        (IF v.activity = {} THEN <<>> ELSE <<ActivityToElement(The(v.activity))>>)
        \o Leaves("text", v.text))

UserActivityFromElement(e) ==
    IfNamed(e, "activity",
        {[activity |-> LastOf(activities), text |-> LastText(e, "text")] :
            activities \in Collected(ActivityFromElement,
                                     SelectSeq(e.children, LAMBDA c : c.name # "text"))})

DeviceToElement(v) ==
    Empty("device", {<<"id", ToString(v.id)>>} \cup Attr("label", v.label))

DeviceFromElement(e) ==
    IfNamed(e, "device",
        {[id |-> id, label |-> AttrOf(e, "label")] :
            id \in UNION {ParseOffset(t) : t \in AttrOf(e, "id")}})

DeviceListToElement(v) ==
    Parent("list", Each(DeviceToElement, v.devices))

DeviceListFromElement(e) ==
    IfNamed(e, "list",
        {[devices |-> devices] : devices \in Collected(DeviceFromElement, e.children)})

-----------------------------------------------------------------------------
(* Forwarded messages: archive results and carbon copies. The elements are    *)
(* xmpp_parsers' own; the message inside stands for a whole stanza.           *)

ForwardedToElement(v) ==
    Parent("forwarded", Leaves("delay", Written(v.delay)) \o Leaves("message", v.stanza))

ForwardedFromElement(e) ==
    IfNamed(e, "forwarded",
        {[delay |-> delay, stanza |-> FirstText(e, "message")] :
            delay \in Transposed(FirstText(e, "delay"), ParseOffset)})

ArchivedMessageToElement(v) ==
    Element("result mam", {<<"id", v.id>>} \cup Attr("queryid", v.query_id), "",
            <<ForwardedToElement(v.forwarded)>>)

ArchivedMessageFromElement(e) ==
    IfNamed(e, "result mam",
        {[id |-> id, query_id |-> AttrOf(e, "queryid"), forwarded |-> forwarded] :
            id \in AttrOf(e, "id"),
            forwarded \in UNION {ForwardedFromElement(c) :
                                    c \in FirstOf(Named(e, {"forwarded"}))}})

CarbonToElement(v) ==
    Parent(v.direction, <<ForwardedToElement(v.forwarded)>>)

CarbonFromElement(e) ==
    {[direction |-> direction, forwarded |-> forwarded] :
        direction \in {e.name} \cap {"received carbons", "sent carbons"},
        forwarded \in UNION {ForwardedFromElement(c) : c \in FirstOf(Named(e, {"forwarded"}))}}

-----------------------------------------------------------------------------
(* The pubsub payloads of src/crates/prose-core-client                       *)

PubSubMessageToElement(v) ==
    Element("message", {<<"from", v.from>>}, "",
            Each(LAMBDA event : Leaf("event", event), v.events))

\* Payloads that are no pubsub event are skipped.
PubSubMessageFromElement(e) ==
    {[from |-> from, events |-> Each(LAMBDA c : c.text, Named(e, {"event"}))] :
        from \in UNION {ParseJid(t) : t \in AttrOf(e, "from")}}
=============================================================================
