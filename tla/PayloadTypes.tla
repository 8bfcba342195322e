---------------------------- MODULE PayloadTypes ----------------------------
(* What prose-core-client makes of stanzas and records (its models and         *)
(* infra/xmpp/type_conversions): room settings, statuses, encrypted messages   *)
(* and device bundles, bookmarks, archive queries, identifiers and positions   *)
(* in a text. The elements of OMEMO, bookmarks and archive queries are         *)
(* xmpp_parsers' own. An address is <<bare, resource>>, "" for none.           *)
EXTENDS StanzaTypes, Integers

BareOf(jid) == <<jid[1], "">>
ParseFullJid(text) == {text} \cap FullJids

-----------------------------------------------------------------------------
(* Identifiers. A text with a scheme is the pair of the scheme and the rest.  *)

RoomIds == [kind : {"user", "muc"}, jid : BareJids]

RoomIdToRawKey(id) == <<id.kind, id.jid>>

RoomIdFromStr(text) ==
    {[kind |-> kind, jid |-> jid] :
        kind \in {text[1]} \cap {"user", "muc"}, jid \in ParseBareJid(text[2])}

ParticipantIdToRawKey(id) ==
    IF id.kind = "user" THEN <<"user", id.jid>> ELSE <<"occ", id.jid>>

ParticipantIdFromStr(text) ==
    CASE text[1] = "user" -> {[kind |-> "user", jid |-> jid] : jid \in ParseBareJid(text[2])}
      [] text[1] = "occ"  -> {[kind |-> "occupant", jid |-> jid] : jid \in ParseFullJid(text[2])}
      [] OTHER -> {}

\* `UserEndpointId`, where a stanza comes from: a user, one of the user's
\* resources, or an occupant of a room.
UserEndpointIds ==
    [kind : {"user"}, jid : BareJids] \cup [kind : {"resource", "occupant"}, jid : FullJids]

EndpointToRoomId(id) ==
    [kind |-> IF id.kind = "occupant" THEN "muc" ELSE "user", jid |-> BareOf(id.jid)]

EndpointToParticipantId(id) ==
    IF id.kind = "resource" THEN [kind |-> "user", jid |-> BareOf(id.jid)] ELSE id

ParticipantToRoomId(id) ==
    IF id.kind = "user" THEN [kind |-> "user", jid |-> id.jid]
    ELSE [kind |-> "muc", jid |-> BareOf(id.jid)]

\* A participant in a record of the store.
ParticipantToElement(id) ==
    Empty("record", {<<"id", ParticipantIdToRawKey(EndpointToParticipantId(id))>>})

ParticipantFromElement(e) ==
    {[participant |-> id, room |-> ParticipantToRoomId(id)] :
        id \in UNION {ParticipantIdFromStr(text) : text \in AttrOf(e, "id")}}

-----------------------------------------------------------------------------
(* Positions in a text: scalars, bytes of UTF-8, code units of UTF-16.        *)

Chars == {"a", "n~", "emoji"}
Width(unit, c) ==
    CASE c = "a" -> 1
      [] c = "n~" -> IF unit = "utf8" THEN 2 ELSE 1
      [] c = "emoji" -> IF unit = "utf8" THEN 4 ELSE 2

Sum(unit, text, n) == SE!FoldLeft(LAMBDA sum, c : sum + Width(unit, c), 0, SubSeq(text, 1, n))

\* An option: {} when the index is out of bounds.
ToUnitIndex(unit, text, i) ==
    IF Len(text) < i THEN {} ELSE {Sum(unit, text, i)}

\* The widths are subtracted until nothing is left: {} when that is inside a
\* character, or when the text ends first.
ToScalarIndex(unit, text, i) ==
    LET left[n \in 0 .. Len(text)] ==
            IF n = 0 THEN i ELSE left[n - 1] - Width(unit, text[n])
    IN  {n \in 0 .. Len(text) : left[n] = 0}

RangeIn(Convert(_), name, range) ==
    IF Convert(range[1]) = {} \/ Convert(range[2]) = {} THEN Empty("error", {})
    ELSE Empty(name, {<<"start", The(Convert(range[1]))>>, <<"end", The(Convert(range[2]))>>})

RangeOut(Convert(_), e) ==
    {<<s, t>> : s \in UNION {Convert(i) : i \in AttrOf(e, "start")},
                t \in UNION {Convert(i) : i \in AttrOf(e, "end")}}

\* From scalars to units and back (`range`), and the other way (`units`).
RangeToUnits(v) == RangeIn(LAMBDA i : ToUnitIndex(v.unit, v.text, i), "units", v.range)
UnitsToRange(v, e) == RangeOut(LAMBDA i : ToScalarIndex(v.unit, v.text, i), e)
UnitsToScalars(v) == RangeIn(LAMBDA i : ToScalarIndex(v.unit, v.text, i), "scalars", v.range)
ScalarsToUnits(v, e) == RangeOut(LAMBDA i : ToUnitIndex(v.unit, v.text, i), e)

-----------------------------------------------------------------------------
(* Room settings and statuses                                                *)

ArchivedMessageRefToElement(v) ==
    Empty("archived-message-ref",
          {<<"stanza-id", v.stanza_id>>, <<"ts", ToString(v.timestamp)>>})

ArchivedMessageRefFromElement(e) ==
    {[stanza_id |-> id, timestamp |-> ts] :
        id \in AttrOf(e, "stanza-id"),
        ts \in UNION {ParseOffset(t) : t \in AttrOf(e, "ts")}}

SettingsToElement(v) ==
    Element("room-settings", {<<"room-id", RoomIdToRawKey(v.room_id)>>}, "",
        Each(ArchivedMessageRefToElement, SE!SetToSeq(v.last_read_message))
        \o <<Empty("encryption", {<<"type", IF v.encryption_enabled THEN "omemo" ELSE "none">>})>>)

SettingsFromElement(e) ==
    {[room_id |-> id, last_read_message |-> read, encryption_enabled |-> type = {"omemo"}] :
        id \in UNION {RoomIdFromStr(text) : text \in AttrOf(e, "room-id")},
        read \in Transposed(FirstOf(Named(e, {"archived-message-ref"})),
                            ArchivedMessageRefFromElement),
        type \in Transposed(FirstOf(Named(e, {"encryption"})), LAMBDA c : AttrOf(c, "type"))}

\* A status is an activity of no category whose specific one is the emoji.
StatusToActivity(v) ==
    [activity |-> {[general |-> "undefined",
                    specific |-> {[name |-> "other", text |-> {v.emoji}]}]},
     text |-> v.status]

ToEmoji(specific) ==
    IF specific.name = "other" THEN specific.text ELSE {"emoji of " \o specific.name}

\* The category stands in for a missing text.
StatusFromActivity(a) ==
    {[emoji |-> emoji, status |-> Or(a.text, {activity.general : activity \in a.activity})] :
        emoji \in UNION {UNION {ToEmoji(s) : s \in activity.specific} : activity \in a.activity}}

StatusToElement(v) == UserActivityToElement(StatusToActivity(v))

StatusFromElement(e) ==
    UNION {StatusFromActivity(a) : a \in UserActivityFromElement(e)}

-----------------------------------------------------------------------------
(* OMEMO: messages, key transport and bundles. Key material is opaque.        *)

KeyToElement(k) ==
    Element("key", {<<"rid", ToString(k.device_id)>>, <<"prekey", k.is_pre_key>>}, k.data, <<>>)

KeyFromElement(e) ==
    {[device_id |-> id, is_pre_key |-> pre, data |-> e.text] :
        id \in UNION {ParseOffset(t) : t \in AttrOf(e, "rid")}, pre \in AttrOf(e, "prekey")}

\* `EncryptedPayload` and `KeyTransportPayload`: the second has no payload.
EncryptedToElement(v) ==
    Parent("encrypted",
        <<Element("header", {<<"sid", ToString(v.device_id)>>}, "",
                  Each(KeyToElement, v.keys) \o <<Leaf("iv", v.iv)>>)>>
        \o IF v.kind = "message" THEN <<Leaf("payload", v.payload)>> ELSE <<>>)

EncryptedFromElement(e) ==
    {IF FirstText(e, "payload") = {}
     THEN [kind |-> "key_transport", device_id |-> id, iv |-> iv, keys |-> keys]
     ELSE [kind |-> "message", device_id |-> id, iv |-> iv, keys |-> keys,
           payload |-> The(FirstText(e, "payload"))] :
        id \in UNION {ParseOffset(t) : t \in UNION {AttrOf(h, "sid") :
                                h \in FirstOf(Named(e, {"header"}))}},
        iv \in UNION {FirstText(h, "iv") : h \in FirstOf(Named(e, {"header"}))},
        keys \in UNION {Collected(KeyFromElement, Named(h, {"key"})) :
                            h \in FirstOf(Named(e, {"header"}))}}

PreKeyToElement(k) ==
    Element("preKeyPublic", {<<"preKeyId", ToString(k.id)>>}, k.key, <<>>)

PreKeyFromElement(e) ==
    {[id |-> id, key |-> e.text] :
        id \in UNION {ParseOffset(t) : t \in AttrOf(e, "preKeyId")}}

\* A bundle is published at a node with the id of its device.
BundleToElement(v) ==
    Element("bundle", {<<"node", ToString(v.device_id)>>}, "",
        <<Element("signedPreKeyPublic", {<<"signedPreKeyId", ToString(v.signed_pre_key.id)>>},
                  v.signed_pre_key.key, <<>>),
          Leaf("signedPreKeySignature", v.signed_pre_key.signature),
          Leaf("identityKey", v.identity_key),
          Parent("prekeys", Each(PreKeyToElement, v.pre_keys))>>)

\* Every part of a bundle is required.
BundleFromElement(e) ==
    {[device_id |-> device, signed_pre_key |-> [id |-> id, key |-> key, signature |-> sig],
      identity_key |-> identity, pre_keys |-> keys] :
        device \in UNION {ParseOffset(t) : t \in AttrOf(e, "node")},
        id \in UNION {ParseOffset(t) : t \in
                UNION {AttrOf(c, "signedPreKeyId") : c \in FirstOf(Named(e, {"signedPreKeyPublic"}))}},
        key \in FirstText(e, "signedPreKeyPublic"),
        sig \in FirstText(e, "signedPreKeySignature"),
        identity \in FirstText(e, "identityKey"),
        keys \in UNION {Collected(PreKeyFromElement, c.children) :
                            c \in FirstOf(Named(e, {"prekeys"}))}}

-----------------------------------------------------------------------------
(* Bookmarks of conferences: one item each, or all of them in one storage.    *)

ConferenceToElement(jid, v) ==
    Element("conference",
            Attr("jid", jid) \cup {<<"autojoin", v.autojoin>>} \cup Attr("name", v.name), "",
            Leaves("nick", v.nick) \o Leaves("password", v.password))

ConferenceFromElement(jid, e) ==
    {[jid |-> jid, autojoin |-> autojoin, name |-> AttrOf(e, "name"),
      nick |-> FirstText(e, "nick"), password |-> FirstText(e, "password")] :
        autojoin \in AttrOf(e, "autojoin")}

BookmarkToItem(v) ==
    Element("item", {<<"id", v.jid>>}, "", <<ConferenceToElement({}, v)>>)

BookmarkFromItem(e) ==
    UNION {ConferenceFromElement(jid, payload) :
            jid \in UNION {ParseJid(t) : t \in AttrOf(e, "id")}, payload \in FirstOf(e.children)}

\* The storage knows bare addresses only.
BookmarksToStorage(v) ==
    Parent("storage", Each(LAMBDA b : ConferenceToElement({BareOf(b.jid)}, b), v.conferences))

BookmarksFromStorage(e) ==
    {[conferences |-> bookmarks] : bookmarks \in
        Collected(LAMBDA c : UNION {ConferenceFromElement(jid, c) :
                                jid \in UNION {ParseBareJid(t) : t \in AttrOf(c, "jid")}},
                  Named(e, {"conference"}))}

-----------------------------------------------------------------------------
(* Archive queries. The server's reading of a query is external.              *)

Field(var, values) == Element("field", {<<"var", var>>}, "", Each(LAMBDA t : Leaf("value", t), values))
Fields(var, option) == IF option = {} THEN <<>> ELSE <<Field(var, <<The(option)>>)>>

RangeFilterToFields(r) ==
    CASE r.by = "time" -> Fields("start", Written(r.start)) \o Fields("end", Written(r.end))
      [] r.by = "id"   -> Fields("before-id", r.before) \o Fields("after-id", r.after)
      [] r.by = "ids"  -> <<Field("ids", r.ids)>>

FilterToForm(f) ==
    Parent("x form", <<Field("FORM_TYPE", <<"mam">>)>>
        \o (IF f.range = {} THEN <<>> ELSE RangeFilterToFields(The(f.range)))
        \o Fields("with", f.with))

\* Before nothing is the last page: an empty element.
RsmToSet(f) ==
    Parent("set", Leaves("max", Written(f.max))
        \o IF f.range = {} THEN <<>>
           ELSE IF The(f.range).at = "before"
           THEN <<Leaf("before", UnwrapOr(The(f.range).id, ""))>>
           ELSE <<Leaf("after", The(The(f.range).id))>>)

MamQueryToElement(v) ==
    Parent("query mam",
        Each(FilterToForm, SE!SetToSeq(v.filter)) \o Each(RsmToSet, SE!SetToSeq(v.rsm_filter))
        \o IF v.flip_page THEN <<Empty("flip-page", {})>> ELSE <<>>)

FieldOf(form, var) ==
    FirstOf(SelectSeq(form.children, LAMBDA c : AttrOf(c, "var") = {var}))
FieldText(form, var) ==
    UNION {FirstText(c, "value") : c \in FieldOf(form, var)}
FieldTime(form, var) ==
    UNION {ParseOffset(t) : t \in FieldText(form, var)}

FormToFilter(form) ==
    [range |-> CASE FieldTime(form, "start") \cup FieldTime(form, "end") # {} ->
                    {[by |-> "time", start |-> FieldTime(form, "start"),
                      end |-> FieldTime(form, "end")]}
                 [] FieldText(form, "before-id") \cup FieldText(form, "after-id") # {} ->
                    {[by |-> "id", before |-> FieldText(form, "before-id"),
                      after |-> FieldText(form, "after-id")]}
                 [] OTHER -> {[by |-> "ids", ids |-> Each(LAMBDA c : c.text, f.children)] :
                                f \in FieldOf(form, "ids")},
     with |-> FieldText(form, "with")]

SetToRsm(set) ==
    [max |-> UNION {ParseOffset(t) : t \in FirstText(set, "max")},
     range |-> {[at |-> "before", id |-> {t} \ {""}] : t \in FirstText(set, "before")}
               \cup {[at |-> "after", id |-> {t}] : t \in FirstText(set, "after")}]

MamQueryFromElement(e) ==
    {[filter |-> {FormToFilter(c) : c \in FirstOf(Named(e, {"x form"}))},
      rsm_filter |-> {SetToRsm(c) : c \in FirstOf(Named(e, {"set"}))},
      flip_page |-> Named(e, {"flip-page"}) # <<>>]}
=============================================================================
