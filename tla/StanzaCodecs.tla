---------------------------- MODULE StanzaCodecs ----------------------------
(* The round trip of the stanza types: a value is picked, encoded, possibly   *)
(* extended with a child this client does not know or deprived of one, and    *)
(* decoded again.                                                             *)
EXTENDS PayloadTypes

CONSTANT
    Texts           \* texts, the empty one among them

VARIABLES
    codec,          \* the stanza type
    value,          \* the value to send
    wire,           \* option: the element on the wire
    change,         \* the peer added a child we do not know, or left one out
    received        \* option of option: what the parser made of it

vars == <<codec, value, wire, change, received>>

-----------------------------------------------------------------------------
(* Sending and receiving                                                     *)

Ranges == [start : Option(Numbers), end : Option({MaxNumber})]
ForwardedValues == [delay : Option(Numbers), stanza : Option({"m"})]
Invites == [from : Option(FullJids), to : Option(BareJids), reason : Option(Texts)]
References ==
    [type : {"data", "mention"}, uri : Texts, anchor : Option({"a"}),
     begin : Option(Numbers), end : Option({MaxNumber})]
Thumbnails ==
    [uri : Texts, media_type : Option({"image"}), width : Option(Numbers),
     height : Option({MaxNumber})]
Files ==
    [media_type : {"image"}, name : Option(Texts), size : Numbers, desc : Option(Texts),
     duration : Option({1}), hashes : {<<>>, <<"h">>}, thumbnails : UpTo(1, Thumbnails)]
Infos ==
    [bytes : Numbers, width : Option({1}), height : Option({MaxNumber}), id : {"i"},
     type : {"png"}, url : Option(Texts)]
Activities ==
    [general : Generals,
     specific : Option({[name |-> "coding", text |-> {}]}
                       \cup {[name |-> "other", text |-> t] : t \in Option(Texts)})]
Bookmarks ==
    [jid : Jids, autojoin : BOOLEAN, name : Option(Texts), nick : Option({"n"}),
     password : Option({"p"})]
EncryptionKeys == UpTo(2, [device_id : {0, 1}, is_pre_key : BOOLEAN, data : {"k"}])
PreKeys == UpTo(2, [id : Numbers, key : {"k"}])
RangeFilters ==
    [by : {"ids"}, ids : UpTo(2, Texts)]
    \cup {r \in [by : {"time"}, start : Option({0, 1}), end : Option({0, 1})] :
            r.start \cup r.end # {}}
    \cup {r \in [by : {"id"}, before : Option(Texts), after : Option(Texts)] :
            r.before \cup r.after # {}}
RsmRanges == [at : {"before"}, id : Option(Texts)] \cup [at : {"after"}, id : {{t} : t \in Texts}]

Values(name) ==
    CASE name = "marker" -> [marker : {"received chat-markers", "displayed chat-markers",
                                       "acknowledged chat-markers", "origin-id"}, id : Texts]
      [] name = "stanza_id" -> [id : Texts, by : Jids]
      [] name = "reply" -> [id : Texts, to : Option(Jids)]
      [] name = "content" -> [type : Texts, content : Texts]
      [] name = "reactions" -> [id : Texts, reactions : {<<>>, <<"e">>, <<"e", "f">>}]
      [] name = "fallback" -> [for : Option(Texts), subjects : UpTo(1, Ranges),
                               bodies : UpTo(1, Ranges)]
      [] name = "apply_to" -> [id : Texts, clear : BOOLEAN,
                               payloads : {<<>>, <<RetractToElement>>}]
      [] name = "direct_invite" -> [jid : BareJids, password : Option(Texts),
                                    reason : Option(Texts), continue : Option(BOOLEAN),
                                    thread : Option(Texts)]
      [] name = "mediated_invite" -> [invites : UpTo(1, Invites), password : Option(Texts)]
      [] name = "muc_invite" -> [jid : BareJids, affiliation : Affiliations,
                                 reason : Option(Texts)]
      [] name = "sender" -> [jid : Option(Jids), affiliation : Affiliations, role : Roles]
      [] name = "muc_user" -> [status : {<<>>, <<"110">>, <<"201", "110">>},
                               items : {<<>>, <<"i">>},
                               destroy : Option([jid : Option(BareJids), reason : Option(Texts)])]
      [] name = "query" -> [role : {"owner", "admin"},
                            payloads : {<<>>, <<Leaf("item muc#admin", "i"),
                                                Leaf("item muc#admin", "j")>>,
                                        <<Leaf("item muc#user", "i")>>,
                                        <<Leaf("x data-form", "")>>,
                                        <<Empty("destroy", {})>>}]
      [] name = "reference" -> References
      [] name = "oob" -> [url : Texts, desc : Option(Texts)]
      [] name = "media_share" -> [file : Files, sources : UpTo(1, {DataReference("u")})]
      [] name = "metadata" -> [infos : UpTo(1, Infos)]
      [] name = "last_activity" -> [seconds : Numbers, status : Option(Texts)]
      [] name = "user_activity" -> [activity : Option(Activities), text : Option(Texts)]
      [] name = "device_list" -> [devices : UpTo(2, [id : Numbers, label : Option({"l"})])]
      [] name = "archived" -> [id : Texts, query_id : Option(Texts), forwarded : ForwardedValues]
      [] name = "carbon" -> [direction : {"received carbons", "sent carbons"},
                             forwarded : ForwardedValues]
      [] name = "pubsub" -> [from : Jids, events : {<<>>, <<"e">>, <<"e", "f">>}]
      [] name = "participant" -> UserEndpointIds
      [] name \in {"range", "units"} -> [unit : {"utf8", "utf16"}, text : UpTo(2, Chars),
                                         range : (0 .. 9) \X {0, 2, 8}]
      [] name = "settings" -> [room_id : RoomIds, encryption_enabled : BOOLEAN,
                               last_read_message : Option([stanza_id : Texts, timestamp : Numbers])]
      [] name = "user_status" -> [emoji : Texts, status : Option(Texts)]
      [] name = "peer_status" -> [activity : Option(Activities), text : Option(Texts)]
      [] name = "encrypted" ->
            [kind : {"message"}, device_id : Numbers, iv : {"iv"}, keys : EncryptionKeys,
             payload : Texts]
            \cup [kind : {"key_transport"}, device_id : Numbers, iv : {"iv"}, keys : EncryptionKeys]
      [] name = "bundle" -> [device_id : Numbers, identity_key : {"i"}, pre_keys : PreKeys,
                             signed_pre_key : [id : Numbers, key : {"k"}, signature : {"s"}]]
      [] name = "bookmark" -> Bookmarks
      [] name = "storage" -> [conferences : UpTo(1, Bookmarks)]
      [] name = "mam_query" ->
            [filter : Option([range : Option(RangeFilters), with : Option(BareJids)]),
             rsm_filter : Option([range : Option(RsmRanges), max : Option({1})]),
             flip_page : BOOLEAN]

Codecs ==
    {"marker", "stanza_id", "reply", "content", "reactions", "fallback", "apply_to",
     "direct_invite", "mediated_invite", "muc_invite", "sender", "muc_user", "query",
     "reference", "oob", "media_share", "metadata", "last_activity", "user_activity",
     "device_list", "archived", "carbon", "pubsub", "participant", "range", "units",
     "settings", "user_status", "peer_status", "encrypted", "bundle", "bookmark", "storage",
     "mam_query"}

Encode(name, v) ==
    CASE name = "marker" -> MarkerToElement(v)
      [] name = "stanza_id" -> StanzaIdToElement(v)
      [] name = "reply" -> ReplyToElement(v)
      [] name = "content" -> ContentToElement(v)
      [] name = "reactions" -> ReactionsToElement(v)
      [] name = "fallback" -> FallbackToElement(v)
      [] name = "apply_to" -> ApplyToToElement(v)
      [] name = "direct_invite" -> DirectInviteToElement(v)
      [] name = "mediated_invite" -> MediatedInviteToElement(v)
      [] name = "muc_invite" -> MucInviteToElement(v)
      [] name = "sender" -> SenderToElement(v)
      [] name = "muc_user" -> MucUserToElement(v)
      [] name = "query" -> QueryToElement(v)
      [] name = "reference" -> ReferenceToElement(v)
      [] name = "oob" -> OOBToElement(v)
      [] name = "media_share" -> MediaShareToElement(v)
      [] name = "metadata" -> MetadataToElement(v)
      [] name = "last_activity" -> LastActivityToElement(v)
      [] name = "user_activity" -> UserActivityToElement(v)
      [] name = "device_list" -> DeviceListToElement(v)
      [] name = "archived" -> ArchivedMessageToElement(v)
      [] name = "carbon" -> CarbonToElement(v)
      [] name = "pubsub" -> PubSubMessageToElement(v)
      [] name = "participant" -> ParticipantToElement(v)
      [] name = "range" -> RangeToUnits(v)
      [] name = "units" -> UnitsToScalars(v)
      [] name = "settings" -> SettingsToElement(v)
      [] name = "user_status" -> StatusToElement(v)
      [] name = "peer_status" -> UserActivityToElement(v)
      [] name = "encrypted" -> EncryptedToElement(v)
      [] name = "bundle" -> BundleToElement(v)
      [] name = "bookmark" -> BookmarkToItem(v)
      [] name = "storage" -> BookmarksToStorage(v)
      [] name = "mam_query" -> MamQueryToElement(v)

Decode(name, e) ==
    CASE name = "marker" -> ReceivedFromElement(e) \cup DisplayedFromElement(e)
                            \cup AcknowledgedFromElement(e) \cup OriginIdFromElement(e)
      [] name = "stanza_id" -> StanzaIdFromElement(e)
      [] name = "reply" -> ReplyFromElement(e)
      [] name = "content" -> ContentFromElement(e)
      [] name = "reactions" -> ReactionsFromElement(e)
      [] name = "fallback" -> FallbackFromElement(e)
      [] name = "apply_to" -> ApplyToFromElement(e)
      [] name = "direct_invite" -> DirectInviteFromElement(e)
      [] name = "mediated_invite" -> MediatedInviteFromElement(e)
      [] name = "muc_invite" -> MucInviteFromElement(e)
      [] name = "sender" -> SenderFromElement(e)
      [] name = "muc_user" -> MucUserFromElement(e)
      [] name = "query" -> QueryFromElement(e)
      [] name = "reference" -> ReferenceFromElement(e)
      [] name = "oob" -> OOBFromElement(e)
      [] name = "media_share" -> MediaShareFromElement(e)
      [] name = "metadata" -> MetadataFromElement(e)
      [] name = "last_activity" -> LastActivityFromElement(e)
      [] name = "user_activity" -> UserActivityFromElement(e)
      [] name = "device_list" -> DeviceListFromElement(e)
      [] name = "archived" -> ArchivedMessageFromElement(e)
      [] name = "carbon" -> CarbonFromElement(e)
      [] name = "pubsub" -> PubSubMessageFromElement(e)
      [] name = "participant" -> ParticipantFromElement(e)
      [] name = "range" -> UnitsToRange(value, e)
      [] name = "units" -> ScalarsToUnits(value, e)
      [] name = "settings" -> SettingsFromElement(e)
      [] name \in {"user_status", "peer_status"} -> StatusFromElement(e)
      [] name = "encrypted" -> EncryptedFromElement(e)
      [] name = "bundle" -> BundleFromElement(e)
      [] name = "bookmark" -> BookmarkFromItem(e)
      [] name = "storage" -> BookmarksFromStorage(e)
      [] name = "mam_query" -> MamQueryFromElement(e)

Init ==
    /\ codec \in Codecs
    /\ value \in Values(codec)
    /\ wire = {}
    /\ change = "none"
    /\ received = {}

Send ==
    /\ wire = {}
    /\ wire' = {Encode(codec, value)}
    /\ UNCHANGED <<codec, value, change, received>>

\* Elements that are parsed by xmpp_parsers, or that never leave the client.
NotOurs ==
    {"participant", "range", "units", "encrypted", "bundle", "bookmark", "storage", "mam_query"}

\* XMPP allows elements of unknown namespaces anywhere.
Extend ==
    /\ wire # {} /\ received = {} /\ change = "none" /\ codec \notin NotOurs
    /\ wire' = {[e EXCEPT !.children = @ \o <<Empty("unknown", {})>>] : e \in wire}
    /\ change' = "extended"
    /\ UNCHANGED <<codec, value, received>>

\* The types all of whose elements are required.
Complete == {"bundle", "archived", "carbon", "muc_invite", "sender", "media_share"}

\* Another program leaves one of them out.
Drop ==
    /\ wire # {} /\ received = {} /\ change = "none" /\ codec \in Complete
    /\ \E i \in DOMAIN The(wire).children :
        wire' = {[e EXCEPT !.children = SE!RemoveAt(@, i)] : e \in wire}
    /\ change' = "dropped"
    /\ UNCHANGED <<codec, value, received>>

Receive ==
    /\ wire # {} /\ received = {}
    /\ received' = {Decode(codec, The(wire))}
    /\ UNCHANGED <<codec, value, wire, change>>

Next == Send \/ Extend \/ Drop \/ Receive

Spec == Init /\ [][Next]_vars

-----------------------------------------------------------------------------
(* Properties                                                                *)

\* What the XML form cannot tell apart: an explicit `continue="false"`, empty
\* texts that the parsers read as missing, the page before no message and
\* before one with an empty id. A status without a text gets the name of its
\* category, and a storage of bookmarks keeps bare addresses.
Normalised(name, v) ==
    CASE name = "direct_invite" -> [v EXCEPT !.continue = @ \ {FALSE}]
      [] name = "muc_invite" -> [v EXCEPT !.reason = @ \ {""}]
      [] name = "last_activity" -> [v EXCEPT !.status = @ \ {""}]
      [] name = "media_share" -> [v EXCEPT !.file.desc = @ \ {""}]
      [] name = "user_activity" ->
            [v EXCEPT !.activity =
                {[a EXCEPT !.specific = {[s EXCEPT !.text = @ \ {""}] : s \in @}] : a \in @}]
      [] name = "participant" ->
            [participant |-> IF v.kind = "occupant" THEN v
                             ELSE [kind |-> "user", jid |-> BareOf(v.jid)],
             room |-> EndpointToRoomId(v)]
      [] name \in {"range", "units"} -> v.range
      [] name = "user_status" -> [v EXCEPT !.status = Or(@, {"undefined"})]
      [] name = "peer_status" ->
            [emoji |-> IF The(The(v.activity).specific).name = "other"
                       THEN The(The(The(v.activity).specific).text) ELSE "emoji of coding",
             status |-> Or(v.text, {The(v.activity).general})]
      [] name = "storage" -> [v EXCEPT !.conferences = Each(LAMBDA b : [b EXCEPT !.jid = BareOf(@)], @)]
      [] name = "mam_query" ->
            [v EXCEPT !.rsm_filter =
                {[f EXCEPT !.range = {IF r.at = "before" THEN [r EXCEPT !.id = @ \ {""}] ELSE r :
                                        r \in @}] : f \in @}]
      [] OTHER -> v

\* The positions between two characters.
Boundaries(unit, text) ==
    {Sum(unit, text, n) : n \in 0 .. Len(text)}

\* Values the parsers refuse: an invitation of nobody, a file without a source,
\* positions outside the text or inside a character, and activities without an
\* emoji; and two queries that only ever go to the server, the one that destroys a
\* room and the one for its users, whose item is written in muc#user.
Refused(name, v) ==
    \/ name = "mediated_invite" /\ v.invites = <<>>
    \/ name = "media_share" /\ v.sources = <<>>
    \/ name = "query" /\ v.payloads \in {<<Empty("destroy", {})>>, <<Leaf("item muc#user", "i")>>}
    \/ name = "range" /\ \E i \in 1 .. 2 : v.range[i] > Len(v.text)
    \/ name = "units" /\ \E i \in 1 .. 2 : v.range[i] \notin Boundaries(v.unit, v.text)
    \/ name = "user_status" /\ v.emoji = ""
    \/ name = "peer_status" /\ UNION {a.specific : a \in v.activity}
                                    \subseteq [name : {"other"}, text : {{}, {""}}]

\* What a value is read as.
Expected ==
    IF Refused(codec, value) THEN {} ELSE {Normalised(codec, value)}

\* The parsers that fail on, or keep, a child they do not know.
Strict ==
    {"reactions", "muc_user", "query", "metadata", "user_activity", "device_list",
     "user_status", "peer_status"}

\* Every variable holds a value of its type.
TypeOK ==
    /\ codec \in Codecs
    /\ change \in {"none", "extended", "dropped"}
    /\ \A e \in wire : \A a, b \in e.attrs : a[1] = b[1] => a = b

\* What one client writes is what another client of this code reads, or refuses
\* if it is `Refused`: every `TryFrom<Element>` inverts its `From`, up to
\* `Normalised`; so do the texts of the identifiers (`to_raw_key_string`,
\* `from_str`) and the conversions of positions in a text (`to_scalar_index`,
\* `to_utf8_index`, `to_utf16_index`), and a participant is in the room of the
\* endpoint it was made from (`to_room_id`).
RoundTrip ==
    received # {} /\ change = "none" => received = {Expected}

\* A child of another namespace, which XMPP permits anywhere, changes nothing for
\* the lenient parsers and makes the strict ones fail rather than misread.
UnknownIgnored ==
    received # {} /\ change = "extended" =>
        CASE codec \in Strict -> received = {{}}
          [] codec = "apply_to" ->
                \A f \in The(received) : HasRetract(f) = HasRetract(value)
          [] OTHER -> received = {Expected}

\* A bundle without one of its keys, a result without its message, an invitation
\* or a sender without its item, a file without its sources: an error, never a
\* value with something missing.
IncompleteRefused ==
    received # {} /\ change = "dropped" => received = {{}}
=============================================================================
