------------------------------ MODULE Profiles ------------------------------
(* A profile travels from one client to another: prose-xmpp's                 *)
(* src/mods/profile.rs publishes it in both vCard formats, and reads it from  *)
(* a push of the PEP node, from a query of the node, or as a vcard-temp. The  *)
(* server is external. The cards may also be those of another program.        *)
EXTENDS VCards

VARIABLES
    input,          \* [kind, value]: a profile, a card or a card4 to publish
    node,           \* the items of the server's vcard4 node: elements
    temp,           \* option: the server's vcard-temp element
    push,           \* option: the pubsub event on its way, its items
    touched,        \* what another program did to the stored cards
    received        \* [via -> option of option of [card, profile]]

vars == <<input, node, temp, push, touched, received>>

Kinds == {"profile", "card", "card4"}
Vias == {"push", "node", "temp"}

-----------------------------------------------------------------------------
(* Inputs                                                                     *)

Texts == {"", " ", "a", " b "}

Names ==
    {{}, {""}, {" "}, {"a"}, {" b "}, {"a b"}}

NoProfile ==
    [first_name |-> {}, last_name |-> {}, nickname |-> {}, org |-> {}, role |-> {},
     title |-> {}, email |-> {}, tel |-> {}, url |-> {}, address |-> {}, photo |-> {}]

Addresses ==
    [locality : Option({"a", " ", " b "}), country : Option({"", "b"})]

Photos ==
    {Binary("png", "a"), Binary("png", "?"), External("https:x"), External("b")}

\* A profile with any two names, any two values of the other fields.
ProfileValues(field) ==
    CASE field = "url" -> Option(Urls)
      [] field = "address" -> Option(Addresses)
      [] field = "photo" -> Option({Binary("png", "a"), External("https:x")})
      [] OTHER -> Option(Texts)

ProfileInputs ==
    UNION {{[NoProfile EXCEPT !.first_name = first, !.last_name = last, ![field] = v] :
                first \in Names, last \in Names, v \in ProfileValues(field)} :
            field \in DOMAIN NoProfile \ {"first_name", "last_name"}}

NamesOfFields(fields) ==
    {fields[i] : i \in DOMAIN fields}

\* [fields -> {}] with one of the fields set
OneText(fields, texts) ==
    {[f \in NamesOfFields(fields) |-> IF f = field THEN {t} ELSE {}] :
        field \in NamesOfFields(fields), t \in texts}

CardValues(field) ==
    CASE field = "texts" -> OneText(TextFields, {"", "a", "a b", " "})
      [] field = "n" -> Option(OneText(NameFields, {"", "a", " "}))
      [] field \in {"photo", "logo"} -> Option(Photos)
      [] field = "adr" ->
            UpTo(1, [types : UpTo(1, AddressTypes), texts : OneText(AddressFields, {"", "b"})])
      [] field = "label" ->
            UpTo(1, [lines : UpTo(2, {"", "a"}), types : UpTo(1, AddressTypes)])
      [] field = "tel" -> UpTo(2, [types : UpTo(1, {"HOME", "CELL"}), number : {"", "1"}])
      [] field = "email" -> UpTo(2, [types : UpTo(1, {"X400", "PREF"}), userid : {"", "a"}])
      [] field = "geo" -> Option([lat : 0 .. MaxDegree, lon : 0 .. MaxDegree])
      [] field = "agent" -> Option({"vcard", "a"})
      [] field = "org" -> Option([name : {"", "a"}, units : UpTo(2, {"", "b"})])
      [] field = "categories" -> UpTo(MaxParts, {"", "a"})
      [] field = "sound" -> Option([kind : {"phonetic", "binary", "external"}, data : {"", "a"}])
      [] field = "key" -> Option([type : Option({"a"}), cred : {"", "b"}])
      [] field = "class" -> Option(Classes)

\* Cards with one field set, or with it and a full name or a photo.
CardInputs ==
    UNION {UNION {{[NoCard EXCEPT ![field] = v],
                   [[NoCard EXCEPT !.texts["FN"] = {"a b"}] EXCEPT ![field] = v],
                   [[NoCard EXCEPT !.photo = {Binary("png", "a")}] EXCEPT ![field] = v]} :
                v \in CardValues(field)} :
            field \in DOMAIN NoCard}

Card4Inputs ==
    UNION {{[NoCard4 EXCEPT !.values[field] = v] :
                v \in UpTo(2, {"", "a", " ", "a b", "tel:1"})} :
            field \in DOMAIN ValueNames}
    \cup {[NoCard4 EXCEPT !.values["fn"] = full, !.n = n] :
            full \in {<<>>, <<"a b">>, <<"a", "b">>},
            n \in UpTo(2, OneText(Name4Fields, {"", "a"}))}
    \cup {[NoCard4 EXCEPT !.adr = UpToTwo] :
            UpToTwo \in UpTo(2, {[NoAdr EXCEPT ![field] = v] :
                                    field \in DOMAIN NoAdr, v \in UpTo(2, {"", "a"})})}

-----------------------------------------------------------------------------
(* src/mods/profile.rs                                                        *)

Init ==
    /\ \/ input \in [kind : {"profile"}, value : ProfileInputs]
       \/ input \in [kind : {"card"}, value : CardInputs]
       \/ input \in [kind : {"card4"}, value : Card4Inputs]
    /\ node = <<>> /\ temp = {} /\ push = {}
    /\ touched = "nothing"
    /\ received = [via \in Vias |-> {}]

\* `publish_vcard4`: the item's id is the account, so it replaces the one before.
publish_vcard4 ==
    /\ node = <<>> /\ input.kind # "card"
    /\ LET card == IF input.kind = "profile" THEN VCard4OfProfile(input.value) ELSE input.value
       IN  node' = <<VCard4ToElement(card)>>
    /\ push' = {node'}
    /\ UNCHANGED <<input, temp, touched, received>>

publish_vcard_temp ==
    /\ temp = {} /\ input.kind # "card4"
    /\ LET card == IF input.kind = "profile" THEN VCardOfProfile(input.value) ELSE input.value
       IN  temp' = {VCardToElement(card)}
    /\ UNCHANGED <<input, node, push, touched, received>>

\* `unpublish_vcard`: the notification lists the retracted items without payload.
unpublish_vcard ==
    /\ node # <<>> /\ push = {} /\ touched = "nothing"
    /\ node' = <<>>
    /\ push' = {<<>>}
    /\ UNCHANGED <<input, temp, touched, received>>

Results ==
    UNION {received[via] : via \in Vias}

\* Other programs write elements this client does not know, or leave out the
\* value of one it does.
Touch(how) ==
    LET With(e, child) == [e EXCEPT !.children = @ \o <<child>>]
    IN  /\ touched = "nothing" /\ Results = {}
        /\ node # <<>> \/ input.kind = "card"
        /\ temp # {} \/ input.kind = "card4"
        /\ touched' = how
        /\ node' = Each(LAMBDA e : With(e, Empty(IF how = "broken" THEN "fn" ELSE "x", {})), node)
        /\ push' = IF push # {} /\ The(push) # <<>> THEN {node'} ELSE push
        /\ temp' = {With(e, Empty(IF how = "broken" THEN "EMAIL" ELSE "X", {})) : e \in temp}
        /\ UNCHANGED <<input, received>>

Got(via, result) ==
    received' = [received EXCEPT ![via] = {result}]

Read4(e) ==
    {[card |-> card, profile |-> ProfileOfVCard4(card)] : card \in VCard4FromElement(e)}

\* `handle_pubsub_event` with the first item; events without items, and retracted
\* items, are ignored.
handle_pubsub_event ==
    /\ push # {}
    /\ push' = {}
    /\ IF The(push) = <<>> THEN UNCHANGED received ELSE Got("push", Read4(The(push)[1]))
    /\ UNCHANGED <<input, node, temp, touched>>

\* `load_vcard4` takes the last item of the answer.
load_vcard4 ==
    /\ node # <<>> /\ received["node"] = {}
    /\ Got("node", Read4(node[Len(node)]))
    /\ UNCHANGED <<input, node, temp, push, touched>>

load_vcard_temp ==
    /\ temp # {} /\ received["temp"] = {}
    /\ Got("temp", {[card |-> card, profile |-> ProfileOfVCard(card)] :
                        card \in VCardFromElement(The(temp))})
    /\ UNCHANGED <<input, node, temp, push, touched>>

Next ==
    \/ publish_vcard4 \/ publish_vcard_temp \/ unpublish_vcard
    \/ \E how \in {"extended", "broken"} : Touch(how)
    \/ handle_pubsub_event \/ load_vcard4 \/ load_vcard_temp

Spec == Init /\ [][Next]_vars

-----------------------------------------------------------------------------
(* Properties                                                                 *)

\* Every variable holds a value of its type.
TypeOK ==
    /\ input.kind \in Kinds
    /\ Len(node) <= 1 /\ (\A e \in temp : e.name = "vCard")
    /\ \A result \in Results : \A r \in result :
            /\ DOMAIN r.profile = DOMAIN NoProfile
            /\ \A field \in DOMAIN NoProfile : \A v, w \in r.profile[field] : v = w

\* The profile another user sees is the one that was entered, with its texts
\* trimmed, whichever of the two formats it is read from and whether or not a
\* program added elements to it: `UserProfile::try_from` inverts both `From`s.
\* The photo is not part of it.
ProfileArrives ==
    LET Trimmed(p) ==
            [field \in DOMAIN p |->
                CASE field = "photo" -> {}
                  [] field = "url" -> p.url
                  [] field = "address" -> {[locality |-> trimmed_string(a.locality),
                                            country |-> trimmed_string(a.country)] :
                                                a \in p.address}
                  [] OTHER -> trimmed_string(p[field])]
    IN  input.kind = "profile" /\ touched # "broken" =>
            \A result \in Results : {r.profile : r \in result} = {Trimmed(input.value)}

\* What a card cannot express in the XML this client writes: empty optional texts,
\* phone numbers, addresses and units, and the list of one empty category.
NormalCard(card) ==
    LET NonEmpty(texts) == [f \in DOMAIN texts |-> texts[f] \ {""}]
    IN  [card EXCEPT
            !.texts = NonEmpty(@),
            !.n = {NonEmpty(n) : n \in @},
            !.adr = Each(LAMBDA a : [a EXCEPT !.texts = NonEmpty(@)], @),
            !.tel = SelectSeq(@, LAMBDA t : t.number # ""),
            !.email = SelectSeq(@, LAMBDA m : m.userid # ""),
            !.org = {[o EXCEPT !.units = SelectSeq(@, LAMBDA u : u # "")] : o \in @}]

\* A card another user of this library writes is read as it was written, in both
\* formats, except for the four fields whose `From` and `TryFrom` do not fit.
CardArrives ==
    LET expected == IF input.kind = "card" THEN NormalCard(input.value) ELSE input.value
        readable == input.kind = "card" =>
                        /\ input.value.logo = {} /\ input.value.agent = {}
                        /\ input.value.sound = {} /\ input.value.key = {}
    IN  input.kind # "profile" /\ readable /\ touched # "broken" =>
            \A result \in Results : {r.card : r \in result} = {expected}

\* A malformed card is an error and never a profile with fields missing, which
\* would be stored in place of the complete one.
BrokenIsRefused ==
    touched = "broken" => Results \subseteq {{}}

\* Whatever a card holds, no text of a profile is blank: names are shown as they are.
NoBlankTexts ==
    \A result \in Results : \A r \in result :
        /\ \A field \in DOMAIN NoProfile \ {"url", "address", "photo"} :
                \A text \in r.profile[field] : text # "" /\ Trim(text) = text
        /\ \A a \in r.profile.address : "" \notin a.locality \cup a.country
=============================================================================
