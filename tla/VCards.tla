------------------------------- MODULE VCards -------------------------------
(* The two vCard formats of prose-xmpp (src/stanza/vcard.rs, XEP-0054, and    *)
(* src/stanza/vcard4.rs, XEP-0292) and the conversions between them and the   *)
(* profile of prose-core-client (type_conversions/user_profile.rs).           *)
(*                                                                            *)
(* Texts are strings of at most MaxParts words; a word is a member of Words.  *)
(* Only blanks and commas matter to the code: they separate the words.        *)
EXTENDS Elements

CONSTANT
    Words           \* words, without blanks and commas

FS == INSTANCE FiniteSetsExt

MaxParts == 3

\* The texts `Url::parse` accepts; `strip_prefix("tel:")`; base64 that cannot be
\* decoded.
Urls == {"https:x", "tel:1"}

StripTel(uri) ==
    IF uri = "tel:1" THEN "1" ELSE uri

Undecodable == {"?"}

Join(parts, sep) ==
    parts[1] \o (IF Len(parts) > 1 THEN sep \o parts[2] ELSE "")
             \o (IF Len(parts) > 2 THEN sep \o parts[3] ELSE "")

\* `str::split`: the parts may be empty, the list is not.
SplitAt ==
    LET Parts == UpTo(MaxParts, Words \cup {""}) \ {<<>>}
    IN  [sep \in {" ", ","} |->
            [text \in {Join(parts, sep) : parts \in Parts} |->
                CHOOSE parts \in Parts : Join(parts, sep) = text]]

Split(text, sep) ==
    SplitAt[sep][text]

Trim(text) ==
    LET parts == Split(text, " ")
        full == {i \in DOMAIN parts : parts[i] # ""}
    IN  IF full = {}
        THEN ""
        ELSE Join(SubSeq(parts, FS!Min(full), FS!Max(full)), " ")

trimmed_string(option) ==
    {Trim(text) : text \in option} \ {""}

-----------------------------------------------------------------------------
(* vcard.rs. Every loop over the children overwrites an optional value and    *)
(* appends to a list.                                                         *)

\* `child.non_empty_text()` of the last child of that name
LastNonEmpty(e, name) ==
    LastText(e, name) \ {""}

\* The optional texts `names` of an element, in the order they are written.
TextsToElements(value, names) ==
    Flattened([i \in DOMAIN names |-> Leaves(names[i], value[names[i]])])

TextsOfElement(e, names) ==
    [name \in {names[i] : i \in DOMAIN names} |-> LastNonEmpty(e, name)]

\* Types are written as empty elements; names that are no type are skipped.
TypesToElements(types) ==
    Each(LAMBDA t : Empty(t, {}), types)

TypesOfElement(e, known) ==
    Each(LAMBDA c : c.name, Named(e, known))

NameFields == <<"FAMILY", "GIVEN", "MIDDLE", "PREFIX", "SUFFIX">>
AddressFields == <<"POBOX", "EXTADD", "STREET", "LOCALITY", "REGION", "PCODE", "CTRY">>

AddressTypes == {"HOME", "WORK", "POSTAL", "PARCEL", "DOM", "INTL", "PREF"}
TelTypes ==
    {"HOME", "WORK", "VOICE", "FAX", "PAGER", "MSG", "CELL", "VIDEO", "BBS", "MODEM",
     "ISDN", "PCS", "PREF"}
EmailTypes == {"HOME", "WORK", "INTERNET", "PREF", "X400"}
Classes == {"PUBLIC", "PRIVATE", "CONFIDENTIAL"}

NameToElement(name) ==
    Parent("N", TextsToElements(name, NameFields))

NameFromElement(e) ==
    IfNamed(e, "N", {TextsOfElement(e, NameFields)})

\* An image is data of a media type, or the address of one.
Binary(type, data) == [kind |-> "binary", type |-> type, data |-> data]
External(url) == [kind |-> "external", type |-> "", data |-> url]

ImageToElement(image) ==
    Parent("PHOTO", IF image.kind = "binary"
                    THEN <<Leaf("BINVAL", image.data), Leaf("TYPE", image.type)>>
                    ELSE <<Leaf("EXTVAL", image.data)>>)

\* The data may be wrapped: blanks are dropped.
ImageFromElement(e) ==
    LET type == LastText(e, "TYPE")
        binval == {Join(Split(text, " "), "") : text \in LastText(e, "BINVAL")}
        extval == LastText(e, "EXTVAL")
    IN  IF type # {} /\ binval # {}
        THEN {Binary(The(type), The(binval))}
        ELSE {External(url) : url \in extval}

AddressToElement(adr) ==
    Parent("ADR", TypesToElements(adr.types) \o TextsToElements(adr.texts, AddressFields))

AddressFromElement(e) ==
    IfNamed(e, "ADR", {[types |-> TypesOfElement(e, AddressTypes),
                         texts |-> TextsOfElement(e, AddressFields)]})

LabelToElement(label) ==
    Parent("LABEL", Each(LAMBDA l : Leaf("LINE", l), label.lines)
                    \o TypesToElements(label.types))

LabelFromElement(e) ==
    IfNamed(e, "LABEL", {[lines |-> Each(LAMBDA c : c.text, Named(e, {"LINE"})),
                           types |-> TypesOfElement(e, AddressTypes)]})

TelephoneToElement(tel) ==
    Parent("TEL", TypesToElements(tel.types) \o <<Leaf("NUMBER", tel.number)>>)

TelephoneFromElement(e) ==
    IfNamed(e, "TEL", {[types |-> TypesOfElement(e, TelTypes),
                         number |-> UnwrapOr(LastText(e, "NUMBER"), "")]})

EmailToElement(email) ==
    Parent("EMAIL", TypesToElements(email.types) \o <<Leaf("USERID", email.userid)>>)

EmailFromElement(e) ==
    IfNamed(e, "EMAIL", {[types |-> TypesOfElement(e, EmailTypes), userid |-> userid] :
                            userid \in LastText(e, "USERID")})

MaxDegree == 2

GeoToElement(geo) ==
    Parent("GEO", <<Leaf("LAT", ToString(geo.lat)), Leaf("LON", ToString(geo.lon))>>)

GeoFromElement(e) ==
    LET Degree(name) == UNION {ParseNumber(t, MaxDegree) : t \in FirstText(e, name)}
    IN  [lat : Degree("LAT"), lon : Degree("LON")]

\* An agent is an address, or a vCard of its own (here the empty one). The card
\* is read from the AGENT element itself, which is not a vCard: an error.
AgentToElement(agent) ==
    Parent("AGENT", IF agent = "vcard" THEN <<Empty("vCard", {})>> ELSE <<Leaf("EXTVAL", agent)>>)

AgentFromElement(e) ==
    IF AttrOf(e, "TYPE") = {"vCard"} THEN IfNamed(e, "vCard", {"vcard"}) ELSE {e.text}

OrganizationToElement(org) ==
    Parent("ORG", <<Leaf("ORGNAME", org.name)>> \o Each(LAMBDA u : Leaf("ORGUNIT", u), org.units))

OrganizationFromElement(e) ==
    LET units == SelectSeq(Named(e, {"ORGUNIT"}), LAMBDA c : c.text # "")
    IN  IfNamed(e, "ORG", {[name |-> name, units |-> Each(LAMBDA c : c.text, units)] :
                                name \in LastText(e, "ORGNAME")})

SoundToElement(sound) ==
    Parent("SOUND", <<Leaf(CASE sound.kind = "phonetic" -> "PHONETIC"
                             [] sound.kind = "binary" -> "BINVAL"
                             [] OTHER -> "EXTVAL", sound.data)>>)

SoundFromElement(e) ==
    {[kind |-> CASE AttrOf(e, "ENCODING") = {"BASE64"} -> "binary"
                 [] AttrOf(e, "ENCODING") = {"PHONETIC"} -> "phonetic"
                 [] OTHER -> "external",
      data |-> e.text]}

KeyToElement(key) ==
    Parent("KEY", Leaves("TYPE", key.type) \o <<Leaf("CRED", key.cred)>>)

KeyFromElement(e) ==
    {[type |-> AttrOf(e, "TYPE"), cred |-> e.text]}

\* The optional texts of a card.
TextFields ==
    <<"FN", "NICKNAME", "BDAY", "JABBERID", "MAILER", "TZ", "TITLE", "ROLE", "NOTE",
      "PRODID", "REV", "SORT-STRING", "UID", "URL", "DESC">>

NoCard ==
    [texts |-> [name \in {TextFields[i] : i \in DOMAIN TextFields} |-> {}],
     n |-> {}, photo |-> {}, adr |-> <<>>, label |-> <<>>, tel |-> <<>>, email |-> <<>>,
     geo |-> {}, logo |-> {}, agent |-> {}, org |-> {}, categories |-> <<>>, sound |-> {},
     key |-> {}, class |-> {}]

Optional(option, ToElement(_)) ==
    IF option = {} THEN <<>> ELSE <<ToElement(The(option))>>

\* The children come in a fixed order the reader does not depend on: here the
\* texts are first.
VCardToElement(card) ==
    Parent("vCard",
        TextsToElements(card.texts, TextFields)
        \o Optional(card.n, NameToElement)
        \o Optional(card.photo, ImageToElement)
        \o Each(AddressToElement, card.adr)
        \o Each(LabelToElement, card.label)
        \o Each(TelephoneToElement, card.tel)
        \o Each(EmailToElement, card.email)
        \o Optional(card.geo, GeoToElement)
        \o Optional(card.logo, ImageToElement)
        \o Optional(card.agent, AgentToElement)
        \o Optional(card.org, OrganizationToElement)
        \o (IF card.categories = <<>> THEN <<>>
            ELSE <<Leaf("CATEGORIES", Join(card.categories, ","))>>)
        \o Optional(card.sound, SoundToElement)
        \o Optional(card.key, KeyToElement)
        \o Optional(card.class, LAMBDA c : Empty(c, {})))

\* One malformed child fails the whole card.
VCardFromElement(e) ==
    LET All(name, Parse(_)) == Collected(Parse, Named(e, {name}))
        Last(name, Parse(_)) == {LastOf(values) : values \in All(name, Parse)}
        categories == LastText(e, "CATEGORIES")
        HasNumber(tel) == tel.number # ""
        HasUser(email) == email.userid # ""
    IN  IfNamed(e, "vCard",
            [texts : {TextsOfElement(e, TextFields)},
             n : Last("N", NameFromElement),
             photo : Last("PHOTO", ImageFromElement),
             adr : All("ADR", AddressFromElement),
             label : All("LABEL", LabelFromElement),
             tel : {SelectSeq(tels, HasNumber) : tels \in All("TEL", TelephoneFromElement)},
             email : {SelectSeq(mails, HasUser) : mails \in All("EMAIL", EmailFromElement)},
             geo : Last("GEO", GeoFromElement),
             logo : Last("LOGO", ImageFromElement),
             agent : Last("AGENT", AgentFromElement),
             org : Last("ORG", OrganizationFromElement),
             categories : {IF categories = {} THEN <<>> ELSE Split(The(categories), ",")},
             sound : Last("SOUND", SoundFromElement),
             key : Last("KEY", KeyFromElement),
             class : {LastOf(TypesOfElement(e, Classes))}])

-----------------------------------------------------------------------------
(* vcard4.rs. Every value is a list; a value is a child `text` or `uri`.      *)

ValueNames ==
    [email |-> "text", fn |-> "text", impp |-> "uri", nickname |-> "text", note |-> "text",
     org |-> "text", role |-> "text", title |-> "text", tel |-> "text", url |-> "uri"]

Name4Fields == <<"given", "surname", "additional">>
AdrFields == <<"code", "country", "ext", "locality", "pobox", "region", "street">>

NoAdr == [field \in {AdrFields[i] : i \in DOMAIN AdrFields} |-> <<>>]
NoCard4 == [values |-> [field \in DOMAIN ValueNames |-> <<>>], n |-> <<>>, adr |-> <<>>]

append_all_strings(texts, name) ==
    Each(LAMBDA t : Leaf(name, t), texts)

append_all_values(texts, name, valueName) ==
    Each(LAMBDA t : Parent(name, <<Leaf(valueName, t)>>), texts)

text_value(e) ==
    FirstText(e, "text")

uri_value(e) ==
    FirstText(e, "uri")

Name4ToElement(name) ==
    Parent("n", TextsToElements(name, Name4Fields))

Name4FromElement(e) ==
    IfNamed(e, "n", {[field \in {"given", "surname", "additional"} |-> LastText(e, field)]})

AdrToElement(adr) ==
    Parent("adr", Flattened([i \in DOMAIN AdrFields |->
                                append_all_strings(adr[AdrFields[i]], AdrFields[i])]))

AdrFromElement(e) ==
    {[field \in DOMAIN NoAdr |-> Each(LAMBDA c : c.text, Named(e, {field}))]}

VCard4ToElement(card) ==
    LET Values(field) == append_all_values(card.values[field], field, ValueNames[field])
    IN  Parent("vcard",
            Each(AdrToElement, card.adr) \o Values("email") \o Values("fn")
            \o Each(Name4ToElement, card.n) \o Values("impp") \o Values("nickname")
            \o Values("note") \o Values("org") \o Values("role") \o Values("title")
            \o Values("tel") \o Values("url"))

\* A phone number may also be a `tel:` uri.
ValueFromElement(e) ==
    CASE e.name = "tel" -> Or(text_value(e), {StripTel(uri) : uri \in uri_value(e)})
      [] ValueNames[e.name] = "uri" -> uri_value(e)
      [] OTHER -> text_value(e)

VCard4FromElement(e) ==
    LET values == [field \in DOMAIN ValueNames |->
                    Collected(ValueFromElement, Named(e, {field}))]
    IN  IF \E field \in DOMAIN ValueNames : values[field] = {}
        THEN {}
        ELSE IfNamed(e, "vcard",
                [values : {[field \in DOMAIN ValueNames |-> The(values[field])]},
                 n : Collected(Name4FromElement, Named(e, {"n"})),
                 adr : Collected(AdrFromElement, Named(e, {"adr"}))])

-----------------------------------------------------------------------------
(* user_profile.rs. A profile has optional texts, an optional url, an optional *)
(* address and an optional photo.                                              *)

\* `format!("{} {}", first_name, last_name)`, when there are both
FullName(first, last) ==
    {f \o " " \o l : f \in first, l \in last}

\* Mutant: the full name comes first.
NamesOfFullName(given, family, full) ==
    IF full = {}
    THEN <<given, family>>
    ELSE LET parts == Split(The(full), " ")
         IN  <<FirstOf(parts), FirstOf(SubSeq(parts, 2, Len(parts)))>>

\* The structured name when it has a part, else the first two words of the full
\* name.
NamesOf(given, family, full) ==
    IF given # {} \/ family # {}
    THEN <<given, family>>
    ELSE LET parts == UnwrapOr({Split(text, " ") : text \in full}, <<>>)
         IN  <<FirstOf(parts), FirstOf(SubSeq(parts, 2, Len(parts)))>>

\* `Url::parse(..).ok()`
ParseUrl(text) ==
    {text} \cap Urls

ProfileOfVCard(card) ==
    LET name == UnwrapOr(card.n, [GIVEN |-> {}, FAMILY |-> {}])
        names == NamesOf(name.GIVEN, name.FAMILY, card.texts["FN"])
        Photo(image) ==
            IF image.kind = "binary"
            THEN IF image.data \in Undecodable THEN {} ELSE {image}
            ELSE {External(url) : url \in ParseUrl(image.data)}
    IN  [first_name |-> trimmed_string(names[1]),
         last_name |-> trimmed_string(names[2]),
         nickname |-> trimmed_string(card.texts["NICKNAME"]),
         org |-> trimmed_string({org.name : org \in card.org}),
         role |-> trimmed_string(card.texts["ROLE"]),
         title |-> trimmed_string(card.texts["TITLE"]),
         email |-> trimmed_string({email.userid : email \in FirstOf(card.email)}),
         tel |-> trimmed_string({tel.number : tel \in FirstOf(card.tel)}),
         url |-> UNION {ParseUrl(url) : url \in card.texts["URL"]},
         address |-> {[locality |-> trimmed_string(adr.texts["LOCALITY"]),
                       country |-> trimmed_string(adr.texts["CTRY"])] :
                            adr \in FirstOf(card.adr)},
         photo |-> UNION {Photo(image) : image \in card.photo}]

ProfileOfVCard4(card) ==
    LET name == UnwrapOr(FirstOf(card.n), [given |-> {}, surname |-> {}])
        names == NamesOf(name.given, name.surname, FirstOf(card.values["fn"]))
        Value(field) == trimmed_string(FirstOf(card.values[field]))
    IN  [first_name |-> trimmed_string(names[1]),
         last_name |-> trimmed_string(names[2]),
         nickname |-> Value("nickname"),
         org |-> Value("org"),
         role |-> Value("role"),
         title |-> Value("title"),
         email |-> Value("email"),
         tel |-> Value("tel"),
         url |-> UNION {ParseUrl(url) : url \in FirstOf(card.values["url"])},
         address |-> {[locality |-> trimmed_string(FirstOf(adr["locality"])),
                       country |-> trimmed_string(FirstOf(adr["country"]))] :
                            adr \in FirstOf(card.adr)},
         photo |-> {}]

\* `if let Some(value) = .. { list.push(value) }`
Pushed(option) ==
    IF option = {} THEN <<>> ELSE <<The(option)>>

VCard4OfProfile(profile) ==
    LET first == trimmed_string(profile.first_name)
        last == trimmed_string(profile.last_name)
    IN  [values |-> [email |-> Pushed(trimmed_string(profile.email)),
                     fn |-> Pushed(FullName(first, last)),
                     impp |-> <<>>,
                     nickname |-> Pushed(trimmed_string(profile.nickname)),
                     note |-> <<>>,
                     org |-> Pushed(trimmed_string(profile.org)),
                     role |-> Pushed(trimmed_string(profile.role)),
                     title |-> Pushed(trimmed_string(profile.title)),
                     tel |-> Pushed(trimmed_string(profile.tel)),
                     url |-> Pushed(profile.url)],
         n |-> IF first = {} /\ last = {}
               THEN <<>>
               ELSE <<[surname |-> last, given |-> first, additional |-> {}]>>,
         adr |-> Pushed({[NoAdr EXCEPT !["locality"] = Pushed(trimmed_string(a.locality)),
                                       !["country"] = Pushed(trimmed_string(a.country))] :
                            a \in profile.address})]

VCardOfProfile(profile) ==
    LET first == trimmed_string(profile.first_name)
        last == trimmed_string(profile.last_name)
        NoTexts == [field \in {AddressFields[i] : i \in DOMAIN AddressFields} |-> {}]
    IN  [NoCard EXCEPT
            !.texts["FN"] = FullName(first, last),
            !.n = IF first = {} /\ last = {}
                  THEN {}
                  ELSE {[FAMILY |-> last, GIVEN |-> first, MIDDLE |-> {}, PREFIX |-> {},
                         SUFFIX |-> {}]},
            !.texts["NICKNAME"] = trimmed_string(profile.nickname),
            !.org = {[name |-> org, units |-> <<>>] : org \in trimmed_string(profile.org)},
            !.texts["ROLE"] = trimmed_string(profile.role),
            !.texts["TITLE"] = trimmed_string(profile.title),
            !.email = Pushed({[types |-> <<>>, userid |-> email] :
                                email \in trimmed_string(profile.email)}),
            !.tel = Pushed({[types |-> <<>>, number |-> tel] :
                                tel \in trimmed_string(profile.tel)}),
            !.texts["URL"] = profile.url,
            !.adr = Pushed({[types |-> <<>>,
                             texts |-> [NoTexts EXCEPT
                                            !["LOCALITY"] = trimmed_string(a.locality),
                                            !["CTRY"] = trimmed_string(a.country)]] :
                                a \in profile.address})]
=============================================================================
