------------------------------ MODULE RoomSpecs ------------------------------
(***************************************************************************)
(* How a kind of room (RoomSpec) becomes a configuration of the server and  *)
(* is recognised again: the form of the server is filled out                *)
(* (populate_form, FormConfig), the server answers with the features it now *)
(* has (RoomInfo), these are held against the spec (validate_against), and  *)
(* whoever joins the room finds its type from the same features             *)
(* (load_room_config).                                                      *)
(*                                                                          *)
(* The server (external) offers some of the fields, keeps its own default   *)
(* for the others, and publishes what it was told.                          *)
(***************************************************************************)
EXTENDS Naturals, Sequences, FiniteSets, SequencesExt

CONSTANTS
    Flags,          \* the Boolean settings of a room that decide its type
    OddTypes        \* types the server may give to one of its fields instead

VARIABLES
    spec,           \* the RoomSpec that is wanted
    form,           \* the form: its fields, a function of their names
    defaults,       \* what the server assumes for the settings
    made            \* the room as the server configured it, once it is

vars == <<spec, form, defaults, made>>

-----------------------------------------------------------------------------
\* FormConfig.  A value has a kind and, as strings, what it holds; a field has
\* the type and values of XEP-0004.
Value(kind, vals) == [kind |-> kind, vals |-> vals]
Bool(b) == Value("boolean", <<IF b THEN "true" ELSE "false">>)
Optional(value) == [value |-> value, required |-> FALSE]
Field(type, vals, required, options) ==
    [type |-> type, vals |-> vals, required |-> required, options |-> options]

\* Value::apply_to_field: the field with the value, or an error.
Fits(value, field) ==
    value.kind = field.type \/ (value.kind = "text-single" /\ field.type = "text-private")
OptionsContain(field, vals) == Range(vals) \subseteq field.options
ApplyToField(value, field) ==
    CASE value.kind = "none" \/ field.type = "hidden" -> [ok |-> TRUE, field |-> field]
      [] ~Fits(value, field) -> [ok |-> FALSE, field |-> field]
      [] field.type \in {"list-single", "list-multi"} /\ ~OptionsContain(field, value.vals) ->
            [ok |-> FALSE, field |-> field]
      [] OTHER -> [ok |-> TRUE, field |-> [field EXCEPT !.vals = value.vals]]

\* FormConfig::populate_form_fields.  Fixed fields are left out of the answer;
\* fields without a name are not represented.
Configured(config, fields, v) ==
    IF v \in DOMAIN config THEN ApplyToField(config[v].value, fields[v])
    ELSE [ok |-> fields[v].vals # <<>> \/ ~fields[v].required, field |-> fields[v]]
PopulateFormFields(config, fields) ==
    LET named == {v \in DOMAIN fields : fields[v].type # "fixed"}
        required == {v \in DOMAIN config : config[v].required}
    IN  [ok |-> required \subseteq named /\ \A v \in named : Configured(config, fields, v).ok,
         fields |-> [v \in named |-> Configured(config, fields, v).field]]

-----------------------------------------------------------------------------
\* RoomSpec, "from most restrictive to least restrictive" (RoomSpec::iter).
RoomSpecs == <<"group", "private", "public">>

\* RoomSpec::populate_form.  Settings that no type depends on are represented
\* by `lang`; `whois` is a list, `other` a field that we have no value for.
PopulateForm(s) ==
    [lang |-> Optional(Value("text-single", <<"en">>)),
     persistent |-> Optional(Bool(TRUE)),
     whois |-> Optional(Value("list-single", <<"anyone">>)),
     secret |-> Optional(Value("none", <<>>)),
     allow_invites |-> Optional(Bool(s # "group")),
     allow_member_invites |-> Optional(Bool(s # "group")),
     members_only |-> Optional(Bool(s # "public")),
     public |-> Optional(Bool(s = "public"))]

\* RoomSpec::validate_against: the expected features.
ExpectationsAnyInvites(s) ==
    CASE s = "group" ->
            [persistent |-> TRUE, hidden |-> TRUE, members_only |-> TRUE, nonanonymous |-> TRUE,
             allow_invites |-> FALSE, allow_member_invites |-> FALSE]
      [] s = "private" -> [persistent |-> TRUE, hidden |-> TRUE, members_only |-> TRUE]
      [] s = "public" -> [persistent |-> TRUE, public |-> TRUE, open |-> TRUE]
Expectations(s) ==
    CASE s = "group" ->
            [persistent |-> TRUE, hidden |-> TRUE, members_only |-> TRUE, nonanonymous |-> TRUE,
             allow_invites |-> FALSE, allow_member_invites |-> FALSE]
      [] s = "private" ->
            [persistent |-> TRUE, hidden |-> TRUE, members_only |-> TRUE,
             allow_invites |-> TRUE, allow_member_invites |-> TRUE]
      [] s = "public" -> [persistent |-> TRUE, public |-> TRUE, open |-> TRUE]
ValidateAgainst(s, features) ==
    \A f \in DOMAIN Expectations(s) : (f \in features) = Expectations(s)[f]

\* RoomManagementService::load_room_config: the first spec that is satisfied.
RoomType(features) ==
    LET fits == SelectSeq(RoomSpecs, LAMBDA s : ValidateAgainst(s, features))
    IN  IF fits = <<>> THEN "generic" ELSE Head(fits)

-----------------------------------------------------------------------------
\* The server: the settings after the form was submitted.  A setting that is
\* not in the form keeps its default.
Settings(fields) ==
    [f \in Flags |-> IF f \in DOMAIN fields THEN fields[f].vals = <<"true">> ELSE defaults[f]]
Whois(fields) ==
    IF "whois" \in DOMAIN fields THEN fields.whois.vals = <<"anyone">> ELSE defaults["whois"]

\* disco#info of the room: its features by name, and the roominfo form with the
\* settings that the server has a field for.
Disco(set, anyone, known) ==
    [features |-> {f \in {"persistent", "members_only", "public"} : set[f]}
                  \cup {IF set["public"] THEN "vcard-temp" ELSE "hidden",
                        IF set["members_only"] THEN "moderated" ELSE "open",
                        IF anyone THEN "nonanonymous" ELSE "semianonymous"},
     info |-> [f \in {"allow_invites", "allow_member_invites"} \cap known |->
                    IF set[f] THEN "1" ELSE "0"]]

-----------------------------------------------------------------------------
\* From<&[Feature]> for Features: the features that are known by name.
Features(names) ==
    names \cap {"hidden", "members_only", "moderated", "nonanonymous", "open",
                "persistent", "public", "semianonymous"}
\* TryFrom<DiscoInfoResult> for RoomInfo; what the form does not say is false.
RoomInfo(disco) ==
    Features(disco.features)
    \cup {f \in DOMAIN disco.info : disco.info[f] \in {"1", "true"}}

\* configure_room and load_room_info; a form that cannot be filled out is
\* never submitted.
Room(populated) ==
    [done |-> populated.ok,
     features |-> IF populated.ok
                  THEN RoomInfo(Disco(Settings(populated.fields), Whois(populated.fields), DOMAIN form))
                  ELSE {}]
NotMade == [done |-> FALSE, features |-> {"none"}]

\* The forms a server may send: some of the fields, all with their types but
\* one, and one field of its own that may be required.
BoolField == Field("boolean", <<"false">>, FALSE, {})
Offered ==
    [v \in {"lang", "whois", "secret", "other"} \cup Flags |->
        CASE v = "lang" -> Field("text-single", <<"de">>, TRUE, {})
          [] v = "whois" -> Field("list-single", <<"moderators">>, FALSE, {"anyone", "moderators"})
          [] v = "secret" -> Field("text-private", <<"pw">>, FALSE, {})
          [] v = "other" -> Field("text-single", <<>>, FALSE, {})
          [] OTHER -> BoolField]
Forms ==
    UNION {{[v \in vs |-> Offered[v]] : vs \in {s \in SUBSET DOMAIN Offered : Cardinality(s) >= 7}},
           {[Offered EXCEPT ![v].type = t] : v \in DOMAIN Offered, t \in OddTypes},
           {[Offered EXCEPT !["other"].required = TRUE, !["other"].vals = vs] : vs \in {<<>>, <<"x">>}},
           {[Offered EXCEPT !["whois"].options = {"moderators"}]}}

Init ==
    /\ spec \in Range(RoomSpecs)
    /\ form \in Forms
    /\ defaults \in [Flags \cup {"whois"} -> BOOLEAN]
    /\ made = NotMade

Configure ==
    /\ made = NotMade
    /\ made' = Room(PopulateFormFields(PopulateForm(spec), form))
    /\ UNCHANGED <<spec, form, defaults>>

Next == Configure
Spec == Init /\ [][Next]_vars

-----------------------------------------------------------------------------
Accepted == made.done /\ ValidateAgainst(spec, made.features)

\* Every variable holds a value of its type; a room that was accepted has the
\* features of a room.
TypeOK ==
    /\ spec \in {"group", "private", "public"}
    /\ made.done \in BOOLEAN
    /\ made.features \subseteq {"persistent", "hidden", "public", "members_only", "open", "moderated",
            "nonanonymous", "semianonymous", "allow_invites", "allow_member_invites", "none"}
    /\ made.done => Cardinality(made.features \cap {"hidden", "public"}) = 1

\* A room that create_or_join_room accepted is, for everybody who joins it, of
\* the type it was created with: validate_against and load_room_config agree,
\* whatever the server made of the form.
AcceptedRoomHasItsType == Accepted => RoomType(made.features) = spec

\* A server that offers every setting that decides the type, with the type of
\* field and the options that we expect, ends with an accepted room, whatever
\* its defaults are: the form says all that the specs demand.
CompleteFormIsEnough ==
    made # NotMade /\ (\A v \in Flags \cup {"whois"} : v \in DOMAIN form /\ form[v] = Offered[v])
                   /\ PopulateFormFields(PopulateForm(spec), form).ok
    => Accepted

\* The answer to the form: no field that the server did not ask for and none
\* that is fixed, hidden fields and fields that we know nothing of as they were,
\* and in lists only values that are among the options.
AnswerFitsTheForm ==
    LET answer == PopulateFormFields(PopulateForm(spec), form) IN
    answer.ok =>
        /\ DOMAIN answer.fields = {v \in DOMAIN form : form[v].type # "fixed"}
        /\ \A v \in DOMAIN answer.fields :
            /\ form[v].type = "hidden" \/ v \notin DOMAIN PopulateForm(spec)
                => answer.fields[v] = form[v]
            /\ form[v].type \in {"list-single", "list-multi"} /\ answer.fields[v] # form[v]
                => Range(answer.fields[v].vals) \subseteq form[v].options
=============================================================================
