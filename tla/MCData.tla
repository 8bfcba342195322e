------------------------------- MODULE MCData -------------------------------
(* The parts that convert, select or route data, each on a small instance   *)
(* of its own: the behaviours of this module are those of the parts, one    *)
(* after the other. The modules of the parts say what they model.           *)
EXTENDS StoreSchema

VARIABLES
    part,   \* the part a behaviour is about
    s1, s2, s3, s4, s5, s6, s7, s8, s9, s10   \* the variables of the other parts

others == <<s1, s2, s3, s4, s5, s6, s7, s8, s9, s10>>

all == <<part, others>>

\* Every answer of a server to the creation of a room of each kind.
RS == INSTANCE RoomSpecs WITH
    Flags <- {"persistent", "members_only", "public", "allow_invites", "allow_member_invites"},
    OddTypes <- {"fixed", "hidden", "text-single", "list-single", "list-multi"},
    spec <- s1, form <- s2, defaults <- s3, made <- s4

\* Two authors, logs of up to four messages in pages of two; up to two of them arrive
\* while the room is open.
MR == INSTANCE MessageReduction WITH
    Authors <- {"me", "you"}, Me <- "me", Emojis <- {"e", "f"},
    Lists <- {<<"e">>, <<"f", "e">>}, PageSize <- 2, MaxPages <- 2,
    MaxLog <- 4, MaxArrivals <- 2,
    muc <- s1, log <- s2, cache <- s3, shown <- s4, before <- s5, loading <- s6, opened <- s7,
    missed <- s8

\* Archives of up to five messages in pages of two.
MM == INSTANCE MessageMigration WITH
    PageSize <- 2, MaxArchive <- 5, MaxRelayed <- 8,
    archive <- s1, cursor <- s2, page <- s3, isLast <- s4, status <- s5, relayed <- s6,
    seen <- s7, restarted <- s8

\* Every stanza type with fields of two values.
SC == INSTANCE StanzaCodecs WITH
    BareJids <- {<<"room", "">>, <<"user", "">>}, FullJids <- {<<"user", "phone">>},
    Texts <- {"", "t"}, MaxNumber <- 2,
    codec <- s1, value <- s2, wire <- s3, change <- s4, received <- s5

\* Three rows, an index over two columns.
SQ == INSTANCE StoreQueries WITH
    Keys <- {1, 2, 3}, Values <- {1, 2}, Seconds <- {1, 2},
    focus <- s1, table <- s2, query <- s3, messages <- s4, after <- s5

\* One stanza of any kind, or two requests.
IB == INSTANCE Inbound WITH
    Me <- <<"me", "">>, Askers <- {<<"you", "phone">>, <<"you", "">>},
    Senders <- {<<"you", "">>, <<"room", "you">>},
    MaxArrivals <- 2,
    online <- s1, arrived <- s2, tasks <- s3, handled <- s4, sent <- s5

\* Databases of every version, two crashes, two failures.
SU == INSTANCE StoreUpgrade WITH
    OldVersions <- {0} \cup 10 .. 31, MaxCrashes <- 2, MaxFaults <- 2,
    driver <- s1, version <- s2, tables <- s3, work <- s4, at <- s5,
    old <- s6, status <- s7, crashes <- s8, faults <- s9, mishaps <- s10

-----------------------------------------------------------------------------
\* A part with n variables leaves the other ones alone.
Unused(n) ==
    /\ IF n < 1 THEN s1 = "off" ELSE TRUE
    /\ IF n < 2 THEN s2 = "off" ELSE TRUE
    /\ IF n < 3 THEN s3 = "off" ELSE TRUE
    /\ IF n < 4 THEN s4 = "off" ELSE TRUE
    /\ IF n < 5 THEN s5 = "off" ELSE TRUE
    /\ IF n < 6 THEN s6 = "off" ELSE TRUE
    /\ IF n < 7 THEN s7 = "off" ELSE TRUE
    /\ IF n < 8 THEN s8 = "off" ELSE TRUE
    /\ IF n < 9 THEN s9 = "off" ELSE TRUE
    /\ IF n < 10 THEN s10 = "off" ELSE TRUE

Resting(n) ==
    /\ IF n < 5 THEN UNCHANGED s5 ELSE TRUE
    /\ IF n < 6 THEN UNCHANGED s6 ELSE TRUE
    /\ IF n < 7 THEN UNCHANGED s7 ELSE TRUE
    /\ IF n < 8 THEN UNCHANGED s8 ELSE TRUE
    /\ IF n < 9 THEN UNCHANGED s9 ELSE TRUE
    /\ IF n < 10 THEN UNCHANGED s10 ELSE TRUE

MCInit ==
    \/ part = "specs" /\ RS!Init /\ Unused(4)
    \/ part = "reduction" /\ MR!Init /\ Unused(8)
    \/ part = "migration" /\ MM!Init /\ Unused(8)
    \/ part = "codecs" /\ SC!Init /\ Unused(5)
    \/ part = "queries" /\ SQ!Init /\ Unused(5)
    \/ part = "inbound" /\ IB!Init /\ Unused(5)
    \/ part = "upgrade" /\ SU!Init /\ Unused(10)

MCNext ==
    /\ UNCHANGED part
    /\ \/ part = "specs" /\ RS!Next /\ Resting(4)
       \/ part = "reduction" /\ MR!Next /\ Resting(8)
       \/ part = "migration" /\ MM!Next /\ Resting(8)
       \/ part = "codecs" /\ SC!Next /\ Resting(5)
       \/ part = "queries" /\ SQ!Next /\ Resting(5)
       \/ part = "inbound" /\ IB!Next /\ Resting(5)
       \/ part = "upgrade" /\ SU!Next /\ Resting(10)

MCSpec == MCInit /\ [][MCNext]_all

-----------------------------------------------------------------------------
\* Every part keeps its types.
TypesOK ==
    /\ part = "specs" => RS!TypeOK
    /\ part = "reduction" => MR!TypeOK
    /\ part = "migration" => MM!TypeOK
    /\ part = "codecs" => SC!TypeOK
    /\ part = "queries" => SQ!TypeOK
    /\ part = "inbound" => IB!TypeOK
    /\ part = "upgrade" => SU!TypeOK

\* A room that create_or_join_room accepted is, for everybody who joins it,
\* of the type it was created with: validate_against and load_room_config
\* agree, whatever the server made of the form; a server that offers every
\* setting that decides the type ends with an accepted room, whatever its
\* defaults; and the answer has only fields the server asked for, with values
\* among its options.
FormsFit == part = "specs" =>
    /\ RS!AcceptedRoomHasItsType
    /\ RS!CompleteFormIsEnough
    /\ RS!AnswerFitsTheForm

\* Whatever pages the UI has loaded, however often a load failed and whatever
\* arrived meanwhile, a message it shows is what the log makes of it (the last
\* correction, the last reactions of everybody, its receipts), and a retracted
\* one is not shown, except for modifiers that arrive after they were looked up
\* and before the page is returned; once all pages are loaded every text is
\* shown; toggling a reaction changes that reaction of that user and no other;
\* and converting a room copies what its archive held once and without a gap,
\* as long as the messages have stanza ids.
LogIsShown ==
    /\ part = "reduction" => MR!ShownAsMeant /\ MR!AllShown /\ MR!ToggleChangesOne
    /\ part = "migration" => MM!CopiedOnce

\* What one client writes is what another client of this code reads, but for
\* the values that are refused (module StanzaCodecs lists them): every
\* `TryFrom<Element>` inverts its `From`, up to `Normalised`, and so do the
\* texts of identifiers and the conversions of positions in a text; a child of
\* another namespace, which XMPP permits anywhere, changes nothing for the
\* lenient parsers and makes the strict ones fail rather than misread; and a
\* required child that is missing is an error.
CodecsFit == part = "codecs" =>
    /\ SC!RoundTrip
    /\ SC!UnknownIgnored
    /\ SC!IncompleteRefused

\* For the queries the repositories make, WHERE clauses column by column
\* (sqlite.rs, into_sql_predicate) and key ranges over tuples (indexed_db.rs,
\* TryFrom<Query>) find the same rows in the order of their columns, with the
\* limit counted after the filter (rows of equal columns come in any order in
\* SQLite); and deleting in an index removes exactly the rows a query for the
\* same keys returns, with either driver.
DriversAgree == part = "queries" =>
    /\ SQ!DriversAgree
    /\ SQ!DeletesWhatIsFound


\* Once the store is open it has exactly the collections the repositories
\* use, whichever version was found and wherever an earlier attempt was cut
\* off or failed, unless SQLite's commit in Drop failed; and no change of the
\* handler creates a collection that exists or deletes one that does not, so
\* that the store opens, unless SQLite has committed a part of an upgrade
\* that failed.
UpgradeCompletes == part = "upgrade" =>
    /\ SU!OpenIsCurrent
    /\ SU!UpgradeFits
=============================================================================
