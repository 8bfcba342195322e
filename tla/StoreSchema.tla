---------------------------- MODULE StoreSchema ----------------------------
(***************************************************************************)
(* The collections of the store and the changes that open_store makes to   *)
(* those of an older database.                                             *)
(***************************************************************************)
EXTENDS Naturals, Sequences

DbVersion == 31

Create(below, name) == [below |-> below, op |-> "create", name |-> name]

Delete(below, name) == [below |-> below, op |-> "delete", name |-> name]

Recreate(below, name) == <<Delete(below, name), Create(below, name)>>

ForTables(Op(_, _), below, names) == [i \in DOMAIN names |-> Op(below, names[i])]

KeyTables == <<"local_device", "pre_key", "sender_key", "session", "signed_pre_key", "kyber_pre_key">>

CachedTables == <<"user_info", "user_profile", "drafts", "user_device">>

\* AvatarRecord is kept in the store on wasm32 only.
OnWasm(d, changes) == IF d = "idb" THEN changes ELSE <<>>

\* The handler of open_store.
Changes(d) ==
    ForTables(Create, 10, <<"account_settings", "drafts", "messages", "user_info", "user_profile">>)
    \o OnWasm(d, <<Create(10, "avatar")>>)
    \o <<Delete(13, "messages"), Create(14, "messages")>>
    \o Recreate(15, "messages")
    \o ForTables(Create, 16, <<"user_device", "omemo_identity", "local_device", "pre_key", "sender_key",
                          "session", "signed_pre_key">>)
    \o <<Create(17, "kyber_pre_key"), Delete(19, "omemo_identity")>>
    \o Recreate(19, "session")
    \o Recreate(20, "messages") \o Recreate(20, "drafts")
    \o Recreate(21, "messages")
    \o Recreate(22, "messages") \o Recreate(22, "user_device")
    \o <<Create(23, "local_room_settings")>>
    \o Recreate(24, "messages") \o Recreate(26, "messages")
    \o ForTables(Delete, 27, KeyTables) \o ForTables(Create, 27, KeyTables)
    \o ForTables(Delete, 27, CachedTables) \o ForTables(Create, 27, CachedTables)
    \o <<Delete(28, "user_info"), Delete(28, "user_profile")>>
    \o OnWasm(d, Recreate(28, "avatar"))
    \o <<Create(28, "user_profile")>>
    \o Recreate(31, "messages")

\* The collections the repositories open transactions on.
Current(d) ==
    {"account_settings", "drafts", "messages", "user_profile", "user_device", "local_room_settings"}
    \cup {KeyTables[i] : i \in DOMAIN KeyTables}
    \cup (IF d = "idb" THEN {"avatar"} ELSE {})

\* The changes for each driver.
ChangesOf == [d \in {"sqlite", "idb"} |-> Changes(d)]

\* CREATE TABLE and DROP TABLE, create_object_store and delete_object_store.
Changed(names, c) == IF c.op = "create" THEN names \cup {c.name} ELSE names \ {c.name}

\* They fail when the collection is there already, or is not there.
Possible(names, c) == (c.op = "create") <=> (c.name \notin names)

\* The collections a release of version v has left: the changes up to v.
Legacy(d, v) ==
    LET changes == ChangesOf[d]
        made    == {i \in DOMAIN changes : changes[i].below =< v}
    IN  {changes[i].name : i \in {i \in made :
            /\ changes[i].op = "create"
            /\ \A j \in made : j > i => changes[j].name # changes[i].name}}

============================================================================
