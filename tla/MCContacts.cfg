CONSTANTS
    Nicks = {n1, n2}
    Users = {me, u1, u2}
    Me = me
    Affiliations = {"member", "owner"}
    MaxStanzas = 4
    Words = {"a", "b", "1", "?", "https:x", "tel:1", "png"}
SPECIFICATION MCSpec
SYMMETRY Symmetric
INVARIANTS
    TypesOK
    AnonIdNamesItsOwner
    ListAgrees
    ContactListsAgree
    UserInfoAgrees
    OwnDataAgrees
    ProfilesArrive
CHECK_DEADLOCK FALSE
