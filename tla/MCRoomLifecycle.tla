-------------------------- MODULE MCRoomLifecycle ---------------------------
(***************************************************************************)
(* Small instances of RoomLifecycle with one room, or with a room that is  *)
(* destroyed and replaced by a second one.                                 *)
(***************************************************************************)
EXTENDS RoomLifecycle

CONSTANTS Old, New

\* No room is ever gone, and every task starts with the first one.
MCStaying == [r \in MucIds |-> NoRoom]

MCRoomOf == [t \in Tasks |-> Old]

\* The first room may be gone, and names the second one.
MCMoving == [r \in MucIds |-> IF r = Old THEN New ELSE NoRoom]

=============================================================================
