-------------------------- MODULE MCRequestFutures --------------------------
(***************************************************************************)
(* Small instances of RequestFutures: all requests that go to a room go to *)
(* the same one, so that their futures compete for its stanzas.            *)
(***************************************************************************)
EXTENDS RequestFutures, FiniteSets

CONSTANT TheRoom

MCRoomOf == [r \in RoomRequests |-> TheRoom]

\* The behaviours that are followed: any two of the requests on one connection,
\* any one of them over two.
Used == {r \in Requests : pc[r] # "idle"}
TwoRequestsOrConnections == Cardinality(Used) + opened <= 3

=============================================================================
