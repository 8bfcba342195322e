--------------------------- MODULE MessageMigration ---------------------------
(***************************************************************************)
(* The copy that the conversion of a room makes of its archive               *)
(* (MessageMigrationDomainService): pages from the newest to the oldest, the *)
(* messages of each relayed in their order, while messages may still arrive. *)
(* The cursor is the stanza id of the first message of a page, which a       *)
(* message need not have; it then starts again with the newest page.         *)
(*                                                                          *)
(* A message of the archive is its position and whether it has a stanza id.  *)
(***************************************************************************)
EXTENDS Naturals, SequencesExt

CONSTANTS PageSize, MaxArchive, MaxRelayed

VARIABLES
    archive,     \* for each message, whether it has a stanza id
    cursor,      \* first_message_id, 0 for None
    page,        \* the messages of the page that are still to be relayed
    isLast,
    status,      \* "load", "relay", "done" or "failed"
    relayed,     \* the messages that were sent to the target room, in order
    seen,        \* history: the archive when its first page was loaded
    restarted    \* history: a page in the middle gave no cursor

vars == <<archive, cursor, page, isLast, status, relayed, seen, restarted>>

Init ==
    /\ archive \in UNION {[1 .. n -> BOOLEAN] : n \in 0 .. MaxArchive}
    /\ cursor = 0 /\ page = <<>> /\ isLast = FALSE /\ status = "load"
    /\ relayed = <<>> /\ seen = 0 /\ restarted = FALSE

\* load_messages_before: the messages before the cursor, or the newest ones.
End == IF cursor = 0 THEN Len(archive) + 1 ELSE cursor
First == IF End > PageSize THEN End - PageSize ELSE 1
FirstMessageId == IF First < End /\ archive[First] THEN First ELSE 0
LoadPage ==
    /\ status = "load" /\ Len(relayed) <= MaxRelayed
    /\ cursor' = FirstMessageId
    /\ page' = [i \in 1 .. End - First |-> First + i - 1]
    /\ isLast' = (First = 1)
    /\ status' = "relay"
    /\ seen' = IF relayed = <<>> THEN Len(archive) ELSE seen
    /\ restarted' = (restarted \/ (cursor' = 0 /\ ~isLast'))
    /\ UNCHANGED <<archive, relayed>>

\* relay_archived_message_to_room
Relay ==
    /\ status = "relay" /\ page # <<>>
    /\ relayed' = Append(relayed, Head(page)) /\ page' = Tail(page)
    /\ UNCHANGED <<archive, cursor, isLast, status, seen, restarted>>

\* The loop ends with the last page.
EndOfPage ==
    /\ status = "relay" /\ page = <<>>
    /\ status' = IF isLast THEN "done" ELSE "load"
    /\ UNCHANGED <<archive, cursor, page, isLast, relayed, seen, restarted>>

\* A request or a message that cannot be relayed ends the copy.
Fail ==
    /\ status = "load" \/ (status = "relay" /\ page # <<>>)
    /\ status' = "failed"
    /\ UNCHANGED <<archive, cursor, page, isLast, relayed, seen, restarted>>

MessageArrives ==
    /\ status \in {"load", "relay"} /\ Len(archive) < MaxArchive
    /\ \E hasId \in BOOLEAN : archive' = Append(archive, hasId)
    /\ UNCHANGED <<cursor, page, isLast, status, relayed, seen, restarted>>

Next == LoadPage \/ Relay \/ EndOfPage \/ Fail \/ MessageArrives

Spec == Init /\ [][Next]_vars

-----------------------------------------------------------------------------
\* The pages and what was relayed are messages of the archive.
TypeOK ==
    /\ cursor \in 0 .. Len(archive) /\ seen \in 0 .. Len(archive)
    /\ Range(page) \cup Range(relayed) \subseteq DOMAIN archive
    /\ status \in {"load", "relay", "done", "failed"}
    /\ isLast \in BOOLEAN /\ restarted \in BOOLEAN

\* However the arrivals fall between its pages, and wherever it fails,
\* copy_all_messages_from_room relays no message twice and leaves no gap: what it has
\* relayed and what it holds is all that the archive had from the cursor on, and in
\* the end all of it. If a page in the middle begins with a message without a stanza
\* id the copy starts again, and it only ends if more messages have arrived.
CopiedOnce ==
    IF restarted THEN status = "done" => Len(archive) > seen
    ELSE /\ IsInjective(relayed \o page)
         /\ status # "failed" /\ relayed \o page # <<>> =>
               Range(relayed \o page) = (IF isLast THEN 1 ELSE cursor) .. seen
         /\ status = "done" => Range(relayed) = 1 .. seen
=============================================================================
