--------------------------- MODULE RequestService ---------------------------
(***************************************************************************)
(* What the request layer of prose-xmpp promises to the modules that use   *)
(* it: a request that was issued completes exactly once, its outcome never *)
(* changes, and it is reported as timed out only after it has waited for   *)
(* the whole timeout.                                                      *)
(***************************************************************************)
EXTENDS Naturals

CONSTANTS Requests, Outcomes, Timeout

VARIABLES
    phase,   \* "idle", "pending" or "done"
    outcome, \* "none" until the request is done
    waited   \* how long the request has been pending

vars == <<phase, outcome, waited>>

Init ==
    /\ phase = [r \in Requests |-> "idle"]
    /\ outcome = [r \in Requests |-> "none"]
    /\ waited = [r \in Requests |-> 0]

Issue(r) ==
    /\ phase[r] = "idle"
    /\ phase' = [phase EXCEPT ![r] = "pending"]
    /\ UNCHANGED <<outcome, waited>>

Complete(r, o) ==
    /\ phase[r] = "pending"
    /\ o = "timedout" => waited[r] = Timeout
    /\ phase' = [phase EXCEPT ![r] = "done"]
    /\ outcome' = [outcome EXCEPT ![r] = o]
    /\ UNCHANGED waited

\* Time passes for some of the pending requests.
Wait ==
    /\ UNCHANGED <<phase, outcome>>
    /\ \E S \in SUBSET {r \in Requests :
                          phase[r] = "pending" /\ waited[r] < Timeout} :
         waited' = [r \in Requests |->
                      IF r \in S THEN waited[r] + 1 ELSE waited[r]]

Next ==
    \/ Wait
    \/ \E r \in Requests : Issue(r)
    \/ \E r \in Requests, o \in Outcomes : Complete(r, o)

Spec == Init /\ [][Next]_vars

\* Every pending request completes.
Fairness == \A r \in Requests : WF_vars(\E o \in Outcomes : Complete(r, o))

FairSpec == Spec /\ Fairness
=============================================================================
