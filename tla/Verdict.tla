------------------------------- MODULE Verdict -------------------------------
(***************************************************************************)
(* What verify promises to the code that calls it, whatever its checks do: *)
(* a decision that starts as "delivered", is only ever made more severe,   *)
(* and is handed out only when it is at least as severe as the floor that  *)
(* the defects visible in the statement itself demand.                     *)
(***************************************************************************)
EXTENDS Naturals

CONSTANTS Rank  \* the order of the decisions: delivered < review < rejected

VARIABLES floor,     \* the mildest decision the statement's own defects allow
          decision,  \* the decision so far
          finished   \* whether the caller has the decision

vars == <<floor, decision, finished>>

Init ==
  /\ floor \in DOMAIN Rank
  /\ decision = "delivered"
  /\ ~ finished

(***************************************************************************)
(* More evidence arrives.                                                  *)
(***************************************************************************)
Escalate(d) ==
  /\ ~ finished
  /\ Rank[d] >= Rank[decision]
  /\ decision' = d
  /\ UNCHANGED <<floor, finished>>

(***************************************************************************)
(* The last piece of evidence, and the decision is handed out.             *)
(***************************************************************************)
Conclude(d) ==
  /\ ~ finished
  /\ Rank[d] >= Rank[decision]
  /\ Rank[d] >= Rank[floor]
  /\ decision' = d
  /\ finished' = TRUE
  /\ UNCHANGED floor

Next == \E d \in DOMAIN Rank : Escalate(d) \/ Conclude(d)

Spec == Init /\ [][Next]_vars /\ WF_vars(\E d \in DOMAIN Rank : Conclude(d))

==============================================================================
