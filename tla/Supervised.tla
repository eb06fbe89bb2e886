----------------------------- MODULE Supervised -----------------------------
(***************************************************************************)
(* What every entry point that repairs promises to its caller, whoever     *)
(* writes the SQL: a bounded number of attempts, each judged; nothing is   *)
(* tried after an accepted attempt, only an accepted one is delivered, and *)
(* the caller is answered in the end.                                      *)
(***************************************************************************)
EXTENDS Naturals

VARIABLES limit,     \* how many attempts may be made
          tries,     \* the attempts judged so far
          accepted,  \* whether the last of them was accepted
          outcome    \* "pending", "delivered", "refused" or "raised"

vars == <<limit, tries, accepted, outcome>>

Init ==
  /\ limit \in Nat
  /\ tries = 0
  /\ accepted = FALSE
  /\ outcome = "pending"

Try ==
  /\ outcome = "pending" /\ ~ accepted /\ tries < limit
  /\ tries' = tries + 1
  /\ accepted' \in BOOLEAN
  /\ UNCHANGED <<limit, outcome>>

Deliver ==
  /\ outcome = "pending" /\ accepted
  /\ outcome' = "delivered"
  /\ UNCHANGED <<limit, tries, accepted>>

(***************************************************************************)
(* All attempts are used up, or the accepted one could not be put to use.  *)
(***************************************************************************)
Refuse ==
  /\ outcome = "pending" /\ (accepted \/ tries = limit)
  /\ outcome' = "refused"
  /\ UNCHANGED <<limit, tries, accepted>>

(***************************************************************************)
(* An exception of the generator, the database or a rewrite escapes.       *)
(***************************************************************************)
Raise ==
  /\ outcome = "pending"
  /\ outcome' = "raised"
  /\ UNCHANGED <<limit, tries, accepted>>

Next == Try \/ Deliver \/ Refuse \/ Raise

Spec == Init /\ [][Next]_vars /\ WF_vars(Next)

=============================================================================
