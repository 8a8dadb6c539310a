------------------------------ MODULE FifoPool ------------------------------
(***************************************************************************)
(* What a PromiseQueue promises its callers, without its counter or its    *)
(* linked list: tasks are admitted first come first served, at most        *)
(* MaxTasks of them hold a slot at any time, a slot is never idle while a  *)
(* task waits, and a rejected task frees its slot as a fulfilled one does. *)
(*                                                                         *)
(* Which tasks have been admitted is a function of the arrival order and   *)
(* of how many tasks have settled; there is no other choice to make.       *)
(***************************************************************************)
EXTENDS Integers, Sequences, FiniteSets

CONSTANTS Tasks,    \* the tasks that may be submitted
          MaxTasks  \* how many may hold a slot at once

VARIABLES arrived,  \* the tasks in the order of their submission
          status    \* status[t]: what the submitter can know of t

vars == <<arrived, status>>

Outcome == {"fulfilled", "rejected"}

Status == {"absent", "waiting", "admitted"} \cup Outcome

Settled(s) == {t \in Tasks : s[t] \in Outcome}

(***************************************************************************)
(* Every waiting task among the first MaxTasks + (number of settled tasks) *)
(* arrivals is admitted.                                                   *)
(***************************************************************************)
Admit(a, s) ==
  LET quota == MaxTasks + Cardinality(Settled(s))
  IN  [t \in Tasks |->
         IF s[t] = "waiting" /\ \E i \in DOMAIN a : i <= quota /\ a[i] = t
         THEN "admitted"
         ELSE s[t]]

Init == /\ arrived = <<>>
        /\ status = [t \in Tasks |-> "absent"]

Submit(t) == /\ status[t] = "absent"
             /\ arrived' = Append(arrived, t)
             /\ status' = Admit(arrived', [status EXCEPT ![t] = "waiting"])

Settle(t, o) == /\ status[t] = "admitted"
                /\ status' = Admit(arrived, [status EXCEPT ![t] = o])
                /\ UNCHANGED arrived

Next == \E t \in Tasks : Submit(t) \/ \E o \in Outcome : Settle(t, o)

Fairness == \A t \in Tasks : WF_vars(\E o \in Outcome : Settle(t, o))

Spec == Init /\ [][Next]_vars /\ Fairness
=============================================================================
