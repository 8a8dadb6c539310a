---------------------------- MODULE PromiseQueue ----------------------------
(***************************************************************************)
(* The PromiseQueue of util/PromiseQueue.ts: a counter of running tasks    *)
(* and a singly linked list of the tasks that wait.  JavaScript runs every *)
(* callback to completion, so run() and onFinish() are one action each;    *)
(* what interleaves is when callers submit, when a task's own promise      *)
(* settles, and when the callback attached to that promise gets its turn.  *)
(***************************************************************************)
EXTENDS Integers, Sequences, FiniteSets

CONSTANTS Tasks,     \* the tasks passed to run(), each of them once
          MaxTasks,  \* the constructor's argument
          Nil        \* the null of the linked list

ASSUME MaxTasksAssumption == MaxTasks \in Nat \ {0}
ASSUME TasksAssumption == IsFiniteSet(Tasks) /\ Nil \notin Tasks

VARIABLES
  tasks,         \* #tasks: the LinkedList; an entry is named by its task
  runningTasks,  \* #runningTasks
  phase,         \* phase[t]: how far task t has come
  submitted      \* history: the tasks in the order run() was called

vars == <<tasks, runningTasks, phase, submitted>>

\* A task's own promise settles ("succeeded", "failed") before the callback
\* that passes the result on and releases the slot runs.
Phase == {"idle", "queued", "running", "succeeded", "failed",
          "fulfilled", "rejected"}

HoldsSlot == {"running", "succeeded", "failed"}

EmptyList == [first |-> Nil, last |-> Nil, next |-> [t \in Tasks |-> Nil]]

-----------------------------------------------------------------------------
(* The linked list.  popFront leaves #last alone, so that after the list   *)
(* has been emptied #last still names an entry that is gone.               *)

\* Faulty: trusts #last, not #first, to tell whether the list is empty.
PushBackChecksLast(list, t) ==
  IF list.last = Nil
  THEN [first |-> t, last |-> t, next |-> [list.next EXCEPT ![t] = Nil]]
  ELSE [first |-> list.first, last |-> t,
        next |-> [list.next EXCEPT ![list.last] = t, ![t] = Nil]]

\* Faulty: puts a task before those that wait.
PushFront(list, t) ==
  IF list.first = Nil
  THEN [first |-> t, last |-> t, next |-> [list.next EXCEPT ![t] = Nil]]
  ELSE [first |-> t, last |-> list.last,
        next |-> [list.next EXCEPT ![t] = list.first]]

PushBack(list, t) ==
  IF list.first = Nil
  THEN [first |-> t, last |-> t, next |-> [list.next EXCEPT ![t] = Nil]]
  ELSE [first |-> list.first, last |-> t,
        next |-> [list.next EXCEPT ![list.last] = t, ![t] = Nil]]

PopFront(list) ==
  [first |-> list.next[list.first], last |-> list.last, next |-> list.next]

-----------------------------------------------------------------------------
Init ==
  /\ tasks = EmptyList
  /\ runningTasks = 0
  /\ phase = [t \in Tasks |-> "idle"]
  /\ submitted = <<>>

\* Faulty: one task too many passes the guard.
MayRunOneMore(n) == n <= MaxTasks

MayRun(n) == n < MaxTasks

(***************************************************************************)
(* tryRunNextTask(), from the values its caller has just assigned.         *)
(***************************************************************************)
TryRunNextTask(list, running, ph) ==
  IF MayRun(running) /\ list.first # Nil
  THEN /\ tasks' = PopFront(list)
       /\ runningTasks' = running + 1
       /\ phase' = [ph EXCEPT ![list.first] = "running"]
  ELSE /\ tasks' = list
       /\ runningTasks' = running
       /\ phase' = ph

\* run(task): queue it, then try to start the task at the front.
Run(t) ==
  /\ phase[t] = "idle"
  /\ submitted' = Append(submitted, t)
  /\ TryRunNextTask(PushBack(tasks, t), runningTasks,
                    [phase EXCEPT ![t] = "queued"])

\* The promise task() returned settles; no code of the queue runs yet.
TaskSettles(t) ==
  /\ phase[t] = "running"
  /\ \E o \in {"succeeded", "failed"} : phase' = [phase EXCEPT ![t] = o]
  /\ UNCHANGED <<tasks, runningTasks, submitted>>

\* Faulty: only the then() callback releases the slot.
OnFinishOfFulfilled(t) ==
  \/ /\ phase[t] = "succeeded"
     /\ TryRunNextTask(tasks, runningTasks - 1,
                       [phase EXCEPT ![t] = "fulfilled"])
     /\ UNCHANGED submitted
  \/ /\ phase[t] = "failed"
     /\ phase' = [phase EXCEPT ![t] = "rejected"]
     /\ UNCHANGED <<tasks, runningTasks, submitted>>

\* The then() or catch() callback: settle the promise run() returned,
\* release the slot and try to start the next task.
OnFinish(t) ==
  /\ phase[t] \in {"succeeded", "failed"}
  /\ TryRunNextTask(tasks, runningTasks - 1,
                    [phase EXCEPT ![t] = IF @ = "succeeded" THEN "fulfilled"
                                                            ELSE "rejected"])
  /\ UNCHANGED submitted

Next == \E t \in Tasks : Run(t) \/ TaskSettles(t) \/ OnFinish(t)

(***************************************************************************)
(* The RPC a task awaits answers or times out, and the event loop gets to  *)
(* every callback.  Nothing makes a caller submit.                         *)
(***************************************************************************)
Fairness == \A t \in Tasks : WF_vars(TaskSettles(t)) /\ WF_vars(OnFinish(t))

Spec == Init /\ [][Next]_vars /\ Fairness

-----------------------------------------------------------------------------
Entry == Tasks \cup {Nil}

TypeOK ==
  /\ tasks \in [first : Entry, last : Entry, next : [Tasks -> Entry]]
  /\ runningTasks \in 0..MaxTasks
  /\ phase \in [Tasks -> Phase]
  /\ submitted \in Seq(Tasks)

Holding == {t \in Tasks : phase[t] \in HoldsSlot}

(***************************************************************************)
(* No more than MaxTasks tasks run at a given time (the class comment),    *)
(* counted on the tasks themselves and not on #runningTasks.               *)
(***************************************************************************)
AtMostMaxTasks == Cardinality({t \in Tasks : phase[t] = "running"}) <= MaxTasks

(***************************************************************************)
(* A task waits only while every slot is taken: no interleaving of run(),  *)
(* of settling tasks and of onFinish() strands a task in the linked list   *)
(* or leaks a slot.                                                        *)
(***************************************************************************)
NoIdleSlot ==
  (\E t \in Tasks : phase[t] = "queued") => Cardinality(Holding) = MaxTasks

(***************************************************************************)
(* Every task passed to run() is settled in the end, whatever the tasks    *)
(* before it did.                                                          *)
(***************************************************************************)
EveryTaskSettles ==
  \A t \in Tasks :
    phase[t] = "queued" ~> phase[t] \in {"fulfilled", "rejected"}

-----------------------------------------------------------------------------
PoolStatus ==
  [t \in Tasks |->
     CASE phase[t] = "idle" -> "absent"
       [] phase[t] = "queued" -> "waiting"
       [] phase[t] \in HoldsSlot -> "admitted"
       [] OTHER -> phase[t]]

Pool == INSTANCE FifoPool WITH arrived <- submitted, status <- PoolStatus

(***************************************************************************)
(* The counter and the linked list implement the first come first served   *)
(* pool: the tasks that have started are exactly the earliest ones there   *)
(* are slots for, and every task is settled once.                          *)
(***************************************************************************)
ImplementsFifoPool == Pool!Spec
=============================================================================
