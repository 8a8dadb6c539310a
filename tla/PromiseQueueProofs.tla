------------------------- MODULE PromiseQueueProofs -------------------------
(***************************************************************************)
(* Proofs about PromiseQueue for every set of tasks and every MaxTasks.    *)
(*                                                                         *)
(* The argument: at all times there is a k such that the first k submitted *)
(* tasks have started and the linked list holds the others, in order.  The *)
(* counter is the number of started tasks that have not released their     *)
(* slot, the other started tasks are settled, and the counter is MaxTasks  *)
(* whenever the list is not empty.  The same k is how many tasks the pool  *)
(* of FifoPool has admitted, so each step of the queue is one of the pool. *)
(***************************************************************************)
EXTENDS PromiseQueue, FiniteSetTheorems, TLAPS

ListType == [first : Entry, last : Entry, next : [Tasks -> Entry]]

\* list holds s[k+1], ..., s[Len(s)], in this order.
ListHolds(list, s, k) ==
  /\ k = Len(s) => list.first = Nil
  /\ k < Len(s) => /\ list.first = s[k + 1]
                   /\ list.last = s[Len(s)]
                   /\ list.next[s[Len(s)]] = Nil
  /\ \A i \in (k + 1)..(Len(s) - 1) : list.next[s[i]] = s[i + 1]

\* Of the submitted tasks, those that wait are the ones after the k-th.
StartedUpTo(ph, s, k) ==
  /\ \A i \in 1..Len(s) : /\ i <= k => ph[s[i]] \notin {"idle", "queued"}
                          /\ i > k => ph[s[i]] = "queued"
  /\ \A t \in Tasks : ph[t] # "idle" => \E i \in 1..Len(s) : s[i] = t
  /\ \A i, j \in 1..Len(s) : s[i] = s[j] => i = j

SlotHolders(ph) == {t \in Tasks : ph[t] \in HoldsSlot}

SettledTasks(ph) == {t \in Tasks : ph[t] \in {"fulfilled", "rejected"}}

\* Every started task holds a slot or is settled.
Counted(ph, n, k) ==
  /\ n = Cardinality(SlotHolders(ph))
  /\ k = n + Cardinality(SettledTasks(ph))

QueueInv(list, ph, s, n, k) ==
  /\ ListHolds(list, s, k)
  /\ StartedUpTo(ph, s, k)
  /\ Counted(ph, n, k)
  /\ k < Len(s) => n = MaxTasks

IInv ==
  /\ TypeOK
  /\ \E k \in 0..Len(submitted) :
       QueueInv(tasks, phase, submitted, runningTasks, k)

-----------------------------------------------------------------------------
(* pushBack(t) adds t at the end, whatever a stale #last names. *)
LEMMA PushBackHolds ==
  ASSUME NEW list \in ListType, NEW s \in Seq(Tasks), NEW t \in Tasks,
         NEW k \in 0..Len(s),
         ListHolds(list, s, k),
         \A i, j \in 1..Len(s) : s[i] = s[j] => i = j,
         \A i \in 1..Len(s) : s[i] # t
  PROVE  /\ PushBack(list, t) \in ListType
         /\ ListHolds(PushBack(list, t), Append(s, t), k)
<1> DEFINE new == PushBack(list, t)
           s2 == Append(s, t)
           n == Len(s)
<1>1. /\ n \in Nat
      /\ s2 \in Seq(Tasks)
      /\ Len(s2) = n + 1
      /\ \A i \in 1..n : s2[i] = s[i] /\ s[i] \in Tasks
      /\ s2[n + 1] = t
  OBVIOUS
<1>2. t # Nil
  BY TasksAssumption
<1>3. CASE k = n
  <2>1. list.first = Nil
    BY <1>3 DEF ListHolds
  <2>2. new = [first |-> t, last |-> t, next |-> [list.next EXCEPT ![t] = Nil]]
    BY <2>1 DEF PushBack
  <2>3. new \in ListType
    BY <2>2 DEF ListType, Entry
  <2>4. ListHolds(new, s2, k)
    BY <1>1, <1>3, <2>2 DEF ListHolds, ListType
  <2> QED
    BY <2>3, <2>4
<1>4. CASE k < n
  <2>1. /\ list.first = s[k + 1] /\ list.last = s[n] /\ list.first # Nil
        /\ list.last \in Tasks /\ list.last # t
    BY <1>1, <1>4, TasksAssumption DEF ListHolds
  <2>2. new = [first |-> list.first, last |-> t,
               next |-> [list.next EXCEPT ![list.last] = t, ![t] = Nil]]
    BY <2>1 DEF PushBack
  <2>3. new \in ListType
    BY <2>2, <2>1 DEF ListType, Entry
  <2>4. /\ new.next[t] = Nil
        /\ new.next[s[n]] = t
        /\ \A u \in Tasks \ {t, s[n]} : new.next[u] = list.next[u]
    BY <2>1, <2>2 DEF ListType
  <2>5. \A i \in (k + 1)..n : new.next[s2[i]] = s2[i + 1]
    <3> SUFFICES ASSUME NEW i \in (k + 1)..n
                 PROVE  new.next[s2[i]] = s2[i + 1]
      OBVIOUS
    <3>1. CASE i = n
      BY <3>1, <1>1, <1>4, <2>4
    <3>2. CASE i < n
      <4>1. s[i] \in Tasks \ {t, s[n]}
        BY <3>2, <1>1
      <4>2. list.next[s[i]] = s[i + 1]
        BY <3>2, <1>1 DEF ListHolds
      <4>3. s2[i] = s[i] /\ s2[i + 1] = s[i + 1]
        BY <3>2, <1>1
      <4> QED
        BY <4>1, <4>2, <4>3, <2>4
    <3> QED
      BY <3>1, <3>2, <1>1
  <2>6. new.first = s2[k + 1] /\ new.last = s2[n + 1]
    BY <1>1, <1>4, <2>1, <2>2
  <2> HIDE DEF new, s2
  <2>7. ListHolds(new, s2, k)
    BY <1>1, <1>4, <2>4, <2>5, <2>6 DEF ListHolds
  <2> QED
    BY <2>3, <2>7 DEF new, s2
<1> QED
  BY <1>1, <1>3, <1>4

(* popFront() removes the task at the front and keeps the others. *)
LEMMA PopFrontHolds ==
  ASSUME NEW list \in ListType, NEW s \in Seq(Tasks), NEW k \in 0..Len(s),
         ListHolds(list, s, k), k < Len(s)
  PROVE  /\ list.first = s[k + 1]
         /\ PopFront(list) \in ListType
         /\ ListHolds(PopFront(list), s, k + 1)
<1>1. list.first = s[k + 1] /\ list.first \in Tasks
  BY DEF ListHolds
<1>2. /\ PopFront(list).first = list.next[list.first]
      /\ PopFront(list).last = list.last
      /\ PopFront(list).next = list.next
  BY DEF PopFront
<1>3. PopFront(list) \in ListType
  BY <1>1 DEF PopFront, ListType, Entry
<1>4. CASE k + 1 = Len(s)
  BY <1>1, <1>2, <1>3, <1>4 DEF ListHolds
<1>5. CASE k + 1 < Len(s)
  <2>1. list.next[s[k + 1]] = s[k + 2]
    BY <1>5 DEF ListHolds
  <2> QED
    BY <1>1, <1>2, <1>3, <1>5, <2>1 DEF ListHolds
<1> QED
  BY <1>1, <1>3, <1>4, <1>5

(* Starting one task more adds it to the slot holders. *)
LEMMA HoldersAdd ==
  ASSUME NEW ph \in [Tasks -> Phase], NEW t \in Tasks, ph[t] = "queued"
  PROVE  LET ph2 == [ph EXCEPT ![t] = "running"]
         IN  /\ ph2 \in [Tasks -> Phase]
             /\ Cardinality(SlotHolders(ph2)) = Cardinality(SlotHolders(ph)) + 1
             /\ SettledTasks(ph2) = SettledTasks(ph)
<1> DEFINE ph2 == [ph EXCEPT ![t] = "running"]
<1>1. ph2 \in [Tasks -> Phase]
  BY DEF Phase
<1>2. SlotHolders(ph2) = SlotHolders(ph) \cup {t} /\ t \notin SlotHolders(ph)
  BY DEF SlotHolders, HoldsSlot
<1>3. IsFiniteSet(SlotHolders(ph))
  BY TasksAssumption, FS_Subset DEF SlotHolders
<1>4. SettledTasks(ph2) = SettledTasks(ph)
  BY DEF SettledTasks
<1> QED
  BY <1>1, <1>2, <1>3, <1>4, FS_AddElement

(* A task that releases its slot is removed from the slot holders. *)
LEMMA HoldersRemove ==
  ASSUME NEW ph \in [Tasks -> Phase], NEW t \in Tasks, ph[t] \in HoldsSlot,
         NEW o \in {"fulfilled", "rejected"}
  PROVE  LET ph2 == [ph EXCEPT ![t] = o]
         IN  /\ ph2 \in [Tasks -> Phase]
             /\ Cardinality(SlotHolders(ph2)) = Cardinality(SlotHolders(ph)) - 1
             /\ Cardinality(SlotHolders(ph)) \in Nat \ {0}
             /\ Cardinality(SettledTasks(ph2)) = Cardinality(SettledTasks(ph)) + 1
             /\ Cardinality(SettledTasks(ph)) \in Nat
<1> DEFINE ph2 == [ph EXCEPT ![t] = o]
<1>1. ph2 \in [Tasks -> Phase]
  BY DEF Phase
<1>2. SlotHolders(ph2) = SlotHolders(ph) \ {t} /\ t \in SlotHolders(ph)
  BY DEF SlotHolders, HoldsSlot
<1>3. IsFiniteSet(SlotHolders(ph))
  BY TasksAssumption, FS_Subset DEF SlotHolders
<1>4. Cardinality(SlotHolders(ph2)) = Cardinality(SlotHolders(ph)) - 1
  BY <1>2, <1>3, FS_RemoveElement
<1>5. Cardinality(SlotHolders(ph)) \in Nat /\ Cardinality(SlotHolders(ph)) # 0
  BY <1>2, <1>3, FS_CardinalityType, FS_EmptySet
<1>6. SettledTasks(ph2) = SettledTasks(ph) \cup {t} /\ t \notin SettledTasks(ph)
  BY DEF SettledTasks, HoldsSlot
<1>7. IsFiniteSet(SettledTasks(ph))
  BY TasksAssumption, FS_Subset DEF SettledTasks
<1>8. /\ Cardinality(SettledTasks(ph2)) = Cardinality(SettledTasks(ph)) + 1
      /\ Cardinality(SettledTasks(ph)) \in Nat
  BY <1>6, <1>7, FS_AddElement, FS_CardinalityType
<1> QED
  BY <1>1, <1>4, <1>5, <1>8

(* What a submitter sees of the tasks, PoolStatus as a function of phase. *)
StatusOf(ph) ==
  [t \in Tasks |->
     CASE ph[t] = "idle" -> "absent"
       [] ph[t] = "queued" -> "waiting"
       [] ph[t] \in HoldsSlot -> "admitted"
       [] OTHER -> ph[t]]

LEMMA StatusCases ==
  ASSUME NEW ph \in [Tasks -> Phase], NEW t \in Tasks
  PROVE  /\ StatusOf(ph)[t] = "absent" <=> ph[t] = "idle"
         /\ StatusOf(ph)[t] = "waiting" <=> ph[t] = "queued"
         /\ StatusOf(ph)[t] = "admitted" <=> ph[t] \in HoldsSlot
         /\ StatusOf(ph)[t] \in Pool!Outcome <=> t \in SettledTasks(ph)
         /\ ph[t] \in {"fulfilled", "rejected"} => StatusOf(ph)[t] = ph[t]
BY DEF StatusOf, Phase, HoldsSlot, SettledTasks, Pool!Outcome

(* Changing one phase changes one status. *)
LEMMA StatusExcept ==
  ASSUME NEW ph \in [Tasks -> Phase], NEW ph2 \in [Tasks -> Phase], NEW t \in Tasks,
         \A u \in Tasks \ {t} : ph2[u] = ph[u]
  PROVE  StatusOf(ph2) = [StatusOf(ph) EXCEPT ![t] = StatusOf(ph2)[t]]
<1>1. \A u \in Tasks \ {t} : StatusOf(ph2)[u] = StatusOf(ph)[u]
  BY DEF StatusOf
<1>2. /\ StatusOf(ph2) = [u \in Tasks |-> StatusOf(ph2)[u]]
      /\ StatusOf(ph) = [u \in Tasks |-> StatusOf(ph)[u]]
  BY DEF StatusOf
<1> QED
  BY <1>1, <1>2

(* The instance has its own copy of Cardinality. *)
LEMMA PoolCardinality == \A S : Pool!Cardinality(S) = Cardinality(S)
BY DEF Pool!Cardinality, Cardinality

(***************************************************************************)
(* The pool admits what tryRunNextTask() starts: the first waiting task    *)
(* if a slot is free, and otherwise none.                                  *)
(***************************************************************************)
LEMMA AdmitsNext ==
  ASSUME NEW ph \in [Tasks -> Phase], NEW s \in Seq(Tasks), NEW n \in 0..MaxTasks,
         NEW k \in 0..Len(s), StartedUpTo(ph, s, k), Counted(ph, n, k),
         k < Len(s) => n = MaxTasks \/ n = MaxTasks - 1 \/ k + 1 = Len(s)
  PROVE  Pool!Admit(s, StatusOf(ph)) =
           IF n < MaxTasks /\ k < Len(s)
           THEN [StatusOf(ph) EXCEPT ![s[k + 1]] = "admitted"]
           ELSE StatusOf(ph)
<1> USE MaxTasksAssumption
<1> DEFINE quota == MaxTasks + Cardinality(Pool!Settled(StatusOf(ph)))
           st == StatusOf(ph)
<1>1. Pool!Settled(st) = SettledTasks(ph)
  BY StatusCases DEF Pool!Settled, SettledTasks
<1>2. IsFiniteSet(SettledTasks(ph))
  BY TasksAssumption, FS_Subset DEF SettledTasks
<1>3. quota = MaxTasks + k - n /\ quota \in Nat
  BY <1>1, <1>2, FS_CardinalityType DEF Counted
<1>4. \A i \in 1..Len(s) : st[s[i]] = "waiting" <=> i > k
  BY StatusCases DEF StartedUpTo
<1>5. st = [t \in Tasks |-> st[t]]
  BY DEF StatusOf
<1>6. Pool!Admit(s, st) =
        [t \in Tasks |-> IF st[t] = "waiting" /\ \E i \in DOMAIN s : i <= quota /\ s[i] = t
                         THEN "admitted" ELSE st[t]]
  BY PoolCardinality DEF Pool!Admit
<1> HIDE DEF st, quota
<1>7. CASE n < MaxTasks /\ k < Len(s)
  <2>1. \A i \in 1..Len(s) : (i > k /\ i <= quota) <=> i = k + 1
    BY <1>3, <1>7
  <2>2. \A t \in Tasks : (st[t] = "waiting" /\ \E i \in DOMAIN s : i <= quota /\ s[i] = t)
                         <=> t = s[k + 1]
    BY <1>4, <1>7, <2>1
  <2> QED
    BY <1>5, <1>6, <1>7, <2>2 DEF st
<1>8. CASE ~(n < MaxTasks /\ k < Len(s))
  <2>1. \A i \in 1..Len(s) : ~(i > k /\ i <= quota)
    BY <1>3, <1>8
  <2>2. \A t \in Tasks : ~(st[t] = "waiting" /\ \E i \in DOMAIN s : i <= quota /\ s[i] = t)
    BY <1>4, <2>1
  <2> QED
    BY <1>5, <1>6, <1>8, <2>2 DEF st
<1> QED
  BY <1>7, <1>8

(***************************************************************************)
(* tryRunNextTask() re-establishes the invariant whenever at most one slot *)
(* is free that a waiting task could take, and admits what the pool does.  *)
(***************************************************************************)
LEMMA TryRunRestores ==
  ASSUME NEW list \in ListType, NEW ph \in [Tasks -> Phase],
         NEW s \in Seq(Tasks), NEW n \in 0..MaxTasks, NEW k \in 0..Len(s),
         ListHolds(list, s, k), StartedUpTo(ph, s, k), Counted(ph, n, k),
         k < Len(s) => n = MaxTasks \/ n = MaxTasks - 1 \/ k + 1 = Len(s),
         submitted' = s, TryRunNextTask(list, n, ph)
  PROVE  IInv' /\ StatusOf(phase') = Pool!Admit(s, StatusOf(ph))
<1> USE MaxTasksAssumption
<1>1. CASE n < MaxTasks /\ k < Len(s)
  <2>1. /\ list.first = s[k + 1]
        /\ PopFront(list) \in ListType
        /\ ListHolds(PopFront(list), s, k + 1)
    BY <1>1, PopFrontHolds
  <2>2. s[k + 1] \in Tasks /\ ph[s[k + 1]] = "queued"
    BY <1>1 DEF StartedUpTo
  <2>3. /\ tasks' = PopFront(list)
        /\ runningTasks' = n + 1
        /\ phase' = [ph EXCEPT ![s[k + 1]] = "running"]
    BY <1>1, <2>1, <2>2, TasksAssumption DEF TryRunNextTask, MayRun
  <2>4. /\ phase' \in [Tasks -> Phase]
        /\ Counted(phase', n + 1, k + 1)
    <3>1. /\ phase' \in [Tasks -> Phase]
          /\ Cardinality(SlotHolders(phase')) = Cardinality(SlotHolders(ph)) + 1
          /\ SettledTasks(phase') = SettledTasks(ph)
      BY <2>2, <2>3, HoldersAdd
    <3>2. Cardinality(SettledTasks(ph)) \in Nat
      BY TasksAssumption, FS_Subset, FS_CardinalityType DEF SettledTasks
    <3> QED
      BY <3>1, <3>2 DEF Counted
  <2>5. StartedUpTo(phase', s, k + 1)
    <3>1. \A i \in 1..Len(s) : i # k + 1 => s[i] # s[k + 1] /\ s[i] \in Tasks
      BY <1>1 DEF StartedUpTo
    <3>2. \A i \in 1..Len(s) : i # k + 1 => phase'[s[i]] = ph[s[i]]
      BY <2>3, <3>1
    <3>3. phase'[s[k + 1]] = "running"
      BY <2>2, <2>3
    <3>4. \A i \in 1..Len(s) :
            /\ i <= k + 1 => phase'[s[i]] \notin {"idle", "queued"}
            /\ i > k + 1 => phase'[s[i]] = "queued"
      BY <3>2, <3>3 DEF StartedUpTo
    <3>5. \A t \in Tasks : phase'[t] # "idle" => \E i \in 1..Len(s) : s[i] = t
      BY <1>1, <2>2, <2>3 DEF StartedUpTo
    <3> QED
      BY <3>4, <3>5 DEF StartedUpTo
  <2>6. k + 1 < Len(s) => n + 1 = MaxTasks
    BY <1>1
  <2>7. TypeOK'
    BY <1>1, <2>1, <2>3, <2>4 DEF TypeOK, ListType
  <2>8. k + 1 \in 0..Len(s)
    BY <1>1
  <2>9. QueueInv(tasks', phase', s, n + 1, k + 1)
    BY <2>1, <2>3, <2>4, <2>5, <2>6 DEF QueueInv
  <2>10. StatusOf(phase') = Pool!Admit(s, StatusOf(ph))
    <3>1. /\ phase' \in [Tasks -> Phase] /\ phase'[s[k + 1]] \in HoldsSlot
          /\ \A u \in Tasks \ {s[k + 1]} : phase'[u] = ph[u]
      BY <2>2, <2>3, <2>4 DEF HoldsSlot
    <3>2. StatusOf(phase')[s[k + 1]] = "admitted"
      BY <2>2, <3>1, StatusCases
    <3>3. StatusOf(phase') = [StatusOf(ph) EXCEPT ![s[k + 1]] = "admitted"]
      BY <2>2, <3>1, <3>2, StatusExcept
    <3>4. Pool!Admit(s, StatusOf(ph)) = [StatusOf(ph) EXCEPT ![s[k + 1]] = "admitted"]
      BY <1>1, AdmitsNext
    <3> QED
      BY <3>3, <3>4
  <2> QED
    BY <2>3, <2>7, <2>8, <2>9, <2>10 DEF IInv
<1>2. CASE n = MaxTasks \/ k = Len(s)
  <2>1. n = MaxTasks \/ list.first = Nil
    BY <1>2 DEF ListHolds
  <2>2. tasks' = list /\ runningTasks' = n /\ phase' = ph
    BY <2>1 DEF TryRunNextTask, MayRun
  <2>3. TypeOK'
    BY <2>2 DEF TypeOK, ListType
  <2>4. QueueInv(tasks', phase', s, n, k)
    BY <1>2, <2>2 DEF QueueInv
  <2>5. StatusOf(phase') = Pool!Admit(s, StatusOf(ph))
    BY <1>2, <2>2, AdmitsNext
  <2> QED
    BY <2>2, <2>3, <2>4, <2>5 DEF IInv
<1> QED
  BY <1>1, <1>2

-----------------------------------------------------------------------------
LEMMA InitEstablishes == Init => IInv
<1> SUFFICES ASSUME Init PROVE IInv
  OBVIOUS
<1> USE MaxTasksAssumption, TasksAssumption DEF Init
<1>1. TypeOK
  BY DEF TypeOK, EmptyList, Entry, Phase
<1>2. SlotHolders(phase) = {}
  BY DEF SlotHolders, HoldsSlot
<1>3. QueueInv(tasks, phase, submitted, runningTasks, 0)
  <2>1. SettledTasks(phase) = {}
    BY DEF SettledTasks
  <2>2. Counted(phase, runningTasks, 0)
    <3>1. Cardinality({}) = 0 /\ runningTasks = 0
      BY FS_EmptySet
    <3>2. Cardinality(SlotHolders(phase)) = 0 /\ Cardinality(SettledTasks(phase)) = 0
      BY ONLY <1>2, <2>1, <3>1, Zenon
    <3> QED
      BY ONLY <3>1, <3>2 DEF Counted
  <2> QED
    BY <2>2 DEF QueueInv, ListHolds, StartedUpTo, EmptyList
<1> QED
  BY <1>1, <1>3 DEF IInv

LEMMA RunPreserves ==
  ASSUME IInv, NEW t \in Tasks, Run(t)
  PROVE  IInv' /\ Pool!Submit(t)
<1> DEFINE s2 == Append(submitted, t)
           ph2 == [phase EXCEPT ![t] = "queued"]
<1>1. PICK k \in 0..Len(submitted) :
        QueueInv(tasks, phase, submitted, runningTasks, k)
  BY DEF IInv
<1>2. /\ tasks \in ListType
      /\ phase \in [Tasks -> Phase]
      /\ submitted \in Seq(Tasks)
      /\ runningTasks \in 0..MaxTasks
      /\ Len(submitted) \in Nat
  BY DEF IInv, TypeOK, ListType
<1>3. \A i \in 1..Len(submitted) : submitted[i] # t
  BY <1>1, <1>2 DEF QueueInv, StartedUpTo, Run
<1>4. /\ PushBack(tasks, t) \in ListType
      /\ ListHolds(PushBack(tasks, t), s2, k)
  BY <1>1, <1>2, <1>3, PushBackHolds DEF QueueInv, StartedUpTo
<1>5. /\ s2 \in Seq(Tasks)
      /\ Len(s2) = Len(submitted) + 1
      /\ \A i \in 1..Len(submitted) : s2[i] = submitted[i] /\ s2[i] \in Tasks
      /\ s2[Len(submitted) + 1] = t
  BY <1>2
<1>6. ph2 \in [Tasks -> Phase]
  BY <1>2 DEF Phase
<1>7. StartedUpTo(ph2, s2, k)
  <2>1. \A i \in 1..Len(submitted) : ph2[s2[i]] = phase[submitted[i]]
    BY <1>2, <1>3, <1>5
  <2>2. ph2[t] = "queued"
    BY <1>2
  <2>3. \A i \in 1..Len(s2) :
          /\ i <= k => ph2[s2[i]] \notin {"idle", "queued"}
          /\ i > k => ph2[s2[i]] = "queued"
    <3>1. \A i \in 1..Len(submitted) :
            /\ i <= k => phase[submitted[i]] \notin {"idle", "queued"}
            /\ i > k => phase[submitted[i]] = "queued"
      BY <1>1 DEF QueueInv, StartedUpTo
    <3> HIDE DEF s2, ph2
    <3> TAKE i \in 1..Len(s2)
    <3>2. i \in 1..Len(submitted) \/ i = Len(submitted) + 1
      BY <1>2, <1>5
    <3>3. CASE i \in 1..Len(submitted)
      BY <2>1, <3>1, <3>3
    <3>4. CASE i = Len(submitted) + 1
      <4>1. ph2[s2[i]] = "queued"
        BY <1>5, <2>2, <3>4
      <4>2. ~(i <= k)
        BY <1>2, <3>4
      <4> QED
        BY <4>1, <4>2
    <3> QED
      BY <3>2, <3>3, <3>4
  <2>4. \A u \in Tasks : ph2[u] # "idle" => \E i \in 1..Len(s2) : s2[i] = u
    BY <1>1, <1>2, <1>5 DEF QueueInv, StartedUpTo
  <2>5. \A i, j \in 1..Len(s2) : s2[i] = s2[j] => i = j
    BY <1>1, <1>2, <1>3, <1>5 DEF QueueInv, StartedUpTo
  <2> QED
    BY <2>3, <2>4, <2>5 DEF StartedUpTo
<1>8. SlotHolders(ph2) = SlotHolders(phase) /\ SettledTasks(ph2) = SettledTasks(phase)
  BY <1>2 DEF Run, SlotHolders, SettledTasks, HoldsSlot
<1>9. /\ k \in 0..Len(s2)
      /\ Counted(ph2, runningTasks, k)
      /\ k < Len(s2) => runningTasks = MaxTasks \/ k + 1 = Len(s2)
  BY <1>1, <1>2, <1>5, <1>8 DEF QueueInv, Counted
<1>10. submitted' = s2 /\ TryRunNextTask(PushBack(tasks, t), runningTasks, ph2)
  BY DEF Run
<1> HIDE DEF s2, ph2
<1>11. IInv' /\ StatusOf(phase') = Pool!Admit(s2, StatusOf(ph2))
  BY <1>2, <1>4, <1>5, <1>6, <1>7, <1>9, <1>10, TryRunRestores
<1>12. Pool!Submit(t)
  <2>1. StatusOf(phase)[t] = "absent"
    BY <1>2, StatusCases DEF Run
  <2>2. StatusOf(ph2) = [StatusOf(phase) EXCEPT ![t] = "waiting"]
    <3>1. /\ phase \in [Tasks -> Phase] /\ ph2 \in [Tasks -> Phase] /\ ph2[t] = "queued"
          /\ \A u \in Tasks \ {t} : ph2[u] = phase[u]
      BY <1>2, <1>6 DEF ph2
    <3>2. StatusOf(ph2)[t] = "waiting"
      BY <3>1, StatusCases
    <3> QED
      BY <3>1, <3>2, StatusExcept
  <2> QED
    BY <1>10, <1>11, <2>1, <2>2 DEF Pool!Submit, PoolStatus, StatusOf, s2
<1> QED
  BY <1>11, <1>12

LEMMA SettlePreserves ==
  ASSUME IInv, NEW t \in Tasks, TaskSettles(t)
  PROVE  IInv' /\ UNCHANGED Pool!vars
<1>1. PICK k \in 0..Len(submitted) :
        QueueInv(tasks, phase, submitted, runningTasks, k)
  BY DEF IInv
<1>2. PICK o \in {"succeeded", "failed"} : phase' = [phase EXCEPT ![t] = o]
  BY DEF TaskSettles
<1>3. /\ phase[t] = "running"
      /\ tasks' = tasks /\ runningTasks' = runningTasks
      /\ submitted' = submitted
  BY DEF TaskSettles
<1>4. TypeOK /\ TypeOK' /\ Len(submitted) \in Nat
  BY <1>2, <1>3 DEF IInv, TypeOK, Phase
<1>5. SlotHolders(phase') = SlotHolders(phase) /\ SettledTasks(phase') = SettledTasks(phase)
  BY <1>2, <1>3, <1>4 DEF TypeOK, SlotHolders, SettledTasks, HoldsSlot
<1>6. StartedUpTo(phase', submitted, k)
  <2>1. \A u \in Tasks : /\ phase'[u] = "queued" <=> phase[u] = "queued"
                         /\ phase'[u] = "idle" <=> phase[u] = "idle"
    BY <1>2, <1>3, <1>4 DEF TypeOK
  <2>2. \A i \in 1..Len(submitted) : submitted[i] \in Tasks
    BY <1>4 DEF TypeOK
  <2> QED
    BY <1>1, <2>1, <2>2 DEF QueueInv, StartedUpTo
<1>7. QueueInv(tasks', phase', submitted', runningTasks', k)
  BY <1>1, <1>3, <1>5, <1>6 DEF QueueInv, Counted
<1>8. StatusOf(phase') = StatusOf(phase)
  BY <1>2, <1>3, <1>4 DEF TypeOK, StatusOf, HoldsSlot
<1>9. UNCHANGED Pool!vars
  BY <1>3, <1>8 DEF Pool!vars, PoolStatus, StatusOf
<1> QED
  BY <1>3, <1>4, <1>7, <1>9 DEF IInv

LEMMA OnFinishPreserves ==
  ASSUME IInv, NEW t \in Tasks, OnFinish(t)
  PROVE  IInv' /\ \E o \in Pool!Outcome : Pool!Settle(t, o)
<1> USE MaxTasksAssumption
<1>1. PICK k \in 0..Len(submitted) :
        QueueInv(tasks, phase, submitted, runningTasks, k)
  BY DEF IInv
<1>2. /\ tasks \in ListType
      /\ phase \in [Tasks -> Phase]
      /\ submitted \in Seq(Tasks)
      /\ runningTasks \in 0..MaxTasks
      /\ Len(submitted) \in Nat
  BY DEF IInv, TypeOK, ListType
<1>3. PICK o \in {"fulfilled", "rejected"} :
        TryRunNextTask(tasks, runningTasks - 1, [phase EXCEPT ![t] = o])
  BY <1>2 DEF OnFinish
<1> DEFINE ph2 == [phase EXCEPT ![t] = o]
<1>4. phase[t] \in HoldsSlot /\ submitted' = submitted
  BY DEF OnFinish, HoldsSlot
<1>5. /\ ph2 \in [Tasks -> Phase]
      /\ Counted(ph2, runningTasks - 1, k)
      /\ runningTasks - 1 \in 0..MaxTasks
  <2>1. Counted(phase, runningTasks, k)
    BY <1>1 DEF QueueInv
  <2>2. /\ ph2 \in [Tasks -> Phase]
        /\ Cardinality(SlotHolders(ph2)) = Cardinality(SlotHolders(phase)) - 1
        /\ Cardinality(SlotHolders(phase)) \in Nat \ {0}
        /\ Cardinality(SettledTasks(ph2)) = Cardinality(SettledTasks(phase)) + 1
        /\ Cardinality(SettledTasks(phase)) \in Nat
    BY <1>2, <1>4, HoldersRemove
  <2> QED
    BY <1>2, <2>1, <2>2 DEF Counted
<1>6. StartedUpTo(ph2, submitted, k)
  <2>1. \A u \in Tasks : /\ ph2[u] = "queued" <=> phase[u] = "queued"
                         /\ ph2[u] = "idle" <=> phase[u] = "idle"
    BY <1>2, <1>4 DEF HoldsSlot
  <2>2. \A i \in 1..Len(submitted) : submitted[i] \in Tasks
    BY <1>2
  <2> QED
    BY <1>1, <2>1, <2>2 DEF QueueInv, StartedUpTo
<1>7. k < Len(submitted) => runningTasks - 1 = MaxTasks - 1
  BY <1>1 DEF QueueInv
<1> HIDE DEF ph2
<1>8. TryRunNextTask(tasks, runningTasks - 1, ph2)
  BY <1>3 DEF ph2
<1>9. ListHolds(tasks, submitted, k)
  BY <1>1 DEF QueueInv
<1>10. IInv' /\ StatusOf(phase') = Pool!Admit(submitted, StatusOf(ph2))
  BY <1>2, <1>4, <1>5, <1>6, <1>7, <1>8, <1>9, TryRunRestores
<1>11. Pool!Settle(t, o)
  <2>1. StatusOf(phase)[t] = "admitted"
    BY <1>2, <1>4, StatusCases
  <2>2. StatusOf(ph2) = [StatusOf(phase) EXCEPT ![t] = o]
    <3>1. /\ phase \in [Tasks -> Phase] /\ ph2 \in [Tasks -> Phase] /\ ph2[t] = o
          /\ \A u \in Tasks \ {t} : ph2[u] = phase[u]
      BY <1>2, <1>5 DEF ph2
    <3>2. StatusOf(ph2)[t] = o
      BY <3>1, StatusCases
    <3> QED
      BY <3>1, <3>2, StatusExcept
  <2> QED
    BY <1>4, <1>10, <2>1, <2>2 DEF Pool!Settle, PoolStatus, StatusOf
<1> QED
  BY <1>10, <1>11 DEF Pool!Outcome

THEOREM InvariantHolds == Spec => []IInv
<1>1. Init => IInv
  BY InitEstablishes
<1>2. IInv /\ [Next]_vars => IInv'
  <2> SUFFICES ASSUME IInv, [Next]_vars PROVE IInv'
    OBVIOUS
  <2>1. ASSUME NEW t \in Tasks, Run(t) PROVE IInv'
    BY <2>1, RunPreserves
  <2>2. ASSUME NEW t \in Tasks, TaskSettles(t) PROVE IInv'
    BY <2>2, SettlePreserves
  <2>3. ASSUME NEW t \in Tasks, OnFinish(t) PROVE IInv'
    BY <2>3, OnFinishPreserves
  <2>4. CASE UNCHANGED vars
    <3>1. /\ tasks' = tasks /\ runningTasks' = runningTasks
          /\ phase' = phase /\ submitted' = submitted
      BY <2>4 DEF vars
    <3>2. TypeOK'
      BY <3>1 DEF IInv, TypeOK
    <3>3. PICK k \in 0..Len(submitted) :
            QueueInv(tasks, phase, submitted, runningTasks, k)
      BY DEF IInv
    <3> QED
      BY <3>1, <3>2, <3>3 DEF IInv
  <2> QED
    BY <2>1, <2>2, <2>3, <2>4 DEF Next
<1> QED
  BY <1>1, <1>2, PTL DEF Spec

-----------------------------------------------------------------------------
(* The state of the queue stays well typed; in particular #runningTasks    *)
(* never leaves 0..#maxTasks.                                              *)
THEOREM TypeCorrect == Spec => []TypeOK
BY InvariantHolds, PTL DEF IInv

(* No more than #maxTasks tasks run at a given time.                       *)
THEOREM AtMostMaxTasksHolds == Spec => []AtMostMaxTasks
<1>1. IInv => AtMostMaxTasks
  <2> SUFFICES ASSUME IInv PROVE AtMostMaxTasks
    OBVIOUS
  <2> DEFINE Running == {t \in Tasks : phase[t] = "running"}
  <2>1. Running \subseteq SlotHolders(phase) /\ IsFiniteSet(SlotHolders(phase))
    BY TasksAssumption, FS_Subset DEF SlotHolders, HoldsSlot
  <2>2. /\ Cardinality(Running) <= Cardinality(SlotHolders(phase))
        /\ Cardinality(Running) \in Nat
    BY <2>1, FS_Subset, FS_CardinalityType
  <2>3. /\ Cardinality(SlotHolders(phase)) = runningTasks
        /\ runningTasks \in 0..MaxTasks
    BY DEF IInv, TypeOK, QueueInv, Counted
  <2> QED
    BY <2>2, <2>3, MaxTasksAssumption DEF AtMostMaxTasks
<1> QED
  BY <1>1, InvariantHolds, PTL

(* No task waits in the linked list while a slot is free.                  *)
THEOREM NoIdleSlotHolds == Spec => []NoIdleSlot
<1>1. IInv => NoIdleSlot
  <2> SUFFICES ASSUME IInv, NEW t \in Tasks, phase[t] = "queued"
               PROVE  Cardinality(Holding) = MaxTasks
    BY DEF NoIdleSlot
  <2>1. PICK k \in 0..Len(submitted) :
          QueueInv(tasks, phase, submitted, runningTasks, k)
    BY DEF IInv
  <2>2. PICK i \in 1..Len(submitted) : submitted[i] = t
    BY <2>1 DEF QueueInv, StartedUpTo
  <2>3. Len(submitted) \in Nat
    BY DEF IInv, TypeOK
  <2>4. k < Len(submitted)
    BY <2>1, <2>2, <2>3 DEF QueueInv, StartedUpTo
  <2> QED
    BY <2>1, <2>4 DEF QueueInv, Counted, SlotHolders, Holding
<1> QED
  BY <1>1, InvariantHolds, PTL

(***************************************************************************)
(* The counter and the linked list implement the first come first served   *)
(* pool: the safety part of ImplementsFifoPool, for every number of tasks  *)
(* and slots.                                                              *)
(***************************************************************************)
PoolSafety == Pool!Init /\ [][Pool!Next]_(Pool!vars)

THEOREM QueueRefinesPool == Spec => PoolSafety
<1>1. Init => Pool!Init
  <2> SUFFICES ASSUME Init PROVE Pool!Init
    OBVIOUS
  <2>1. phase \in [Tasks -> Phase] /\ \A t \in Tasks : phase[t] = "idle"
    BY DEF Init, Phase
  <2>2. \A t \in Tasks : StatusOf(phase)[t] = "absent"
    BY <2>1, StatusCases
  <2>3. StatusOf(phase) = [t \in Tasks |-> StatusOf(phase)[t]]
    BY DEF StatusOf
  <2>4. StatusOf(phase) = [t \in Tasks |-> "absent"]
    BY <2>2, <2>3
  <2> QED
    BY <2>4 DEF Init, Pool!Init, PoolStatus, StatusOf
<1>2. IInv /\ [Next]_vars => [Pool!Next]_(Pool!vars)
  <2> SUFFICES ASSUME IInv, [Next]_vars PROVE [Pool!Next]_(Pool!vars)
    OBVIOUS
  <2>1. ASSUME NEW t \in Tasks, Run(t) PROVE Pool!Next
    BY <2>1, RunPreserves DEF Pool!Next
  <2>2. ASSUME NEW t \in Tasks, TaskSettles(t) PROVE UNCHANGED Pool!vars
    BY <2>2, SettlePreserves
  <2>3. ASSUME NEW t \in Tasks, OnFinish(t) PROVE Pool!Next
    BY <2>3, OnFinishPreserves DEF Pool!Next
  <2>4. CASE UNCHANGED vars
    BY <2>4 DEF vars, Pool!vars, PoolStatus
  <2> QED
    BY <2>1, <2>2, <2>3, <2>4 DEF Next
<1> QED
  BY <1>1, <1>2, InvariantHolds, PTL DEF Spec, PoolSafety
=============================================================================
