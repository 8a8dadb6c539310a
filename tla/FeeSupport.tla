----------------------------- MODULE FeeSupport -----------------------------
(***************************************************************************)
(* QueryFeeDetailsCache, and the fee tasks of BlocksService.fetchBlock     *)
(* that consult and teach it.  Whether a runtime has queryFeeDetails can   *)
(* only be found out by calling it; the cache remembers the outcome for    *)
(* every later request as two registers.                                   *)
(*                                                                         *)
(* The cache, like minCalcFeeRuntime, belongs to the configuration of the  *)
(* main chain.  An Asset Hub's also lists the controllers under /rc, which *)
(* fetch blocks of its relay chain with the same options: then the         *)
(* registers mix the versions of two chains.                               *)
(*                                                                         *)
(* A task asks the cache about the runtime version of its block's own      *)
(* state, but calls the runtime of the parent's state.  The two differ in  *)
(* the block that enacts a runtime upgrade.                                *)
(***************************************************************************)
EXTENDS Integers, Sequences, FiniteSets

CONSTANTS Requests,           \* requests for a block, each made once
          Blocks,             \* the blocks they may ask for
          Threshold,          \* the main chain's first runtime with queryFeeDetails
          MinCalcFeeRuntime,  \* minCalcFeeRuntime of the configuration
          KnownWithoutCall,   \* the arguments of the cache's constructor
          KnownWithCall,
          MaxTasks,           \* the size of the PromiseQueue: 4
          Flaky,              \* a call the runtime has may fail nevertheless
          Null

\* What resolveExtFees finds out about an extrinsic without asking the node:
\* no fees are wanted or due, an event or a call it needs is missing, an
\* event tells the fee, or none of these.
Shape == {"noFee", "missing", "feeEvent", "query"}

\* firstWithCall is the first runtime with queryFeeDetails of the block's chain.
Block == [version : Nat, parentVersion : Nat, firstWithCall : Nat, extrinsics : Seq(Shape)]

\* No block is of another chain, or of one where it makes a difference.
OneChain == \A b \in Blocks : b.firstWithCall = Threshold

ASSUME BlocksAssumption ==
  /\ Blocks # {}
  /\ Blocks \subseteq {b \in Block : b.parentVersion <= b.version}

ASSUME RegistersAssumption ==
  /\ Null \notin Nat
  /\ Threshold \in Nat /\ MinCalcFeeRuntime \in Nat
  /\ KnownWithoutCall = Null \/ KnownWithoutCall \in 0..(Threshold - 1)
  /\ KnownWithCall = Null \/ (KnownWithCall \in Nat /\ KnownWithCall >= Threshold)

ASSUME TasksAssumption == MaxTasks \in Nat \ {0} /\ Flaky \in BOOLEAN

VARIABLES registerWithoutCall, registerWithCall,  \* the cache
          asked,      \* asked[r]: the block request r fetches
          task,       \* task[r][i]: where the fee task of extrinsic i is
          kind,       \* kind[r][i]: the fee kind in info, once it is done
          answer,     \* answer[r]: idle, pending, ok or failed
          tried,      \* history: versions a probe has settled for
          disturbed   \* history: a probe failed for a runtime with the call

vars == <<registerWithoutCall, registerWithCall, asked, task, kind, answer,
          tried, disturbed>>

cacheVars == <<registerWithoutCall, registerWithCall, tried, disturbed>>

\* What the registers say about runtime v.
KnownToHave(v) == registerWithCall # Null /\ v >= registerWithCall

\* Faulty: takes the next runtime to lack the call as well.
KnownToLackNext(v) == registerWithoutCall # Null /\ v <= registerWithoutCall + 1

KnownToLack(v) == registerWithoutCall # Null /\ v <= registerWithoutCall

HasQueryFeeDetails(v) == IF KnownToHave(v) THEN "available"
                         ELSE IF KnownToLack(v) THEN "notAvailable"
                         ELSE "unknown"

\* Faulty: keeps the lowest runtime that failed.
SetLowestWithoutCall(v) ==
  /\ registerWithoutCall' =
       IF registerWithoutCall = Null \/ v < registerWithoutCall
       THEN v ELSE registerWithoutCall
  /\ UNCHANGED registerWithCall

SetRegisterWithoutCall(v) ==
  /\ registerWithoutCall' =
       IF registerWithoutCall = Null \/ v > registerWithoutCall
       THEN v ELSE registerWithoutCall
  /\ UNCHANGED registerWithCall

\* Faulty: keeps the runtime that answered last.
SetLastWithCall(v) == registerWithCall' = v /\ UNCHANGED registerWithoutCall

SetRegisterWithCall(v) ==
  /\ registerWithCall' =
       IF registerWithCall = Null \/ v < registerWithCall
       THEN v ELSE registerWithCall
  /\ UNCHANGED registerWithoutCall

-----------------------------------------------------------------------------
Init == /\ registerWithoutCall = KnownWithoutCall
        /\ registerWithCall = KnownWithCall
        /\ asked = [r \in Requests |-> CHOOSE b \in Blocks : TRUE]
        /\ task = [r \in Requests |-> <<>>]
        /\ kind = [r \in Requests |-> <<>>]
        /\ answer = [r \in Requests |-> "idle"]
        /\ tried = {}
        /\ disturbed = FALSE

Running(r) == {i \in DOMAIN task[r] : task[r][i] \in {"info", "available", "unknown"}}

Goto(r, i, from, to) == task[r][i] = from /\ task' = [task EXCEPT ![r][i] = to]

Done(r, i, from, k) == Goto(r, i, from, "done") /\ kind' = [kind EXCEPT ![r][i] = k]

\* fetchBlock has fetched the block and pushes a fee task per extrinsic.
Arrive(r) ==
  /\ answer[r] = "idle"
  /\ \E b \in Blocks :
       /\ asked' = [asked EXCEPT ![r] = b]
       /\ task' = [task EXCEPT ![r] = [i \in DOMAIN b.extrinsics |-> "waiting"]]
       /\ kind' = [kind EXCEPT ![r] = [i \in DOMAIN b.extrinsics |-> "none"]]
  /\ answer' = [answer EXCEPT ![r] = "pending"]
  /\ UNCHANGED cacheVars

\* The queue starts the next task: resolveExtFees up to its first await.
Start(r, i) ==
  LET shape == asked[r].extrinsics[i]
      tooOld == asked[r].version < MinCalcFeeRuntime
  IN  /\ Cardinality(Running(r)) < MaxTasks
      /\ \A j \in 1..(i - 1) : task[r][j] # "waiting"
      /\ CASE shape = "noFee"  -> Done(r, i, "waiting", "none")
           [] shape = "missing" \/ (shape # "noFee" /\ tooOld)
                               -> Done(r, i, "waiting", "error")
           [] shape = "feeEvent" /\ ~tooOld
                               -> Done(r, i, "waiting", "fromEvent")
           [] OTHER            -> Goto(r, i, "waiting", "info") /\ UNCHANGED kind
      /\ UNCHANGED <<asked, answer, cacheVars>>

\* Faulty: the runtime is registered before the call has answered.
ConsultAndRegister(r, i) ==
  LET v == asked[r].version
      known == HasQueryFeeDetails(v)
  IN  /\ IF known = "notAvailable"
         THEN Done(r, i, "info", "preDispatch")
         ELSE Goto(r, i, "info", known) /\ UNCHANGED kind
      /\ IF known = "unknown"
         THEN SetRegisterWithCall(v)
         ELSE UNCHANGED <<registerWithCall, registerWithoutCall>>
      /\ UNCHANGED <<asked, answer, tried, disturbed>>

\* queryInfo has answered, and the cache is asked.
Consult(r, i) ==
  LET known == HasQueryFeeDetails(asked[r].version)
  IN  /\ IF known = "notAvailable"
         THEN Done(r, i, "info", "preDispatch")
         ELSE Goto(r, i, "info", known) /\ UNCHANGED kind
      /\ UNCHANGED <<asked, answer, cacheVars>>

\* queryFeeDetails answers in the parent's state.
DetailsAnswer(r, i) ==
  LET v == asked[r].version
  IN  /\ asked[r].parentVersion >= asked[r].firstWithCall
      /\ task[r][i] \in {"available", "unknown"}
      /\ Done(r, i, task[r][i], "postDispatch")
      /\ IF task[r][i] = "unknown"
         THEN SetRegisterWithCall(v) /\ tried' = tried \cup {v}
         ELSE UNCHANGED <<registerWithCall, registerWithoutCall, tried>>
      /\ UNCHANGED <<asked, answer, disturbed>>

\* The parent's runtime does not have the call, the node does not answer it,
\* or calc_partial_fee throws on what it answers.
MayFail(r) == asked[r].parentVersion < asked[r].firstWithCall \/ Flaky

\* The call fails where support was unknown: this is taken for the answer.
ProbeFails(r, i) ==
  LET v == asked[r].version
  IN  /\ MayFail(r)
      /\ Done(r, i, "unknown", "preDispatch")
      /\ SetRegisterWithoutCall(v)
      /\ tried' = tried \cup {v}
      /\ disturbed' = (disturbed \/ v >= asked[r].firstWithCall)
      /\ UNCHANGED <<asked, answer>>

\* The call fails where it is known to exist: the task rejects.
CallFails(r, i) ==
  /\ MayFail(r)
  /\ Goto(r, i, "available", "failed")
  /\ UNCHANGED <<asked, kind, answer, cacheVars>>

\* queryInfo fails: the task rejects.
InfoFails(r, i) ==
  /\ Flaky
  /\ Goto(r, i, "info", "failed")
  /\ UNCHANGED <<asked, kind, answer, cacheVars>>

\* Faulty: a task that rejects is not passed on.
RespondWhenAllDone(r) ==
  /\ answer[r] = "pending"
  /\ \A i \in DOMAIN task[r] : task[r][i] = "done"
  /\ answer' = [answer EXCEPT ![r] = "ok"]
  /\ UNCHANGED <<asked, task, kind, cacheVars>>

\* Promise.all over the tasks: it rejects with the first of them, while the
\* others go on.
Respond(r) ==
  /\ answer[r] = "pending"
  /\ \/ /\ \E i \in DOMAIN task[r] : task[r][i] = "failed"
        /\ answer' = [answer EXCEPT ![r] = "failed"]
     \/ /\ \A i \in DOMAIN task[r] : task[r][i] = "done"
        /\ answer' = [answer EXCEPT ![r] = "ok"]
  /\ UNCHANGED <<asked, task, kind, cacheVars>>

TaskStep(r, i) == \/ Start(r, i) \/ Consult(r, i) \/ DetailsAnswer(r, i)
                  \/ ProbeFails(r, i) \/ CallFails(r, i) \/ InfoFails(r, i)

Next == \E r \in Requests :
          Arrive(r) \/ Respond(r) \/ \E i \in DOMAIN task[r] : TaskStep(r, i)

\* Every call to the node settles one way or the other, and the event loop
\* runs every continuation.
Fairness == \A r \in Requests :
              /\ WF_vars(Respond(r))
              /\ WF_vars(\E i \in DOMAIN task[r] : TaskStep(r, i))

Spec == Init /\ [][Next]_vars /\ Fairness

-----------------------------------------------------------------------------
TaskState == {"waiting", "info", "available", "unknown", "done", "failed"}

FeeKind == {"none", "error", "fromEvent", "preDispatch", "postDispatch"}

TypeOK ==
  /\ registerWithoutCall \in Nat \cup {Null}
  /\ registerWithCall \in Nat \cup {Null}
  /\ asked \in [Requests -> Blocks]
  /\ answer \in [Requests -> {"idle", "pending", "ok", "failed"}]
  /\ task \in [Requests -> Seq(TaskState)]
  /\ kind \in [Requests -> Seq(FeeKind)]
  /\ \A r \in Requests : Len(task[r]) = Len(kind[r])
  /\ tried \subseteq Nat
  /\ disturbed \in BOOLEAN

(***************************************************************************)
(* Whatever fails, and in whatever order the tasks of all requests settle, *)
(* no runtime without queryFeeDetails is taken to have it, and so none of  *)
(* its blocks is refused because the call fails: hasQueryFeeDetails        *)
(* "Checks whether the current runtime version has access to the runtime   *)
(* API".                                                                   *)
(***************************************************************************)
WithCallSound ==
  /\ registerWithCall # Null => registerWithCall >= Threshold
  /\ \A r \in Requests : \A i \in DOMAIN task[r] :
       task[r][i] = "available" => asked[r].version >= asked[r].firstWithCall

(***************************************************************************)
(* The purpose of the cache: after one settled probe a runtime version is  *)
(* never probed again, because it is not unknown to any later task.        *)
(***************************************************************************)
NoSecondProbe == \A v \in tried : HasQueryFeeDetails(v) # "unknown"

(***************************************************************************)
(* What the cache says about support is never taken back: a version once   *)
(* available stays so, though later probes of other versions move both     *)
(* registers.  Requests for the same block then agree on the fee kind.     *)
(***************************************************************************)
AvailableStays ==
  [][\A b \in Blocks : HasQueryFeeDetails(b.version) = "available"
                         => HasQueryFeeDetails(b.version)' = "available"]_vars

(***************************************************************************)
(* Unless a probe failed for a block whose version has the call, every fee *)
(* that had to be queried is a postDispatch fee exactly if the block's     *)
(* runtime has queryFeeDetails.                                            *)
(***************************************************************************)
FeeKindRight ==
  ~disturbed =>
    \A r \in Requests : \A i \in DOMAIN kind[r] :
      /\ kind[r][i] = "preDispatch" => asked[r].version < asked[r].firstWithCall
      /\ kind[r][i] = "postDispatch" => asked[r].version >= asked[r].firstWithCall

(***************************************************************************)
(* Every requested block is answered or refused, and a task that rejects   *)
(* keeps none of the others from settling.                                 *)
(***************************************************************************)
EveryBlockAnswered ==
  \A r \in Requests :
    answer[r] = "pending" ~>
      /\ answer[r] \in {"ok", "failed"}
      /\ \A i \in DOMAIN task[r] : task[r][i] \in {"done", "failed"}
=============================================================================
