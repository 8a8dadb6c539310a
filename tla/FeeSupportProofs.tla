-------------------------- MODULE FeeSupportProofs --------------------------
(***************************************************************************)
(* The safety properties of FeeSupport, for any number of requests, blocks *)
(* and extrinsics and for whatever the node refuses, as long as all blocks *)
(* are of one chain.                                                       *)
(***************************************************************************)
EXTENDS FeeSupport, SequenceTheorems, TLAPS

\* As long as no probe failed for a runtime with the call, the register of
\* runtimes without it is right.
UndisturbedWithoutCall ==
  ~disturbed /\ registerWithoutCall # Null => registerWithoutCall < Threshold

IInv == TypeOK /\ WithCallSound /\ NoSecondProbe /\ UndisturbedWithoutCall /\ FeeKindRight

-----------------------------------------------------------------------------
(* The registers. *)

\* What the four functions of QueryFeeDetailsCache do to a version's answer.
LEMMA Registers ==
  ASSUME TypeOK, NEW v \in Nat,
         SetRegisterWithCall(v) \/ SetRegisterWithoutCall(v)
  PROVE  /\ registerWithCall' \in Nat \cup {Null}
         /\ registerWithoutCall' \in Nat \cup {Null}
         /\ \A w \in Nat : KnownToHave(w) => KnownToHave(w)'
         /\ \A w \in Nat : KnownToLack(w) => KnownToLack(w)'
         /\ KnownToHave(v)' \/ KnownToLack(v)'
BY RegistersAssumption, SMT
   DEF TypeOK, SetRegisterWithCall, SetRegisterWithoutCall, KnownToHave, KnownToLack

\* The support of a version is one of three, and unknown to neither register.
LEMMA SupportCases ==
  \A v : /\ HasQueryFeeDetails(v) = "available" <=> KnownToHave(v)
         /\ HasQueryFeeDetails(v) = "notAvailable" <=> ~KnownToHave(v) /\ KnownToLack(v)
         /\ HasQueryFeeDetails(v) = "unknown" <=> ~KnownToHave(v) /\ ~KnownToLack(v)
         /\ HasQueryFeeDetails(v) \in {"available", "notAvailable", "unknown"}
BY DEF HasQueryFeeDetails

\* The same in the next state.
LEMMA SupportCasesNext ==
  \A v : /\ HasQueryFeeDetails(v)' = "available" <=> KnownToHave(v)'
         /\ HasQueryFeeDetails(v)' = "unknown" <=> ~KnownToHave(v)' /\ ~KnownToLack(v)'
BY DEF HasQueryFeeDetails

-----------------------------------------------------------------------------
(* The tasks. *)

\* One task moves, the others stay.
LEMMA GotoMoves ==
  ASSUME TypeOK, NEW r \in Requests, NEW i \in DOMAIN task[r], NEW from,
         NEW to \in TaskState, Goto(r, i, from, to)
  PROVE  /\ task' \in [Requests -> Seq(TaskState)]
         /\ \A q \in Requests : Len(task'[q]) = Len(task[q])
         /\ \A q \in Requests : DOMAIN task'[q] = DOMAIN task[q]
         /\ \A q \in Requests : \A j \in DOMAIN task[q] :
              task'[q][j] = IF q = r /\ j = i THEN to ELSE task[q][j]
<1>1. task[r] \in Seq(TaskState) /\ i \in 1..Len(task[r])
  BY DEF TypeOK
<1> DEFINE t == [task[r] EXCEPT ![i] = to]
<1>2. t \in Seq(TaskState) /\ Len(t) = Len(task[r])
  BY <1>1, ExceptSeq
<1>3. task' = [task EXCEPT ![r] = t]
  BY DEF Goto, TypeOK
<1>4. task' \in [Requests -> Seq(TaskState)]
  BY <1>2, <1>3 DEF TypeOK
<1>5. \A q \in Requests : Len(task'[q]) = Len(task[q])
  BY <1>2, <1>3 DEF TypeOK
<1>6. \A q \in Requests : DOMAIN task'[q] = DOMAIN task[q]
  BY <1>4, <1>5 DEF TypeOK
<1>7. \A q \in Requests : \A j \in DOMAIN task[q] :
        task'[q][j] = IF q = r /\ j = i THEN to ELSE task[q][j]
  BY <1>1, <1>3 DEF TypeOK
<1> QED BY <1>4, <1>5, <1>6, <1>7

\* A task ends with a fee kind, the other kinds stay.
LEMMA DoneMoves ==
  ASSUME TypeOK, NEW r \in Requests, NEW i \in DOMAIN task[r], NEW from,
         NEW k \in FeeKind, Done(r, i, from, k)
  PROVE  /\ kind' \in [Requests -> Seq(FeeKind)]
         /\ \A q \in Requests : Len(kind'[q]) = Len(kind[q])
         /\ \A q \in Requests : DOMAIN kind'[q] = DOMAIN kind[q]
         /\ \A q \in Requests : \A j \in DOMAIN kind[q] :
              kind'[q][j] = IF q = r /\ j = i THEN k ELSE kind[q][j]
<1>1. kind[r] \in Seq(FeeKind) /\ i \in 1..Len(kind[r])
  BY DEF TypeOK
<1> DEFINE t == [kind[r] EXCEPT ![i] = k]
<1>2. t \in Seq(FeeKind) /\ Len(t) = Len(kind[r])
  BY <1>1, ExceptSeq
<1>3. kind' = [kind EXCEPT ![r] = t]
  BY DEF Done, TypeOK
<1>4. kind' \in [Requests -> Seq(FeeKind)]
  BY <1>2, <1>3 DEF TypeOK
<1>5. \A q \in Requests : Len(kind'[q]) = Len(kind[q])
  BY <1>2, <1>3 DEF TypeOK
<1>6. \A q \in Requests : DOMAIN kind'[q] = DOMAIN kind[q]
  BY <1>4, <1>5 DEF TypeOK
<1>7. \A q \in Requests : \A j \in DOMAIN kind[q] :
        kind'[q][j] = IF q = r /\ j = i THEN k ELSE kind[q][j]
  BY <1>1, <1>3 DEF TypeOK
<1> QED BY <1>4, <1>5, <1>6, <1>7

-----------------------------------------------------------------------------
(* The inductive invariant. *)

USE DEF TaskState, FeeKind

LEMMA InitEstablishes == Init => IInv
<1> SUFFICES ASSUME Init PROVE IInv
  OBVIOUS
<1>1. TypeOK
  <2>1. /\ registerWithoutCall \in Nat \cup {Null}
        /\ registerWithCall \in Nat \cup {Null}
    BY RegistersAssumption DEF Init
  <2>2. asked \in [Requests -> Blocks]
    BY BlocksAssumption DEF Init
  <2>3. /\ task \in [Requests -> Seq(TaskState)]
        /\ kind \in [Requests -> Seq(FeeKind)]
        /\ \A r \in Requests : Len(task[r]) = Len(kind[r])
    BY DEF Init
  <2>4. /\ answer \in [Requests -> {"idle", "pending", "ok", "failed"}]
        /\ tried \subseteq Nat /\ disturbed \in BOOLEAN
    BY DEF Init
  <2> QED BY <2>1, <2>2, <2>3, <2>4 DEF TypeOK
<1>2. WithCallSound /\ NoSecondProbe /\ FeeKindRight
  BY RegistersAssumption DEF Init, WithCallSound, NoSecondProbe, FeeKindRight
<1>3. UndisturbedWithoutCall
  BY RegistersAssumption DEF Init, UndisturbedWithoutCall
<1> QED BY <1>1, <1>2, <1>3 DEF IInv

\* A step that leaves the cache alone keeps everything said of it.
LEMMA CacheUntouched ==
  ASSUME IInv, UNCHANGED cacheVars
  PROVE  /\ NoSecondProbe' /\ UndisturbedWithoutCall'
         /\ registerWithCall' # Null => registerWithCall' >= Threshold
BY DEF IInv, cacheVars, NoSecondProbe, UndisturbedWithoutCall, WithCallSound,
       HasQueryFeeDetails, KnownToHave, KnownToLack

LEMMA VersionsAreNat ==
  ASSUME TypeOK, NEW r \in Requests
  PROVE  /\ asked[r].version \in Nat /\ asked[r].parentVersion \in Nat
         /\ asked[r].firstWithCall \in Nat
         /\ asked[r].parentVersion <= asked[r].version
         /\ OneChain => asked[r].firstWithCall = Threshold
BY BlocksAssumption DEF TypeOK, Block, OneChain

LEMMA ArrivePreserves ==
  ASSUME IInv, NEW r \in Requests, Arrive(r) PROVE IInv'
<1>1. PICK b \in Blocks :
        /\ asked' = [asked EXCEPT ![r] = b]
        /\ task' = [task EXCEPT ![r] = [i \in DOMAIN b.extrinsics |-> "waiting"]]
        /\ kind' = [kind EXCEPT ![r] = [i \in DOMAIN b.extrinsics |-> "none"]]
  BY DEF Arrive
<1>2. b.extrinsics \in Seq(Shape)
  BY BlocksAssumption DEF Block
<1> DEFINE n == Len(b.extrinsics)
<1>3. DOMAIN b.extrinsics = 1..n /\ n \in Nat
  BY <1>2
<1>4. [i \in 1..n |-> "waiting"] \in Seq(TaskState) /\ Len([i \in 1..n |-> "waiting"]) = n
  BY <1>3
<1>5. [i \in 1..n |-> "none"] \in Seq(FeeKind) /\ Len([i \in 1..n |-> "none"]) = n
  BY <1>3
<1> DEFINE waiting == [i \in 1..n |-> "waiting"]
           none == [i \in 1..n |-> "none"]
<1>6. TypeOK'
  <2>1. /\ task' = [task EXCEPT ![r] = waiting] /\ kind' = [kind EXCEPT ![r] = none]
        /\ waiting \in Seq(TaskState) /\ none \in Seq(FeeKind) /\ Len(waiting) = Len(none)
    BY <1>1, <1>3, <1>4, <1>5
  <2> HIDE DEF n, waiting, none
  <2>2. /\ task' \in [Requests -> Seq(TaskState)] /\ kind' \in [Requests -> Seq(FeeKind)]
        /\ \A q \in Requests : Len(task'[q]) = Len(kind'[q])
    BY <2>1 DEF IInv, TypeOK
  <2>3. /\ asked' \in [Requests -> Blocks]
        /\ answer' \in [Requests -> {"idle", "pending", "ok", "failed"}]
    BY <1>1 DEF IInv, TypeOK, Arrive
  <2> QED
    BY <2>2, <2>3 DEF IInv, TypeOK, Arrive, cacheVars
<1>7. NoSecondProbe' /\ UndisturbedWithoutCall'
      /\ (registerWithCall' # Null => registerWithCall' >= Threshold)
  BY CacheUntouched DEF Arrive
<1>8. WithCallSound'
  BY <1>1, <1>3, <1>7 DEF IInv, TypeOK, WithCallSound
<1>9. FeeKindRight'
  BY <1>1, <1>3 DEF IInv, TypeOK, FeeKindRight, Arrive, cacheVars
<1> QED BY <1>6, <1>7, <1>8, <1>9 DEF IInv

LEMMA RespondPreserves ==
  ASSUME IInv, NEW r \in Requests, Respond(r) PROVE IInv'
<1>1. TypeOK'
  <2>1. answer' \in [Requests -> {"idle", "pending", "ok", "failed"}]
    <3>1. PICK v \in {"ok", "failed"} : answer' = [answer EXCEPT ![r] = v]
      BY DEF Respond
    <3>2. answer \in [Requests -> {"idle", "pending", "ok", "failed"}]
      BY DEF IInv, TypeOK
    <3> QED
      BY <3>1, <3>2
  <2> QED
    BY <2>1 DEF IInv, TypeOK, Respond, cacheVars
<1>2. NoSecondProbe' /\ UndisturbedWithoutCall'
  BY CacheUntouched DEF Respond
<1>3. WithCallSound' /\ FeeKindRight'
  BY DEF IInv, WithCallSound, FeeKindRight, Respond, cacheVars
<1> QED BY <1>1, <1>2, <1>3 DEF IInv

\* A task moves on with no fee yet and without teaching the cache.
LEMMA MovePreserves ==
  ASSUME IInv, NEW r \in Requests, NEW i \in DOMAIN task[r], NEW from,
         NEW to \in TaskState, Goto(r, i, from, to),
         to = "available" => asked[r].version >= asked[r].firstWithCall,
         UNCHANGED <<asked, kind, answer, cacheVars>>
  PROVE  IInv'
<1> USE DEF IInv
<1>1. TypeOK'
  BY GotoMoves DEF TypeOK, cacheVars
<1>2. NoSecondProbe' /\ UndisturbedWithoutCall'
      /\ (registerWithCall' # Null => registerWithCall' >= Threshold)
  BY CacheUntouched
<1>3. WithCallSound'
  BY GotoMoves, <1>2 DEF WithCallSound
<1>4. FeeKindRight'
  BY DEF FeeKindRight, cacheVars
<1> QED BY <1>1, <1>2, <1>3, <1>4

\* A task ends with a fee that is right, without teaching the cache.
LEMMA EndPreserves ==
  ASSUME IInv, NEW r \in Requests, NEW i \in DOMAIN task[r], NEW from,
         NEW k \in FeeKind, Done(r, i, from, k),
         k = "preDispatch" /\ ~disturbed => asked[r].version < asked[r].firstWithCall,
         k = "postDispatch" => asked[r].version >= asked[r].firstWithCall,
         UNCHANGED <<asked, answer, cacheVars>>
  PROVE  IInv'
<1> USE DEF IInv
<1>1. Goto(r, i, from, "done")
  BY DEF Done
<1>2. TypeOK'
  BY GotoMoves, DoneMoves, <1>1 DEF TypeOK, cacheVars
<1>3. NoSecondProbe' /\ UndisturbedWithoutCall'
      /\ (registerWithCall' # Null => registerWithCall' >= Threshold)
  BY CacheUntouched
<1>4. WithCallSound'
  BY GotoMoves, <1>1, <1>3 DEF WithCallSound
<1>5. FeeKindRight'
  BY DoneMoves DEF FeeKindRight, cacheVars
<1> QED BY <1>2, <1>3, <1>4, <1>5

\* A probe ends a task and registers its version v.
LEMMA ProbePreserves ==
  ASSUME OneChain, IInv, NEW r \in Requests, NEW i \in DOMAIN task[r], NEW from,
         NEW k \in {"preDispatch", "postDispatch"}, Done(r, i, from, k),
         UNCHANGED <<asked, answer>>,
         tried' = tried \cup {asked[r].version},
         \/ /\ k = "postDispatch" /\ asked[r].version >= asked[r].firstWithCall
            /\ SetRegisterWithCall(asked[r].version)
            /\ UNCHANGED disturbed
         \/ /\ k = "preDispatch"
            /\ SetRegisterWithoutCall(asked[r].version)
            /\ disturbed' = (disturbed \/ asked[r].version >= asked[r].firstWithCall)
  PROVE  IInv'
<1> USE DEF IInv
<1> DEFINE v == asked[r].version
<1>1. Goto(r, i, from, "done")
  BY DEF Done
<1>2. v \in Nat /\ asked[r].firstWithCall = Threshold
  BY VersionsAreNat
<1>3. SetRegisterWithCall(v) \/ SetRegisterWithoutCall(v)
  OBVIOUS
<1>4. /\ registerWithCall' \in Nat \cup {Null}
      /\ registerWithoutCall' \in Nat \cup {Null}
      /\ \A w \in Nat : KnownToHave(w) => KnownToHave(w)'
      /\ \A w \in Nat : KnownToLack(w) => KnownToLack(w)'
      /\ KnownToHave(v)' \/ KnownToLack(v)'
  BY <1>2, <1>3, Registers
<1>5. disturbed' \in BOOLEAN
  BY Zenon DEF TypeOK
<1>6. tried' \subseteq Nat
  BY <1>2 DEF TypeOK
<1>7. TypeOK'
  BY GotoMoves, DoneMoves, <1>1, <1>4, <1>5, <1>6 DEF TypeOK
<1>8. NoSecondProbe'
  <2>1. \A w \in tried : KnownToHave(w) \/ KnownToLack(w)
    BY SupportCases DEF NoSecondProbe
  <2>2. \A w \in tried' : KnownToHave(w)' \/ KnownToLack(w)'
    BY <1>2, <1>4, <2>1 DEF TypeOK
  <2> QED BY <2>2, SupportCasesNext DEF NoSecondProbe
<1>9. ~disturbed' => ~disturbed
  BY Zenon
<1>10. ~disturbed' /\ k = "preDispatch" => ~(v >= asked[r].firstWithCall)
  BY Zenon
<1>11. ~disturbed' => (k = "preDispatch" => v < Threshold)
  BY <1>2, <1>10, RegistersAssumption
<1>12. k = "postDispatch" => v >= Threshold
  BY <1>2
<1>13. \/ registerWithoutCall' = registerWithoutCall
       \/ registerWithoutCall' = v /\ k = "preDispatch"
  BY DEF SetRegisterWithCall, SetRegisterWithoutCall
<1>14. UndisturbedWithoutCall'
  BY <1>9, <1>11, <1>13, Zenon DEF UndisturbedWithoutCall
<1>15. registerWithCall' # Null => registerWithCall' >= Threshold
  BY <1>2, <1>12 DEF WithCallSound, SetRegisterWithCall, SetRegisterWithoutCall
<1>16. WithCallSound'
  BY GotoMoves, <1>1, <1>15 DEF WithCallSound
<1>17. FeeKindRight'
  <2> SUFFICES ASSUME ~disturbed', NEW q \in Requests, NEW j \in DOMAIN kind[q]
               PROVE  /\ kind'[q][j] = "preDispatch" => asked[q].version < asked[q].firstWithCall
                      /\ kind'[q][j] = "postDispatch" => asked[q].version >= asked[q].firstWithCall
    BY DoneMoves DEF FeeKindRight
  <2>1. ~disturbed
    BY <1>9
  <2>2. kind'[q][j] = IF q = r /\ j = i THEN k ELSE kind[q][j]
    BY DoneMoves
  <2>3. /\ k = "preDispatch" => v < asked[r].firstWithCall
        /\ k = "postDispatch" => v >= asked[r].firstWithCall
    BY <1>2, <1>11, <1>12, <2>1
  <2> QED BY <2>1, <2>2, <2>3 DEF FeeKindRight
<1> QED BY <1>7, <1>8, <1>14, <1>16, <1>17

-----------------------------------------------------------------------------
(* The actions of a task. *)

\* Consult finds a support the registers vouch for.
LEMMA ConsultPreserves ==
  ASSUME OneChain, IInv, NEW r \in Requests, NEW i \in DOMAIN task[r], Consult(r, i)
  PROVE  IInv'
<1> DEFINE known == HasQueryFeeDetails(asked[r].version)
<1>1. asked[r].version \in Nat /\ asked[r].firstWithCall = Threshold
  BY VersionsAreNat DEF IInv
<1>2. CASE known = "notAvailable"
  <2>1. KnownToLack(asked[r].version)
    BY <1>2, SupportCases
  <2>2. ~disturbed => asked[r].version < asked[r].firstWithCall
    BY <1>1, <2>1, RegistersAssumption
       DEF IInv, TypeOK, UndisturbedWithoutCall, KnownToLack
  <2>3. Done(r, i, "info", "preDispatch") /\ UNCHANGED <<asked, answer, cacheVars>>
    BY <1>2 DEF Consult
  <2> QED BY <2>2, <2>3, EndPreserves
<1>3. CASE known # "notAvailable"
  <2>1. Goto(r, i, "info", known) /\ UNCHANGED <<asked, kind, answer, cacheVars>>
    BY <1>3 DEF Consult
  <2>2. known \in TaskState
    BY <1>3, SupportCases
  <2>3. known = "available" => asked[r].version >= asked[r].firstWithCall
    <3> SUFFICES ASSUME known = "available" PROVE asked[r].version >= asked[r].firstWithCall
      OBVIOUS
    <3>1. KnownToHave(asked[r].version)
      BY SupportCases
    <3> QED BY <1>1, <3>1, RegistersAssumption
            DEF IInv, TypeOK, WithCallSound, KnownToHave
  <2> QED BY <2>1, <2>2, <2>3, MovePreserves
<1> QED BY <1>2, <1>3

LEMMA StartPreserves ==
  ASSUME IInv, NEW r \in Requests, NEW i \in DOMAIN task[r], Start(r, i)
  PROVE  IInv'
<1>1. \/ Done(r, i, "waiting", "none")
      \/ Done(r, i, "waiting", "error")
      \/ Done(r, i, "waiting", "fromEvent")
      \/ Goto(r, i, "waiting", "info") /\ UNCHANGED kind
  BY DEF Start
<1>2. UNCHANGED <<asked, answer, cacheVars>>
  BY DEF Start
<1>3. CASE \E k \in {"none", "error", "fromEvent"} : Done(r, i, "waiting", k)
  BY <1>2, <1>3, EndPreserves
<1>4. CASE Goto(r, i, "waiting", "info") /\ UNCHANGED kind
  BY <1>2, <1>4, MovePreserves
<1> QED BY <1>1, <1>3, <1>4

LEMMA DetailsAnswerPreserves ==
  ASSUME OneChain, IInv, NEW r \in Requests, NEW i \in DOMAIN task[r], DetailsAnswer(r, i)
  PROVE  IInv'
<1>1. asked[r].version >= asked[r].firstWithCall
  BY VersionsAreNat, RegistersAssumption DEF IInv, DetailsAnswer
<1>2. CASE task[r][i] = "unknown"
  BY <1>1, <1>2, ProbePreserves DEF DetailsAnswer
<1>3. CASE task[r][i] # "unknown"
  BY <1>1, <1>3, EndPreserves DEF DetailsAnswer, cacheVars
<1> QED BY <1>2, <1>3

LEMMA ProbeFailsPreserves ==
  ASSUME OneChain, IInv, NEW r \in Requests, NEW i \in DOMAIN task[r], ProbeFails(r, i)
  PROVE  IInv'
BY ProbePreserves DEF ProbeFails

LEMMA RejectionPreserves ==
  ASSUME IInv, NEW r \in Requests, NEW i \in DOMAIN task[r],
         CallFails(r, i) \/ InfoFails(r, i)
  PROVE  IInv'
BY MovePreserves DEF CallFails, InfoFails

LEMMA StepPreserves == OneChain /\ IInv /\ [Next]_vars => IInv'
<1> SUFFICES ASSUME OneChain, IInv, [Next]_vars PROVE IInv'
  OBVIOUS
<1>1. CASE UNCHANGED vars
  BY <1>1 DEF vars, IInv, TypeOK, WithCallSound, NoSecondProbe, UndisturbedWithoutCall,
              FeeKindRight, HasQueryFeeDetails, KnownToHave, KnownToLack
<1>2. ASSUME NEW r \in Requests, Arrive(r) PROVE IInv'
  BY <1>2, ArrivePreserves
<1>3. ASSUME NEW r \in Requests, Respond(r) PROVE IInv'
  BY <1>3, RespondPreserves
<1>4. ASSUME NEW r \in Requests, NEW i \in DOMAIN task[r], TaskStep(r, i) PROVE IInv'
  BY <1>4, StartPreserves, ConsultPreserves, DetailsAnswerPreserves,
     ProbeFailsPreserves, RejectionPreserves DEF TaskStep
<1> QED BY <1>1, <1>2, <1>3, <1>4 DEF Next

\* The inductive invariant holds whatever the chain's blocks, whatever order
\* the tasks of however many requests settle in, and whatever the node
\* refuses.
THEOREM FeeInvariant == ASSUME OneChain PROVE Spec => []IInv
<1>1. Init => IInv
  BY InitEstablishes
<1>2. IInv /\ [Next]_vars => IInv'
  BY StepPreserves
<1> QED BY <1>1, <1>2, PTL DEF Spec

\* The registers and the tasks keep their types: every task ends with a fee
\* kind of its own, and setRegister* store versions only.
THEOREM TypeCorrect == ASSUME OneChain PROVE Spec => []TypeOK
<1>1. IInv => TypeOK
  BY DEF IInv
<1> QED BY <1>1, FeeInvariant, PTL

\* No runtime without queryFeeDetails is ever registered as having it by
\* setRegisterWithCall, nor treated as if.
THEOREM WithCallIsSound == ASSUME OneChain PROVE Spec => []WithCallSound
<1>1. IInv => WithCallSound
  BY DEF IInv
<1> QED BY <1>1, FeeInvariant, PTL

\* hasQueryFeeDetails knows every version a probe has settled for.
THEOREM NoVersionProbedTwice == ASSUME OneChain PROVE Spec => []NoSecondProbe
<1>1. IInv => NoSecondProbe
  BY DEF IInv
<1> QED BY <1>1, FeeInvariant, PTL

\* The kind of a queried fee tells whether the block's runtime has
\* queryFeeDetails, unless a probe failed for one that has.
THEOREM FeeKindIsRight == ASSUME OneChain PROVE Spec => []FeeKindRight
<1>1. IInv => FeeKindRight
  BY DEF IInv
<1> QED BY <1>1, FeeInvariant, PTL

\* A step moves the registers only by the two setters.
LEMMA StepMovesRegisters ==
  ASSUME IInv, [Next]_vars
  PROVE  \/ UNCHANGED <<registerWithCall, registerWithoutCall>>
         \/ \E v \in Nat : SetRegisterWithCall(v) \/ SetRegisterWithoutCall(v)
<1>1. \A r \in Requests : asked[r].version \in Nat
  BY VersionsAreNat DEF IInv
<1> QED BY <1>1 DEF Next, vars, cacheVars, Arrive, Respond, TaskStep, Start, Consult,
                    DetailsAnswer, ProbeFails, CallFails, InfoFails

\* What hasQueryFeeDetails calls available is never taken back.
THEOREM AvailableIsKept == ASSUME OneChain PROVE Spec => AvailableStays
<1>1. ASSUME IInv, [Next]_vars
      PROVE  \A b \in Blocks : HasQueryFeeDetails(b.version) = "available"
                                 => HasQueryFeeDetails(b.version)' = "available"
  <2> SUFFICES ASSUME NEW b \in Blocks, KnownToHave(b.version)
               PROVE  KnownToHave(b.version)'
    BY SupportCases, SupportCasesNext
  <2>1. b.version \in Nat
    BY BlocksAssumption DEF Block
  <2>2. CASE UNCHANGED <<registerWithCall, registerWithoutCall>>
    BY <2>2 DEF KnownToHave
  <2>3. CASE \E v \in Nat : SetRegisterWithCall(v) \/ SetRegisterWithoutCall(v)
    <3>1. PICK v \in Nat : SetRegisterWithCall(v) \/ SetRegisterWithoutCall(v)
      BY <2>3
    <3>2. TypeOK
      BY <1>1 DEF IInv
    <3>3. \A w \in Nat : KnownToHave(w) => KnownToHave(w)'
      BY <3>1, <3>2, Registers
    <3> QED BY <2>1, <3>3
  <2> QED BY <1>1, <2>2, <2>3, StepMovesRegisters
<1> QED BY <1>1, FeeInvariant, PTL DEF Spec, AvailableStays
=============================================================================
