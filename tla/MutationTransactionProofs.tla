--------------------- MODULE MutationTransactionProofs ---------------------
(***************************************************************************)
(* The board transaction keeps its invariants for every number of writers, *)
(* every set of files and images and every list of paths.  One lemma shows *)
(* for each part of IInv that a step preserves it:                         *)
(*   TypeStep      the types;                                              *)
(*   LockStep      the lock belongs to the process working under it;       *)
(*   DirectoryStep at most one transaction directory, in the right state;  *)
(*   WalkStep      how far the files of a plan have come;                  *)
(*   DriftStep     every file of a published plan is old or new;           *)
(*   RollbackStep  only incomplete mutations are rolled back.              *)
(* The last two hold while nobody edits the files of an abandoned plan.    *)
(* The second half shows that the transaction implements AtomicMutation:   *)
(* each step of the protocol is a step of the atomic specification, seen   *)
(* through the mapping at the end of MutationTransaction, or changes       *)
(* nothing there.                                                          *)
(***************************************************************************)
EXTENDS MutationTransaction, TLAPS

LEMMA NoPlanType == NoPlan \in Plan
  BY HeadsAssumption, ImageAssumption DEF NoPlan, NoImages, Plan

LEMMA PlanOnType ==
  ASSUME NEW order \in Orders, NEW f \in [Path -> Image]
  PROVE  PlanOn(order, f) \in [Path -> Image]
  BY ImageAssumption DEF PlanOn

LEMMA TypeInit == Init => TypeOK
  BY NoPlanType DEF Init, TypeOK, PC

LEMMA RestoreNextType ==
  ASSUME TypeOK, NEW w \in Writers, NEW v \in Writers, RestoreNext(w, v)
  PROVE  /\ plan[v].order[step[w]] \in Path
         /\ file' \in [Path -> Image]
         /\ step' \in [Writers -> Nat \ {0}]
  <1>1. plan[v].order[step[w]] \in Path
    BY OrdersAssumption DEF TypeOK, RestoreNext, Plan
  <1> QED BY <1>1 DEF TypeOK, RestoreNext, StepTo, Plan

LEMMA TypeStep ==
  ASSUME TypeOK, TargetKnown, [Next]_vars
  PROVE  TypeOK'
  <1> USE DEF TypeOK, PC, Goto, StepTo, Return, Fault, RemoveDirectory
  <1>1. ASSUME NEW w \in Writers, Call(w) PROVE TypeOK'
    BY <1>1 DEF Call
  <1>2. ASSUME NEW w \in Writers, AcquireBoard(w) PROVE TypeOK'
    BY <1>2 DEF AcquireBoard
  <1>3. ASSUME NEW w \in Writers, NEW v \in Writers,
               \/ RecoverDiscard(w, v) \/ RecoverRefuse(w, v)
               \/ RecoverKeep(w, v) \/ RecoverRollback(w, v)
        PROVE  TypeOK'
    BY <1>3, NoPlanType
    DEF RecoverDiscard, RecoverRefuse, RecoverKeep, RecoverRollback, Recoverable
  <1>4. ASSUME NEW w \in Writers, RollbackPath(w) \/ RestorePath(w) PROVE TypeOK'
    BY <1>4, RestoreNextType DEF RollbackPath, RestorePath, TargetKnown
  <1>5. ASSUME NEW w \in Writers,
               RollbackDone(w) \/ RecoverDone(w) \/ RecoverFault(w) \/ Reject(w)
        PROVE  TypeOK'
    <2>1. CASE RollbackDone(w)
      BY <2>1, WritersAssumption DEF RollbackDone, TargetKnown
    <2>2. CASE RecoverDone(w)
      BY <2>2 DEF RecoverDone
    <2>3. CASE RecoverFault(w)
      BY <2>3 DEF RecoverFault
    <2>4. CASE Reject(w)
      BY <2>4 DEF Reject
    <2> QED BY <1>5, <2>1, <2>2, <2>3, <2>4
  <1>6. ASSUME NEW w \in Writers, NEW order \in Orders, NEW after \in [Path -> Image],
               Begin(w, order, after)
        PROVE  TypeOK'
    <2>1. [order |-> order, before |-> PlanOn(order, file), after |-> PlanOn(order, after),
           head |-> head] \in Plan
      BY <1>6, PlanOnType DEF Plan
    <2> QED BY <1>6, <2>1 DEF Begin
  <1>7. ASSUME NEW w \in Writers,
               \/ StageFault(w) \/ Publish(w) \/ CheckIdentity(w) \/ ActivateFault(w)
               \/ RemovePlan(w) \/ Finish(w) \/ LateFault(w)
        PROVE  TypeOK'
    <2>1. CASE StageFault(w)
      BY <2>1 DEF StageFault
    <2>2. CASE Publish(w)
      BY <2>2 DEF Publish
    <2>3. CASE CheckIdentity(w)
      BY <2>3 DEF CheckIdentity
    <2>4. CASE ActivateFault(w)
      BY <2>4 DEF ActivateFault
    <2>5. CASE RemovePlan(w)
      BY <2>5 DEF RemovePlan
    <2>6. CASE Finish(w)
      BY <2>6, NoPlanType DEF Finish
    <2>7. CASE LateFault(w)
      BY <2>7, NoPlanType DEF LateFault
    <2> QED BY <1>7, <2>1, <2>2, <2>3, <2>4, <2>5, <2>6, <2>7
  <1>8. ASSUME NEW w \in Writers, Activate(w) PROVE TypeOK'
    <2>1. plan[w].order[step[w]] \in Path
      BY <1>8, OrdersAssumption DEF Activate, Plan
    <2>2. plan[w].after[plan[w].order[step[w]]] \in Image
      BY <2>1 DEF Plan
    <2> QED BY <1>8, <2>1, <2>2 DEF Activate
  <1>9. ASSUME NEW w \in Writers,
               RestoreDone(w) \/ RestoreFault(w) \/ Cleanup(w) \/ Crash(w)
        PROVE  TypeOK'
    <2>1. CASE RestoreDone(w)
      BY <2>1 DEF RestoreDone
    <2>2. CASE RestoreFault(w)
      BY <2>2 DEF RestoreFault
    <2>3. CASE Cleanup(w)
      BY <2>3, NoPlanType DEF Cleanup
    <2>4. CASE Crash(w)
      BY <2>4 DEF Crash
    <2> QED BY <1>9, <2>1, <2>2, <2>3, <2>4
  <1>10. ASSUME NEW w \in Writers, CleanupFault(w) PROVE TypeOK'
    BY <1>10 DEF CleanupFault
  <1>11. CASE HeadMove
    BY <1>11 DEF HeadMove
  <1>12. ASSUME NEW p \in Path, NEW image \in Image, Edit(p, image) PROVE TypeOK'
    BY <1>12 DEF Edit
  <1>13. CASE UNCHANGED vars
    BY <1>13 DEF vars
  <1> QED
    BY <1>1, <1>2, <1>3, <1>4, <1>5, <1>6, <1>7, <1>8, <1>9, <1>10, <1>11, <1>12, <1>13
    DEF Next, Progress, Failure

LEMMA LockStep ==
  ASSUME TypeOK, LockOwner, [Next]_vars
  PROVE  LockOwner'
  <1> USE DEF TypeOK, PC, Goto, StepTo, Return, LockOwner, Holding, Busy
  <1>1. ASSUME NEW w \in Writers, Progress(w) PROVE LockOwner'
    BY <1>1, WritersAssumption
    DEF Progress, AcquireBoard, RecoverDiscard, RecoverRefuse, RecoverKeep,
        RecoverRollback, Recoverable, RollbackPath, RollbackDone, RecoverDone, Reject,
        Begin, Publish, CheckIdentity, Activate, RemovePlan, Finish,
        RestorePath, RestoreDone, Cleanup
  <1>2. ASSUME NEW w \in Writers, Failure(w) \/ Call(w) PROVE LockOwner'
    BY <1>2, WritersAssumption
    DEF Failure, Call, RecoverFault, StageFault, ActivateFault, LateFault,
        RestoreFault, CleanupFault, Crash
  <1> QED BY <1>1, <1>2 DEF Next, HeadMove, Edit, vars

Directories == SingleIntent /\ DirectoryMatches /\ TargetKnown

LEMMA DirectoryStep ==
  ASSUME TypeOK, LockOwner, Directories, [Next]_vars
  PROVE  Directories'
  <1> USE DEF TypeOK, PC, Goto, StepTo, Return, LockOwner, Holding, Busy,
              Directories, SingleIntent, DirectoryMatches, TargetKnown, RemoveDirectory
  <1>1. ASSUME NEW w \in Writers, NEW v \in Writers,
               \/ RecoverDiscard(w, v) \/ RecoverRefuse(w, v)
               \/ RecoverKeep(w, v) \/ RecoverRollback(w, v)
        PROVE  Directories'
    BY <1>1
    DEF RecoverDiscard, RecoverRefuse, RecoverKeep, RecoverRollback, Recoverable
  <1>2. ASSUME NEW w \in Writers,
               \/ AcquireBoard(w) \/ RollbackPath(w)
               \/ RecoverDone(w) \/ RecoverFault(w) \/ Reject(w)
        PROVE  Directories'
    BY <1>2 DEF AcquireBoard, RollbackPath, RecoverDone, RecoverFault, Reject
  <1>3. ASSUME NEW w \in Writers,
               \/ \E order \in Orders, after \in [Path -> Image] : Begin(w, order, after)
               \/ Publish(w) \/ CheckIdentity(w) \/ Activate(w) \/ RemovePlan(w) \/ Finish(w)
               \/ RestorePath(w) \/ RestoreDone(w) \/ Cleanup(w)
        PROVE  Directories'
    BY <1>3
    DEF Begin, Publish, CheckIdentity, Activate, RemovePlan, Finish, RestorePath,
        RestoreDone, Cleanup
  <1>4. ASSUME NEW w \in Writers,
               \/ Call(w) \/ StageFault(w) \/ ActivateFault(w) \/ LateFault(w)
               \/ RestoreFault(w) \/ CleanupFault(w) \/ Crash(w)
        PROVE  Directories'
    BY <1>4
    DEF Call, StageFault, ActivateFault, LateFault, RestoreFault, CleanupFault, Crash
  <1>5. ASSUME NEW w \in Writers, RollbackDone(w) PROVE Directories'
    BY <1>5 DEF RollbackDone
  <1> QED
    BY <1>1, <1>2, <1>3, <1>4, <1>5 DEF Next, Progress, Failure, HeadMove, Edit, vars

\* A writer that is not in its transaction has nothing to match, ...
LEMMA WalkIdle ==
  ASSUME NEW u \in Writers, pc'[u] \notin Busy
  PROVE  Walk(u)'
  BY DEF Walk, Busy

\* ... and one that does not move keeps matching while its files stay.
LEMMA WalkFrame ==
  ASSUME NEW u \in Writers, Walk(u), pc'[u] = pc[u], step'[u] = step[u],
         plan'[u] = plan[u], \A p \in Listed(plan[u]) : file'[p] = file[p]
  PROVE  Walk(u)'
  BY DEF Walk, AllAfter, AtBefore, AtAfter, Listed

LEMMA WalkStep ==
  ASSUME TypeOK, LockOwner, Directories, WalkMatches, [Next]_vars,
         NEW u \in Writers
  PROVE  Walk(u)'
  <1> USE DEF TypeOK, PC, Goto, StepTo, Return
  <1>1. Walk(u)
    BY DEF WalkMatches
  \* While another process works under the lock, u is not in its transaction.
  <1>2. ASSUME NEW w \in Writers, u # w, pc[w] \in Holding, pc'[u] = pc[u]
        PROVE  Walk(u)'
    BY <1>2, WalkIdle DEF LockOwner, Holding
  <1>3. ASSUME NEW w \in Writers, NEW v \in Writers,
               \/ RecoverDiscard(w, v) \/ RecoverRefuse(w, v)
               \/ RecoverKeep(w, v) \/ RecoverRollback(w, v)
        PROVE  Walk(u)'
    <2>1. pc[w] \in Holding /\ pc'[w] \notin Busy /\ (u # w => pc'[u] = pc[u])
      BY <1>3
      DEF RecoverDiscard, RecoverRefuse, RecoverKeep, RecoverRollback, Recoverable,
          Holding, Busy
    <2> QED BY <1>2, <2>1, WalkIdle
  <1>4. ASSUME NEW w \in Writers,
               \/ RollbackPath(w) \/ RollbackDone(w)
               \/ RecoverDone(w) \/ RecoverFault(w) \/ Reject(w)
        PROVE  Walk(u)'
    <2>1. pc[w] \in Holding /\ pc'[w] \notin Busy /\ (u # w => pc'[u] = pc[u])
      BY <1>4
      DEF RollbackPath, RollbackDone, RecoverDone, RecoverFault, Reject, Holding, Busy
    <2> QED BY <1>2, <2>1, WalkIdle
  <1>5. ASSUME NEW w \in Writers, NEW order \in Orders, NEW after \in [Path -> Image],
               Begin(w, order, after)
        PROVE  Walk(u)'
    <2>1. CASE u # w
      BY <1>2, <1>5, <2>1 DEF Begin, Holding
    <2>2. CASE u = w
      <3>1. plan'[w].order = order /\ plan'[w].before = PlanOn(order, file)
        BY <1>5 DEF Begin
      <3>2. \A i \in 1..Len(order) : order[i] \in Path
        BY OrdersAssumption
      <3>3. \A p \in Listed(plan'[w]) : file[p] = plan'[w].before[p]
        BY <3>1, <3>2 DEF PlanOn, Listed
      <3> QED BY <1>5, <2>2, <3>3 DEF Begin, Walk, AtBefore
    <2> QED BY <2>1, <2>2
  <1>6. ASSUME NEW w \in Writers,
               \/ Publish(w) \/ CheckIdentity(w)
               \/ StageFault(w) \/ ActivateFault(w) \/ RestoreFault(w)
        PROVE  Walk(u)'
    <2>1. CASE u # w
      BY <1>2, <1>6, <2>1
      DEF Publish, CheckIdentity, StageFault, ActivateFault, RestoreFault, Holding, Busy
    <2>2. CASE u = w
      <3>1. UNCHANGED <<file, plan>>
        BY <1>6 DEF Publish, CheckIdentity, StageFault, ActivateFault, RestoreFault
      <3>2. CASE Publish(w) \/ StageFault(w)
        BY <1>1, <2>2, <3>1, <3>2 DEF Publish, StageFault, Walk, AtBefore, Listed
      <3>3. CASE CheckIdentity(w)
        <4>1. pc[w] = "intent" /\ pc'[w] \in {"activate", "restore"} /\ step'[w] = 1
          BY <3>3 DEF CheckIdentity
        <4>2. \A i \in 1..Len(plan[w].order) : AtBefore(w, plan[w].order[i])
          BY <1>1, <2>2, <4>1 DEF Walk, Listed
        <4> QED BY <2>2, <3>1, <4>1, <4>2 DEF Walk, AtBefore
      <3>4. CASE ActivateFault(w)
        BY <1>1, <2>2, <3>1, <3>4 DEF ActivateFault, Walk, AtBefore, Listed
      <3>5. CASE RestoreFault(w)
        BY <2>2, <3>5, WalkIdle DEF RestoreFault, Busy
      <3> QED BY <1>6, <3>2, <3>3, <3>4, <3>5
    <2> QED BY <2>1, <2>2
  <1>7. ASSUME NEW w \in Writers, Activate(w) PROVE Walk(u)'
    <2>1. CASE u # w
      BY <1>2, <1>7, <2>1 DEF Activate, Holding, Busy
    <2>2. CASE u = w
      <3> DEFINE order == plan[w].order
      <3>1. /\ order \in Seq(Path) /\ NoDuplicates(order)
            /\ step[w] \in 1..Len(order)
        BY <1>7, OrdersAssumption DEF Activate, Plan, NoDuplicates
      <3>2. \A i \in 1..Len(order) : i # step[w] => order[i] # order[step[w]]
        BY <3>1 DEF NoDuplicates
      <3>3. /\ file'[order[step[w]]] = plan[w].after[order[step[w]]]
            /\ \A i \in 1..Len(order) : i # step[w] => file'[order[i]] = file[order[i]]
        BY <1>7, <3>1, <3>2 DEF Activate
      <3>4. /\ plan'[w] = plan[w] /\ step'[w] = step[w] + 1
            /\ pc[w] = "activate" /\ pc'[w] = "activate"
        BY <1>7 DEF Activate
      <3> QED BY <1>1, <2>2, <3>1, <3>3, <3>4 DEF Walk, AtBefore, AtAfter
    <2> QED BY <2>1, <2>2
  <1>8. ASSUME NEW w \in Writers, RestorePath(w) PROVE Walk(u)'
    <2>1. CASE u # w
      BY <1>2, <1>8, <2>1 DEF RestorePath, Holding, Busy
    <2>2. CASE u = w
      <3> DEFINE order == plan[w].order
      <3>1. order \in Seq(Path) /\ step[w] \in 1..Len(order)
        BY <1>8, OrdersAssumption DEF RestorePath, RestoreNext, Plan
      <3>2. \A i \in 1..Len(order) :
               file'[order[i]] = IF order[i] = order[step[w]]
                                 THEN plan[w].before[order[i]] ELSE file[order[i]]
        BY <1>8, <3>1 DEF RestorePath, RestoreNext
      <3>3. /\ plan'[w] = plan[w] /\ step'[w] = step[w] + 1
            /\ pc[w] = "restore" /\ pc'[w] = "restore"
        BY <1>8 DEF RestorePath, RestoreNext
      <3> QED BY <1>1, <2>2, <3>1, <3>2, <3>3 DEF Walk, AtBefore
    <2> QED BY <2>1, <2>2
  <1>9. ASSUME NEW w \in Writers, RemovePlan(w) \/ RestoreDone(w)
        PROVE  Walk(u)'
    <2>1. CASE u # w
      BY <1>2, <1>9, <2>1 DEF RemovePlan, RestoreDone, Holding, Busy
    <2>2. CASE u = w
      <3>1. \A i \in 1..Len(plan[w].order) : i < step[w]
        BY <1>9 DEF RemovePlan, RestoreDone, Plan
      <3>2. UNCHANGED <<file, plan>>
        BY <1>9 DEF RemovePlan, RestoreDone
      <3>3. CASE RemovePlan(w)
        BY <1>1, <2>2, <3>1, <3>2, <3>3
        DEF RemovePlan, Walk, AllAfter, AtAfter, Listed
      <3>4. CASE RestoreDone(w)
        BY <1>1, <2>2, <3>1, <3>2, <3>4 DEF RestoreDone, Walk, AtBefore, Listed
      <3> QED BY <1>9, <3>3, <3>4
    <2> QED BY <2>1, <2>2
  <1>10. ASSUME NEW w \in Writers,
                Finish(w) \/ LateFault(w) \/ Cleanup(w) \/ CleanupFault(w)
         PROVE  Walk(u)'
    <2>1. pc[w] \in Holding /\ pc'[w] \notin Busy /\ (u # w => pc'[u] = pc[u])
      BY <1>10 DEF Finish, LateFault, Cleanup, CleanupFault, Holding, Busy
    <2> QED BY <1>2, <2>1, WalkIdle
  <1>11. ASSUME NEW w \in Writers, Call(w) \/ AcquireBoard(w) \/ Crash(w)
         PROVE  Walk(u)'
    <2>1. CASE u # w
      BY <1>1, <1>11, <2>1, WalkFrame DEF Call, AcquireBoard, Crash
    <2>2. CASE u = w
      BY <1>11, <2>2, WalkIdle DEF Call, AcquireBoard, Crash, Busy
    <2> QED BY <2>1, <2>2
  <1>12. ASSUME NEW p \in Path, NEW image \in Image, Edit(p, image) PROVE Walk(u)'
    <2>1. CASE pc[u] \in Busy
      <3>1. p \notin Listed(plan[u])
        BY <1>12, <2>1 DEF Edit, Editable
      <3> QED BY <1>1, <1>12, <3>1, WalkFrame DEF Edit
    <2>2. CASE pc[u] \notin Busy
      BY <1>12, <2>2, WalkIdle DEF Edit
    <2> QED BY <2>1, <2>2
  <1>13. CASE HeadMove \/ UNCHANGED vars
    BY <1>1, <1>13, WalkFrame DEF HeadMove, vars
  <1> QED
    BY <1>3, <1>4, <1>5, <1>6, <1>7, <1>8, <1>9, <1>10, <1>11, <1>12, <1>13
    DEF Next, Progress, Failure

\* A plan's files stay old or new while neither they nor the plan change.
LEMMA DriftFrame ==
  ASSUME NEW u \in Writers, disk[u] = "published" => ~Drifted(u),
         disk'[u] = "published" => disk[u] = "published",
         disk'[u] = "published" => plan'[u] = plan[u],
         disk'[u] = "published" => \A p \in Listed(plan[u]) : file'[p] = file[p]
  PROVE  disk'[u] = "published" => ~Drifted(u)'
  BY DEF Drifted, AtBefore, AtAfter, Listed

LEMMA DriftStep ==
  ASSUME TypeOK, LockOwner, Directories, WalkMatches, NeverDrifts, [Next]_vars,
         "abandoned" \notin Edits, NEW u \in Writers
  PROVE  disk'[u] = "published" => ~Drifted(u)'
  <1> USE DEF TypeOK, PC, Goto, StepTo, Return
  <1>1. disk[u] = "published" => ~Drifted(u)
    BY DEF NeverDrifts
  <1>2. ASSUME NEW w \in Writers, NEW v \in Writers,
               \/ RecoverDiscard(w, v) \/ RecoverRefuse(w, v)
               \/ RecoverKeep(w, v) \/ RecoverRollback(w, v)
        PROVE  disk'[u] = "published" => ~Drifted(u)'
    BY <1>1, <1>2, DriftFrame
    DEF RecoverDiscard, RecoverRefuse, RecoverKeep, RecoverRollback, Recoverable,
        RemoveDirectory
  <1>3. ASSUME NEW w \in Writers,
               \/ Call(w) \/ AcquireBoard(w) \/ RollbackDone(w) \/ RecoverDone(w)
               \/ RecoverFault(w) \/ Reject(w)
               \/ CheckIdentity(w) \/ StageFault(w) \/ ActivateFault(w) \/ RestoreFault(w)
        PROVE  disk'[u] = "published" => ~Drifted(u)'
    BY <1>1, <1>3, DriftFrame
    DEF Call, AcquireBoard, RollbackDone, RecoverDone, RecoverFault, Reject,
        CheckIdentity, StageFault, ActivateFault, RestoreFault, Directories, TargetKnown
  <1>4. ASSUME NEW w \in Writers,
               \/ RemovePlan(w) \/ Finish(w) \/ LateFault(w) \/ RestoreDone(w)
               \/ Cleanup(w) \/ CleanupFault(w) \/ Crash(w)
        PROVE  disk'[u] = "published" => ~Drifted(u)'
    BY <1>1, <1>4, DriftFrame
    DEF RemovePlan, Finish, LateFault, RestoreDone, Cleanup, CleanupFault, Crash,
        RemoveDirectory
  <1>5. ASSUME NEW w \in Writers, NEW order \in Orders, NEW after \in [Path -> Image],
               Begin(w, order, after)
        PROVE  disk'[u] = "published" => ~Drifted(u)'
    BY <1>1, <1>5, DriftFrame DEF Begin
  <1>6. ASSUME NEW w \in Writers, Publish(w)
        PROVE  disk'[u] = "published" => ~Drifted(u)'
    <2>1. CASE u # w
      BY <1>1, <1>6, <2>1, DriftFrame DEF Publish
    <2>2. CASE u = w
      BY <1>6, <2>2 DEF Publish, WalkMatches, Walk, Drifted, AtBefore, AtAfter, Listed
    <2> QED BY <2>1, <2>2
  \* The three actions that write files write those of the only plan there is.
  <1>7. ASSUME NEW w \in Writers, NEW v \in Writers, disk[v] = "published",
               RestoreNext(w, v), UNCHANGED <<plan, disk>>
        PROVE  disk'[u] = "published" => ~Drifted(u)'
    <2>1. SUFFICES ASSUME disk[u] = "published", NEW p \in Listed(plan[u])
                   PROVE  file'[p] = plan[u].before[p] \/ file'[p] = plan[u].after[p]
      BY <1>7 DEF Drifted, AtBefore, AtAfter, Listed
    <2>2. u = v
      BY <1>7, <2>1 DEF Directories, SingleIntent
    <2>3. p \in Path /\ plan[v].order[step[w]] \in Path
      BY <1>7, <2>1, OrdersAssumption DEF RestoreNext, Listed, Plan
    <2> QED
      BY <1>1, <1>7, <2>1, <2>2, <2>3 DEF RestoreNext, Drifted, AtBefore, AtAfter
  <1>8. ASSUME NEW w \in Writers, RollbackPath(w) \/ RestorePath(w)
        PROVE  disk'[u] = "published" => ~Drifted(u)'
    BY <1>7, <1>8
    DEF RollbackPath, RestorePath, Directories, TargetKnown, DirectoryMatches
  <1>9. ASSUME NEW w \in Writers, Activate(w)
        PROVE  disk'[u] = "published" => ~Drifted(u)'
    <2>1. SUFFICES ASSUME disk[u] = "published", NEW p \in Listed(plan[u])
                   PROVE  file'[p] = plan[u].before[p] \/ file'[p] = plan[u].after[p]
      BY <1>9 DEF Activate, Drifted, AtBefore, AtAfter, Listed
    <2>2. u = w
      BY <1>9, <2>1 DEF Activate, Directories, SingleIntent, DirectoryMatches
    <2>3. p \in Path /\ plan[w].order[step[w]] \in Path
      BY <1>9, <2>1, <2>2, OrdersAssumption DEF Activate, Listed, Plan
    <2> QED
      BY <1>1, <1>9, <2>1, <2>2, <2>3 DEF Activate, Drifted, AtBefore, AtAfter
  <1>10. ASSUME NEW p \in Path, NEW image \in Image, Edit(p, image)
         PROVE  disk'[u] = "published" => ~Drifted(u)'
    <2>1. disk[u] = "published" => p \notin Listed(plan[u])
      BY <1>10 DEF Edit, Editable
    <2> QED BY <1>1, <1>10, <2>1, DriftFrame DEF Edit
  <1>11. CASE HeadMove \/ UNCHANGED vars
    BY <1>1, <1>11, DriftFrame DEF HeadMove, vars
  <1> QED
    BY <1>2, <1>3, <1>4, <1>5, <1>6, <1>8, <1>9, <1>10, <1>11
    DEF Next, Progress, Failure

Restored(w, v) ==
  \A i \in 1..Len(plan[v].order) : i < step[w] => AtBefore(v, plan[v].order[i])

RollsBack(w) ==
  pc[w] = "rollback" =>
     Abandoned(target[w]) /\ ~AllAfter(target[w]) /\ Restored(w, target[w])

LEMMA RollbackFrame ==
  ASSUME NEW u \in Writers, RollsBack(u), pc'[u] = pc[u], target'[u] = target[u],
         step'[u] = step[u], UNCHANGED <<plan, disk>>,
         pc[u] = "rollback" =>
            /\ pc'[target[u]] \notin Busy
            /\ \A p \in Listed(plan[target[u]]) : file'[p] = file[p]
  PROVE  RollsBack(u)'
  BY DEF RollsBack, Abandoned, AllAfter, Restored, AtAfter, AtBefore, Listed

LEMMA RollbackStep ==
  ASSUME TypeOK, LockOwner, Directories, NeverDrifts, RollbackSound, [Next]_vars,
         "abandoned" \notin Edits, NEW u \in Writers
  PROVE  RollsBack(u)'
  <1> USE DEF TypeOK, PC, Goto, StepTo, Return, RollsBack
  <1>1. RollsBack(u)
    BY DEF RollbackSound, Restored
  \* A rollback goes on only by its own steps: the others wait for the lock.
  <1>2. ASSUME NEW w \in Writers, u # w, pc[w] \in Holding, pc'[u] = pc[u]
        PROVE  RollsBack(u)'
    BY <1>2 DEF LockOwner, Holding
  <1>3. ASSUME NEW w \in Writers, NEW v \in Writers, RecoverRollback(w, v)
        PROVE  RollsBack(u)'
    <2>1. CASE u # w
      BY <1>2, <1>3, <2>1 DEF RecoverRollback, Recoverable, Holding
    <2>2. CASE u = w
      <3>1. pc[v] \notin Busy
        BY <1>3 DEF RecoverRollback, Recoverable, LockOwner, Holding, Busy
      <3>2. target'[w] = v /\ disk'[v] = "published" /\ pc'[v] \notin Busy
        BY <1>3, <3>1 DEF RecoverRollback, Recoverable, Busy
      <3>3. ~AllAfter(v)'
        BY <1>3 DEF RecoverRollback, AllAfter, AtAfter, Listed
      <3>4. Restored(u, v)'
        BY <1>3, <2>2 DEF RecoverRollback, Restored
      <3> QED BY <2>2, <3>2, <3>3, <3>4 DEF Abandoned, AllAfter, AtAfter, Restored, AtBefore
    <2> QED BY <2>1, <2>2
  <1>4. ASSUME NEW w \in Writers, RollbackPath(w) PROVE RollsBack(u)'
    <2>1. CASE u # w
      BY <1>2, <1>4, <2>1 DEF RollbackPath, Holding
    <2>2. CASE u = w
      <3>6. PICK v \in Writers : v = target[w]
        BY <1>4 DEF RollbackPath, Directories, TargetKnown
      <3>1. Abandoned(v) /\ Restored(w, v) /\ ~AllAfter(v) /\ ~Drifted(v)
        BY <1>1, <1>4, <2>2, <3>6 DEF RollbackPath, NeverDrifts, Abandoned
      <3>2. PICK p \in Listed(plan[v]) :
               file[p] # plan[v].after[p] /\ file[p] = plan[v].before[p]
        BY <3>1 DEF AllAfter, Drifted, AtBefore, AtAfter
      <3>3. file'[p] = plan[v].before[p]
        <4>1. p \in Path
          BY <3>1, <3>2, OrdersAssumption DEF Listed, Plan
        <4> QED BY <1>4, <3>2, <3>6, <4>1 DEF RollbackPath, RestoreNext
      <3>4. ~AllAfter(v)'
        BY <1>4, <3>2, <3>3 DEF RollbackPath, AllAfter, AtAfter, Listed
      <3>5. Restored(u, v)'
        <4> DEFINE order == plan[v].order
        <4>1. order \in Seq(Path) /\ step[w] \in 1..Len(order)
          BY <1>4, <3>6, OrdersAssumption DEF RollbackPath, RestoreNext, Plan
        <4>2. \A i \in 1..Len(order) :
                 file'[order[i]] = IF order[i] = order[step[w]]
                                   THEN plan[v].before[order[i]] ELSE file[order[i]]
          BY <1>4, <3>6, <4>1 DEF RollbackPath, RestoreNext
        <4>3. plan'[v] = plan[v] /\ step'[w] = step[w] + 1
          BY <1>4 DEF RollbackPath, RestoreNext
        <4> QED BY <2>2, <3>1, <4>1, <4>2, <4>3 DEF Restored, AtBefore
      <3> QED BY <1>4, <2>2, <3>1, <3>4, <3>5, <3>6
              DEF RollbackPath, Abandoned, AllAfter, AtAfter, Restored, AtBefore
    <2> QED BY <2>1, <2>2
  <1>5. ASSUME NEW w \in Writers, NEW v \in Writers,
               RecoverDiscard(w, v) \/ RecoverRefuse(w, v) \/ RecoverKeep(w, v)
        PROVE  RollsBack(u)'
    <2>1. pc[w] \in Holding /\ pc'[w] # "rollback" /\ (u # w => pc'[u] = pc[u])
      BY <1>5 DEF RecoverDiscard, RecoverRefuse, RecoverKeep, Recoverable, Holding
    <2> QED BY <1>2, <2>1
  <1>6. ASSUME NEW w \in Writers,
               \/ RollbackDone(w) \/ RecoverDone(w) \/ RecoverFault(w) \/ Reject(w)
               \/ \E order \in Orders, after \in [Path -> Image] : Begin(w, order, after)
               \/ Publish(w) \/ CheckIdentity(w) \/ Activate(w) \/ RemovePlan(w) \/ Finish(w)
               \/ RestorePath(w) \/ RestoreDone(w) \/ Cleanup(w)
               \/ StageFault(w) \/ ActivateFault(w) \/ LateFault(w) \/ RestoreFault(w)
               \/ CleanupFault(w)
        PROVE  RollsBack(u)'
    <2>1. pc[w] \in Holding /\ pc'[w] # "rollback" /\ (u # w => pc'[u] = pc[u])
      BY <1>6
      DEF RollbackDone, RecoverDone, RecoverFault, Reject, Begin, Publish, CheckIdentity,
          Activate, RemovePlan, Finish, RestorePath, RestoreDone, Cleanup, StageFault,
          ActivateFault, LateFault, RestoreFault, CleanupFault, Holding, Busy
    <2> QED BY <1>2, <2>1
  <1>7. ASSUME NEW w \in Writers, Call(w) \/ AcquireBoard(w) \/ Crash(w)
        PROVE  RollsBack(u)'
    <2>1. pc'[w] \notin Busy \cup {"rollback"} /\ UNCHANGED <<file, plan, disk>>
      BY <1>7 DEF Call, AcquireBoard, Crash, Busy
    <2>2. \A v \in Writers \ {w} : pc'[v] = pc[v] /\ target'[v] = target[v] /\ step'[v] = step[v]
      BY <1>7 DEF Call, AcquireBoard, Crash
    <2>3. CASE u = w
      BY <2>1, <2>3
    <2>4. CASE u # w
      <3>1. pc[u] = "rollback" => pc'[target[u]] \notin Busy
        BY <1>1, <2>1, <2>2 DEF Directories, TargetKnown, Abandoned
      <3> QED BY <1>1, <2>1, <2>2, <2>4, <3>1, RollbackFrame
    <2> QED BY <2>3, <2>4
  <1>8. ASSUME NEW p \in Path, NEW image \in Image, Edit(p, image)
        PROVE  RollsBack(u)'
    <2>1. pc[u] = "rollback" => p \notin Listed(plan[target[u]])
      BY <1>1, <1>8 DEF Edit, Editable, Directories, TargetKnown
    <2> QED BY <1>1, <1>8, <2>1, RollbackFrame DEF Edit, Abandoned
  <1>9. CASE HeadMove \/ UNCHANGED vars
    BY <1>1, <1>9, RollbackFrame DEF HeadMove, vars, Abandoned
  <1> QED
    BY <1>3, <1>4, <1>5, <1>6, <1>7, <1>8, <1>9 DEF Next, Progress, Failure

(***************************************************************************)
(* The theorems.                                                           *)
(***************************************************************************)

LEMMA InvariantInit == Init => IInv
  <1> SUFFICES ASSUME Init PROVE IInv
    OBVIOUS
  <1>1. TypeOK
    BY TypeInit
  <1>2. LockOwner /\ SingleIntent /\ DirectoryMatches /\ TargetKnown
    BY WritersAssumption
    DEF Init, LockOwner, Holding, Busy, SingleIntent, DirectoryMatches, TargetKnown
  <1>3. WalkMatches
    BY DEF Init, WalkMatches, Walk
  <1>4. NeverDrifts /\ RollbackSound
    BY DEF Init, NeverDrifts, RollbackSound
  <1> QED BY <1>1, <1>2, <1>3, <1>4 DEF IInv

LEMMA InvariantStep == IInv /\ [Next]_vars => IInv'
  <1> SUFFICES ASSUME IInv, [Next]_vars PROVE IInv'
    OBVIOUS
  <1>1. TypeOK'
    BY TypeStep DEF IInv
  <1>2. LockOwner'
    BY LockStep DEF IInv
  <1>3. SingleIntent' /\ DirectoryMatches' /\ TargetKnown'
    BY DirectoryStep DEF IInv, Directories
  <1>4. WalkMatches'
    BY WalkStep DEF IInv, Directories, WalkMatches
  <1>5. ASSUME "abandoned" \notin Edits PROVE NeverDrifts'
    BY <1>5, DriftStep DEF IInv, Directories, NeverDrifts
  <1>6. ASSUME "abandoned" \notin Edits PROVE RollbackSound'
    BY <1>6, RollbackStep DEF IInv, Directories, RollbackSound, RollsBack, Restored
  <1> QED BY <1>1, <1>2, <1>3, <1>4, <1>5, <1>6 DEF IInv

\* The inductive invariant holds in every reachable state.
THEOREM Invariant == Spec => []IInv
  BY InvariantInit, InvariantStep, PTL DEF Spec

\* Every variable keeps its type; in particular no restore or activation ever
\* walks past the end of a plan's path list or writes a path outside the board.
THEOREM TypeCorrect == Spec => []TypeOK
  <1>1. IInv => TypeOK
    BY DEF IInv
  <1> QED BY <1>1, Invariant, PTL

\* However many writers die, there is never more than one transaction directory,
\* hence never two intents that recovery would have to order.
THEOREM OneIntentAtMost == Spec => []SingleIntent
  <1>1. IInv => SingleIntent
    BY DEF IInv
  <1> QED BY <1>1, Invariant, PTL

\* Recovery never finds a file of an intent neither old nor new, if nobody edits
\* the files of abandoned intents.
THEOREM RecoveryKnowsEveryImage ==
  ASSUME "abandoned" \notin Edits
  PROVE  Spec => []NeverDrifts
  <1>1. IInv => NeverDrifts
    BY DEF IInv
  <1> QED BY <1>1, Invariant, PTL

\* Recovery rolls back only what a dead writer left incomplete, and what it has
\* restored stays restored, under the same condition.
THEOREM RecoveryUndoesOnlyIncomplete ==
  ASSUME "abandoned" \notin Edits
  PROVE  Spec => []RollbackSound
  <1>1. IInv => RollbackSound
    BY DEF IInv
  <1> QED BY <1>1, Invariant, PTL

\* The properties of steps.
StepRestores ==
  \A w \in Writers :
     reply[w] # "error" /\ reply'[w] = "error" =>
        \/ \A p \in Listed(plan[w]) : file'[p] = plan[w].before[p]
        \/ disk'[w] = "published"

\* A call that fails has put every file of its plan back, or left the intent to
\* the next writer: true of every error but those after plan.json is unlinked.
THEOREM OrdinaryErrorsRestore ==
  ASSUME "late" \notin FaultKinds
  PROVE  Spec => ErrorRestores
  <1>1. IInv /\ [Next]_vars => [StepRestores]_vars
    <2> SUFFICES ASSUME IInv, Next, NEW w \in Writers,
                        reply[w] # "error", reply'[w] = "error"
                 PROVE  \/ \A p \in Listed(plan[w]) : file'[p] = plan[w].before[p]
                        \/ disk'[w] = "published"
      BY DEF StepRestores
    <2>1. Cleanup(w) \/ CleanupFault(w) \/ RestoreFault(w)
      BY DEF IInv, TypeOK, Next, Progress, Failure, Call, AcquireBoard, RecoverDiscard,
         RecoverRefuse, RecoverKeep, RecoverRollback, Recoverable, RollbackPath,
         RollbackDone, RecoverDone, RecoverFault, Reject, Begin, StageFault, Publish,
         CheckIdentity, Activate, ActivateFault, RemovePlan, Finish, LateFault,
         RestorePath, RestoreDone, RestoreFault, Cleanup, CleanupFault, Crash,
         HeadMove, Edit, Return, Fault
    <2>2. CASE Cleanup(w) \/ CleanupFault(w)
      BY <2>2 DEF IInv, WalkMatches, Walk, AtBefore, Cleanup, CleanupFault
    <2>3. CASE RestoreFault(w)
      BY <2>3 DEF IInv, DirectoryMatches, RestoreFault
    <2> QED BY <2>1, <2>2, <2>3
  <1> QED BY <1>1, Invariant, PTL DEF Spec, ErrorRestores, StepRestores

StepRecovers ==
  \A w \in Writers :
     pc[w] \in {"recover", "rollback"} /\ pc'[w] = "idle" => faults' > faults

\* No writer is turned away because of an abandoned intent, but for an error of the
\* recovery itself, as long as HEAD stays where it is and nobody edits the files of
\* abandoned intents.
THEOREM NextWriterIsServed ==
  ASSUME "abandoned" \notin Edits, \A h, k \in Heads : h = k
  PROVE  Spec => NextWriterRecovers
  <1>1. IInv /\ [Next]_vars => [StepRecovers]_vars
    <2> SUFFICES ASSUME IInv, Next, NEW w \in Writers,
                        pc[w] \in {"recover", "rollback"}, pc'[w] = "idle"
                 PROVE  faults' > faults
      BY DEF StepRecovers
    <2>1. RecoverFault(w) \/ \E v \in Writers : RecoverRefuse(w, v)
      BY DEF IInv, TypeOK, Next, Progress, Failure, Call, AcquireBoard, RecoverDiscard,
         RecoverRefuse, RecoverKeep, RecoverRollback, Recoverable, RollbackPath, Goto,
         RollbackDone, RecoverDone, RecoverFault, Reject, Begin, StageFault, Publish,
         CheckIdentity, Activate, ActivateFault, RemovePlan, Finish, LateFault,
         RestorePath, RestoreDone, RestoreFault, Cleanup, CleanupFault, Crash,
         HeadMove, Edit, Return, Fault
    <2>2. ASSUME NEW v \in Writers, RecoverRefuse(w, v) PROVE FALSE
      <3>1. ~Drifted(v)
        BY <2>2 DEF IInv, NeverDrifts, RecoverRefuse
      <3>2. ~Stale(v)
        BY DEF IInv, TypeOK, Plan, Stale
      <3> QED BY <2>2, <3>1, <3>2 DEF RecoverRefuse
    <2>3. CASE RecoverFault(w)
      BY <2>3 DEF IInv, TypeOK, RecoverFault, Fault
    <2> QED BY <2>1, <2>2, <2>3
  <1> QED BY <1>1, Invariant, PTL DEF Spec, NextWriterRecovers, StepRecovers

(***************************************************************************)
(* What the refinement mapping shows.  The primed lemmas say of the next   *)
(* state what the ones before them say of the current state.               *)
(***************************************************************************)

\* A file of the published plan is seen as it was before.
LEMMA SeenBefore ==
  ASSUME SingleIntent, NEW w \in Writers, NEW p \in Path, Covers(w, p)
  PROVE  Seen(p) = plan[w].before[p]
  BY DEF SingleIntent, Covers, Seen

LEMMA SeenBeforeNext ==
  ASSUME SingleIntent', NEW w \in Writers, NEW p \in Path, Covers(w, p)'
  PROVE  Seen(p)' = plan'[w].before[p]
  BY DEF SingleIntent, Covers, Seen

LEMMA SeenFile ==
  ASSUME NEW p \in Path, \A w \in Writers : ~Covers(w, p)
  PROVE  Seen(p) = file[p]
  BY DEF Covers, Seen

LEMMA SeenFileNext ==
  ASSUME NEW p \in Path, \A w \in Writers : ~Covers(w, p)'
  PROVE  Seen(p)' = file'[p]
  BY DEF Covers, Seen

\* The board looks the same while no plan gets decided and no decided file
\* changes.
LEMMA SeenFrame ==
  ASSUME SingleIntent, SingleIntent',
         \A w \in Writers : (disk'[w] = "published") <=> (disk[w] = "published"),
         \A w \in Writers : disk[w] = "published" => plan'[w] = plan[w],
         \A p \in Path : (\A w \in Writers : ~Covers(w, p)) => file'[p] = file[p]
  PROVE  \A p \in Path : Seen(p)' = Seen(p)
  <1> TAKE p \in Path
  <1>1. \A w \in Writers : Covers(w, p)' = Covers(w, p)
    BY DEF Covers, Listed
  <1>2. CASE \E w \in Writers : Covers(w, p)
    <2>1. PICK w \in Writers : Covers(w, p)
      BY <1>2
    <2> QED BY <1>1, <2>1, SeenBefore, SeenBeforeNext DEF Covers
  <1>3. CASE \A w \in Writers : ~Covers(w, p)
    BY <1>1, <1>3, SeenFile, SeenFileNext
  <1> QED BY <1>2, <1>3

(***************************************************************************)
(* The actions of AtomicMutation, in terms of Seen, Phase and Request.     *)
(***************************************************************************)

LEMMA RequestType ==
  ASSUME TypeOK, NEW w \in Writers
  PROVE  Listed(plan[w]) \subseteq Path
  BY OrdersAssumption DEF TypeOK, Plan, Listed

\* Nothing changes for the writers other than w.
OthersStay(w) ==
  \A u \in Writers \ {w} : Phase(u)' = Phase(u) /\ Request(u)' = Request(u)

LEMMA SamePhase ==
  ASSUME NEW u \in Writers, pc'[u] = pc[u], disk'[u] = disk[u]
  PROVE  Phase(u)' = Phase(u)
  BY DEF Phase

LEMMA SameRequest ==
  ASSUME NEW u \in Writers, Phase(u)' = Phase(u),
         Phase(u) # "closed" => plan'[u] = plan[u]
  PROVE  Request(u)' = Request(u)
  BY DEF Request, Listed

LEMMA Bystanders ==
  ASSUME NEW w \in Writers,
         \A u \in Writers : u # w =>
            pc'[u] = pc[u] /\ plan'[u] = plan[u] /\ disk'[u] = disk[u]
  PROVE  OthersStay(w)
  BY SamePhase, SameRequest DEF OthersStay

LEMMA StutterStep ==
  ASSUME \A p \in Path : Seen(p)' = Seen(p),
         \A u \in Writers : Phase(u)' = Phase(u) /\ Request(u)' = Request(u),
         reply' = reply
  PROVE  UNCHANGED Atomic!vars
  BY DEF Atomic!vars

\* A call is made, or turned away.
LEMMA ReplyStep ==
  ASSUME NEW w \in Writers, Phase(w) \in {"closed", "orphaned"},
         \A p \in Path : Seen(p)' = Seen(p),
         \A u \in Writers : Phase(u)' = Phase(u) /\ Request(u)' = Request(u),
         \/ reply' = [reply EXCEPT ![w] = "none"]
         \/ reply' = [reply EXCEPT ![w] = "refused"]
  PROVE  Atomic!Next
  BY DEF Atomic!Next, Atomic!Call, Atomic!Refuse

LEMMA SubmitStep ==
  ASSUME NEW w \in Writers, Phase(w) = "closed", Phase(w)' = "open", OthersStay(w),
         \A v \in Writers : Phase(v) \notin {"open", "orphaned"},
         \A p \in Path : Seen(p)' = Seen(p),
         \A p \in Request(w)'.paths : p \in Path /\ Request(w)'.before[p] = Seen(p),
         reply' = reply
  PROVE  Atomic!Next
  <1>1. Atomic!Submit(w)
    BY DEF Atomic!Submit, Atomic!OwnRequest, OthersStay
  <1> QED BY <1>1 DEF Atomic!Next

\* The files of an open request change at once from their before-images.
TakesEffect(w) ==
  /\ Phase(w) \in {"open", "orphaned"}
  /\ \A p \in Listed(plan[w]) : Seen(p) = plan[w].before[p]
  /\ \A p \in Path : Seen(p)' = IF p \in Listed(plan[w])
                                THEN plan[w].after[p] ELSE Seen(p)

LEMMA TakesEffectStep ==
  ASSUME TypeOK, NEW w \in Writers, TakesEffect(w)
  PROVE  Atomic!TakesEffect(w)
  <1>1. Listed(plan[w]) \subseteq Path
    BY RequestType
  <1> QED BY <1>1 DEF TakesEffect, Atomic!TakesEffect, Request

LEMMA CommitStep ==
  ASSUME TypeOK, NEW w \in Writers, TakesEffect(w),
         Phase(w) = "open", Phase(w)' = "committed",
         \A u \in Writers : Request(u)' = Request(u), OthersStay(w), reply' = reply
  PROVE  Atomic!Next
  <1>1. Atomic!Commit(w)
    BY TakesEffectStep DEF Atomic!Commit, OthersStay
  <1> QED BY <1>1 DEF Atomic!Next

LEMMA CloseStep ==
  ASSUME NEW w \in Writers, Phase(w)' = "closed", OthersStay(w)
  PROVE  Atomic!Close(w)
  BY DEF Atomic!Close, Atomic!OwnRequest, OthersStay

\* An orphaned request is decided.
LEMMA SettleStep ==
  ASSUME TypeOK, NEW w \in Writers, Phase(w) = "orphaned", Phase(w)' = "closed",
         TakesEffect(w) \/ (\A p \in Path : Seen(p)' = Seen(p)),
         OthersStay(w), reply' = reply
  PROVE  Atomic!Next
  <1>1. Atomic!Settle(w)
    BY TakesEffectStep, CloseStep DEF Atomic!Settle
  <1> QED BY <1>1 DEF Atomic!Next

LEMMA OrphanStep ==
  ASSUME NEW w \in Writers, Phase(w) = "open", Phase(w)' = "orphaned", OthersStay(w),
         \A u \in Writers : Request(u)' = Request(u),
         \A p \in Path : Seen(p)' = Seen(p),
         reply' = reply \/ reply' = [reply EXCEPT ![w] = "error"]
  PROVE  Atomic!Next
  <1>1. Atomic!Orphan(w)
    BY DEF Atomic!Orphan, OthersStay
  <1> QED BY <1>1 DEF Atomic!Next

LEMMA AbortStep ==
  ASSUME NEW w \in Writers, Phase(w) = "open", Phase(w)' = "closed", OthersStay(w),
         \A p \in Path : Seen(p)' = Seen(p),
         reply' = reply \/ reply' = [reply EXCEPT ![w] = "error"]
  PROVE  Atomic!Next
  <1>1. Atomic!Abort(w)
    BY CloseStep DEF Atomic!Abort
  <1> QED BY <1>1 DEF Atomic!Next

LEMMA AcknowledgeStep ==
  ASSUME NEW w \in Writers, Phase(w) = "committed", Phase(w)' = "closed", OthersStay(w),
         \A p \in Path : Seen(p)' = Seen(p),
         \/ reply' = reply
         \/ reply' = [reply EXCEPT ![w] = "ok"]
         \/ reply' = [reply EXCEPT ![w] = "error"]
  PROVE  Atomic!Next
  <1>1. Atomic!Acknowledge(w)
    BY CloseStep DEF Atomic!Acknowledge
  <1> QED BY <1>1 DEF Atomic!Next

LEMMA ElsewhereStep ==
  ASSUME TypeOK,
         \A u \in Writers : Phase(u)' = Phase(u) /\ Request(u)' = Request(u),
         reply' = reply,
         \A u \in Writers : Phase(u) # "closed" =>
            \A p \in Listed(plan[u]) : Seen(p)' = Seen(p)
  PROVE  Atomic!Next
  <1>1. \A u \in Writers : Listed(plan[u]) \subseteq Path
    BY RequestType
  <1>2. Atomic!Elsewhere
    BY <1>1 DEF Atomic!Elsewhere, Request
  <1> QED BY <1>2 DEF Atomic!Next

(***************************************************************************)
(* The actions of MutationTransaction.                                     *)
(***************************************************************************)

\* Moves between points that look alike from outside: no file, plan or
\* directory changes.
LEMMA Unseen ==
  ASSUME IInv, IInv', UNCHANGED <<file, plan, disk>>,
         \A u \in Writers : Phase(u)' = Phase(u)
  PROVE  /\ \A p \in Path : Seen(p)' = Seen(p)
         /\ \A u \in Writers : Request(u)' = Request(u)
  <1>1. \A p \in Path : Seen(p)' = Seen(p)
    BY SeenFrame DEF IInv
  <1> QED BY <1>1 DEF Request, Listed

\* While plan v is the published one, it alone covers files.
LEMMA OnlyPlan ==
  ASSUME SingleIntent, NEW v \in Writers, disk[v] # "none", NEW p \in Path
  PROVE  Seen(p) = IF Covers(v, p) THEN plan[v].before[p] ELSE file[p]
  <1>1. \A u \in Writers : u # v => ~Covers(u, p)
    BY DEF SingleIntent, Covers
  <1> QED BY <1>1, SeenBefore, SeenFile

LEMMA OnlyPlanNext ==
  ASSUME SingleIntent', NEW v \in Writers, NEW p \in Path,
         \A u \in Writers : u # v => disk'[u] = "none"
  PROVE  Seen(p)' = IF Covers(v, p)' THEN plan'[v].before[p] ELSE file'[p]
  <1>1. \A u \in Writers : u # v => ~Covers(u, p)'
    BY DEF Covers
  <1> QED BY <1>1, SeenBeforeNext, SeenFileNext

\* The writer of an open request goes: the request is orphaned if plan.json
\* stays, and did not take effect if it does not.
LEMMA OpenEnds ==
  ASSUME IInv, IInv', NEW w \in Writers, Phase(w) = "open",
         pc'[w] \notin Open \cup {"removing"},
         OthersStay(w), UNCHANGED file, disk[w] # "none",
         \A u \in Writers : u # w => disk'[u] = disk[u],
         disk'[w] = "published" => disk[w] = "published" /\ plan'[w] = plan[w],
         disk'[w] # "published" => \A p \in Listed(plan[w]) : AtBefore(w, p),
         reply' = reply \/ reply' = [reply EXCEPT ![w] = "error"]
  PROVE  Atomic!Next
  <1>1. \A u \in Writers : u # w => disk'[u] = "none"
    BY DEF IInv, SingleIntent
  <1>2. \A p \in Path : Seen(p) = IF Covers(w, p) THEN plan[w].before[p] ELSE file[p]
    BY OnlyPlan DEF IInv
  <1>3. \A p \in Path : Seen(p)' = IF Covers(w, p)' THEN plan'[w].before[p] ELSE file[p]
    BY <1>1, OnlyPlanNext DEF IInv
  <1>4. CASE disk'[w] = "published"
    <2>1. \A p \in Path : Covers(w, p)' = Covers(w, p)
      BY <1>4 DEF Covers, Listed
    <2>2. \A p \in Path : Seen(p)' = Seen(p)
      BY <1>2, <1>3, <1>4, <2>1
    <2>3. Phase(w)' = "orphaned"
      BY <1>4 DEF Phase
    <2>4. \A u \in Writers : Request(u)' = Request(u)
      <3>1. Request(w)' = Request(w)
        BY <1>4, <2>3 DEF Request, Listed
      <3> QED BY <3>1 DEF OthersStay
    <2> QED BY <2>2, <2>3, <2>4, OrphanStep
  <1>5. CASE disk'[w] # "published"
    <2>1. \A p \in Path : Seen(p) = file[p] /\ Seen(p)' = file[p]
      BY <1>2, <1>3, <1>5 DEF Covers, AtBefore
    <2>2. Phase(w)' = "closed"
      BY <1>5 DEF Phase
    <2> QED BY <2>1, <2>2, AbortStep
  <1> QED BY <1>4, <1>5

\* During recovery no request is open or committed: what is published is
\* orphaned.
LEMMA Recovering ==
  ASSUME IInv, NEW w \in Writers, pc[w] \in {"recover", "rollback", "locked"},
         NEW u \in Writers
  PROVE  /\ pc[u] \notin Open \cup {"removing"}
         /\ Phase(u) = IF disk[u] = "published" THEN "orphaned" ELSE "closed"
  BY DEF IInv, LockOwner, Holding, Busy, Open, Phase

LEMMA RecoveryStep ==
  ASSUME IInv, IInv', "abandoned" \notin Edits, NEW w \in Writers,
         \/ \E v \in Writers :
               \/ RecoverDiscard(w, v) \/ RecoverRefuse(w, v)
               \/ RecoverKeep(w, v) \/ RecoverRollback(w, v)
         \/ RollbackPath(w) \/ RollbackDone(w) \/ RecoverDone(w) \/ RecoverFault(w)
  PROVE  Atomic!Next \/ UNCHANGED Atomic!vars
  <1> USE DEF Goto, StepTo, Return
  <1>0. /\ pc[w] \in {"recover", "rollback"}
        /\ \A u \in Writers : /\ pc[u] \notin Open \cup {"removing"}
                              /\ pc'[u] \notin Open \cup {"removing"}
    BY Recovering
    DEF RecoverDiscard, RecoverRefuse, RecoverKeep, RecoverRollback, Recoverable,
        RollbackPath, RollbackDone, RecoverDone, RecoverFault, IInv, TypeOK, Open
  <1>p. \A u \in Writers :
          /\ Phase(u) = IF disk[u] = "published" THEN "orphaned" ELSE "closed"
          /\ Phase(u)' = IF disk'[u] = "published" THEN "orphaned" ELSE "closed"
    BY <1>0 DEF Phase
  <1>1. ASSUME NEW v \in Writers, RecoverDiscard(w, v)
        PROVE  UNCHANGED Atomic!vars
    <2>1. \A u \in Writers : disk'[u] = IF u = v THEN "none" ELSE disk[u]
      BY <1>1 DEF RecoverDiscard, RemoveDirectory, IInv, TypeOK
    <2>2. disk[v] = "staged" /\ \A u \in Writers : u # v => plan'[u] = plan[u]
      BY <1>1 DEF RecoverDiscard, RemoveDirectory, IInv, TypeOK
    <2>3. \A p \in Path : Seen(p)' = Seen(p)
      BY <1>1, <2>1, <2>2, SeenFrame DEF RecoverDiscard, IInv
    <2>4. \A u \in Writers : Phase(u)' = Phase(u)
      BY <1>p, <2>1, <2>2
    <2>5. \A u \in Writers : Request(u)' = Request(u)
      BY <1>p, <2>2, <2>4, SameRequest
    <2> QED BY <1>1, <2>5, <2>3, <2>4, StutterStep DEF RecoverDiscard
  <1>2. ASSUME NEW v \in Writers, RecoverRefuse(w, v)
        PROVE  Atomic!Next
    BY <1>p, <1>2, Unseen, ReplyStep DEF RecoverRefuse
  <1>3. ASSUME NEW v \in Writers, RecoverKeep(w, v)
        PROVE  Atomic!Next
    <2>1. /\ disk[v] = "published" /\ AllAfter(v) /\ UNCHANGED <<file, pc, plan, reply>>
          /\ \A u \in Writers : disk'[u] = IF u = v THEN "staged" ELSE disk[u]
      BY <1>3 DEF RecoverKeep, Recoverable, IInv, TypeOK
    <2>2. \A p \in Path : Seen(p) = IF p \in Listed(plan[v]) THEN plan[v].before[p]
                                                             ELSE file[p]
      BY <2>1, OnlyPlan DEF IInv, Covers
    <2>3. \A u \in Writers : disk'[u] # "published"
      BY <2>1 DEF IInv, SingleIntent
    <2>4. \A p \in Path : Seen(p)' = file[p]
      BY <2>1, <2>3, SeenFileNext DEF Covers
    <2>5. TakesEffect(v)
      <3>1. Listed(plan[v]) \subseteq Path
        BY RequestType DEF IInv
      <3> QED BY <1>p, <2>1, <2>2, <2>4, <3>1 DEF TakesEffect, AllAfter, AtAfter
    <2>6. Phase(v) = "orphaned" /\ Phase(v)' = "closed" /\ OthersStay(v)
      BY <1>p, <2>1 DEF OthersStay, Request, Listed
    <2> QED BY <2>1, <2>5, <2>6, SettleStep DEF IInv
  <1>4. ASSUME RecoverDone(w) \/ \E v \in Writers : RecoverRollback(w, v)
        PROVE  UNCHANGED Atomic!vars
    BY <1>p, <1>4, Unseen, StutterStep DEF RecoverDone, RecoverRollback
  <1>5. ASSUME RollbackPath(w) PROVE UNCHANGED Atomic!vars
    <2>1. PICK v \in Writers : v = target[w] /\ disk[v] = "published"
      BY <1>5 DEF RollbackPath, IInv, TargetKnown
    <2>2. plan[v].order[step[w]] \in Listed(plan[v])
      BY <1>5, <2>1, OrdersAssumption DEF RollbackPath, RestoreNext, Listed, IInv, TypeOK, Plan
    <2>3. \A p \in Path : ~Covers(v, p) => file'[p] = file[p]
      BY <1>5, <2>1, <2>2 DEF RollbackPath, RestoreNext, Covers, IInv, TypeOK
    <2>4. \A p \in Path : Seen(p)' = Seen(p)
      BY <1>5, <2>3, SeenFrame DEF RollbackPath, IInv
    <2> QED BY <1>5, <1>p, <2>4, StutterStep DEF RollbackPath, Request, Listed
  <1>6. ASSUME RollbackDone(w) PROVE Atomic!Next
    <2>1. PICK v \in Writers : v = target[w] /\ disk[v] = "published"
      BY <1>6 DEF RollbackDone, IInv, TargetKnown
    <2>2. \A u \in Writers : disk'[u] = IF u = v THEN "staged" ELSE disk[u]
      BY <1>6, <2>1 DEF RollbackDone, IInv, TypeOK
    <2>3. \A p \in Listed(plan[v]) : AtBefore(v, p)
      <3>1. \A i \in 1..Len(plan[v].order) : i < step[w]
        BY <1>6, <2>1 DEF RollbackDone, IInv, TypeOK, Plan
      <3> QED BY <1>6, <2>1, <3>1 DEF RollbackDone, IInv, RollbackSound, Listed
    <2>4. \A p \in Path : Seen(p) = file[p]
      BY <2>1, <2>3, OnlyPlan DEF IInv, Covers, AtBefore
    <2>5. \A u \in Writers : disk'[u] # "published"
      BY <2>1, <2>2 DEF IInv, SingleIntent
    <2>6. \A p \in Path : Seen(p)' = file[p]
      BY <1>6, <2>5, SeenFileNext DEF RollbackDone, Covers
    <2>7. Phase(v) = "orphaned" /\ Phase(v)' = "closed" /\ OthersStay(v)
      BY <1>6, <1>p, <2>1, <2>2 DEF RollbackDone, OthersStay, Request, Listed
    <2> QED BY <1>6, <2>4, <2>6, <2>7, SettleStep DEF RollbackDone, IInv
  <1>7. ASSUME RecoverFault(w) PROVE Atomic!Next
    BY <1>p, <1>7, Unseen, ReplyStep DEF RecoverFault
  <1> QED BY <1>1, <1>2, <1>3, <1>4, <1>5, <1>6, <1>7

\* A writer at work is alone: there is no other directory.
LEMMA Alone ==
  ASSUME IInv, NEW w \in Writers, pc[w] \in Busy
  PROVE  \A u \in Writers : u # w => pc[u] \notin Busy /\ disk[u] = "none"
  BY DEF IInv, LockOwner, Holding, Busy, SingleIntent, DirectoryMatches

LEMMA WorkStep ==
  ASSUME IInv, IInv', NEW w \in Writers,
         \/ \E order \in Orders, after \in [Path -> Image] : Begin(w, order, after)
         \/ Reject(w) \/ Publish(w) \/ CheckIdentity(w) \/ Activate(w) \/ RemovePlan(w)
         \/ Finish(w) \/ RestorePath(w) \/ RestoreDone(w)
         \/ StageFault(w) \/ ActivateFault(w) \/ LateFault(w)
  PROVE  Atomic!Next \/ UNCHANGED Atomic!vars
  <1> USE DEF Goto, StepTo, Return
  <1>1. ASSUME NEW order \in Orders, NEW after \in [Path -> Image], Begin(w, order, after)
        PROVE  Atomic!Next
    <2>0. \A u \in Writers : u # w =>
             pc'[u] = pc[u] /\ plan'[u] = plan[u] /\ disk'[u] = disk[u]
      BY <1>1 DEF Begin, IInv, TypeOK
    <2>1. Phase(w)' = "open" /\ OthersStay(w)
      BY <1>1, <2>0, Bystanders DEF Begin, IInv, TypeOK, Phase, Open
    <2>c. \A v \in Writers : Phase(v) = "closed"
      BY <1>1, Recovering DEF Begin, IInv, DirectoryMatches
    <2>2. \A u \in Writers : disk[u] = "none" /\ disk'[u] # "published"
      BY <1>1 DEF Begin, IInv, TypeOK, DirectoryMatches
    <2>3. \A p \in Path : Seen(p) = file[p] /\ Seen(p)' = file[p]
      BY <1>1, <2>2, SeenFile, SeenFileNext DEF Begin, Covers
    <2>4. Request(w)'.paths = Listed(plan[w])' /\ Request(w)'.before = plan'[w].before
      BY <2>1 DEF Request
    <2>5. \A p \in Listed(plan[w])' : AtBefore(w, p)' /\ p \in Path
      BY <1>1, RequestType, OrdersAssumption
      DEF Begin, IInv, TypeOK, WalkMatches, Walk, Listed, Plan
    <2> QED BY <1>1, <2>1, <2>c, <2>3, <2>4, <2>5, SubmitStep DEF Begin, AtBefore
  <1>2. ASSUME Reject(w) PROVE Atomic!Next
    <2>1. Phase(w) = "closed"
      BY <1>2, Recovering DEF Reject, IInv, DirectoryMatches
    <2>2. Phase(w)' = "closed"
      BY <1>2 DEF Reject, IInv, TypeOK, DirectoryMatches, Phase, Open
    <2>3. \A u \in Writers : Phase(u)' = Phase(u)
      BY <1>2, <2>1, <2>2, SamePhase DEF Reject, IInv, TypeOK
    <2> QED BY <1>2, <2>1, <2>3, Unseen, ReplyStep DEF Reject
  <1>3. ASSUME Publish(w) PROVE UNCHANGED Atomic!vars
    <2>1. \A u \in Writers : Phase(u)' = Phase(u)
      BY <1>3, SamePhase DEF Publish, IInv, TypeOK, Phase, Open
    <2>2. \A u \in Writers : u # w => disk[u] = "none" /\ disk'[u] = "none"
      BY <1>3, Alone DEF Publish, Busy, IInv, TypeOK
    <2>3. \A p \in Path : Seen(p) = file[p]
      BY <1>3, <2>2, SeenFile DEF Publish, Covers, IInv, DirectoryMatches
    <2>4. \A p \in Path : Seen(p)' = file[p]
      BY <1>3, <2>2, OnlyPlanNext
      DEF Publish, IInv, WalkMatches, Walk, AtBefore, Covers, Listed
    <2> QED BY <1>3, <2>1, <2>3, <2>4, StutterStep DEF Publish, Request, Listed
  <1>4. ASSUME CheckIdentity(w) \/ RestoreDone(w) \/ StageFault(w) \/ ActivateFault(w)
        PROVE  UNCHANGED Atomic!vars
    <2>1. \A u \in Writers : Phase(u)' = Phase(u)
      BY <1>4
      DEF CheckIdentity, RestoreDone, StageFault, ActivateFault, IInv, TypeOK, Phase, Open
    <2> QED
      BY <1>4, <2>1, Unseen, StutterStep
      DEF CheckIdentity, RestoreDone, StageFault, ActivateFault
  <1>5. ASSUME Activate(w) \/ RestorePath(w) PROVE UNCHANGED Atomic!vars
    <2>1. /\ pc[w] \in Open /\ disk[w] = "published"
          /\ UNCHANGED <<pc, plan, disk, reply>>
          /\ step[w] <= Len(plan[w].order)
      BY <1>5 DEF Activate, RestorePath, RestoreNext, Open, IInv, DirectoryMatches
    <2>2. plan[w].order[step[w]] \in Listed(plan[w])
      BY <2>1, OrdersAssumption DEF Listed, IInv, TypeOK, Plan
    <2>3. \A u \in Writers : u # w => disk[u] = "none"
      BY <2>1 DEF IInv, SingleIntent
    <2>5. \A p \in Path : ~Covers(w, p) => file'[p] = file[p]
      BY <1>5, <2>1, <2>2 DEF Activate, RestorePath, RestoreNext, Covers, IInv, TypeOK
    <2>6. \A p \in Path : Seen(p)' = Seen(p)
      BY <2>1, <2>5, SeenFrame DEF IInv
    <2> QED BY <2>1, <2>6, StutterStep DEF Phase, Request, Listed
  <1>6. ASSUME RemovePlan(w) PROVE Atomic!Next
    <2>1. Phase(w) = "open" /\ Phase(w)' = "committed"
      BY <1>6 DEF RemovePlan, IInv, TypeOK, Phase, Open
    <2>2. OthersStay(w) /\ \A u \in Writers : Request(u)' = Request(u)
      <3>1. OthersStay(w)
        BY <1>6, Bystanders DEF RemovePlan, IInv, TypeOK
      <3>2. Request(w)' = Request(w)
        BY <1>6, <2>1 DEF RemovePlan, Request, Listed
      <3> QED BY <3>1, <3>2 DEF OthersStay
    <2>3. \A u \in Writers : disk'[u] # "published"
      BY <1>6, Alone DEF RemovePlan, Busy, IInv, TypeOK
    <2>4. \A p \in Path : Seen(p)' = file[p]
      BY <1>6, <2>3, SeenFileNext DEF RemovePlan, Covers
    <2>5. \A p \in Path : Seen(p) = IF p \in Listed(plan[w])
                                    THEN plan[w].before[p] ELSE file[p]
      BY <1>6, OnlyPlan DEF RemovePlan, IInv, DirectoryMatches, Covers, Open
    <2>6. \A p \in Listed(plan[w]) : file[p] = plan[w].after[p]
      BY <1>6 DEF RemovePlan, IInv, TypeOK, WalkMatches, Walk, AllAfter, AtAfter, Listed
    <2>7. Listed(plan[w]) \subseteq Path
      BY RequestType DEF IInv
    <2>8. TakesEffect(w)
      BY <2>1, <2>4, <2>5, <2>6, <2>7 DEF TakesEffect
    <2> QED BY <1>6, <2>1, <2>2, <2>8, CommitStep DEF RemovePlan, IInv
  <1>7. ASSUME Finish(w) \/ LateFault(w) PROVE Atomic!Next
    <2>1. Phase(w) = "committed" /\ Phase(w)' = "closed"
      BY <1>7 DEF Finish, LateFault, RemoveDirectory, IInv, TypeOK, DirectoryMatches,
                  Phase, Open
    <2>4. OthersStay(w)
      BY <1>7, Bystanders DEF Finish, LateFault, RemoveDirectory, IInv, TypeOK
    <2>2. \A u \in Writers : disk[u] # "published" /\ disk'[u] # "published"
      BY <1>7, Alone
      DEF Finish, LateFault, RemoveDirectory, Busy, IInv, TypeOK, DirectoryMatches
    <2>3. \A p \in Path : Seen(p) = file[p] /\ Seen(p)' = file[p]
      BY <1>7, <2>2, SeenFile, SeenFileNext DEF Finish, LateFault, Covers
    <2> QED BY <1>7, <2>1, <2>3, <2>4, AcknowledgeStep DEF Finish, LateFault
  <1> QED BY <1>1, <1>2, <1>3, <1>4, <1>5, <1>6, <1>7

LEMMA FailStep ==
  ASSUME IInv, IInv', NEW w \in Writers,
         RestoreFault(w) \/ Cleanup(w) \/ CleanupFault(w) \/ Crash(w)
  PROVE  Atomic!Next \/ UNCHANGED Atomic!vars
  <1> USE DEF Goto, StepTo, Return
  <1>1. ASSUME RestoreFault(w) \/ Cleanup(w) \/ CleanupFault(w)
        PROVE  Atomic!Next
    <2>1. Phase(w) = "open" /\ pc'[w] \notin Open \cup {"removing"}
      BY <1>1 DEF RestoreFault, Cleanup, CleanupFault, IInv, TypeOK, Phase, Open
    <2>5. OthersStay(w)
      BY <1>1, Bystanders
      DEF RestoreFault, Cleanup, CleanupFault, RemoveDirectory, IInv, TypeOK
    <2>2. disk[w] # "none" /\ \A u \in Writers : u # w => disk'[u] = disk[u]
      BY <1>1 DEF RestoreFault, Cleanup, CleanupFault, RemoveDirectory, IInv, TypeOK,
                  DirectoryMatches
    <2>3. disk'[w] = "published" => disk[w] = "published" /\ plan'[w] = plan[w]
      BY <1>1 DEF RestoreFault, Cleanup, CleanupFault, RemoveDirectory, IInv, TypeOK
    <2>4. disk'[w] # "published" => \A p \in Listed(plan[w]) : AtBefore(w, p)
      BY <1>1 DEF RestoreFault, Cleanup, CleanupFault, IInv, DirectoryMatches,
                  WalkMatches, Walk
    <2> QED BY <1>1, <2>1, <2>2, <2>3, <2>4, <2>5, OpenEnds
            DEF RestoreFault, Cleanup, CleanupFault
  <1>2. ASSUME Crash(w), pc[w] \in Open PROVE Atomic!Next
    <2>1. Phase(w) = "open" /\ pc'[w] \notin Open \cup {"removing"} /\ OthersStay(w)
      BY <1>2, Bystanders DEF Crash, IInv, TypeOK, Phase, Open
    <2>2. disk[w] # "none"
      BY <1>2 DEF Open, IInv, DirectoryMatches
    <2>3. disk[w] # "published" => \A p \in Listed(plan[w]) : AtBefore(w, p)
      BY <1>2 DEF Open, IInv, DirectoryMatches, WalkMatches, Walk
    <2> QED BY <1>2, <2>1, <2>2, <2>3, OpenEnds DEF Crash
  <1>3. ASSUME Crash(w), pc[w] = "removing" PROVE Atomic!Next
    <2>1. Phase(w) = "committed" /\ Phase(w)' = "closed" /\ OthersStay(w)
      BY <1>3, Bystanders DEF Crash, IInv, TypeOK, DirectoryMatches, Phase, Open
    <2>2. \A u \in Writers : disk[u] # "published" /\ disk'[u] # "published"
      BY <1>3, Alone DEF Crash, Busy, IInv, DirectoryMatches
    <2>3. \A p \in Path : Seen(p) = file[p] /\ Seen(p)' = file[p]
      BY <1>3, <2>2, SeenFile, SeenFileNext DEF Crash, Covers
    <2> QED BY <1>3, <2>1, <2>3, AcknowledgeStep DEF Crash
  <1>4. ASSUME Crash(w), pc[w] \notin Open \cup {"removing"}
        PROVE  UNCHANGED Atomic!vars
    <2>1. \A u \in Writers : Phase(u)' = Phase(u)
      BY <1>4, SamePhase DEF Crash, IInv, TypeOK, Phase, Open
    <2> QED BY <1>4, <2>1, Unseen, StutterStep DEF Crash
  <1> QED BY <1>1, <1>2, <1>3, <1>4

LEMMA OutsideStep ==
  ASSUME IInv, IInv', "abandoned" \notin Edits,
         \/ \E w \in Writers : Call(w) \/ AcquireBoard(w)
         \/ HeadMove
         \/ \E p \in Path, image \in Image : Edit(p, image)
  PROVE  Atomic!Next \/ UNCHANGED Atomic!vars
  <1>1. ASSUME NEW w \in Writers, Call(w) PROVE Atomic!Next
    <2>1. /\ Phase(w) \in {"closed", "orphaned"}
          /\ \A u \in Writers : Phase(u)' = Phase(u)
      BY <1>1, SamePhase DEF Call, Goto, IInv, TypeOK, Phase, Open
    <2> QED BY <1>1, <2>1, Unseen, ReplyStep DEF Call
  <1>2. ASSUME NEW w \in Writers, AcquireBoard(w) PROVE UNCHANGED Atomic!vars
    <2>1. \A u \in Writers : Phase(u)' = Phase(u)
      BY <1>2 DEF AcquireBoard, Goto, IInv, TypeOK, Phase, Open
    <2> QED BY <1>2, <2>1, Unseen, StutterStep DEF AcquireBoard
  <1>3. CASE HeadMove
    BY <1>3, Unseen, StutterStep DEF HeadMove, Phase
  <1>4. ASSUME NEW p \in Path, NEW image \in Image, Edit(p, image)
        PROVE  Atomic!Next
    <2>1. \A u \in Writers : disk[u] = "published" \/ pc[u] \in Busy => p \notin Listed(plan[u])
      BY <1>4 DEF Edit, Editable
    <2>3. \A q \in Path, u \in Writers : Covers(u, q)' = Covers(u, q)
      BY <1>4 DEF Edit, Covers, Listed
    <2>4. ASSUME NEW q \in Path, q # p PROVE Seen(q)' = Seen(q)
      <3>1. CASE \E u \in Writers : Covers(u, q)
        BY <1>4, <2>3, <3>1, SeenBefore, SeenBeforeNext DEF Edit, IInv
      <3>2. CASE \A u \in Writers : ~Covers(u, q)
        BY <1>4, <2>3, <2>4, <3>2, SeenFile, SeenFileNext DEF Edit, IInv, TypeOK
      <3> QED BY <3>1, <3>2
    <2>5. \A u \in Writers : Phase(u) # "closed" => p \notin Listed(plan[u])
      BY <2>1 DEF Phase, Open, Busy
    <2>6. \A u \in Writers : Listed(plan[u]) \subseteq Path
      BY RequestType DEF IInv
    <2>7. \A u \in Writers : Phase(u)' = Phase(u) /\ Request(u)' = Request(u)
      BY <1>4 DEF Edit, Phase, Request, Listed
    <2> QED BY <1>4, <2>4, <2>5, <2>6, <2>7, ElsewhereStep DEF Edit, IInv
  <1> QED BY <1>1, <1>2, <1>3, <1>4

LEMMA RefinementInit == Init => Atomic!Init
  BY DEF Init, Atomic!Init, Phase, Open

\* The mutations of the storage are atomic, whoever dies or fails and wherever,
\* as long as nobody edits the files of an abandoned plan.
THEOREM MutationsAreAtomic ==
  ASSUME "abandoned" \notin Edits
  PROVE  Spec => ImplementsAtomicMutation
  <1>1. IInv /\ IInv' /\ [Next]_vars => [Atomic!Next]_(Atomic!vars)
    <2>1. ASSUME IInv, IInv', UNCHANGED vars PROVE UNCHANGED Atomic!vars
      BY <2>1, Unseen, StutterStep DEF vars, Phase
    <2> QED
      BY <2>1, RecoveryStep, WorkStep, FailStep, OutsideStep
      DEF Next, Progress, Failure
  <1> QED
    BY <1>1, RefinementInit, Invariant, PTL DEF Spec, ImplementsAtomicMutation, Atomic!Spec
=============================================================================
