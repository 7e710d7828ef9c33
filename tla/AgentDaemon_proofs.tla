-------------------------- MODULE AgentDaemon_proofs --------------------------
(***************************************************************************)
(* Proofs about AgentDaemon, for any number of clients, branches, hashes,  *)
(* slots, crashes and lost objects.                                        *)
(*                                                                         *)
(* The inductive invariant is DaemonInv. Its parts are proved one after    *)
(* the other, each step of Next on its own line.                           *)
(***************************************************************************)
EXTENDS AgentDaemon, FiniteSetTheorems, SequenceTheorems, TLAPS

(* What a request's locals hold at each of its steps.                      *)
TaskShape ==
  \A r \in Client :
    /\ pc[r] = "stage" => todo[r] \subseteq payload[r]
    /\ pc[r] = "snap" => todo[r] \subseteq Branch
    /\ pc[r] \in {"memory", "assemble", "stage", "ref", "head", "restore",
                  "readback", "logTip"} => br[r] \in Branch
    /\ pc[r] \in {"ref", "head", "restore", "readback", "walk"} =>
         mine[r] \in Commit /\ content[mine[r]] # None
    /\ pc[r] \in {"idle", "queued", "snap", "diff", "logHead", "logTip"} => mine[r] = None
    /\ parent[r] # None => content[parent[r]] # None

(* Every hash the refs, the store and the objects name was made.           *)
HashesMade ==
  /\ \A c \in Commit \cap store : content[c] # None
  /\ \A c \in Commit : (content[c] # None /\ content[c].parent # None)
                          => content[content[c].parent] # None
  /\ \A c \in published : content[c] # None
  /\ \A b \in Branch : branch[b] # None => branch[b] \in published

(* What the lock buys: the tip a writer read is still the tip.             *)
LockDiscipline ==
  /\ LockExclusive
  /\ DiffSnapshotStable
  /\ \A r \in Client :
       /\ pc[r] \in {"memory", "assemble", "stage", "ref", "restore", "readback"}
            => parent[r] = branch[br[r]]
       /\ pc[r] = "ref" => /\ content[mine[r]].parent = parent[r]
                           /\ mine[r] \notin published
       /\ pc[r] = "head" => mine[r] = branch[br[r]] /\ mine[r] \in published
       /\ (pc[r] = "reply" /\ result[r] = "ok" /\ mine[r] # None) => mine[r] \in published

(* What the order of the writes buys.                                      *)
WriteOrder ==
  /\ mode # "up" => \A r \in Client : pc[r] = "idle"
  /\ ServedTipsPresent
  /\ \A r \in Client : pc[r] = "ref" => mine[r] \in store
  /\ NoPhantomHead
  /\ losses = 0 =>
       /\ TipsPresent
       /\ \A r \in Client :
            /\ memory[r] # None => memory[r] \in store
            /\ parent[r] # None => parent[r] \in store
            /\ pc[r] = "stage" => payload[r] \ todo[r] \subseteq store
            /\ pc[r] = "walk" => mine[r] \in store

DaemonInv == TypeOK /\ TaskShape /\ HashesMade /\ LockDiscipline /\ WriteOrder /\ StoreClosed

-----------------------------------------------------------------------------
USE DEF daemonVars, durableVars, lockVars, localVars, taskVars, envVars, historyVars,
        At, Goto, Stays, Put

(* The lock's queue under its two operations.                              *)
LEMMA QueueTypes ==
  ASSUME TypeOK
  PROVE  /\ queue # <<>> => Tail(queue) \in Seq(Client \cup {Drainer})
         /\ \A t \in Client \cup {Drainer} :
              Append(queue, t) \in Seq(Client \cup {Drainer})
         /\ <<>> \in Seq(Client \cup {Drainer})
  BY HeadTailProperties, AppendProperties, EmptySeq, SMTT(30) DEF TypeOK

(* Every step keeps the types.                                             *)
LEMMA TypeStep ==
  ASSUME TypeOK, TaskShape, HashesMade, [Next]_vars
  PROVE  TypeOK'
<1> USE DaemonAssumption DEF TypeOK, Object
<1>1. ASSUME NEW r \in Client, Acquire(r)
     PROVE  TypeOK'
  <2>1. queue' = Tail(queue) /\ queue # <<>>
    BY <1>1 DEF Acquire, Admit, RefuseLate, LockGranted
  <2>2. queue' \in Seq(Client \cup {Drainer})
    BY <2>1, QueueTypes
  <2>3. CASE Admit(r)
    <3>1. {"snap", "read"} \subseteq PC
      BY DEF PC, SlotPC, LockedPC
    <3>2. CASE /\ pc' = [pc EXCEPT ![r] = "snap"] /\ todo' = [todo EXCEPT ![r] = Branch]
               /\ br' = [br EXCEPT ![r] = head]
      <4>1. /\ pc' \in [Client -> PC] /\ todo' \in [Client -> SUBSET (Blob \cup Branch)]
            /\ br' \in [Client -> Branch \cup {None}]
        BY <3>1, <3>2
      <4> QED BY <1>1, <2>2, <2>3, <4>1 DEF Acquire, Admit
    <3>3. CASE pc' = [pc EXCEPT ![r] = "read"] /\ todo' = todo /\ br' = br
      BY <1>1, <2>2, <2>3, <3>1, <3>3 DEF Acquire, Admit
    <3> QED BY <2>3, <3>2, <3>3 DEF Admit
  <2>4. CASE RefuseLate(r)
    <3>1. permits' \in Nat
      BY <2>4 DEF RefuseLate
    <3> QED BY <1>1, <2>2, <2>4, <3>1 DEF Acquire, RefuseLate, Answer, PC, NoSnap
  <2> QED BY <1>1, <2>3, <2>4 DEF Acquire
<1>2. ASSUME NEW r \in Client, ReadRefs(r)
     PROVE  TypeOK'
  BY <1>2 DEF ReadRefs, TargetBranch, TipOf, PC, SlotPC, LockedPC, LockFreePC,
     Kinds, LockedKinds, WriteKinds, NoSnap
<1>3. ASSUME NEW r \in Client, SnapshotMemory(r)
     PROVE  TypeOK'
  BY <1>3 DEF SnapshotMemory, PC, SlotPC, LockedPC, LockFreePC, Kinds,
     LockedKinds, WriteKinds, NoSnap
<1>4. ASSUME NEW r \in Client, AssembleInputs(r)
     PROVE  TypeOK'
  BY <1>4 DEF AssembleInputs, PC, SlotPC, LockedPC
<1>5. ASSUME NEW r \in Client, StageBlob(r)
     PROVE  TypeOK'
  BY <1>5 DEF StageBlob, TaskShape
<1>6. ASSUME NEW r \in Client, PutCommit(r)
     PROVE  TypeOK'
  BY <1>6 DEF PutCommit, Staged, Fresh, CommitContent, PC, SlotPC, LockedPC
<1>7. ASSUME NEW r \in Client, WriteBranch(r)
     PROVE  TypeOK'
  BY <1>7 DEF WriteBranch, TaskShape, PC, SlotPC, LockedPC
<1>8. ASSUME NEW r \in Client, PublishHead(r)
     PROVE  TypeOK'
  BY <1>8 DEF PublishHead, Finish, Answer, TaskShape, PC, SlotPC, LockedPC,
     LockFreePC, Kinds, LockedKinds, WriteKinds, NoSnap
<1>9. ASSUME NEW r \in Client, ResolveTarget(r)
     PROVE  TypeOK'
  BY <1>9 DEF ResolveTarget, TipOf, HashesMade, CommitContent, PC, SlotPC,
     LockedPC
<1>10. ASSUME NEW r \in Client, DryRun(r)
     PROVE  TypeOK'
  BY <1>10 DEF DryRun, Finish, Answer, PC, SlotPC, LockedPC, LockFreePC, Kinds,
     LockedKinds, WriteKinds, NoSnap
<1>11. ASSUME NEW r \in Client, RollbackRestore(r)
     PROVE  TypeOK'
  BY <1>11 DEF RollbackRestore, PC, SlotPC, LockedPC, LockFreePC, Kinds,
     LockedKinds, WriteKinds, NoSnap
<1>12. ASSUME NEW r \in Client, ReadBack(r)
     PROVE  TypeOK'
  BY <1>12 DEF ReadBack, TaskShape, CommitContent, PC, SlotPC, LockedPC
<1>13. ASSUME NEW r \in Client, SnapBranch(r)
     PROVE  TypeOK'
  BY <1>13 DEF SnapBranch, TaskShape
<1>14. ASSUME NEW r \in Client, SnapDone(r)
     PROVE  TypeOK'
  BY <1>14 DEF SnapDone, PC, SlotPC, LockedPC, LockFreePC, Kinds, LockedKinds,
     WriteKinds, NoSnap
<1>15. ASSUME NEW r \in Client, DiffDone(r)
     PROVE  TypeOK'
  BY <1>15 DEF DiffDone, Answer, PC, SlotPC, LockedPC, LockFreePC, Kinds,
     LockedKinds, WriteKinds, NoSnap
<1>16. ASSUME NEW r \in Client, LogHead(r)
     PROVE  TypeOK'
  BY <1>16 DEF LogHead, PC, SlotPC, LockedPC, LockFreePC, Kinds, LockedKinds,
     WriteKinds, NoSnap
<1>17. ASSUME NEW r \in Client, LogTip(r)
     PROVE  TypeOK'
  BY <1>17 DEF LogTip, TaskShape, PC, SlotPC, LockedPC, LockFreePC, Kinds,
     LockedKinds, WriteKinds, NoSnap
<1>18. ASSUME NEW r \in Client, LogWalk(r)
     PROVE  TypeOK'
  BY <1>18 DEF LogWalk, TaskShape, CommitContent
<1>19. ASSUME NEW r \in Client, LogDone(r)
     PROVE  TypeOK'
  BY <1>19 DEF LogDone, Answer, PC, SlotPC, LockedPC, LockFreePC, Kinds,
     LockedKinds, WriteKinds, NoSnap
<1>20. ASSUME NEW r \in Client, Abort(r)
     PROVE  TypeOK'
  BY <1>20 DEF Abort, Finish, Answer, PC, SlotPC, LockedPC, LockFreePC, Kinds,
     LockedKinds, WriteKinds, NoSnap
<1>21. ASSUME NEW r \in Client, Deliver(r)
     PROVE  TypeOK'
  BY <1>21 DEF Deliver, Replied, PC, SlotPC, LockedPC, LockFreePC, Kinds,
     LockedKinds, WriteKinds, NoSnap
<1>22. ASSUME NEW r \in Client, LoseReply(r)
     PROVE  TypeOK'
  BY <1>22 DEF LoseReply, Replied, PC, SlotPC, LockedPC, LockFreePC, Kinds,
     LockedKinds, WriteKinds, NoSnap
<1>23. ASSUME NEW r \in Client, NEW k \in LockedKinds, Refuse(r, k)
     PROVE  TypeOK'
  BY <1>23 DEF Refuse, Arrives, Answer, PC, SlotPC, LockedPC, LockFreePC, Kinds,
     LockedKinds, WriteKinds, NoSnap
<1>24. ASSUME NEW r \in Client, NEW k \in LockedKinds,
             NEW b \in Branch \cup {None}, Enqueue(r, k, b)
     PROVE  TypeOK'
  BY <1>24, QueueTypes DEF Enqueue, Arrives, TurnedAway, PC, SlotPC, LockedPC,
     LockFreePC, Kinds, LockedKinds, WriteKinds, NoSnap
<1>25. ASSUME NEW r \in Client, StartLog(r)
     PROVE  TypeOK'
  BY <1>25 DEF StartLog, Arrives, PC, SlotPC, LockedPC, LockFreePC, Kinds,
     LockedKinds, WriteKinds, NoSnap
<1>26. CASE Signal
  BY <1>26 DEF Signal
<1>27. CASE StartDrain
  BY <1>27, QueueTypes DEF StartDrain
<1>28. CASE Exit
  <2>1. queue' \in Seq(Client \cup {Drainer})
    BY <1>28, QueueTypes DEF Exit, ProcessEnds
  <2> QED BY <1>28, <2>1 DEF Exit, ProcessEnds, Blank, PC, Kinds, NoSnap
<1>29. CASE Crash
  <2>1. queue' \in Seq(Client \cup {Drainer})
    BY <1>29, QueueTypes DEF Crash, ProcessEnds
  <2>2. crashes' \in Nat /\ permits' \in Nat
    BY <1>29 DEF Crash, ProcessEnds
  <2>3. mode' = "crashed"
    BY <1>29 DEF Crash
  <2> QED BY <1>29, <2>1, <2>2, <2>3 DEF Crash, ProcessEnds, Blank, PC, Kinds, NoSnap
<1>30. CASE LoseObject
  BY <1>30 DEF LoseObject
<1>31. CASE Startup
  BY <1>31 DEF Startup
<1>32. CASE RefuseStart
  BY <1>32 DEF RefuseStart
<1>33. CASE UNCHANGED vars
  BY <1>33, SMTT(30) DEF vars
<1> QED
  BY <1>1, <1>2, <1>3, <1>4, <1>5, <1>6, <1>7, <1>8, <1>9, <1>10, <1>11, <1>12,
     <1>13, <1>14, <1>15, <1>16, <1>17, <1>18, <1>19, <1>20, <1>21, <1>22,
     <1>23, <1>24, <1>25, <1>26, <1>27, <1>28, <1>29, <1>30, <1>31, <1>32, <1>33
     DEF Next, Request, TaskStep, CommitStep, RollbackStep, ReadStep, Lifecycle

(* A request's locals keep the shape their step needs.                     *)
LEMMA ShapeStep ==
  ASSUME TypeOK, TaskShape, HashesMade, [Next]_vars
  PROVE  TaskShape'
<1> USE DaemonAssumption, NoneAssumption DEF TypeOK, TaskShape
<1>1. ASSUME NEW r \in Client, Acquire(r)
     PROVE  TaskShape'
  BY <1>1 DEF Acquire, Admit, RefuseLate, Answer
<1>2. ASSUME NEW r \in Client, ReadRefs(r)
     PROVE  TaskShape'
  BY <1>2 DEF ReadRefs, TargetBranch, TipOf, HashesMade
<1>3. ASSUME NEW r \in Client, SnapshotMemory(r)
     PROVE  TaskShape'
  BY <1>3 DEF SnapshotMemory
<1>4. ASSUME NEW r \in Client, AssembleInputs(r)
     PROVE  TaskShape'
  BY <1>4 DEF AssembleInputs
<1>5. ASSUME NEW r \in Client, StageBlob(r)
     PROVE  TaskShape'
  BY <1>5 DEF StageBlob
<1>6. ASSUME NEW r \in Client, PutCommit(r)
     PROVE  TaskShape'
  <2>1. PICK c \in Fresh :
          /\ content' = [content EXCEPT ![c] =
               [parent |-> parent[r], memory |-> memory[r], payload |-> payload[r]]]
          /\ mine' = [mine EXCEPT ![r] = c]
    BY <1>6 DEF PutCommit
  <2>2. content'[c] # None
    BY <2>1 DEF CommitContent, Fresh
  <2>3. \A d \in Commit : content[d] # None => content'[d] # None
    BY <2>1, <2>2 DEF Fresh
  <2> QED BY <1>6, <2>1, <2>2, <2>3 DEF PutCommit, Staged, Fresh
<1>7. ASSUME NEW r \in Client, WriteBranch(r)
     PROVE  TaskShape'
  BY <1>7 DEF WriteBranch
<1>8. ASSUME NEW r \in Client, PublishHead(r)
     PROVE  TaskShape'
  BY <1>8 DEF PublishHead, Finish, Answer
<1>9. ASSUME NEW r \in Client, ResolveTarget(r)
     PROVE  TaskShape'
  BY <1>9 DEF ResolveTarget, TipOf, HashesMade, Object
<1>10. ASSUME NEW r \in Client, DryRun(r)
     PROVE  TaskShape'
  BY <1>10 DEF DryRun, Finish, Answer
<1>11. ASSUME NEW r \in Client, RollbackRestore(r)
     PROVE  TaskShape'
  BY <1>11 DEF RollbackRestore
<1>12. ASSUME NEW r \in Client, ReadBack(r)
     PROVE  TaskShape'
  BY <1>12 DEF ReadBack, CommitContent
<1>13. ASSUME NEW r \in Client, SnapBranch(r)
     PROVE  TaskShape'
  BY <1>13 DEF SnapBranch
<1>14. ASSUME NEW r \in Client, SnapDone(r)
     PROVE  TaskShape'
  BY <1>14 DEF SnapDone
<1>15. ASSUME NEW r \in Client, DiffDone(r)
     PROVE  TaskShape'
  BY <1>15 DEF DiffDone, Answer
<1>16. ASSUME NEW r \in Client, LogHead(r)
     PROVE  TaskShape'
  BY <1>16 DEF LogHead
<1>17. ASSUME NEW r \in Client, LogTip(r)
     PROVE  TaskShape'
  BY <1>17 DEF LogTip, HashesMade
<1>18. ASSUME NEW r \in Client, LogWalk(r)
     PROVE  TaskShape'
  BY <1>18 DEF LogWalk, HashesMade, CommitContent
<1>19. ASSUME NEW r \in Client, LogDone(r)
     PROVE  TaskShape'
  BY <1>19 DEF LogDone, Answer, LockFreePC
<1>20. ASSUME NEW r \in Client, Abort(r)
     PROVE  TaskShape'
  BY <1>20 DEF Abort, Finish, Answer, LockedPC
<1>21. ASSUME NEW r \in Client, Deliver(r)
     PROVE  TaskShape'
  BY <1>21 DEF Deliver, Replied
<1>22. ASSUME NEW r \in Client, LoseReply(r)
     PROVE  TaskShape'
  BY <1>22 DEF LoseReply, Replied
<1>23. ASSUME NEW r \in Client, NEW k \in LockedKinds, Refuse(r, k)
     PROVE  TaskShape'
  BY <1>23 DEF Refuse, Arrives, Answer
<1>24. ASSUME NEW r \in Client, NEW k \in LockedKinds,
             NEW b \in Branch \cup {None}, Enqueue(r, k, b)
     PROVE  TaskShape'
  BY <1>24 DEF Enqueue, Arrives
<1>25. ASSUME NEW r \in Client, StartLog(r)
     PROVE  TaskShape'
  BY <1>25 DEF StartLog, Arrives
<1>26. CASE Signal
  BY <1>26 DEF Signal
<1>27. CASE StartDrain
  BY <1>27 DEF StartDrain
<1>28. CASE Exit
  BY <1>28 DEF Exit, ProcessEnds, Blank
<1>29. CASE Crash
  BY <1>29 DEF Crash, ProcessEnds, Blank
<1>30. CASE LoseObject
  BY <1>30 DEF LoseObject
<1>31. CASE Startup
  BY <1>31 DEF Startup
<1>32. CASE RefuseStart
  BY <1>32 DEF RefuseStart
<1>33. CASE UNCHANGED vars
  BY <1>33 DEF vars
<1> QED
  BY <1>1, <1>2, <1>3, <1>4, <1>5, <1>6, <1>7, <1>8, <1>9, <1>10, <1>11, <1>12,
     <1>13, <1>14, <1>15, <1>16, <1>17, <1>18, <1>19, <1>20, <1>21, <1>22,
     <1>23, <1>24, <1>25, <1>26, <1>27, <1>28, <1>29, <1>30, <1>31, <1>32, <1>33
     DEF Next, Request, TaskStep, CommitStep, RollbackStep, ReadStep, Lifecycle

(* Hashes once made stay made, and nothing refers to one that was not.      *)
LEMMA MadeStep ==
  ASSUME TypeOK, TaskShape, HashesMade, [Next]_vars
  PROVE  HashesMade'
<1> USE DaemonAssumption, NoneAssumption DEF TypeOK, HashesMade
<1>1. ASSUME NEW r \in Client, Acquire(r)
     PROVE  HashesMade'
  BY <1>1 DEF Acquire, Admit, RefuseLate, Answer
<1>2. ASSUME NEW r \in Client, ReadRefs(r)
     PROVE  HashesMade'
  BY <1>2 DEF ReadRefs, TargetBranch, TipOf
<1>3. ASSUME NEW r \in Client, SnapshotMemory(r)
     PROVE  HashesMade'
  BY <1>3 DEF SnapshotMemory, Object
<1>4. ASSUME NEW r \in Client, AssembleInputs(r)
     PROVE  HashesMade'
  BY <1>4 DEF AssembleInputs
<1>5. ASSUME NEW r \in Client, StageBlob(r)
     PROVE  HashesMade'
  BY <1>5 DEF StageBlob, Object, TaskShape
<1>6. ASSUME NEW r \in Client, PutCommit(r)
     PROVE  HashesMade'
  <2>1. PICK c \in Fresh :
          /\ content' = [content EXCEPT ![c] =
               [parent |-> parent[r], memory |-> memory[r], payload |-> payload[r]]]
          /\ store' = store \cup {c}
    BY <1>6 DEF PutCommit
  <2>2. content'[c] # None /\ content'[c].parent = parent[r]
    BY <2>1 DEF CommitContent, Fresh
  <2>3. \A d \in Commit : content[d] # None => content'[d] = content[d]
    BY <2>1 DEF Fresh
  <2>4. parent[r] # None => content'[parent[r]] # None
    BY <2>3 DEF TaskShape
  <2>5. \A d \in Commit : content'[d] # None => d = c \/ content[d] # None
    BY <2>1 DEF Fresh
  <2>6. \A d \in Commit : (content'[d] # None /\ content'[d].parent # None)
                               => content'[content'[d].parent] # None
    BY <2>2, <2>3, <2>4, <2>5 DEF CommitContent
  <2> QED BY <1>6, <2>1, <2>2, <2>3, <2>6 DEF PutCommit
<1>7. ASSUME NEW r \in Client, WriteBranch(r)
     PROVE  HashesMade'
  BY <1>7 DEF WriteBranch, TaskShape
<1>8. ASSUME NEW r \in Client, PublishHead(r)
     PROVE  HashesMade'
  BY <1>8 DEF PublishHead, Finish, Answer
<1>9. ASSUME NEW r \in Client, ResolveTarget(r)
     PROVE  HashesMade'
  BY <1>9 DEF ResolveTarget, TipOf
<1>10. ASSUME NEW r \in Client, DryRun(r)
     PROVE  HashesMade'
  BY <1>10 DEF DryRun, Finish, Answer
<1>11. ASSUME NEW r \in Client, RollbackRestore(r)
     PROVE  HashesMade'
  BY <1>11 DEF RollbackRestore
<1>12. ASSUME NEW r \in Client, ReadBack(r)
     PROVE  HashesMade'
  BY <1>12 DEF ReadBack
<1>13. ASSUME NEW r \in Client, SnapBranch(r)
     PROVE  HashesMade'
  BY <1>13 DEF SnapBranch
<1>14. ASSUME NEW r \in Client, SnapDone(r)
     PROVE  HashesMade'
  BY <1>14 DEF SnapDone
<1>15. ASSUME NEW r \in Client, DiffDone(r)
     PROVE  HashesMade'
  BY <1>15 DEF DiffDone, Answer
<1>16. ASSUME NEW r \in Client, LogHead(r)
     PROVE  HashesMade'
  BY <1>16 DEF LogHead
<1>17. ASSUME NEW r \in Client, LogTip(r)
     PROVE  HashesMade'
  BY <1>17 DEF LogTip
<1>18. ASSUME NEW r \in Client, LogWalk(r)
     PROVE  HashesMade'
  BY <1>18 DEF LogWalk
<1>19. ASSUME NEW r \in Client, LogDone(r)
     PROVE  HashesMade'
  BY <1>19 DEF LogDone, Answer
<1>20. ASSUME NEW r \in Client, Abort(r)
     PROVE  HashesMade'
  BY <1>20 DEF Abort, Finish, Answer
<1>21. ASSUME NEW r \in Client, Deliver(r)
     PROVE  HashesMade'
  BY <1>21 DEF Deliver, Replied
<1>22. ASSUME NEW r \in Client, LoseReply(r)
     PROVE  HashesMade'
  BY <1>22 DEF LoseReply, Replied
<1>23. ASSUME NEW r \in Client, NEW k \in LockedKinds, Refuse(r, k)
     PROVE  HashesMade'
  BY <1>23 DEF Refuse, Arrives, Answer
<1>24. ASSUME NEW r \in Client, NEW k \in LockedKinds,
             NEW b \in Branch \cup {None}, Enqueue(r, k, b)
     PROVE  HashesMade'
  BY <1>24 DEF Enqueue, Arrives
<1>25. ASSUME NEW r \in Client, StartLog(r)
     PROVE  HashesMade'
  BY <1>25 DEF StartLog, Arrives
<1>26. CASE Signal
  BY <1>26 DEF Signal
<1>27. CASE StartDrain
  BY <1>27 DEF StartDrain
<1>28. CASE Exit
  BY <1>28 DEF Exit, ProcessEnds, Blank
<1>29. CASE Crash
  BY <1>29 DEF Crash, ProcessEnds, Blank
<1>30. CASE LoseObject
  BY <1>30 DEF LoseObject
<1>31. CASE Startup
  BY <1>31 DEF Startup
<1>32. CASE RefuseStart
  BY <1>32 DEF RefuseStart
<1>33. CASE UNCHANGED vars
  BY <1>33, SMTT(30) DEF vars
<1> QED
  BY <1>1, <1>2, <1>3, <1>4, <1>5, <1>6, <1>7, <1>8, <1>9, <1>10, <1>11, <1>12,
     <1>13, <1>14, <1>15, <1>16, <1>17, <1>18, <1>19, <1>20, <1>21, <1>22,
     <1>23, <1>24, <1>25, <1>26, <1>27, <1>28, <1>29, <1>30, <1>31, <1>32, <1>33
     DEF Next, Request, TaskStep, CommitStep, RollbackStep, ReadStep, Lifecycle

(* The lock keeps writers and the refs a Diff freezes apart.                 *)
LEMMA LockStep ==
  ASSUME TypeOK, TaskShape, HashesMade, LockDiscipline, [Next]_vars
  PROVE  LockDiscipline'
<1> USE DaemonAssumption, NoneAssumption DEF TypeOK, TaskShape, LockDiscipline, LockExclusive, DiffSnapshotStable, LockedPC
<1>1. ASSUME NEW r \in Client, Acquire(r)
     PROVE  LockDiscipline'
  <2>1. \A q \in Client : pc[q] \notin LockedPC
    BY <1>1 DEF Acquire, LockGranted
  <2>2. CASE Admit(r) /\ kind[r] = "diff"
    <3>1. holder' = r /\ pc' = [pc EXCEPT ![r] = "snap"]
          /\ todo' = [todo EXCEPT ![r] = Branch]
      BY <2>2 DEF Admit
    <3> QED BY <1>1, <2>1, <2>2, <3>1 DEF Acquire, Admit
  <2>3. CASE Admit(r) /\ kind[r] # "diff"
    <3>1. holder' = r /\ pc' = [pc EXCEPT ![r] = "read"] /\ todo' = todo
      BY <2>3 DEF Admit
    <3> QED BY <1>1, <2>1, <2>3, <3>1 DEF Acquire, Admit
  <2>4. CASE RefuseLate(r)
    BY <1>1, <2>4 DEF Acquire, RefuseLate, Answer
  <2> QED BY <1>1, <2>2, <2>3, <2>4 DEF Acquire
<1>2. ASSUME NEW r \in Client, ReadRefs(r)
     PROVE  LockDiscipline'
  BY <1>2 DEF ReadRefs, TargetBranch, TipOf
<1>3. ASSUME NEW r \in Client, SnapshotMemory(r)
     PROVE  LockDiscipline'
  BY <1>3 DEF SnapshotMemory
<1>4. ASSUME NEW r \in Client, AssembleInputs(r)
     PROVE  LockDiscipline'
  BY <1>4 DEF AssembleInputs
<1>5. ASSUME NEW r \in Client, StageBlob(r)
     PROVE  LockDiscipline'
  BY <1>5 DEF StageBlob
<1>6. ASSUME NEW r \in Client, PutCommit(r)
     PROVE  LockDiscipline'
  BY <1>6 DEF PutCommit, Staged, Fresh, CommitContent, HashesMade
<1>7. ASSUME NEW r \in Client, WriteBranch(r)
     PROVE  LockDiscipline'
  BY <1>7 DEF WriteBranch, HashesMade
<1>8. ASSUME NEW r \in Client, PublishHead(r)
     PROVE  LockDiscipline'
  BY <1>8 DEF PublishHead, Finish, Answer
<1>9. ASSUME NEW r \in Client, ResolveTarget(r)
     PROVE  LockDiscipline'
  BY <1>9 DEF ResolveTarget, TipOf
<1>10. ASSUME NEW r \in Client, DryRun(r)
     PROVE  LockDiscipline'
  BY <1>10 DEF DryRun, Finish, Answer
<1>11. ASSUME NEW r \in Client, RollbackRestore(r)
     PROVE  LockDiscipline'
  BY <1>11 DEF RollbackRestore
<1>12. ASSUME NEW r \in Client, ReadBack(r)
     PROVE  LockDiscipline'
  BY <1>12 DEF ReadBack
<1>13. ASSUME NEW r \in Client, SnapBranch(r)
     PROVE  LockDiscipline'
  BY <1>13 DEF SnapBranch
<1>14. ASSUME NEW r \in Client, SnapDone(r)
     PROVE  LockDiscipline'
  BY <1>14 DEF SnapDone
<1>15. ASSUME NEW r \in Client, DiffDone(r)
     PROVE  LockDiscipline'
  BY <1>15 DEF DiffDone, Answer
<1>16. ASSUME NEW r \in Client, LogHead(r)
     PROVE  LockDiscipline'
  BY <1>16 DEF LogHead
<1>17. ASSUME NEW r \in Client, LogTip(r)
     PROVE  LockDiscipline'
  BY <1>17 DEF LogTip
<1>18. ASSUME NEW r \in Client, LogWalk(r)
     PROVE  LockDiscipline'
  BY <1>18 DEF LogWalk
<1>19. ASSUME NEW r \in Client, LogDone(r)
     PROVE  LockDiscipline'
  BY <1>19 DEF LogDone, Answer, LockFreePC
<1>20. ASSUME NEW r \in Client, Abort(r)
     PROVE  LockDiscipline'
  BY <1>20 DEF Abort, Finish, Answer
<1>21. ASSUME NEW r \in Client, Deliver(r)
     PROVE  LockDiscipline'
  BY <1>21 DEF Deliver, Replied
<1>22. ASSUME NEW r \in Client, LoseReply(r)
     PROVE  LockDiscipline'
  BY <1>22 DEF LoseReply, Replied
<1>23. ASSUME NEW r \in Client, NEW k \in LockedKinds, Refuse(r, k)
     PROVE  LockDiscipline'
  BY <1>23 DEF Refuse, Arrives, Answer
<1>24. ASSUME NEW r \in Client, NEW k \in LockedKinds,
             NEW b \in Branch \cup {None}, Enqueue(r, k, b)
     PROVE  LockDiscipline'
  BY <1>24 DEF Enqueue, Arrives
<1>25. ASSUME NEW r \in Client, StartLog(r)
     PROVE  LockDiscipline'
  BY <1>25 DEF StartLog, Arrives
<1>26. CASE Signal
  BY <1>26 DEF Signal
<1>27. CASE StartDrain
  BY <1>27 DEF StartDrain
<1>28. CASE Exit
  BY <1>28 DEF Exit, ProcessEnds, Blank
<1>29. CASE Crash
  BY <1>29 DEF Crash, ProcessEnds, Blank
<1>30. CASE LoseObject
  BY <1>30 DEF LoseObject
<1>31. CASE Startup
  BY <1>31 DEF Startup
<1>32. CASE RefuseStart
  BY <1>32 DEF RefuseStart
<1>33. CASE UNCHANGED vars
  BY <1>33, SMTT(30) DEF vars
<1> QED
  BY <1>1, <1>2, <1>3, <1>4, <1>5, <1>6, <1>7, <1>8, <1>9, <1>10, <1>11, <1>12,
     <1>13, <1>14, <1>15, <1>16, <1>17, <1>18, <1>19, <1>20, <1>21, <1>22,
     <1>23, <1>24, <1>25, <1>26, <1>27, <1>28, <1>29, <1>30, <1>31, <1>32, <1>33
     DEF Next, Request, TaskStep, CommitStep, RollbackStep, ReadStep, Lifecycle

(* Each write comes after what it refers to.                                *)
LEMMA OrderStep ==
  ASSUME TypeOK, TaskShape, HashesMade, LockDiscipline,
         WriteOrder, StoreClosed, [Next]_vars
  PROVE  WriteOrder'
<1> USE DaemonAssumption, NoneAssumption DEF TypeOK, TaskShape, WriteOrder, ServedTipsPresent, TipsPresent, NoPhantomHead
<1>1. ASSUME NEW r \in Client, Acquire(r)
     PROVE  WriteOrder'
  <2>1. CASE Admit(r) /\ kind[r] = "diff"
    BY <1>1, <2>1 DEF Acquire, Admit, LockGranted
  <2>2. CASE Admit(r) /\ kind[r] # "diff"
    BY <1>1, <2>2 DEF Acquire, Admit, LockGranted
  <2>3. CASE RefuseLate(r)
    BY <1>1, <2>3 DEF Acquire, RefuseLate, Answer, LockGranted
  <2> QED BY <1>1, <2>1, <2>2, <2>3 DEF Acquire
<1>2. ASSUME NEW r \in Client, ReadRefs(r)
     PROVE  WriteOrder'
  BY <1>2 DEF ReadRefs, TargetBranch, TipOf
<1>3. ASSUME NEW r \in Client, SnapshotMemory(r)
     PROVE  WriteOrder'
  BY <1>3 DEF SnapshotMemory
<1>4. ASSUME NEW r \in Client, AssembleInputs(r)
     PROVE  WriteOrder'
  BY <1>4 DEF AssembleInputs
<1>5. ASSUME NEW r \in Client, StageBlob(r)
     PROVE  WriteOrder'
  BY <1>5 DEF StageBlob
<1>6. ASSUME NEW r \in Client, PutCommit(r)
     PROVE  WriteOrder'
  BY <1>6 DEF PutCommit, Staged, Fresh
<1>7. ASSUME NEW r \in Client, WriteBranch(r)
     PROVE  WriteOrder'
  BY <1>7 DEF WriteBranch, LockDiscipline
<1>8. ASSUME NEW r \in Client, PublishHead(r)
     PROVE  WriteOrder'
  BY <1>8 DEF PublishHead, Finish, Answer, LockDiscipline
<1>9. ASSUME NEW r \in Client, ResolveTarget(r)
     PROVE  WriteOrder'
  BY <1>9 DEF ResolveTarget, TipOf, StoreClosed, Refers, CommitContent,
     HashesMade
<1>10. ASSUME NEW r \in Client, DryRun(r)
     PROVE  WriteOrder'
  BY <1>10 DEF DryRun, Finish, Answer
<1>11. ASSUME NEW r \in Client, RollbackRestore(r)
     PROVE  WriteOrder'
  BY <1>11 DEF RollbackRestore
<1>12. ASSUME NEW r \in Client, ReadBack(r)
     PROVE  WriteOrder'
  BY <1>12 DEF ReadBack
<1>13. ASSUME NEW r \in Client, SnapBranch(r)
     PROVE  WriteOrder'
  BY <1>13 DEF SnapBranch
<1>14. ASSUME NEW r \in Client, SnapDone(r)
     PROVE  WriteOrder'
  BY <1>14 DEF SnapDone
<1>15. ASSUME NEW r \in Client, DiffDone(r)
     PROVE  WriteOrder'
  BY <1>15 DEF DiffDone, Answer
<1>16. ASSUME NEW r \in Client, LogHead(r)
     PROVE  WriteOrder'
  BY <1>16 DEF LogHead
<1>17. ASSUME NEW r \in Client, LogTip(r)
     PROVE  WriteOrder'
  BY <1>17 DEF LogTip
<1>18. ASSUME NEW r \in Client, LogWalk(r)
     PROVE  WriteOrder'
  BY <1>18 DEF LogWalk, StoreClosed, Refers, CommitContent
<1>19. ASSUME NEW r \in Client, LogDone(r)
     PROVE  WriteOrder'
  BY <1>19 DEF LogDone, Answer, LockFreePC
<1>20. ASSUME NEW r \in Client, Abort(r)
     PROVE  WriteOrder'
  BY <1>20 DEF Abort, Finish, Answer, LockedPC
<1>21. ASSUME NEW r \in Client, Deliver(r)
     PROVE  WriteOrder'
  BY <1>21 DEF Deliver, Replied
<1>22. ASSUME NEW r \in Client, LoseReply(r)
     PROVE  WriteOrder'
  BY <1>22 DEF LoseReply, Replied
<1>23. ASSUME NEW r \in Client, NEW k \in LockedKinds, Refuse(r, k)
     PROVE  WriteOrder'
  BY <1>23 DEF Refuse, Arrives, Answer
<1>24. ASSUME NEW r \in Client, NEW k \in LockedKinds,
             NEW b \in Branch \cup {None}, Enqueue(r, k, b)
     PROVE  WriteOrder'
  BY <1>24 DEF Enqueue, Arrives
<1>25. ASSUME NEW r \in Client, StartLog(r)
     PROVE  WriteOrder'
  BY <1>25 DEF StartLog, Arrives
<1>26. CASE Signal
  BY <1>26 DEF Signal
<1>27. CASE StartDrain
  BY <1>27 DEF StartDrain
<1>28. CASE Exit
  BY <1>28 DEF Exit, ProcessEnds, Blank
<1>29. CASE Crash
  BY <1>29 DEF Crash, ProcessEnds, Blank
<1>30. CASE LoseObject
  BY <1>30 DEF LoseObject
<1>31. CASE Startup
  BY <1>31 DEF Startup
<1>32. CASE RefuseStart
  BY <1>32 DEF RefuseStart
<1>33. CASE UNCHANGED vars
  BY <1>33 DEF vars
<1> QED
  BY <1>1, <1>2, <1>3, <1>4, <1>5, <1>6, <1>7, <1>8, <1>9, <1>10, <1>11, <1>12,
     <1>13, <1>14, <1>15, <1>16, <1>17, <1>18, <1>19, <1>20, <1>21, <1>22,
     <1>23, <1>24, <1>25, <1>26, <1>27, <1>28, <1>29, <1>30, <1>31, <1>32, <1>33
     DEF Next, Request, TaskStep, CommitStep, RollbackStep, ReadStep, Lifecycle

(* The store stays closed: only the Commit's own write could open it.       *)
LEMMA ClosedStep ==
  ASSUME TypeOK, TaskShape, HashesMade, LockDiscipline,
         WriteOrder, StoreClosed, [Next]_vars
  PROVE  StoreClosed'
<1> USE DaemonAssumption, NoneAssumption DEF TypeOK
<1>0. ASSUME UNCHANGED <<content, store, losses>>
     PROVE  StoreClosed'
  BY <1>0 DEF StoreClosed, Refers
<1>1. ASSUME NEW r \in Client, Acquire(r)
     PROVE  StoreClosed'
  BY <1>1, <1>0 DEF Acquire, Admit, RefuseLate, Answer
<1>2. ASSUME NEW r \in Client, ReadRefs(r)
     PROVE  StoreClosed'
  BY <1>2, <1>0 DEF ReadRefs, TargetBranch, TipOf
<1>3. ASSUME NEW r \in Client, SnapshotMemory(r)
     PROVE  StoreClosed'
  BY <1>3 DEF SnapshotMemory, StoreClosed, Refers
<1>4. ASSUME NEW r \in Client, AssembleInputs(r)
     PROVE  StoreClosed'
  BY <1>4, <1>0 DEF AssembleInputs
<1>5. ASSUME NEW r \in Client, StageBlob(r)
     PROVE  StoreClosed'
  BY <1>5 DEF StageBlob, StoreClosed, Refers, TaskShape, Object
<1>6. ASSUME NEW r \in Client, PutCommit(r)
     PROVE  StoreClosed'
  <2>1. PICK c \in Fresh :
          /\ content' = [content EXCEPT ![c] =
               [parent |-> parent[r], memory |-> memory[r], payload |-> payload[r]]]
          /\ store' = store \cup {c}
    BY <1>6 DEF PutCommit
  <2>2. SUFFICES ASSUME losses' = 0, NEW d \in Commit \cap store'
                 PROVE  Refers(d)' \subseteq store'
    BY DEF StoreClosed
  <2>3. CASE d = c
    <3>1. payload[r] \subseteq store /\ {parent[r], memory[r]} \ {None} \subseteq store
      BY <1>6, <2>2 DEF PutCommit, Staged, WriteOrder
    <3>2. Refers(c)' = payload[r] \cup ({parent[r], memory[r]} \ {None})
      BY <2>1 DEF Refers, Fresh
    <3> QED BY <2>1, <2>3, <3>1, <3>2
  <2>4. CASE d # c
    BY <1>6, <2>1, <2>2, <2>4 DEF PutCommit, StoreClosed, Refers, Fresh
  <2> QED BY <2>3, <2>4
<1>7. ASSUME NEW r \in Client, WriteBranch(r)
     PROVE  StoreClosed'
  BY <1>7, <1>0 DEF WriteBranch
<1>8. ASSUME NEW r \in Client, PublishHead(r)
     PROVE  StoreClosed'
  BY <1>8, <1>0 DEF PublishHead, Finish, Answer
<1>9. ASSUME NEW r \in Client, ResolveTarget(r)
     PROVE  StoreClosed'
  BY <1>9, <1>0 DEF ResolveTarget, TipOf
<1>10. ASSUME NEW r \in Client, DryRun(r)
     PROVE  StoreClosed'
  BY <1>10, <1>0 DEF DryRun, Finish, Answer
<1>11. ASSUME NEW r \in Client, RollbackRestore(r)
     PROVE  StoreClosed'
  BY <1>11, <1>0 DEF RollbackRestore
<1>12. ASSUME NEW r \in Client, ReadBack(r)
     PROVE  StoreClosed'
  BY <1>12, <1>0 DEF ReadBack
<1>13. ASSUME NEW r \in Client, SnapBranch(r)
     PROVE  StoreClosed'
  BY <1>13, <1>0 DEF SnapBranch
<1>14. ASSUME NEW r \in Client, SnapDone(r)
     PROVE  StoreClosed'
  BY <1>14, <1>0 DEF SnapDone
<1>15. ASSUME NEW r \in Client, DiffDone(r)
     PROVE  StoreClosed'
  BY <1>15, <1>0 DEF DiffDone, Answer
<1>16. ASSUME NEW r \in Client, LogHead(r)
     PROVE  StoreClosed'
  BY <1>16, <1>0 DEF LogHead
<1>17. ASSUME NEW r \in Client, LogTip(r)
     PROVE  StoreClosed'
  BY <1>17, <1>0 DEF LogTip
<1>18. ASSUME NEW r \in Client, LogWalk(r)
     PROVE  StoreClosed'
  BY <1>18, <1>0 DEF LogWalk
<1>19. ASSUME NEW r \in Client, LogDone(r)
     PROVE  StoreClosed'
  BY <1>19, <1>0 DEF LogDone, Answer
<1>20. ASSUME NEW r \in Client, Abort(r)
     PROVE  StoreClosed'
  BY <1>20, <1>0 DEF Abort, Finish, Answer
<1>21. ASSUME NEW r \in Client, Deliver(r)
     PROVE  StoreClosed'
  BY <1>21, <1>0 DEF Deliver, Replied
<1>22. ASSUME NEW r \in Client, LoseReply(r)
     PROVE  StoreClosed'
  BY <1>22, <1>0 DEF LoseReply, Replied
<1>23. ASSUME NEW r \in Client, NEW k \in LockedKinds, Refuse(r, k)
     PROVE  StoreClosed'
  BY <1>23, <1>0 DEF Refuse, Arrives, Answer
<1>24. ASSUME NEW r \in Client, NEW k \in LockedKinds,
             NEW b \in Branch \cup {None}, Enqueue(r, k, b)
     PROVE  StoreClosed'
  BY <1>24, <1>0 DEF Enqueue, Arrives
<1>25. ASSUME NEW r \in Client, StartLog(r)
     PROVE  StoreClosed'
  BY <1>25, <1>0 DEF StartLog, Arrives
<1>26. CASE Signal
  BY <1>26, <1>0 DEF Signal
<1>27. CASE StartDrain
  BY <1>27, <1>0 DEF StartDrain
<1>28. CASE Exit
  BY <1>28, <1>0 DEF Exit, ProcessEnds
<1>29. CASE Crash
  BY <1>29, <1>0 DEF Crash, ProcessEnds
<1>30. CASE LoseObject
  BY <1>30 DEF LoseObject, StoreClosed
<1>31. CASE Startup
  BY <1>31, <1>0 DEF Startup
<1>32. CASE RefuseStart
  BY <1>32, <1>0 DEF RefuseStart
<1>33. CASE UNCHANGED vars
  BY <1>33, <1>0 DEF vars
<1> QED
  BY <1>1, <1>2, <1>3, <1>4, <1>5, <1>6, <1>7, <1>8, <1>9, <1>10, <1>11, <1>12,
     <1>13, <1>14, <1>15, <1>16, <1>17, <1>18, <1>19, <1>20, <1>21, <1>22,
     <1>23, <1>24, <1>25, <1>26, <1>27, <1>28, <1>29, <1>30, <1>31, <1>32, <1>33
     DEF Next, Request, TaskStep, CommitStep, RollbackStep, ReadStep, Lifecycle

(* The first state.                                                        *)
LEMMA InitInv == Init => DaemonInv
<1> SUFFICES ASSUME Init PROVE DaemonInv
  OBVIOUS
<1> USE DaemonAssumption, NoneAssumption DEF Init, Blank
<1>1. TypeOK
  <2>1. queue \in Seq(Client \cup {Drainer})
    BY EmptySeq
  <2> QED BY <2>1 DEF TypeOK, PC, Kinds, NoSnap
<1>2. TaskShape /\ HashesMade
  BY DEF TaskShape, HashesMade
<1>3. LockDiscipline
  BY DEF LockDiscipline, LockExclusive, DiffSnapshotStable, LockedPC
<1>4. WriteOrder /\ StoreClosed
  BY DEF WriteOrder, StoreClosed, ServedTipsPresent, TipsPresent, NoPhantomHead
<1> QED BY <1>1, <1>2, <1>3, <1>4 DEF DaemonInv

LEMMA NextInv ==
  ASSUME DaemonInv, [Next]_vars
  PROVE  DaemonInv'
<1> USE DEF DaemonInv
<1> QED BY TypeStep, ShapeStep, MadeStep, LockStep, OrderStep, ClosedStep

(***************************************************************************)
(* DaemonInv is an invariant of the engine.                                *)
(***************************************************************************)
THEOREM DaemonInvariant == Spec => []DaemonInv
<1>1. Init => DaemonInv
  BY InitInv
<1>2. DaemonInv /\ [Next]_vars => DaemonInv'
  BY NextInv
<1> QED BY <1>1, <1>2, PTL DEF Spec

(***************************************************************************)
(* Type correctness.                                                       *)
(***************************************************************************)
THEOREM TypeCorrect == Spec => []TypeOK
<1>1. DaemonInv => TypeOK
  BY DEF DaemonInv
<1> QED BY <1>1, DaemonInvariant, PTL

(***************************************************************************)
(* The commit lock isolates every two-phase sequence, and the refs a Diff  *)
(* freezes one file at a time are those of one instant (server.rs, the     *)
(* Commit, Rollback and Diff arms).                                        *)
(***************************************************************************)
THEOREM LockIsolates == Spec => [](LockExclusive /\ DiffSnapshotStable)
<1>1. DaemonInv => LockExclusive /\ DiffSnapshotStable
  BY DEF DaemonInv, LockDiscipline
<1> QED BY <1>1, DaemonInvariant, PTL

(***************************************************************************)
(* At every crash point, everything a stored commit refers to is stored    *)
(* (stage_and_commit_with_now).                                            *)
(***************************************************************************)
THEOREM StoreStaysClosed == Spec => []StoreClosed
<1>1. DaemonInv => StoreClosed
  BY DEF DaemonInv
<1> QED BY <1>1, DaemonInvariant, PTL

(***************************************************************************)
(* HEAD never names an unborn branch: publish_head runs last.              *)
(***************************************************************************)
THEOREM RefsSound == Spec => []NoPhantomHead
<1>1. DaemonInv => NoPhantomHead
  BY DEF DaemonInv, WriteOrder
<1> QED BY <1>1, DaemonInvariant, PTL

(***************************************************************************)
(* A daemon that serves has the object of every tip, whatever was lost     *)
(* while it was down (reconcile_refs_on_startup).                          *)
(***************************************************************************)
THEOREM TipsServed == Spec => []ServedTipsPresent
<1>1. DaemonInv => ServedTipsPresent
  BY DEF DaemonInv, WriteOrder
<1> QED BY <1>1, DaemonInvariant, PTL

(***************************************************************************)
(* The lock-free log walk finds every commit it is led to (walk_log).      *)
(***************************************************************************)
THEOREM LogWalkSafe == Spec => []LogNeverDangles
<1>1. DaemonInv => LogNeverDangles
  BY DEF DaemonInv, WriteOrder, LogNeverDangles
<1> QED BY <1>1, DaemonInvariant, PTL

(* Each step of the engine is a step of the branch history, or a stutter:   *)
(* WriteBranch advances a branch, Deliver may acknowledge.                 *)
LEMMA StepRefines ==
  ASSUME DaemonInv, [Next]_vars
  PROVE  [History!Next]_History!vars
<1> USE DaemonAssumption, NoneAssumption DEF DaemonInv
<1>0. ASSUME UNCHANGED <<branch, content, published, acked>>
     PROVE  UNCHANGED History!vars
  BY <1>0 DEF History!vars
<1>1. ASSUME NEW r \in Client, Acquire(r)
     PROVE  [History!Next]_History!vars
  BY <1>1, <1>0 DEF Acquire, Admit, RefuseLate, Answer
<1>2. ASSUME NEW r \in Client, ReadRefs(r)
     PROVE  [History!Next]_History!vars
  BY <1>2, <1>0 DEF ReadRefs, TargetBranch, TipOf
<1>3. ASSUME NEW r \in Client, SnapshotMemory(r)
     PROVE  [History!Next]_History!vars
  BY <1>3, <1>0 DEF SnapshotMemory
<1>4. ASSUME NEW r \in Client, AssembleInputs(r)
     PROVE  [History!Next]_History!vars
  BY <1>4, <1>0 DEF AssembleInputs
<1>5. ASSUME NEW r \in Client, StageBlob(r)
     PROVE  [History!Next]_History!vars
  BY <1>5, <1>0 DEF StageBlob
<1>6. ASSUME NEW r \in Client, PutCommit(r)
     PROVE  [History!Next]_History!vars
  <2>1. PICK c \in Fresh :
          content' = [content EXCEPT ![c] =
             [parent |-> parent[r], memory |-> memory[r], payload |-> payload[r]]]
    BY <1>6 DEF PutCommit
  <2>2. c \notin published
    BY <2>1 DEF Fresh, HashesMade
  <2>3. [d \in published |-> content'[d].parent] = [d \in published |-> content[d].parent]
    BY <2>1, <2>2 DEF TypeOK
  <2> QED BY <1>6, <2>3 DEF PutCommit, Staged, History!vars
<1>7. ASSUME NEW r \in Client, WriteBranch(r)
     PROVE  [History!Next]_History!vars
  <2>1. PICK b \in Branch, c \in Commit : b = br[r] /\ c = mine[r]
    BY <1>7 DEF WriteBranch, TaskShape
  <2>2. c \notin published /\ content[c].parent = branch[b]
    BY <1>7, <2>1 DEF WriteBranch, LockDiscipline
  <2>3. published' = published \cup {c} /\ content' = content /\ acked' = acked
        /\ branch' = [branch EXCEPT ![b] = c]
    BY <1>7, <2>1 DEF WriteBranch
  <2>4. History!Advance(b, c)
    BY <2>2, <2>3 DEF History!Advance
  <2> QED BY <2>4 DEF History!Next
<1>8. ASSUME NEW r \in Client, PublishHead(r)
     PROVE  [History!Next]_History!vars
  BY <1>8, <1>0 DEF PublishHead, Finish, Answer
<1>9. ASSUME NEW r \in Client, ResolveTarget(r)
     PROVE  [History!Next]_History!vars
  BY <1>9, <1>0 DEF ResolveTarget, TipOf
<1>10. ASSUME NEW r \in Client, DryRun(r)
     PROVE  [History!Next]_History!vars
  BY <1>10, <1>0 DEF DryRun, Finish, Answer
<1>11. ASSUME NEW r \in Client, RollbackRestore(r)
     PROVE  [History!Next]_History!vars
  BY <1>11, <1>0 DEF RollbackRestore
<1>12. ASSUME NEW r \in Client, ReadBack(r)
     PROVE  [History!Next]_History!vars
  BY <1>12, <1>0 DEF ReadBack
<1>13. ASSUME NEW r \in Client, SnapBranch(r)
     PROVE  [History!Next]_History!vars
  BY <1>13, <1>0 DEF SnapBranch
<1>14. ASSUME NEW r \in Client, SnapDone(r)
     PROVE  [History!Next]_History!vars
  BY <1>14, <1>0 DEF SnapDone
<1>15. ASSUME NEW r \in Client, DiffDone(r)
     PROVE  [History!Next]_History!vars
  BY <1>15, <1>0 DEF DiffDone, Answer
<1>16. ASSUME NEW r \in Client, LogHead(r)
     PROVE  [History!Next]_History!vars
  BY <1>16, <1>0 DEF LogHead
<1>17. ASSUME NEW r \in Client, LogTip(r)
     PROVE  [History!Next]_History!vars
  BY <1>17, <1>0 DEF LogTip
<1>18. ASSUME NEW r \in Client, LogWalk(r)
     PROVE  [History!Next]_History!vars
  BY <1>18, <1>0 DEF LogWalk
<1>19. ASSUME NEW r \in Client, LogDone(r)
     PROVE  [History!Next]_History!vars
  BY <1>19, <1>0 DEF LogDone, Answer
<1>20. ASSUME NEW r \in Client, Abort(r)
     PROVE  [History!Next]_History!vars
  BY <1>20, <1>0 DEF Abort, Finish, Answer
<1>21. ASSUME NEW r \in Client, Deliver(r)
     PROVE  [History!Next]_History!vars
  <2>1. UNCHANGED <<branch, content, published>>
    BY <1>21 DEF Deliver, Replied
  <2>2. CASE acked' = acked
    BY <2>1, <2>2, <1>0
  <2>3. CASE acked' # acked
    <3>1. mine[r] \in published /\ acked' = acked \cup {mine[r]}
      BY <1>21, <2>3 DEF Deliver, Replied, LockDiscipline
    <3>2. mine[r] \in Commit
      BY <3>1 DEF TypeOK
    <3>3. History!Acknowledge(mine[r])
      BY <2>1, <3>1 DEF History!Acknowledge
    <3> QED BY <3>2, <3>3 DEF History!Next
  <2> QED BY <2>2, <2>3
<1>22. ASSUME NEW r \in Client, LoseReply(r)
     PROVE  [History!Next]_History!vars
  BY <1>22, <1>0 DEF LoseReply, Replied
<1>23. ASSUME NEW r \in Client, NEW k \in LockedKinds, Refuse(r, k)
     PROVE  [History!Next]_History!vars
  BY <1>23, <1>0 DEF Refuse, Arrives, Answer
<1>24. ASSUME NEW r \in Client, NEW k \in LockedKinds,
             NEW b \in Branch \cup {None}, Enqueue(r, k, b)
     PROVE  [History!Next]_History!vars
  BY <1>24, <1>0 DEF Enqueue, Arrives
<1>25. ASSUME NEW r \in Client, StartLog(r)
     PROVE  [History!Next]_History!vars
  BY <1>25, <1>0 DEF StartLog, Arrives
<1>26. CASE Signal
  BY <1>26, <1>0 DEF Signal
<1>27. CASE StartDrain
  BY <1>27, <1>0 DEF StartDrain
<1>28. CASE Exit
  BY <1>28, <1>0 DEF Exit, ProcessEnds
<1>29. CASE Crash
  BY <1>29, <1>0 DEF Crash, ProcessEnds
<1>30. CASE LoseObject
  BY <1>30, <1>0 DEF LoseObject
<1>31. CASE Startup
  BY <1>31, <1>0 DEF Startup
<1>32. CASE RefuseStart
  BY <1>32, <1>0 DEF RefuseStart
<1>33. CASE UNCHANGED vars
  BY <1>33, <1>0 DEF vars
<1> QED
  BY <1>1, <1>2, <1>3, <1>4, <1>5, <1>6, <1>7, <1>8, <1>9, <1>10, <1>11, <1>12,
     <1>13, <1>14, <1>15, <1>16, <1>17, <1>18, <1>19, <1>20, <1>21, <1>22,
     <1>23, <1>24, <1>25, <1>26, <1>27, <1>28, <1>29, <1>30, <1>31, <1>32, <1>33
     DEF Next, Request, TaskStep, CommitStep, RollbackStep, ReadStep, Lifecycle

(***************************************************************************)
(* The engine implements the atomic, append-only branch history.           *)
(***************************************************************************)
THEOREM Refinement == Spec => ImplementsHistory
<1>1. Init => History!Init
  BY DEF Init, History!Init
<1>2. DaemonInv /\ [Next]_vars => [History!Next]_History!vars
  BY StepRefines
<1> QED BY <1>1, <1>2, DaemonInvariant, PTL DEF Spec, ImplementsHistory, History!Spec

HistoryProofs == INSTANCE BranchHistory_proofs WITH
  tip <- branch,
  chain <- [c \in published |-> content[c].parent]

(***************************************************************************)
(* No acknowledged commit is ever lost: each is reachable from a branch.   *)
(***************************************************************************)
THEOREM AckedNeverLost == Spec => []AckedCommitsReachable
<1>1. Init => HistoryProofs!HistoryInv
  BY DaemonAssumption DEF Init, HistoryProofs!HistoryInv, HistoryProofs!ChainReachable
<1>2. ASSUME DaemonInv, HistoryProofs!HistoryInv, [Next]_vars
      PROVE  HistoryProofs!HistoryInv'
  <2>1. [HistoryProofs!Next]_HistoryProofs!vars
    BY <1>2, StepRefines
    DEF History!Next, History!vars, History!Advance, History!Acknowledge,
        HistoryProofs!Next, HistoryProofs!vars, HistoryProofs!Advance,
        HistoryProofs!Acknowledge
  <2> QED BY <1>2, <2>1, HistoryProofs!HistoryStep
<1>3. HistoryProofs!HistoryInv => AckedCommitsReachable
  BY DEF HistoryProofs!HistoryInv, HistoryProofs!ChainReachable, HistoryProofs!Reaches,
         HistoryProofs!ParentClosed, AckedCommitsReachable, History!AckedReachable,
         History!Reaches, History!ParentClosed
<1> QED BY <1>1, <1>2, <1>3, DaemonInvariant, PTL DEF Spec

(* What one step may not do: exit under a lock holder, or start to write   *)
(* once shutdown has begun.                                                *)
GracefulStep ==
  /\ mode' = "exited" /\ mode = "up" => \A r \in Client : pc[r] \notin LockedPC
  /\ \A r \in Client :
       (shutdown /\ kind[r] \in WriteKinds /\ pc[r] = "queued") => pc'[r] # "read"

LEMMA GracefulNext ==
  ASSUME DaemonInv, [Next]_vars
  PROVE  GracefulStep
<1> USE DaemonAssumption, NoneAssumption DEF GracefulStep
<1>1. ASSUME NEW r \in Client, Acquire(r)
     PROVE  GracefulStep
  <2>1. CASE Admit(r)
    BY <1>1, <2>1, ZenonT(60) DEF Acquire, Admit, ShuttingDown, DaemonInv, TypeOK
  <2>2. CASE RefuseLate(r)
    BY <1>1, <2>2 DEF Acquire, RefuseLate, Answer, DaemonInv, TypeOK
  <2> QED BY <1>1, <2>1, <2>2 DEF Acquire
<1>2. ASSUME NEW r \in Client, ReadRefs(r)
     PROVE  GracefulStep
  BY <1>2 DEF ReadRefs, TargetBranch, TipOf, DaemonInv, TypeOK
<1>3. ASSUME NEW r \in Client, SnapshotMemory(r)
     PROVE  GracefulStep
  BY <1>3 DEF SnapshotMemory, DaemonInv, TypeOK
<1>4. ASSUME NEW r \in Client, AssembleInputs(r)
     PROVE  GracefulStep
  BY <1>4 DEF AssembleInputs, DaemonInv, TypeOK
<1>5. ASSUME NEW r \in Client, StageBlob(r)
     PROVE  GracefulStep
  BY <1>5 DEF StageBlob, DaemonInv, TypeOK
<1>6. ASSUME NEW r \in Client, PutCommit(r)
     PROVE  GracefulStep
  BY <1>6 DEF PutCommit, Staged, Fresh, DaemonInv, TypeOK
<1>7. ASSUME NEW r \in Client, WriteBranch(r)
     PROVE  GracefulStep
  BY <1>7 DEF WriteBranch, DaemonInv, TypeOK
<1>8. ASSUME NEW r \in Client, PublishHead(r)
     PROVE  GracefulStep
  BY <1>8 DEF PublishHead, Finish, Answer, DaemonInv, TypeOK
<1>9. ASSUME NEW r \in Client, ResolveTarget(r)
     PROVE  GracefulStep
  BY <1>9 DEF ResolveTarget, TipOf, DaemonInv, TypeOK
<1>10. ASSUME NEW r \in Client, DryRun(r)
     PROVE  GracefulStep
  BY <1>10 DEF DryRun, Finish, Answer, DaemonInv, TypeOK
<1>11. ASSUME NEW r \in Client, RollbackRestore(r)
     PROVE  GracefulStep
  BY <1>11 DEF RollbackRestore, DaemonInv, TypeOK
<1>12. ASSUME NEW r \in Client, ReadBack(r)
     PROVE  GracefulStep
  BY <1>12 DEF ReadBack, DaemonInv, TypeOK
<1>13. ASSUME NEW r \in Client, SnapBranch(r)
     PROVE  GracefulStep
  BY <1>13 DEF SnapBranch, DaemonInv, TypeOK
<1>14. ASSUME NEW r \in Client, SnapDone(r)
     PROVE  GracefulStep
  BY <1>14 DEF SnapDone, DaemonInv, TypeOK
<1>15. ASSUME NEW r \in Client, DiffDone(r)
     PROVE  GracefulStep
  BY <1>15 DEF DiffDone, Answer, DaemonInv, TypeOK
<1>16. ASSUME NEW r \in Client, LogHead(r)
     PROVE  GracefulStep
  BY <1>16 DEF LogHead, DaemonInv, TypeOK
<1>17. ASSUME NEW r \in Client, LogTip(r)
     PROVE  GracefulStep
  BY <1>17 DEF LogTip, DaemonInv, TypeOK
<1>18. ASSUME NEW r \in Client, LogWalk(r)
     PROVE  GracefulStep
  BY <1>18 DEF LogWalk, DaemonInv, TypeOK
<1>19. ASSUME NEW r \in Client, LogDone(r)
     PROVE  GracefulStep
  BY <1>19 DEF LogDone, Answer, DaemonInv, TypeOK
<1>20. ASSUME NEW r \in Client, Abort(r)
     PROVE  GracefulStep
  BY <1>20 DEF Abort, Finish, Answer, DaemonInv, TypeOK
<1>21. ASSUME NEW r \in Client, Deliver(r)
     PROVE  GracefulStep
  BY <1>21 DEF Deliver, Replied, DaemonInv, TypeOK
<1>22. ASSUME NEW r \in Client, LoseReply(r)
     PROVE  GracefulStep
  BY <1>22 DEF LoseReply, Replied, DaemonInv, TypeOK
<1>23. ASSUME NEW r \in Client, NEW k \in LockedKinds, Refuse(r, k)
     PROVE  GracefulStep
  BY <1>23 DEF Refuse, Arrives, Answer, DaemonInv, TypeOK
<1>24. ASSUME NEW r \in Client, NEW k \in LockedKinds,
             NEW b \in Branch \cup {None}, Enqueue(r, k, b)
     PROVE  GracefulStep
  BY <1>24 DEF Enqueue, Arrives, DaemonInv, TypeOK
<1>25. ASSUME NEW r \in Client, StartLog(r)
     PROVE  GracefulStep
  BY <1>25 DEF StartLog, Arrives, DaemonInv, TypeOK
<1>26. CASE Signal
  BY <1>26 DEF Signal, DaemonInv, TypeOK
<1>27. CASE StartDrain
  BY <1>27 DEF StartDrain, DaemonInv, TypeOK
<1>28. CASE Exit
  <2>1. \A q \in Client : pc[q] \notin LockedPC
    BY <1>28 DEF Exit, LockGranted, DaemonInv, LockDiscipline, LockExclusive
  <2> QED BY <1>28, <2>1 DEF Exit, ProcessEnds, Blank
<1>29. CASE Crash
  BY <1>29 DEF Crash, ProcessEnds, Blank, DaemonInv, TypeOK
<1>30. CASE LoseObject
  BY <1>30 DEF LoseObject, DaemonInv, TypeOK
<1>31. CASE Startup
  BY <1>31 DEF Startup, DaemonInv, TypeOK
<1>32. CASE RefuseStart
  BY <1>32 DEF RefuseStart, DaemonInv, TypeOK
<1>33. CASE UNCHANGED vars
  BY <1>33 DEF vars, DaemonInv, TypeOK
<1> QED
  BY <1>1, <1>2, <1>3, <1>4, <1>5, <1>6, <1>7, <1>8, <1>9, <1>10, <1>11, <1>12,
     <1>13, <1>14, <1>15, <1>16, <1>17, <1>18, <1>19, <1>20, <1>21, <1>22,
     <1>23, <1>24, <1>25, <1>26, <1>27, <1>28, <1>29, <1>30, <1>31, <1>32, <1>33
     DEF Next, Request, TaskStep, CommitStep, RollbackStep, ReadStep, Lifecycle

(***************************************************************************)
(* A graceful exit interrupts no request that holds the lock, and no write *)
(* begins once shutdown has (lifecycle::drain and check_shutdown).         *)
(***************************************************************************)
THEOREM GracefulShutdown == Spec => ExitInterruptsNobody /\ NoWriteAfterShutdown
<1>1. DaemonInv /\ [Next]_vars => GracefulStep
  BY GracefulNext
<1>2. GracefulStep =>
        /\ [mode' = "exited" /\ mode = "up" => \A r \in Client : pc[r] \notin LockedPC]_vars
        /\ [\A r \in Client : (shutdown /\ kind[r] \in WriteKinds /\ pc[r] = "queued")
                                 => pc'[r] # "read"]_vars
  BY SMTT(30) DEF GracefulStep
<1> QED
  BY <1>1, <1>2, DaemonInvariant, PTL DEF Spec, ExitInterruptsNobody, NoWriteAfterShutdown

(* Where a request's own commit is: a commit has none before it writes     *)
(* one, nobody else has the one that is about to go on a branch, and a     *)
(* commit that failed keeps none that is on a branch.                      *)
CommitFate ==
  \A r \in Client :
    /\ mine[r] # None => content[mine[r]] # None
    /\ pc[r] \in LockFreePC => kind[r] = "log"
    /\ pc[r] \in {"restore", "readback"} => kind[r] = "rollback"
    /\ (kind[r] = "commit" /\ pc[r] \in {"read", "memory", "assemble", "stage"})
         => mine[r] = None
    /\ pc[r] = "ref" =>
         \A q \in Client \ {r} : kind[q] = "commit" => mine[q] # mine[r]
    /\ (pc[r] = "reply" /\ kind[r] = "commit" /\ result[r] = "err" /\ mine[r] # None)
         => mine[r] \notin published

(* A hash that is new is nobody's; one at "ref" is on no branch.           *)
LEMMA FateStep ==
  ASSUME DaemonInv, CommitFate, [Next]_vars
  PROVE  CommitFate'
<1> USE DaemonAssumption, NoneAssumption
    DEF DaemonInv, TypeOK, TaskShape, LockDiscipline, LockExclusive, LockedPC, LockFreePC,
        CommitFate
<1>1. ASSUME NEW r \in Client, Acquire(r)
     PROVE  CommitFate'
  BY <1>1 DEF Acquire, Admit, RefuseLate, Answer
<1>2. ASSUME NEW r \in Client, ReadRefs(r)
     PROVE  CommitFate'
  BY <1>2 DEF ReadRefs, TargetBranch, TipOf
<1>3. ASSUME NEW r \in Client, SnapshotMemory(r)
     PROVE  CommitFate'
  BY <1>3 DEF SnapshotMemory
<1>4. ASSUME NEW r \in Client, AssembleInputs(r)
     PROVE  CommitFate'
  BY <1>4 DEF AssembleInputs
<1>5. ASSUME NEW r \in Client, StageBlob(r)
     PROVE  CommitFate'
  BY <1>5 DEF StageBlob
<1>6. ASSUME NEW r \in Client, PutCommit(r)
     PROVE  CommitFate'
  <2>1. PICK c \in Fresh :
          /\ content' = [content EXCEPT ![c] =
               [parent |-> parent[r], memory |-> memory[r], payload |-> payload[r]]]
          /\ mine' = [mine EXCEPT ![r] = c]
    BY <1>6 DEF PutCommit
  <2>2. content'[c] # None
    BY <2>1 DEF CommitContent, Fresh
  <2>3. \A q \in Client : mine[q] # None => mine[q] # c /\ content'[mine[q]] # None
    BY <2>1, <2>2 DEF Fresh
  <2> QED BY <1>6, <2>1, <2>2, <2>3 DEF PutCommit, Staged, Fresh
<1>7. ASSUME NEW r \in Client, WriteBranch(r)
     PROVE  CommitFate'
  BY <1>7 DEF WriteBranch
<1>8. ASSUME NEW r \in Client, PublishHead(r)
     PROVE  CommitFate'
  BY <1>8 DEF PublishHead, Finish, Answer
<1>9. ASSUME NEW r \in Client, ResolveTarget(r)
     PROVE  CommitFate'
  BY <1>9 DEF ResolveTarget, TipOf, HashesMade, Object
<1>10. ASSUME NEW r \in Client, DryRun(r)
     PROVE  CommitFate'
  BY <1>10 DEF DryRun, Finish, Answer
<1>11. ASSUME NEW r \in Client, RollbackRestore(r)
     PROVE  CommitFate'
  BY <1>11 DEF RollbackRestore
<1>12. ASSUME NEW r \in Client, ReadBack(r)
     PROVE  CommitFate'
  BY <1>12 DEF ReadBack
<1>13. ASSUME NEW r \in Client, SnapBranch(r)
     PROVE  CommitFate'
  BY <1>13 DEF SnapBranch
<1>14. ASSUME NEW r \in Client, SnapDone(r)
     PROVE  CommitFate'
  BY <1>14 DEF SnapDone
<1>15. ASSUME NEW r \in Client, DiffDone(r)
     PROVE  CommitFate'
  BY <1>15 DEF DiffDone, Answer
<1>16. ASSUME NEW r \in Client, LogHead(r)
     PROVE  CommitFate'
  BY <1>16 DEF LogHead
<1>17. ASSUME NEW r \in Client, LogTip(r)
     PROVE  CommitFate'
  BY <1>17 DEF LogTip, HashesMade
<1>18. ASSUME NEW r \in Client, LogWalk(r)
     PROVE  CommitFate'
  BY <1>18 DEF LogWalk, HashesMade, CommitContent
<1>19. ASSUME NEW r \in Client, LogDone(r)
     PROVE  CommitFate'
  BY <1>19 DEF LogDone, Answer
<1>20. ASSUME NEW r \in Client, Abort(r)
     PROVE  CommitFate'
  BY <1>20 DEF Abort, Finish, Answer
<1>21. ASSUME NEW r \in Client, Deliver(r)
     PROVE  CommitFate'
  BY <1>21 DEF Deliver, Replied
<1>22. ASSUME NEW r \in Client, LoseReply(r)
     PROVE  CommitFate'
  BY <1>22 DEF LoseReply, Replied
<1>23. ASSUME NEW r \in Client, NEW k \in LockedKinds, Refuse(r, k)
     PROVE  CommitFate'
  BY <1>23 DEF Refuse, Arrives, Answer
<1>24. ASSUME NEW r \in Client, NEW k \in LockedKinds,
             NEW b \in Branch \cup {None}, Enqueue(r, k, b)
     PROVE  CommitFate'
  BY <1>24 DEF Enqueue, Arrives, LockedKinds, WriteKinds
<1>25. ASSUME NEW r \in Client, StartLog(r)
     PROVE  CommitFate'
  BY <1>25 DEF StartLog, Arrives
<1>26. CASE Signal
  BY <1>26 DEF Signal
<1>27. CASE StartDrain
  BY <1>27 DEF StartDrain
<1>28. CASE Exit
  BY <1>28 DEF Exit, ProcessEnds, Blank
<1>29. CASE Crash
  BY <1>29 DEF Crash, ProcessEnds, Blank
<1>30. CASE LoseObject
  BY <1>30 DEF LoseObject
<1>31. CASE Startup
  BY <1>31 DEF Startup
<1>32. CASE RefuseStart
  BY <1>32 DEF RefuseStart
<1>33. CASE UNCHANGED vars
  BY <1>33 DEF vars
<1> QED
  BY <1>1, <1>2, <1>3, <1>4, <1>5, <1>6, <1>7, <1>8, <1>9, <1>10, <1>11, <1>12,
     <1>13, <1>14, <1>15, <1>16, <1>17, <1>18, <1>19, <1>20, <1>21, <1>22,
     <1>23, <1>24, <1>25, <1>26, <1>27, <1>28, <1>29, <1>30, <1>31, <1>32, <1>33
     DEF Next, Request, TaskStep, CommitStep, RollbackStep, ReadStep, Lifecycle

(***************************************************************************)
(* A request that succeeded is on a branch, and a commit that failed left  *)
(* none there (stage_and_commit_with_now, "orphan blobs only").            *)
(***************************************************************************)
THEOREM OutcomesHonest == Spec => []OutcomeHonest
<1>1. Init => CommitFate
  BY DEF Init, Blank, CommitFate, LockFreePC
<1>2. DaemonInv /\ CommitFate /\ [Next]_vars => CommitFate'
  BY FateStep
<1>3. DaemonInv /\ CommitFate => OutcomeHonest
  BY DEF DaemonInv, LockDiscipline, CommitFate, OutcomeHonest
<1> QED BY <1>1, <1>2, <1>3, DaemonInvariant, PTL DEF Spec

(* The requests that hold a slot, and the slots they leave.                *)
SlotHolders == {r \in Client : pc[r] \in SlotPC}

SlotCount ==
  /\ IsFiniteSet(SlotHolders)
  /\ permits + Cardinality(SlotHolders) = QueueDepth

(* A slot is taken by a request that had none and freed by one that had.   *)
LEMMA SlotStep ==
  ASSUME DaemonInv, SlotCount, [Next]_vars
  PROVE  SlotCount'
<1>t. permits \in Nat /\ QueueDepth \in Nat
  BY DaemonAssumption DEF DaemonInv, TypeOK
<1>a. ASSUME permits' = permits, SlotHolders' = SlotHolders
     PROVE  SlotCount'
  BY <1>a DEF SlotCount
<1>b. ASSUME NEW r \in Client, r \notin SlotHolders, permits' = permits - 1, permits # 0,
             SlotHolders' = SlotHolders \cup {r}
     PROVE  SlotCount'
  <2>1. /\ IsFiniteSet(SlotHolders')
        /\ Cardinality(SlotHolders') = Cardinality(SlotHolders) + 1
    BY <1>b, FS_AddElement DEF SlotCount
  <2>2. Cardinality(SlotHolders) \in Nat
    BY FS_CardinalityType DEF SlotCount
  <2> QED BY <1>b, <1>t, <2>1, <2>2 DEF SlotCount
<1>c. ASSUME NEW r \in SlotHolders, permits' = permits + 1,
             SlotHolders' = SlotHolders \ {r}
     PROVE  SlotCount'
  <2>1. /\ IsFiniteSet(SlotHolders')
        /\ Cardinality(SlotHolders') = Cardinality(SlotHolders) - 1
    BY <1>c, FS_RemoveElement DEF SlotCount
  <2>2. Cardinality(SlotHolders) \in Nat
    BY FS_CardinalityType DEF SlotCount
  <2> QED BY <1>c, <1>t, <2>1, <2>2 DEF SlotCount
<1>d. ASSUME permits' = QueueDepth, SlotHolders' = {}
     PROVE  SlotCount'
  BY <1>d, <1>t, FS_EmptySet DEF SlotCount
<1> USE DaemonAssumption DEF DaemonInv, TypeOK, SlotHolders, SlotPC, LockedPC
<1>1. ASSUME NEW r \in Client, Acquire(r)
     PROVE  SlotCount'
  <2>1. CASE Admit(r)
    <3>1. pc' = [pc EXCEPT ![r] = "snap"] \/ pc' = [pc EXCEPT ![r] = "read"]
      BY <2>1 DEF Admit
    <3>2. SlotHolders' = SlotHolders
      BY <1>1, <3>1 DEF Acquire
    <3> QED BY <1>a, <2>1, <3>2 DEF Admit
  <2>2. CASE RefuseLate(r)
    <3>1. r \in SlotHolders /\ permits' = permits + 1
      BY <1>1, <2>2 DEF Acquire, RefuseLate, Answer
    <3>2. SlotHolders' = SlotHolders \ {r}
      BY <1>1, <2>2 DEF Acquire, RefuseLate, Answer
    <3> QED BY <1>c, <3>1, <3>2
  <2> QED BY <1>1, <2>1, <2>2 DEF Acquire
<1>2. ASSUME NEW r \in Client, ReadRefs(r)
     PROVE  SlotCount'
  BY <1>2, <1>a DEF ReadRefs, TargetBranch, TipOf
<1>3. ASSUME NEW r \in Client, SnapshotMemory(r)
     PROVE  SlotCount'
  BY <1>3, <1>a DEF SnapshotMemory
<1>4. ASSUME NEW r \in Client, AssembleInputs(r)
     PROVE  SlotCount'
  BY <1>4, <1>a DEF AssembleInputs
<1>5. ASSUME NEW r \in Client, StageBlob(r)
     PROVE  SlotCount'
  BY <1>5, <1>a DEF StageBlob
<1>6. ASSUME NEW r \in Client, PutCommit(r)
     PROVE  SlotCount'
  BY <1>6, <1>a DEF PutCommit, Staged, Fresh
<1>7. ASSUME NEW r \in Client, WriteBranch(r)
     PROVE  SlotCount'
  BY <1>7, <1>a DEF WriteBranch
<1>8. ASSUME NEW r \in Client, PublishHead(r)
     PROVE  SlotCount'
  <2>1. r \in SlotHolders /\ permits' = permits + 1
    BY <1>8 DEF PublishHead, Finish, Answer
  <2>2. SlotHolders' = SlotHolders \ {r}
    BY <1>8 DEF PublishHead, Finish, Answer
  <2> QED BY <1>c, <2>1, <2>2
<1>9. ASSUME NEW r \in Client, ResolveTarget(r)
     PROVE  SlotCount'
  BY <1>9, <1>a DEF ResolveTarget, TipOf
<1>10. ASSUME NEW r \in Client, DryRun(r)
     PROVE  SlotCount'
  <2>1. r \in SlotHolders /\ permits' = permits + 1
    BY <1>10 DEF DryRun, Finish, Answer
  <2>2. SlotHolders' = SlotHolders \ {r}
    BY <1>10 DEF DryRun, Finish, Answer
  <2> QED BY <1>c, <2>1, <2>2
<1>11. ASSUME NEW r \in Client, RollbackRestore(r)
     PROVE  SlotCount'
  BY <1>11, <1>a DEF RollbackRestore
<1>12. ASSUME NEW r \in Client, ReadBack(r)
     PROVE  SlotCount'
  BY <1>12, <1>a DEF ReadBack
<1>13. ASSUME NEW r \in Client, SnapBranch(r)
     PROVE  SlotCount'
  BY <1>13, <1>a DEF SnapBranch
<1>14. ASSUME NEW r \in Client, SnapDone(r)
     PROVE  SlotCount'
  BY <1>14, <1>a DEF SnapDone
<1>15. ASSUME NEW r \in Client, DiffDone(r)
     PROVE  SlotCount'
  <2>1. r \in SlotHolders /\ permits' = permits + 1
    BY <1>15 DEF DiffDone, Answer
  <2>2. SlotHolders' = SlotHolders \ {r}
    BY <1>15 DEF DiffDone, Answer
  <2> QED BY <1>c, <2>1, <2>2
<1>16. ASSUME NEW r \in Client, LogHead(r)
     PROVE  SlotCount'
  BY <1>16, <1>a DEF LogHead
<1>17. ASSUME NEW r \in Client, LogTip(r)
     PROVE  SlotCount'
  BY <1>17, <1>a DEF LogTip
<1>18. ASSUME NEW r \in Client, LogWalk(r)
     PROVE  SlotCount'
  BY <1>18, <1>a DEF LogWalk
<1>19. ASSUME NEW r \in Client, LogDone(r)
     PROVE  SlotCount'
  BY <1>19, <1>a DEF LogDone, Answer, LockFreePC
<1>20. ASSUME NEW r \in Client, Abort(r)
     PROVE  SlotCount'
  <2>1. r \in SlotHolders /\ permits' = permits + 1
    BY <1>20 DEF Abort, Finish, Answer
  <2>2. SlotHolders' = SlotHolders \ {r}
    BY <1>20 DEF Abort, Finish, Answer
  <2> QED BY <1>c, <2>1, <2>2
<1>21. ASSUME NEW r \in Client, Deliver(r)
     PROVE  SlotCount'
  BY <1>21, <1>a DEF Deliver, Replied
<1>22. ASSUME NEW r \in Client, LoseReply(r)
     PROVE  SlotCount'
  BY <1>22, <1>a DEF LoseReply, Replied
<1>23. ASSUME NEW r \in Client, NEW k \in LockedKinds, Refuse(r, k)
     PROVE  SlotCount'
  BY <1>23, <1>a DEF Refuse, Arrives, Answer
<1>24. ASSUME NEW r \in Client, NEW k \in LockedKinds,
             NEW b \in Branch \cup {None}, Enqueue(r, k, b)
     PROVE  SlotCount'
  <2>1. r \notin SlotHolders /\ permits # 0 /\ permits' = permits - 1
    BY <1>24 DEF Enqueue, Arrives, TurnedAway
  <2>2. SlotHolders' = SlotHolders \cup {r}
    BY <1>24 DEF Enqueue, Arrives
  <2> QED BY <1>b, <2>1, <2>2
<1>25. ASSUME NEW r \in Client, StartLog(r)
     PROVE  SlotCount'
  BY <1>25, <1>a DEF StartLog, Arrives
<1>26. CASE Signal
  BY <1>26, <1>a DEF Signal
<1>27. CASE StartDrain
  BY <1>27, <1>a DEF StartDrain
<1>28. CASE Exit
  BY <1>28, <1>d DEF Exit, ProcessEnds, Blank
<1>29. CASE Crash
  BY <1>29, <1>d DEF Crash, ProcessEnds, Blank
<1>30. CASE LoseObject
  BY <1>30, <1>a DEF LoseObject
<1>31. CASE Startup
  BY <1>31, <1>a DEF Startup
<1>32. CASE RefuseStart
  BY <1>32, <1>a DEF RefuseStart
<1>33. CASE UNCHANGED vars
  BY <1>33, <1>a DEF vars
<1> QED
  BY <1>1, <1>2, <1>3, <1>4, <1>5, <1>6, <1>7, <1>8, <1>9, <1>10, <1>11, <1>12,
     <1>13, <1>14, <1>15, <1>16, <1>17, <1>18, <1>19, <1>20, <1>21, <1>22,
     <1>23, <1>24, <1>25, <1>26, <1>27, <1>28, <1>29, <1>30, <1>31, <1>32, <1>33
     DEF Next, Request, TaskStep, CommitStep, RollbackStep, ReadStep, Lifecycle

(***************************************************************************)
(* No path out of the dispatch arm leaks a commit-queue slot or gives one  *)
(* back twice (server.rs, commit_slots): free permits and holders always   *)
(* add up to the depth.                                                    *)
(***************************************************************************)
THEOREM SlotsNeverLeak == Spec => []SlotsBalanced
<1>1. Init => SlotCount
  <2>1. Init => SlotHolders = {} /\ permits = QueueDepth
    BY DEF Init, Blank, SlotHolders, SlotPC, LockedPC
  <2> QED BY <2>1, FS_EmptySet, DaemonAssumption DEF SlotCount
<1>2. DaemonInv /\ SlotCount /\ [Next]_vars => SlotCount'
  BY SlotStep
<1>3. SlotCount => SlotsBalanced
  BY DEF SlotCount, SlotHolders, SlotsBalanced
<1> QED BY <1>1, <1>2, <1>3, DaemonInvariant, PTL DEF Spec

=============================================================================
