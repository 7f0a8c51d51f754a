----------------------- MODULE ExecutionJournalProofs -----------------------
(***************************************************************************)
(* What AccountOwnership and ExecutionJournal keep for any number of       *)
(* processes, descriptions, paths, scopes, lock files and losses of power, *)
(* as long as a forked child does not close the object it inherited (run   *)
(* forked_close shows that it must not). The invariant of the owner (OInv) *)
(* ties every object and every call of acquire to an open description and  *)
(* to the lock of its file. create and reopen keep it as well; on it rest  *)
(* the invariant of the journal files and, for an account that was let     *)
(* alone, the one of its binding.                                          *)
(***************************************************************************)
EXTENDS ExecutionJournal, TLAPS

-----------------------------------------------------------------------------
\* The owner: AccountOwnership.

\* The process acquired the object it has; otherwise it inherited it.
Own(p) == owner[p] # None /\ owner[p].pid = p

Acquiring == {"opened", "checked", "locked"}
Committed == {"binding", "truncated", "written", "bound"}

\* Within acquire there is an open description and no object yet.
AcquiringIsOpen ==
    \A p \in Procs : pc[p] \in Acquiring =>
        /\ fd[p] # None /\ owner[p] = None
        /\ inode[fd[p]] \in Inodes

\* flock was granted and nobody has taken it away since.
LockedHasLock == \A p \in Procs : pc[p] = "locked" => lock[inode[fd[p]]] = fd[p]

\* An own object stands for an open description with the lock of its file.
OwnHasLock ==
    \A p \in Procs : Own(p) =>
        /\ fd[p] # None /\ inode[fd[p]] = owner[p].inode
        /\ lock[owner[p].inode] = fd[p]

\* Two processes share a description only if one of them inherited it.
SharedIsInherited ==
    \A p, q \in Procs : p # q /\ fd[p] # None /\ fd[p] = fd[q] =>
        \/ owner[p] # None /\ owner[p].pid # p
        \/ owner[q] # None /\ owner[q].pid # q

\* bind_journal_path runs on an object; past its check on an own one, and until it
\* writes, on a file without a binding.
BindingIsOwn ==
    \A p \in Procs :
        /\ pc[p] \in Committed \cup {"bindable"} => owner[p] # None /\ target[p] \in Paths
        /\ pc[p] \in Committed => owner[p].pid = p
        /\ pc[p] \in {"binding", "truncated"} => content[owner[p].inode] = Empty

\* The inductive invariant.
OInv ==
    /\ TypeOK /\ AcquiringIsOpen /\ LockedHasLock /\ OwnHasLock
    /\ SharedIsInherited /\ BindingIsOwn

\* At most one process has an own object, or is past flock, for one file: the lock of
\* the file is its description. Code: flock(LOCK_EX) and what later depends on it.
LEMMA OneOwnPerFile ==
    ASSUME OInv, NEW p \in Procs, NEW q \in Procs, Own(p), Own(q),
           owner[p].inode = owner[q].inode
    PROVE  p = q
  BY DEF OInv, OwnHasLock, SharedIsInherited, Own

\* The descriptors that gone processes close take no lock of others with them. Code:
\* flock goes with the last copy of a description.
LEMMA OtherLocksStay ==
    ASSUME TypeOK, NEW p \in Procs, NEW q \in Procs, p # q, NEW i \in Inodes,
           lock[i] = fd[q], fd[q] # None
    PROVE  LocksWithout({p})[i] = fd[q]
  BY DEF TypeOK, LocksWithout

\* The initial state satisfies the invariant.
LEMMA Initially == Init => OInv
  BY BoundsAssumption, NoneAssumption
  DEF Init, OInv, TypeOK, AcquiringIsOpen, LockedHasLock, OwnHasLock, SharedIsInherited,
      BindingIsOwn, Own, Steps, Acquiring, Committed, Inodes

\* acquire: os.open keeps the invariant.
LEMMA OpenKeeps == ASSUME OInv, NEW p \in Procs, Open(p) PROVE OInv'
  <1> USE NoneAssumption, BoundsAssumption DEF OInv, Inodes
  <1>1. PICK d \in Descriptions \ {fd[q] : q \in Procs} :
            fd' = [fd EXCEPT ![p] = d] /\ inode' = [inode EXCEPT ![d] = linked']
    BY DEF Open
  <1>2. TypeOK'
    BY <1>1 DEF Open, TypeOK, Steps
  <1>3. \A q \in Procs \ {p} : fd'[q] = fd[q] /\ (fd[q] # None => inode'[fd[q]] = inode[fd[q]])
    BY <1>1 DEF TypeOK
  <1>4. fd'[p] = d /\ inode'[d] \in 1 .. MaxInodes /\ d # None /\ owner'[p] = None
    BY <1>1 DEF Open, TypeOK
  <1>5. AcquiringIsOpen' /\ LockedHasLock'
    BY <1>3, <1>4 DEF Open, TypeOK, AcquiringIsOpen, LockedHasLock, Acquiring
  <1>6. OwnHasLock'
    BY <1>3, <1>4 DEF Open, TypeOK, OwnHasLock, Own
  <1>7. SharedIsInherited'
    BY <1>1, <1>3, <1>4 DEF Open, TypeOK, SharedIsInherited
  <1>8. BindingIsOwn'
    BY DEF Open, TypeOK, BindingIsOwn, Committed
  <1> QED BY <1>2, <1>5, <1>6, <1>7, <1>8

\* Closing the descriptor of a process that has no own object afterwards, in whatever
\* call, keeps the invariant.
LEMMA DroppingKeeps ==
    ASSUME OInv, NEW p \in Procs, CloseDescriptor(p),
           UNCHANGED <<made, linked, content, durable, inode, target, losses>>,
           owner' \in {owner, [owner EXCEPT ![p] = None]}, owner'[p] = None
    PROVE  OInv'
  <1> USE NoneAssumption DEF OInv
  <1>1. TypeOK'
    BY DEF CloseDescriptor, LocksWithout, TypeOK, Steps
  <1>2. \A q \in Procs \ {p} : fd'[q] = fd[q] /\ pc'[q] = pc[q] /\ owner'[q] = owner[q]
    BY DEF CloseDescriptor, TypeOK
  <1>3. fd'[p] = None /\ pc'[p] = "idle"
    BY DEF CloseDescriptor, TypeOK
  <1>4. \A q \in Procs \ {p}, i \in Inodes : lock[i] = fd[q] /\ fd[q] # None => lock'[i] = fd[q]
    BY OtherLocksStay DEF CloseDescriptor
  <1>5. AcquiringIsOpen' /\ LockedHasLock'
    BY <1>2, <1>3, <1>4 DEF AcquiringIsOpen, LockedHasLock, Acquiring
  <1>6. OwnHasLock'
    BY <1>2, <1>3, <1>4 DEF TypeOK, OwnHasLock, Own, OwnerObjects
  <1>7. SharedIsInherited'
    BY <1>2, <1>3 DEF SharedIsInherited
  <1>8. BindingIsOwn'
    BY <1>2, <1>3 DEF BindingIsOwn, Committed
  <1> QED BY <1>1, <1>5, <1>6, <1>7, <1>8

\* acquire: comparing the file with the one at the path keeps the invariant.
LEMMA CheckKeeps == ASSUME OInv, NEW p \in Procs, Check(p) PROVE OInv'
  <1>1. CASE inode[fd[p]] = linked
    BY <1>1 DEF Check, OInv, TypeOK, Steps, AcquiringIsOpen, LockedHasLock, OwnHasLock,
                SharedIsInherited, BindingIsOwn, Acquiring, Committed, Own
  <1>2. CASE inode[fd[p]] # linked
    <2>1. owner[p] = None
      BY DEF Check, OInv, AcquiringIsOpen, Acquiring
    <2> QED BY <1>2, <2>1, DroppingKeeps DEF Check
  <1> QED BY <1>1, <1>2

\* acquire: flock keeps the invariant, since it is granted on a free file only.
LEMMA LockKeeps == ASSUME OInv, NEW p \in Procs, Lock(p) PROVE OInv'
  <1>1. owner[p] = None /\ fd[p] # None /\ inode[fd[p]] \in Inodes
    BY DEF Lock, OInv, AcquiringIsOpen, Acquiring
  <1>2. CASE lock[inode[fd[p]]] = None
    <2> USE <1>1, <1>2 DEF Lock, OInv
    <2>1. TypeOK' BY DEF TypeOK, Steps
    <2>2. AcquiringIsOpen' BY DEF TypeOK, AcquiringIsOpen, Acquiring
    <2>3. LockedHasLock' BY DEF TypeOK, LockedHasLock, AcquiringIsOpen, Acquiring
    <2>4. OwnHasLock' BY DEF TypeOK, OwnHasLock, Own, OwnerObjects
    <2>5. SharedIsInherited' BY DEF SharedIsInherited
    <2>6. BindingIsOwn' BY DEF TypeOK, BindingIsOwn, Committed
    <2> QED BY <2>1, <2>2, <2>3, <2>4, <2>5, <2>6
  <1>3. CASE lock[inode[fd[p]]] # None
    BY <1>1, <1>3, DroppingKeeps DEF Lock
  <1> QED BY <1>2, <1>3

\* acquire: an object comes into being with the lock that flock granted.
LEMMA ReadBindingKeeps == ASSUME OInv, NEW p \in Procs, ReadBinding(p) PROVE OInv'
  <1>1. owner[p] = None /\ fd[p] # None /\ inode[fd[p]] \in Inodes /\ lock[inode[fd[p]]] = fd[p]
    BY DEF ReadBinding, OInv, AcquiringIsOpen, LockedHasLock, Acquiring
  <1>2. CASE content[inode[fd[p]]] = Torn
    BY <1>1, <1>2, DroppingKeeps DEF ReadBinding
  <1>3. CASE content[inode[fd[p]]] # Torn
    <2> DEFINE object == [pid |-> p, inode |-> inode[fd[p]], journal |-> content[inode[fd[p]]]]
    <2>1. /\ owner' = [owner EXCEPT ![p] = object] /\ pc' = [pc EXCEPT ![p] = "idle"]
          /\ UNCHANGED <<made, linked, content, durable, lock, fd, inode, target, losses>>
      BY <1>3 DEF ReadBinding
    <2>2. object \in OwnerObjects
      BY <1>1, <1>3 DEF OInv, TypeOK, OwnerObjects
    <2> USE <1>1, <2>1, <2>2 DEF OInv
    <2>3. TypeOK' BY DEF TypeOK, Steps
    <2>4. AcquiringIsOpen' /\ LockedHasLock'
      BY DEF TypeOK, AcquiringIsOpen, LockedHasLock, Acquiring
    <2>5. OwnHasLock' BY DEF TypeOK, OwnHasLock, Own
    <2>6. SharedIsInherited' BY DEF TypeOK, SharedIsInherited
    <2>7. BindingIsOwn' BY DEF TypeOK, BindingIsOwn, Committed
    <2> QED BY <2>3, <2>4, <2>5, <2>6, <2>7
  <1> QED BY <1>2, <1>3

\* close by the process that acquired: nobody else loses a lock, since whoever shares
\* the description only inherited it.
LEMMA CloseKeeps == ASSUME OInv, ~ChildCloses, NEW p \in Procs, Close(p) PROVE OInv'
  <1> USE NoneAssumption DEF OInv
  <1>1. Own(p) /\ fd[p] # None
    BY DEF Close, Own, OwnHasLock
  <1>2. TypeOK'
    BY DEF Close, TypeOK
  <1>3. \A q \in Procs \ {p} : fd'[q] = fd[q] /\ owner'[q] = owner[q]
    BY DEF Close, TypeOK
  <1>4. fd'[p] = None /\ owner'[p] = None /\ pc[p] = "idle" /\ UNCHANGED <<pc, inode, content, target>>
    BY DEF Close, TypeOK
  <1>5. \A q \in Procs \ {p}, i \in Inodes :
            lock[i] = fd[q] /\ fd[q] # None /\ (owner[q] = None \/ Own(q)) => lock'[i] = fd[q]
    BY <1>1 DEF Close, SharedIsInherited, Own
  <1>6. AcquiringIsOpen' /\ LockedHasLock'
    BY <1>3, <1>4, <1>5 DEF AcquiringIsOpen, LockedHasLock, Acquiring
  <1>7. OwnHasLock'
    BY <1>3, <1>4, <1>5 DEF TypeOK, OwnHasLock, Own, OwnerObjects
  <1>8. SharedIsInherited'
    BY <1>3, <1>4 DEF SharedIsInherited
  <1>9. BindingIsOwn'
    BY <1>3, <1>4 DEF BindingIsOwn, Committed
  <1> QED BY <1>2, <1>6, <1>7, <1>8, <1>9

\* The steps of bind_journal_path that leave the lock file alone.
LEMMA BindStepKeeps ==
    ASSUME OInv, NEW p \in Procs,
           \/ \E path \in Paths : RequestBind(p, path)
           \/ BindCheck(p)
           \/ BindReturn(p)
    PROVE  OInv'
  <1> USE NoneAssumption DEF OInv
  <1>1. CASE \E path \in Paths : RequestBind(p, path)
    BY <1>1 DEF RequestBind, TypeOK, Steps, AcquiringIsOpen, LockedHasLock, OwnHasLock,
                SharedIsInherited, BindingIsOwn, Acquiring, Committed, Own
  <1>2. CASE BindCheck(p)
    <2>1. pc' = [pc EXCEPT ![p] = pc'[p]] /\ pc'[p] \in {"idle", "binding", "bound"}
      BY <1>2 DEF BindCheck, TypeOK
    <2>2. pc'[p] # "idle" => Held(p)
      BY <1>2 DEF BindCheck, TypeOK
    <2>3. pc'[p] = "binding" => owner[p].journal = Empty
      BY <1>2 DEF BindCheck, TypeOK
    <2>4. pc[p] = "bindable" /\ UNCHANGED <<made, linked, content, durable, lock, fd, inode,
                                           target, owner, losses>>
      BY <1>2 DEF BindCheck
    <2>5. TypeOK' /\ AcquiringIsOpen' /\ LockedHasLock' /\ OwnHasLock' /\ SharedIsInherited'
      BY <2>1, <2>4 DEF TypeOK, Steps, AcquiringIsOpen, LockedHasLock, OwnHasLock,
                        SharedIsInherited, Acquiring, Own
    <2>6. BindingIsOwn'
      BY <2>1, <2>2, <2>3, <2>4 DEF TypeOK, BindingIsOwn, Committed, Held
    <2> QED BY <2>5, <2>6
  <1>3. CASE BindReturn(p)
    BY <1>3 DEF BindReturn, TypeOK, Steps, AcquiringIsOpen, LockedHasLock, OwnHasLock,
                SharedIsInherited, BindingIsOwn, Acquiring, Committed, Own
  <1> QED BY <1>1, <1>2, <1>3

\* The steps of bind_journal_path that change the lock file keep the invariant: no other
\* own object is of the same file.
LEMMA BindWriteKeeps ==
    ASSUME OInv, NEW p \in Procs, BindTruncate(p) \/ BindWrite(p)
    PROVE  OInv'
  <1> USE NoneAssumption DEF OInv
  <1>1. Own(p) /\ owner[p].inode \in Inodes /\ target[p] \in Paths
    BY DEF BindTruncate, BindWrite, BindingIsOwn, Committed, Own, TypeOK, OwnerObjects
  <1>2. \E new \in Paths \cup {Empty, Torn} :
            \/ content' = [content EXCEPT ![owner[p].inode] = new]
            \/ content' = content
    BY <1>1 DEF BindTruncate, BindWrite
  <1>3. /\ pc' = [pc EXCEPT ![p] = pc'[p]] /\ pc'[p] \in {"idle", "truncated", "written"}
        /\ pc[p] \in {"binding", "truncated"}
        /\ pc'[p] = "truncated" => content'[owner[p].inode] = Empty
        /\ UNCHANGED <<made, linked, durable, lock, fd, inode, target, owner, losses>>
    BY <1>1 DEF BindTruncate, BindWrite, TypeOK
  <1>4. TypeOK'
    BY <1>1, <1>2, <1>3 DEF TypeOK, Steps
  <1>5. AcquiringIsOpen' /\ LockedHasLock' /\ OwnHasLock' /\ SharedIsInherited'
    BY <1>3 DEF TypeOK, AcquiringIsOpen, LockedHasLock, OwnHasLock, SharedIsInherited,
                Acquiring, Own
  <1>6. \A q \in Procs \ {p} : Own(q) => content'[owner[q].inode] = content[owner[q].inode]
    <2>1. ASSUME NEW q \in Procs \ {p}, Own(q) 
          PROVE  owner[q].inode \in Inodes /\ owner[q].inode # owner[p].inode
      <3>1. owner[q].inode \in Inodes
        BY <2>1 DEF TypeOK, OwnerObjects, Own
      <3> QED BY <1>1, <2>1, <3>1, OneOwnPerFile
    <2> QED BY <1>2, <2>1 DEF TypeOK
  <1>7. BindingIsOwn'
    BY <1>1, <1>3, <1>6 DEF BindingIsOwn, Committed, Own, TypeOK
  <1> QED BY <1>4, <1>5, <1>7

\* fsync and what the object remembers after it keep the invariant.
LEMMA BindSyncKeeps == ASSUME OInv, NEW p \in Procs, BindSync(p) PROVE OInv'
  <1> USE NoneAssumption, ObjectAssumption DEF OInv
  <1>1. Own(p) /\ owner[p] \in OwnerObjects /\ target[p] \in Paths
    BY DEF BindSync, BindingIsOwn, Committed, Own, TypeOK
  <1>2. \/ owner' = owner
        \/ owner' = [owner EXCEPT ![p].journal = target[p]]
    BY DEF BindSync
  <1>3. /\ owner' \in [Procs -> OwnerObjects \cup {None}]
        /\ \A q \in Procs \ {p} : owner'[q] = owner[q]
        /\ owner'[p] # None /\ owner'[p].pid = p /\ owner'[p].inode = owner[p].inode
    BY <1>1, <1>2 DEF TypeOK, OwnerObjects, Own
  <1>4. /\ pc' = [pc EXCEPT ![p] = pc'[p]] /\ pc'[p] \in {"idle", "bound"} /\ pc[p] = "written"
        /\ \/ durable' = durable
           \/ durable' = [durable EXCEPT ![owner[p].inode] = content[owner[p].inode]]
        /\ UNCHANGED <<made, linked, content, lock, fd, inode, target, losses>>
    BY DEF BindSync, TypeOK
  <1>5. TypeOK'
    BY <1>1, <1>3, <1>4 DEF TypeOK, Steps, OwnerObjects
  <1>6. AcquiringIsOpen' /\ LockedHasLock'
    BY <1>3, <1>4 DEF TypeOK, AcquiringIsOpen, LockedHasLock, Acquiring
  <1>7. OwnHasLock' /\ SharedIsInherited'
    BY <1>1, <1>3, <1>4 DEF OwnHasLock, SharedIsInherited, Own
  <1>8. BindingIsOwn'
    BY <1>1, <1>3, <1>4 DEF BindingIsOwn, Committed, TypeOK
  <1> QED BY <1>5, <1>6, <1>7, <1>8

\* A forked child has a copy of the object that names its parent, so it owns nothing.
LEMMA ForkKeeps == ASSUME OInv, NEW p \in Procs, NEW q \in Procs, Fork(p, q) PROVE OInv'
  <1> USE NoneAssumption DEF OInv
  <1>1. p # q /\ Own(p) /\ pc[q] = "idle"
    BY DEF Fork, Own
  <1>2. TypeOK'
    BY DEF Fork, TypeOK
  <1>3. /\ \A r \in Procs \ {q} : fd'[r] = fd[r] /\ owner'[r] = owner[r]
        /\ fd'[q] = fd[p] /\ owner'[q] = owner[p]
        /\ UNCHANGED <<pc, lock, inode, content, target>>
    BY DEF Fork, TypeOK
  <1>4. AcquiringIsOpen' /\ LockedHasLock'
    BY <1>1, <1>3 DEF AcquiringIsOpen, LockedHasLock, Acquiring
  <1>5. OwnHasLock'
    BY <1>1, <1>3 DEF OwnHasLock, Own
  <1>6. SharedIsInherited'
    BY <1>1, <1>3 DEF SharedIsInherited, Own
  <1>7. BindingIsOwn'
    BY <1>1, <1>3 DEF BindingIsOwn, Committed
  <1> QED BY <1>2, <1>4, <1>5, <1>6, <1>7

\* Crashes, losses of power and deletions of the lock file keep the invariant.
LEMMA DisturbanceKeeps ==
    ASSUME OInv, (\E p \in Procs : Crash(p)) \/ PowerLoss \/ Unlink
    PROVE  OInv'
  <1>1. ASSUME NEW p \in Procs, Crash(p) PROVE OInv'
    <2>1. owner'[p] = None
      BY <1>1 DEF Crash, OInv, TypeOK
    <2> QED BY <1>1, <2>1, DroppingKeeps DEF Crash, CloseDescriptor
  <1>2. CASE PowerLoss
    BY <1>2, BoundsAssumption
    DEF PowerLoss, OInv, TypeOK, Steps, AcquiringIsOpen, LockedHasLock, OwnHasLock,
        SharedIsInherited, BindingIsOwn, Acquiring, Committed, Own
  <1>3. CASE Unlink
    BY <1>3
    DEF Unlink, OInv, TypeOK, AcquiringIsOpen, LockedHasLock, OwnHasLock,
        SharedIsInherited, BindingIsOwn, Acquiring, Committed, Own
  <1> QED BY <1>1, <1>2, <1>3

\* Every step keeps the invariant.
LEMMA NextKeeps == ASSUME ~ChildCloses, OInv, [Next]_ownVars PROVE OInv'
  <1>1. CASE \E p \in Procs : Acquire(p)
    BY <1>1, OpenKeeps, CheckKeeps, LockKeeps, ReadBindingKeeps DEF Acquire
  <1>2. CASE \E p \in Procs : Close(p)
    BY <1>2, CloseKeeps
  <1>3. CASE \E p \in Procs : Bind(p) \/ BindReturn(p) \/ \E path \in Paths : RequestBind(p, path)
    BY <1>3, BindStepKeeps, BindWriteKeeps, BindSyncKeeps DEF Bind
  <1>4. CASE Environment
    BY <1>4, ForkKeeps, DisturbanceKeeps DEF Environment
  <1>5. CASE UNCHANGED ownVars
    BY <1>5
    DEF ownVars, OInv, TypeOK, Steps, AcquiringIsOpen, LockedHasLock, OwnHasLock,
        SharedIsInherited, BindingIsOwn, Acquiring, Committed, Own, OwnerObjects, Inodes
  <1> QED BY <1>1, <1>2, <1>3, <1>4, <1>5 DEF Next

\* The invariant holds in every reachable state.
LEMMA Inductive == ASSUME ~ChildCloses PROVE Spec => []OInv
  BY Initially, NextKeeps, PTL DEF Spec

-----------------------------------------------------------------------------
\* Types, and with them that no object remembers a path that is not well formed. Code:
\* _read_journal_path raises on every other content.
THEOREM OwnershipTypeOK == ASSUME ~ChildCloses PROVE Spec => []TypeOK
  <1>1. OInv => TypeOK
    BY DEF OInv
  <1> QED BY <1>1, Inductive, PTL

\* An AccountOwner that is not closed has its lock all its life, whatever other
\* processes do, crash and fork. Code: acquire and close; the class's own sentence.
THEOREM LockIsRetained == ASSUME ~ChildCloses PROVE Spec => []LockRetained
  <1>1. OInv => LockRetained
    BY DEF OInv, OwnHasLock, LockRetained, Own
  <1> QED BY <1>1, Inductive, PTL

\* Any number of processes may try: assert_held passes in one of them at most, also
\* after deletions of the lock file, since only the file at the lock path counts.
THEOREM OnlyOneValidOwner == ASSUME ~ChildCloses PROVE Spec => []OneValidOwner
  <1>1. ASSUME OInv, NEW p \in Procs, NEW q \in Procs, Held(p), Held(q) PROVE p = q
    BY <1>1, OneOwnPerFile DEF Held, Own
  <1>2. OInv => OneValidOwner
    BY <1>1 DEF OneValidOwner
  <1> QED BY <1>2, Inductive, PTL

\* A synced binding stays while its file exists: bind_journal_path truncates and writes
\* only a file of which its object, the only one, has found no binding.
THEOREM BindingIsStable == ASSUME ~ChildCloses PROVE Spec => BindingStable
  <1>1. ASSUME OInv, [Next]_ownVars, NEW i \in Inodes,
               content[i] \in Paths, durable[i] = content[i]
        PROVE  content'[i] = content[i]
    <2> USE <1>1, NoneAssumption
    <2>1. ASSUME NEW p \in Procs, BindTruncate(p) \/ BindWrite(p) PROVE content'[i] = content[i]
      <3>1. owner[p].inode # i
        BY <2>1 DEF OInv, BindingIsOwn, BindTruncate, BindWrite
      <3> QED BY <2>1, <3>1 DEF OInv, TypeOK, BindTruncate, BindWrite
    <2>2. CASE PowerLoss
      BY <2>2 DEF PowerLoss, Surviving
    <2>3. CASE content' = content
      BY <2>3
    <2>4. \/ \E p \in Procs : BindTruncate(p) \/ BindWrite(p)
          \/ PowerLoss
          \/ content' = content
      BY DEF Next, ownVars, Acquire, Bind, Environment, Open, Check, Lock, ReadBinding, Close,
             BindCheck, BindSync, BindReturn, RequestBind, Fork, Crash, Unlink
    <2> QED BY <2>1, <2>2, <2>3, <2>4
  <1>2. OInv /\ [Next]_ownVars =>
            [\A i \in Inodes : content[i] \in Paths /\ durable[i] = content[i]
                                   => content'[i] = content[i]]_ownVars
    BY <1>1
  <1> QED BY <1>2, Inductive, PTL DEF Spec, BindingStable

-----------------------------------------------------------------------------
\* The journal files: ExecutionJournal.
Creating == {"creating", "created"}

\* Past the commit of the identity, or the check of it in reopen.
Binding == Committed \cup {"bindable"}

JournalTypes ==
    /\ files \in [Paths -> Scopes \cup {Absent, Bare}]
    /\ wanted \in [Procs -> Scopes \cup {None}]
    /\ returned \subseteq Journals

\* create keeps its owner, and a process that has created a file is the only one to
\* fill it.
CreatorIsAlone ==
    \A p \in Procs :
        /\ pc[p] \in Creating =>
              owner[p] # None /\ target[p] \in Paths /\ wanted[p] \in Scopes
        /\ pc[p] = "created" =>
              /\ files[target[p]] = Bare
              /\ \A q \in Procs : pc[q] = "created" /\ target[q] = target[p] => p = q

\* What is being bound is committed.
BoundIsCommitted ==
    \A p \in Procs : pc[p] \in Binding => wanted[p] \in Scopes /\ files[target[p]] = wanted[p]

FInv == OInv /\ JournalTypes /\ CreatorIsAlone /\ BoundIsCommitted

-----------------------------------------------------------------------------
\* The steps of create and reopen before the binding.
JournalStep(p) ==
    \/ \E path \in Paths, scope \in Scopes : Create(p, path, scope) \/ Reopen(p, path, scope)
    \/ CreateFile(p) \/ CommitSchema(p)

\* create and reopen keep the invariant of the owner.
LEMMA JournalStepKeepsOwner ==
    ASSUME OInv, CreatorIsAlone, NEW p \in Procs, JournalStep(p) PROVE OInv'
  <1> USE NoneAssumption DEF OInv
  <1>1. /\ pc' = [pc EXCEPT ![p] = pc'[p]]
        /\ pc'[p] \in {"idle", "creating", "created", "bindable"}
        /\ pc[p] \in {"idle", "creating", "created"}
        /\ pc'[p] = "bindable" => owner[p] # None /\ target'[p] \in Paths
        /\ target' \in [Procs -> Paths \cup {None}]
        /\ \A q \in Procs \ {p} : target'[q] = target[q]
        /\ UNCHANGED <<made, linked, content, durable, lock, fd, inode, owner, losses>>
    BY DEF JournalStep, Create, Reopen, CreateFile, CommitSchema, Goto, Held, TypeOK,
           CreatorIsAlone, Creating
  <1>2. TypeOK'
    BY <1>1 DEF TypeOK, Steps
  <1>3. AcquiringIsOpen' /\ LockedHasLock' /\ OwnHasLock' /\ SharedIsInherited'
    BY <1>1 DEF TypeOK, AcquiringIsOpen, LockedHasLock, OwnHasLock, SharedIsInherited,
                Acquiring, Own
  <1>4. BindingIsOwn'
    BY <1>1 DEF TypeOK, BindingIsOwn, Committed
  <1> QED BY <1>2, <1>3, <1>4

\* create, up to the commit of the identity, and reopen keep the files' invariant: a
\* file is made by one creation only, which fills it.
LEMMA JournalStepKeeps == ASSUME FInv, NEW p \in Procs, JournalStep(p) PROVE FInv'
  <1> USE FilesAssumption DEF FInv
  <1>1. OInv'
    BY JournalStepKeepsOwner
  <1>2. TypeOK
    BY DEF OInv
  <1>3. ASSUME NEW path \in Paths, NEW scope \in Scopes, Create(p, path, scope)
        PROVE  JournalTypes' /\ CreatorIsAlone' /\ BoundIsCommitted'
    BY <1>2, <1>3 DEF Create, Goto, Held, TypeOK, JournalTypes, CreatorIsAlone, BoundIsCommitted,
                      Creating, Binding, Committed
  <1>4. ASSUME NEW path \in Paths, NEW scope \in Scopes, Reopen(p, path, scope)
        PROVE  JournalTypes' /\ CreatorIsAlone' /\ BoundIsCommitted'
    BY <1>2, <1>4 DEF Reopen, Goto, Held, TypeOK, JournalTypes, CreatorIsAlone, BoundIsCommitted,
                      Creating, Binding, Committed
  <1>5. CASE CreateFile(p)
    <2> USE <1>2, <1>5
    <2>1. /\ target[p] \in Paths /\ pc[p] = "creating"
          /\ UNCHANGED <<target, wanted, owner, returned>>
          /\ \A q \in Procs \ {p} : pc'[q] = pc[q]
          /\ pc'[p] \in {"created", "idle"}
      BY DEF CreateFile, Goto, TypeOK, CreatorIsAlone, Creating
    <2>2. CASE files[target[p]] = Absent
      <3>1. files' = [files EXCEPT ![target[p]] = Bare]
        BY <2>2 DEF CreateFile
      <3>2. \A q \in Procs \ {p} : pc[q] \in {"created"} \cup Binding => target[q] # target[p]
        BY <2>2 DEF CreatorIsAlone, BoundIsCommitted
      <3>3. JournalTypes'
        BY <2>1, <3>1 DEF JournalTypes
      <3>4. CreatorIsAlone'
        BY <2>1, <3>1, <3>2 DEF CreatorIsAlone, JournalTypes, Creating
      <3>5. BoundIsCommitted'
        BY <2>1, <3>1, <3>2 DEF BoundIsCommitted, JournalTypes, Binding, Committed
      <3> QED BY <1>1, <3>3, <3>4, <3>5
    <2>3. CASE files[target[p]] # Absent
      <3>1. pc'[p] = "idle" /\ files' = files
        BY <2>3 DEF CreateFile, Goto, TypeOK
      <3> QED BY <1>1, <2>1, <3>1 DEF JournalTypes, CreatorIsAlone, BoundIsCommitted,
                                      Creating, Binding, Committed
    <2> QED BY <2>2, <2>3
  <1>6. CASE CommitSchema(p)
    <2> USE <1>2, <1>6
    <2>1. /\ target[p] \in Paths /\ wanted[p] \in Scopes /\ pc[p] = "created"
          /\ UNCHANGED <<target, wanted, owner, returned>>
          /\ \A q \in Procs \ {p} : pc'[q] = pc[q]
      BY DEF CommitSchema, Goto, TypeOK, CreatorIsAlone, Creating
    <2>2. CASE pc'[p] = "idle" /\ files' = files
      BY <1>1, <2>1, <2>2 DEF JournalTypes, CreatorIsAlone, BoundIsCommitted,
                              Creating, Binding, Committed
    <2>3. CASE pc'[p] = "bindable" /\ files' = [files EXCEPT ![target[p]] = wanted[p]]
      <3>1. \A q \in Procs \ {p} : pc[q] \in {"created"} \cup Binding => target[q] # target[p]
        BY <2>1 DEF CreatorIsAlone, BoundIsCommitted
      <3>2. JournalTypes'
        BY <2>1, <2>3 DEF JournalTypes
      <3>3. CreatorIsAlone'
        BY <2>1, <2>3, <3>1 DEF CreatorIsAlone, JournalTypes, Creating
      <3>4. BoundIsCommitted'
        BY <2>1, <2>3, <3>1 DEF BoundIsCommitted, JournalTypes, Binding, Committed
      <3> QED BY <1>1, <3>2, <3>3, <3>4
    <2> QED BY <2>2, <2>3 DEF CommitSchema, Goto, TypeOK
  <1> QED BY <1>1, <1>3, <1>4, <1>5, <1>6 DEF JournalStep

\* Steps that enter neither a creation nor a binding keep the files' invariant.
LEMMA QuietKeeps ==
    ASSUME FInv, OInv', UNCHANGED <<files, wanted, target>>, returned' \subseteq Journals,
           \A q \in Procs : /\ pc'[q] \in Creating => pc'[q] = pc[q] /\ owner'[q] = owner[q]
                            /\ pc'[q] \in Binding => pc[q] \in Binding
    PROVE  FInv'
  BY DEF FInv, JournalTypes, CreatorIsAlone, BoundIsCommitted, Creating

\* acquire, close and bind_journal_path keep it.
LEMMA OwnerStepKeeps == ASSUME ~ChildCloses, FInv, OwnerStep PROVE FInv'
  <1> PICK p \in Procs : Acquire(p) \/ Close(p) \/ Bind(p)
    BY DEF OwnerStep
  <1> USE DEF FInv
  <1>1. OInv'
    BY OpenKeeps, CheckKeeps, LockKeeps, ReadBindingKeeps, CloseKeeps, BindStepKeeps,
       BindWriteKeeps, BindSyncKeeps DEF Acquire, Bind
  <1>2. TypeOK
    BY DEF OInv
  <1>3. /\ \A q \in Procs \ {p} : pc'[q] = pc[q] /\ owner'[q] = owner[q]
        /\ pc'[p] \notin Creating
        /\ pc'[p] \in Binding => pc[p] \in Binding
        /\ target' = target
    BY <1>2 DEF TypeOK, Acquire, Open, Check, Lock, ReadBinding, CloseDescriptor, Close, Bind,
                BindCheck, BindTruncate, BindWrite, BindSync, Creating, Binding, Committed
  <1>4. UNCHANGED <<files, wanted, returned>>
    BY DEF OwnerStep, journalVars
  <1>5. returned' \subseteq Journals
    BY <1>4 DEF JournalTypes
  <1>6. \A q \in Procs : /\ pc'[q] \in Creating => pc'[q] = pc[q] /\ owner'[q] = owner[q]
                         /\ pc'[q] \in Binding => pc[q] \in Binding
    BY <1>3
  <1> QED BY <1>1, <1>3, <1>4, <1>5, <1>6, QuietKeeps

\* bind_journal_path returns, and with it create or reopen.
LEMMA OpenedKeeps == ASSUME FInv, NEW p \in Procs, Opened(p) PROVE FInv'
  <1> USE DEF FInv
  <1>1. OInv'
    BY BindStepKeeps DEF Opened
  <1>2. /\ UNCHANGED <<files, wanted, target, owner>>
        /\ \A q \in Procs \ {p} : pc'[q] = pc[q]
        /\ pc[p] = "bound" /\ pc'[p] = "idle"
    BY DEF OInv, TypeOK, Opened, BindReturn
  <1>3. returned' \subseteq Journals
    BY <1>2 DEF Opened, JournalTypes, Journals, BoundIsCommitted, Binding, Committed, OInv,
                BindingIsOwn
  <1> QED BY <1>1, <1>2, <1>3, QuietKeeps DEF Creating, Binding, Committed

\* Crashes, losses of power, forks and deletions of the lock file keep it.
LEMMA JournalDisturbanceKeeps ==
    ASSUME FInv,
           \/ \E p \in Procs : JournalCrash(p)
           \/ \E p, q \in Procs : JournalFork(p, q)
           \/ JournalPowerLoss
           \/ JournalUnlink
    PROVE  FInv'
  <1> USE DEF FInv
  <1>1. OInv'
    BY DisturbanceKeeps, ForkKeeps
    DEF JournalCrash, JournalFork, JournalPowerLoss, JournalUnlink
  <1>2. TypeOK
    BY DEF OInv
  <1>3. CASE JournalPowerLoss
    BY <1>1, <1>2, <1>3, FilesAssumption
    DEF JournalPowerLoss, PowerLoss, JournalTypes, CreatorIsAlone, BoundIsCommitted,
        Creating, Binding, Committed
  <1>4. CASE JournalUnlink
    BY <1>1, <1>4, QuietKeeps DEF JournalUnlink, Unlink, journalVars, JournalTypes
  <1>5. ASSUME NEW p \in Procs, JournalCrash(p) PROVE FInv'
    BY <1>1, <1>2, <1>5, QuietKeeps
    DEF JournalCrash, Crash, TypeOK, JournalTypes, Creating, Binding, Committed
  <1>6. ASSUME NEW p \in Procs, NEW q \in Procs, JournalFork(p, q) PROVE FInv'
    BY <1>1, <1>2, <1>6, QuietKeeps
    DEF JournalFork, Fork, TypeOK, JournalTypes, Creating, Binding, Committed
  <1> QED BY <1>3, <1>4, <1>5, <1>6

\* The initial state satisfies the files' invariant.
LEMMA JournalInitially == JournalInit => FInv
  BY Initially DEF JournalInit, Init, FInv, JournalTypes, CreatorIsAlone, BoundIsCommitted,
                   Creating, Binding, Committed, Journals

\* Every step keeps it.
LEMMA JournalNextKeeps == ASSUME ~ChildCloses, FInv, [JournalNext]_vars PROVE FInv'
  <1>1. CASE \E p \in Procs : CloseJournal(p)
    BY <1>1 DEF CloseJournal, ownVars, FInv, OInv, TypeOK, Steps, AcquiringIsOpen,
                LockedHasLock, OwnHasLock, SharedIsInherited, BindingIsOwn, Acquiring,
                Committed, Own, OwnerObjects, Inodes, JournalTypes, CreatorIsAlone,
                BoundIsCommitted, Creating, Binding, Journals
  <1>2. CASE UNCHANGED vars
    BY <1>2 DEF vars, journalVars, ownVars, FInv, OInv, TypeOK, Steps, AcquiringIsOpen,
                LockedHasLock, OwnHasLock, SharedIsInherited, BindingIsOwn, Acquiring,
                Committed, Own, OwnerObjects, Inodes, JournalTypes, CreatorIsAlone,
                BoundIsCommitted, Creating, Binding, Journals
  <1>3. CASE \E p \in Procs : JournalStep(p)
    BY <1>3, JournalStepKeeps
  <1>4. CASE OwnerStep
    BY <1>4, OwnerStepKeeps
  <1>5. CASE \E p \in Procs : Opened(p)
    BY <1>5, OpenedKeeps
  <1> QED BY <1>1, <1>2, <1>3, <1>4, <1>5, JournalDisturbanceKeeps DEF JournalNext, JournalStep

\* The files' invariant holds in every reachable state.
LEMMA JournalInductive == ASSUME ~ChildCloses PROVE JournalSpec => []FInv
  BY JournalInitially, JournalNextKeeps, PTL DEF JournalSpec

-----------------------------------------------------------------------------
\* A committed identity is on disk for good: a creation writes only the file that it
\* made itself, and what a crash or a loss of power takes away is bare.
LEMMA CommittedStays ==
    ASSUME FInv, [JournalNext]_vars, NEW path \in Paths, files[path] \in Scopes
    PROVE  files'[path] = files[path]
  <1> USE FilesAssumption DEF FInv
  <1>1. ASSUME NEW p \in Procs, CreateFile(p) PROVE files'[path] = files[path]
    BY <1>1 DEF CreateFile, JournalTypes
  <1>2. ASSUME NEW p \in Procs, CommitSchema(p) PROVE files'[path] = files[path]
    BY <1>2 DEF CommitSchema, JournalTypes, CreatorIsAlone
  <1>3. CASE JournalPowerLoss
    BY <1>3 DEF JournalPowerLoss
  <1>4. \/ \E p \in Procs : CreateFile(p) \/ CommitSchema(p)
        \/ JournalPowerLoss
        \/ files' = files
    BY DEF JournalNext, OwnerStep, Create, Reopen, Opened, CloseJournal, JournalCrash,
           JournalFork, JournalUnlink, journalVars, vars
  <1> QED BY <1>1, <1>2, <1>3, <1>4

\* Code: O_CREAT | O_EXCL in create, the one transaction, and reopen, which only reads.
THEOREM IdentitiesAreImmutable == ASSUME ~ChildCloses PROVE JournalSpec => IdentityImmutable
  <1>1. FInv /\ [JournalNext]_vars =>
            [\A path \in Paths : files[path] \in Scopes => files'[path] = files[path]]_vars
    BY CommittedStays
  <1> QED BY <1>1, JournalInductive, PTL DEF JournalSpec, IdentityImmutable

\* The account has one owner also while its journals are created, reopened and closed.
THEOREM JournalsHaveOneOwner == ASSUME ~ChildCloses PROVE JournalSpec => []OneValidOwner
  <1>1. ASSUME FInv, NEW p \in Procs, NEW q \in Procs, Held(p), Held(q) PROVE p = q
    BY <1>1, OneOwnPerFile DEF FInv, Held, Own
  <1>2. FInv => OneValidOwner
    BY <1>1 DEF OneValidOwner
  <1> QED BY <1>2, JournalInductive, PTL

-----------------------------------------------------------------------------
\* The binding of an account that was let alone. Between the write of a binding and its
\* sync nothing has been returned yet; one that is bound again was returned at its path.
UInv ==
    Undisturbed =>
        /\ \A i \in Inodes : i > made => content[i] = Empty
        /\ \A p \in Procs : pc[p] \in {"written", "bound"} =>
              /\ content[owner[p].inode] \in {target[p], Torn}
              /\ \A j \in returned : pc[p] = "bound" /\ j.path = target[p]
        /\ \A j \in returned :
              linked # 0 /\ files[j.path] = j.scope /\ content[linked] \in {j.path, Torn}
        /\ OneJournal

\* There is one lock file only, and one process with an object of its own.
LEMMA SoleOwner ==
    ASSUME OInv, Undisturbed, NEW p \in Procs, Own(p)
    PROVE  /\ made = 1 /\ linked = 1 /\ 1 \in Inodes /\ owner[p].inode = 1
           /\ \A q \in Procs : Own(q) => p = q
  <1>1. ASSUME NEW q \in Procs, Own(q) PROVE made = 1 /\ 1 \in Inodes /\ owner[q].inode = 1
    <2>1. fd[q] \in Descriptions /\ inode[fd[q]] = owner[q].inode /\ owner[q].inode \in Inodes
      BY <1>1 DEF OInv, TypeOK, OwnHasLock, Own, OwnerObjects
    <2>2. owner[q].inode \in 0 .. made /\ made \in Nat /\ made <= 1
      BY <2>1, BoundsAssumption DEF OInv, TypeOK, Undisturbed
    <2> QED BY <2>1, <2>2, BoundsAssumption DEF Inodes
  <1>2. \A q \in Procs : Own(q) => p = q
    BY <1>1, OneOwnPerFile
  <1> QED BY <1>1, <1>2 DEF Undisturbed

\* An account that was disturbed stays so.
LEMMA DisturbedForGood ==
    ASSUME FInv, [JournalNext]_vars, Undisturbed'
    PROVE  Undisturbed /\ (linked' = linked \/ linked = 0)
  <1> USE BoundsAssumption DEF FInv, OInv
  <1>a. linked \in 0 .. made /\ made \in Nat /\ losses \in Nat
    BY DEF TypeOK
  <1>1. CASE \E p \in Procs : Open(p)
    BY <1>a, <1>1 DEF Open, Undisturbed
  <1>2. CASE JournalPowerLoss
    BY <1>a, <1>2 DEF JournalPowerLoss, PowerLoss, Undisturbed
  <1>3. CASE JournalUnlink
    <2>1. linked # 0 /\ linked' = 0 /\ made' = made
      BY <1>3 DEF JournalUnlink, Unlink
    <2>2. linked' = made'
      BY DEF Undisturbed
    <2> QED BY <1>a, <2>1, <2>2
  <1>4. CASE UNCHANGED <<made, linked, losses>>
    BY <1>4 DEF Undisturbed
  <1>5. \/ \E p \in Procs : Open(p)
        \/ JournalPowerLoss \/ JournalUnlink
        \/ UNCHANGED <<made, linked, losses>>
    BY DEF JournalNext, vars, ownVars, OwnerStep, Acquire, Check, Lock, ReadBinding, Close, Bind,
           BindCheck, BindTruncate, BindWrite, BindSync, Opened, BindReturn, Create, Reopen,
           CreateFile, CommitSchema, Goto, CloseJournal, JournalCrash, Crash, JournalFork, Fork
  <1> QED BY <1>1, <1>2, <1>3, <1>4, <1>5

\* Steps that neither write the lock file nor return a journal keep the binding's
\* invariant.
LEMMA UndisturbedKeeps ==
    ASSUME FInv, FInv', UInv, [JournalNext]_vars, UNCHANGED <<content, returned>>, made <= made',
           \A q \in Procs : pc'[q] \in {"written", "bound"} =>
              pc'[q] = pc[q] /\ owner'[q] = owner[q] /\ target'[q] = target[q]
    PROVE  UInv'
  <1> SUFFICES ASSUME Undisturbed' PROVE UInv'
    BY DEF UInv
  <1> USE DisturbedForGood DEF UInv
  <1>1. \A i \in Inodes : i > made' => content'[i] = Empty
    <2>1. made \in Nat /\ made' \in Nat /\ Inodes \subseteq Nat
      BY BoundsAssumption DEF FInv, OInv, TypeOK, Inodes
    <2>2. \A i \in Inodes : i > made => content[i] = Empty
      OBVIOUS
    <2>3. \A i \in Inodes : i > made' => i > made
      BY <2>1
    <2> QED BY <2>2, <2>3
  <1>2. \A p \in Procs : pc'[p] \in {"written", "bound"} =>
              /\ content'[owner'[p].inode] \in {target'[p], Torn}
              /\ \A j \in returned' : pc'[p] = "bound" /\ j.path = target'[p]
    OBVIOUS
  <1>3. \A j \in returned' :
              linked' # 0 /\ files'[j.path] = j.scope /\ content'[linked'] \in {j.path, Torn}
    BY CommittedStays DEF FInv, JournalTypes, Journals
  <1>4. OneJournal'
    BY DEF OneJournal
  <1> QED BY <1>1, <1>2, <1>3, <1>4

\* bind_journal_path, once its check has passed, works on the one lock file.
LEMMA BinderIsOwner ==
    ASSUME FInv, Undisturbed, NEW p \in Procs, pc[p] \in Committed \/ Held(p)
    PROVE  /\ Own(p) /\ owner[p].inode = 1 /\ linked = 1 /\ made = 1 /\ 1 \in Inodes
           /\ \A q \in Procs : pc[q] \in Committed => q = p
  <1>1. \A q \in Procs : pc[q] \in Committed => Own(q)
    BY DEF FInv, OInv, BindingIsOwn, Own
  <1>2. Own(p)
    BY <1>1 DEF Held, Own
  <1> QED BY <1>1, <1>2, SoleOwner DEF FInv

\* The check of bind_journal_path: an object bound already has what was returned.
LEMMA BindCheckKeepsBinding ==
    ASSUME FInv, FInv', UInv, [JournalNext]_vars, NEW p \in Procs, BindCheck(p),
           UNCHANGED journalVars
    PROVE  UInv'
  <1>1. /\ \A q \in Procs \ {p} : pc'[q] = pc[q]
        /\ UNCHANGED <<made, content, linked, owner, target, files, returned>>
        /\ made <= made'
        /\ pc[p] = "bindable" /\ pc'[p] # "written"
        /\ pc'[p] = "bound" => Held(p) /\ owner[p].journal = target[p]
    BY BoundsAssumption DEF FInv, OInv, TypeOK, BindCheck, journalVars
  <1>2. CASE pc'[p] # "bound"
    BY <1>1, <1>2, UndisturbedKeeps
  <1>3. CASE pc'[p] = "bound"
    <2> SUFFICES ASSUME Undisturbed' PROVE UInv'
      BY DEF UInv
    <2>1. Undisturbed
      BY DisturbedForGood
    <2>2. content[owner[p].inode] = target[p] /\ owner[p].inode = linked
      BY <1>1, <1>3 DEF Held
    <2>3. \A q \in Procs \ {p} : pc[q] \notin {"written", "bound"}
      BY <1>1, <1>3, <2>1, BinderIsOwner DEF Committed
    <2>4. target[p] # Torn
      BY <1>1, NoneAssumption DEF FInv, OInv, BindingIsOwn
    <2> QED BY <1>1, <1>3, <2>1, <2>2, <2>3, <2>4 DEF UInv, OneJournal
  <1> QED BY <1>2, <1>3

\* The write of a binding falls on a lock file without one, of an account of which no
\* journal was returned yet; whatever part of it gets there, the sync is what follows.
LEMMA BindWriteKeepsBinding ==
    ASSUME FInv, FInv', UInv, [JournalNext]_vars, NEW p \in Procs,
           BindTruncate(p) \/ BindWrite(p) \/ BindSync(p), UNCHANGED journalVars
    PROVE  UInv'
  <1> SUFFICES ASSUME Undisturbed' PROVE UInv'
    BY DEF UInv
  <1> USE NoneAssumption
  <1>1. Undisturbed
    BY DisturbedForGood
  <1>2. pc[p] \in {"binding", "truncated", "written"}
    BY DEF BindTruncate, BindWrite, BindSync
  <1>3. /\ Own(p) /\ owner[p].inode = 1 /\ linked = 1 /\ made = 1 /\ 1 \in Inodes
        /\ \A q \in Procs \ {p} : pc[q] \notin Committed
    BY <1>1, <1>2, BinderIsOwner DEF Committed
  <1>4. /\ \A q \in Procs \ {p} : pc'[q] = pc[q] /\ owner'[q] = owner[q]
        /\ owner'[p].inode = 1 /\ UNCHANGED <<made, linked, target, files, returned>>
        /\ \A i \in Inodes \ {1} : content'[i] = content[i]
    BY <1>3 DEF FInv, OInv, TypeOK, BindTruncate, BindWrite, BindSync, Own, OwnerObjects, journalVars
  <1>5. returned = {}
    <2>1. CASE pc[p] = "written"
      BY <1>1, <2>1 DEF UInv
    <2>2. CASE pc[p] \in {"binding", "truncated"}
      BY <1>1, <1>3, <2>2 DEF UInv, FInv, OInv, BindingIsOwn, JournalTypes, Journals
    <2> QED BY <1>2, <2>1, <2>2
  <1>6. pc'[p] \in {"written", "bound"} => content'[1] \in {target[p], Torn}
    BY <1>1, <1>3 DEF UInv, FInv, OInv, TypeOK, BindTruncate, BindWrite, BindSync
  <1>7. \A i \in Inodes : i > made' => content'[i] = Empty
    BY <1>1, <1>3, <1>4 DEF UInv
  <1> QED BY <1>3, <1>4, <1>5, <1>6, <1>7 DEF UInv, OneJournal, Committed

\* create or reopen returns: earlier journals were of the same path, hence of the one
\* identity committed there.
LEMMA OpenedKeepsBinding ==
    ASSUME FInv, FInv', UInv, [JournalNext]_vars, NEW p \in Procs, Opened(p) PROVE UInv'
  <1> SUFFICES ASSUME Undisturbed' PROVE UInv'
    BY DEF UInv
  <1>1. Undisturbed
    BY DisturbedForGood
  <1>2. pc[p] = "bound" /\ pc[p] \in Committed
    BY DEF Opened, BindReturn, Committed
  <1>3. /\ owner[p].inode = 1 /\ linked = 1
        /\ \A q \in Procs \ {p} : pc[q] \notin Committed
    BY <1>1, <1>2, BinderIsOwner
  <1>4. /\ \A q \in Procs \ {p} : pc'[q] = pc[q]
        /\ pc'[p] = "idle"
        /\ UNCHANGED <<made, linked, content, files>>
        /\ returned' = returned \cup {[path |-> target[p], scope |-> wanted[p]]}
    BY DEF FInv, OInv, TypeOK, Opened, BindReturn
  <1>5. files[target[p]] = wanted[p] /\ content[1] \in {target[p], Torn}
    BY <1>1, <1>2, <1>3 DEF UInv, FInv, BoundIsCommitted, Binding
  <1>6. \A j \in returned : j = [path |-> target[p], scope |-> wanted[p]]
    BY <1>1, <1>2, <1>5 DEF UInv, FInv, JournalTypes, Journals
  <1> QED BY <1>1, <1>3, <1>4, <1>5, <1>6 DEF UInv, OneJournal, Committed

\* Every step keeps the binding's invariant.
LEMMA BindingKeeps == ASSUME ~ChildCloses, FInv, UInv, [JournalNext]_vars PROVE UInv'
  <1>1. FInv'
    BY JournalNextKeeps
  <1>a. TypeOK /\ made \in Nat
    BY BoundsAssumption DEF FInv, OInv, TypeOK
  <1>2. ASSUME NEW p \in Procs, Acquire(p) \/ Close(p), UNCHANGED journalVars PROVE UInv'
    <2>1. /\ \A q \in Procs \ {p} : pc'[q] = pc[q] /\ owner'[q] = owner[q]
          /\ UNCHANGED <<content, returned, target>> /\ pc'[p] \notin {"written", "bound"}
          /\ made' = made \/ made' = made + 1
      BY <1>a, <1>2 DEF TypeOK, Acquire, Open, Check, Lock, ReadBinding, CloseDescriptor, Close,
                        journalVars
    <2> QED BY <1>1, <1>a, <2>1, UndisturbedKeeps
  <1>3. ASSUME NEW p \in Procs, Bind(p), UNCHANGED journalVars PROVE UInv'
    BY <1>1, <1>3, BindCheckKeepsBinding, BindWriteKeepsBinding DEF Bind
  <1>4. ASSUME NEW p \in Procs, JournalStep(p) \/ JournalCrash(p) PROVE UInv'
    <2>1. /\ \A q \in Procs \ {p} : /\ pc'[q] = pc[q] /\ owner'[q] = owner[q]
                                     /\ target'[q] = target[q]
          /\ UNCHANGED <<content, returned, made>> /\ pc'[p] \notin {"written", "bound"}
      BY <1>a, <1>4 DEF TypeOK, JournalStep, Create, Reopen, CreateFile, CommitSchema, Goto,
                        JournalCrash, Crash
    <2> QED BY <1>1, <1>a, <2>1, UndisturbedKeeps
  <1>5. ASSUME NEW p \in Procs, CloseJournal(p) PROVE UInv'
    BY <1>1, <1>a, <1>5, UndisturbedKeeps DEF CloseJournal, ownVars
  <1>6. ASSUME NEW p \in Procs, NEW q \in Procs, JournalFork(p, q) PROVE UInv'
    BY <1>1, <1>a, <1>6, UndisturbedKeeps DEF JournalFork, Fork, TypeOK
  <1>7. CASE JournalPowerLoss \/ JournalUnlink
    <2>1. ~Undisturbed'
      BY <1>7, <1>a, DisturbedForGood
      DEF JournalPowerLoss, PowerLoss, JournalUnlink, Unlink, TypeOK, Undisturbed
    <2> QED BY <2>1 DEF UInv
  <1>8. CASE UNCHANGED vars
    BY <1>1, <1>a, <1>8, UndisturbedKeeps DEF vars, ownVars, journalVars
  <1> QED
    BY <1>1, <1>2, <1>3, <1>4, <1>5, <1>6, <1>7, <1>8, OpenedKeepsBinding
    DEF JournalNext, OwnerStep, JournalStep

\* Code: bind_journal_path, which binds an unbound lock file only, create and reopen,
\* which return only a journal that is committed and bound.
THEOREM OneJournalIsReturned ==
    ASSUME ~ChildCloses PROVE JournalSpec => []OneBoundJournal
  <1>1. JournalInit => UInv
    BY DEF JournalInit, Init, UInv, OneJournal
  <1>2. FInv /\ UInv => OneBoundJournal
    BY NoneAssumption DEF FInv, OInv, TypeOK, OwnerObjects, UInv, OneBoundJournal, Held
  <1> QED BY <1>1, <1>2, BindingKeeps, JournalInductive, PTL DEF JournalSpec

-----------------------------------------------------------------------------
\* The abstract lock's variables, as the refinement maps them.
TheHolder == IF Holders = {} THEN None ELSE CHOOSE p \in Holders : TRUE
TheBinding == IF linked = 0 THEN Empty ELSE content[linked]

\* What the mapped variables have to do for a step of the lock.
LEMMA LockSteps ==
    ASSUME \/ TheHolder' = TheHolder /\ TheBinding' = TheBinding
           \/ /\ TheHolder = None /\ TheBinding # Torn
              /\ TheHolder' \in Procs /\ TheBinding' = TheBinding
           \/ /\ TheHolder # None /\ TheBinding = Empty
              /\ TheHolder' = TheHolder /\ TheBinding' \in Paths \cup {Torn}
           \/ TheHolder # None /\ TheHolder' = None /\ TheBinding' = TheBinding
    PROVE  [Account!Next]_(Account!vars)
  <1>1. CASE TheHolder' = TheHolder /\ TheBinding' = TheBinding
    BY <1>1 DEF TheHolder, TheBinding, Account!vars
  <1>2. CASE /\ TheHolder = None /\ TheBinding # Torn
             /\ TheHolder' \in Procs /\ TheBinding' = TheBinding
    BY <1>2 DEF TheHolder, TheBinding, Account!Next, Account!Take
  <1>3. CASE /\ TheHolder # None /\ TheBinding = Empty
             /\ TheHolder' = TheHolder /\ TheBinding' \in Paths \cup {Torn}
    BY <1>3 DEF TheHolder, TheBinding, Account!Next, Account!Settle
  <1>4. CASE TheHolder # None /\ TheHolder' = None /\ TheBinding' = TheBinding
    BY <1>4 DEF TheHolder, TheBinding, Account!Next, Account!Leave
  <1> QED BY <1>1, <1>2, <1>3, <1>4

\* A step that changes no object is one of the binding at most.
LEMMA HolderStays == ASSUME Holders' = Holders PROVE TheHolder' = TheHolder
  BY DEF TheHolder

\* The one process with an object of its own is the holder.
LEMMA HolderIsOwner ==
    ASSUME OInv, Undisturbed, NEW p \in Procs, Own(p)
    PROVE  TheHolder = p /\ Holders = {p} /\ TheHolder # None
  <1>1. Holders = {p}
    BY SoleOwner DEF Holders, Own
  <1>2. (CHOOSE q \in {p} : TRUE) = p
    OBVIOUS
  <1> QED BY <1>1, <1>2, NoneAssumption DEF TheHolder

\* acquire, once flock was granted, takes the account; before it, nothing has happened,
\* not even when the lock file is made.
LEMMA AcquireIsTake ==
    ASSUME FInv, UInv, Undisturbed, Undisturbed', NEW p \in Procs, Acquire(p)
    PROVE  [Account!Next]_(Account!vars)
  <1> USE NoneAssumption DEF FInv
  <1>1. CASE Open(p)
    <2>1. Holders' = Holders /\ content' = content
      BY <1>1 DEF Open, Holders
    <2>2. linked' = linked \/ (linked = 0 /\ linked' \in Inodes /\ linked' > made)
      <3>1. made \in Nat
        BY BoundsAssumption DEF OInv, TypeOK
      <3> QED BY <1>1, <3>1, BoundsAssumption DEF Open, Inodes
    <2>3. TheBinding' = TheBinding
      <3>1. CASE linked' = linked
        BY <2>1, <3>1 DEF TheBinding
      <3>2. CASE linked = 0 /\ linked' \in Inodes /\ linked' > made
        BY <2>1, <3>2 DEF TheBinding, UInv
      <3> QED BY <2>2, <3>1, <3>2
    <2> QED BY <2>1, <2>3, HolderStays, LockSteps
  <1>2. CASE Check(p) \/ Lock(p) \/ (ReadBinding(p) /\ content[inode[fd[p]]] = Torn)
    <2>1. Holders' = Holders /\ UNCHANGED <<content, linked>>
      BY <1>2 DEF Check, Lock, ReadBinding, Holders
    <2> QED BY <2>1, HolderStays, LockSteps DEF TheBinding
  <1>3. CASE ReadBinding(p) /\ content[inode[fd[p]]] # Torn
    <2> DEFINE i == inode[fd[p]]
    <2>1. /\ owner[p] = None /\ fd[p] # None /\ i \in Inodes /\ lock[i] = fd[p]
          /\ fd[p] \in Descriptions
      BY <1>3 DEF ReadBinding, OInv, TypeOK, AcquiringIsOpen, LockedHasLock, Acquiring
    <2>2. i = linked /\ linked = 1
      <3>1. i \in 0 .. made /\ made \in Nat /\ made <= 1 /\ made = linked
        BY <2>1, BoundsAssumption DEF OInv, TypeOK, Undisturbed
      <3> QED BY <2>1, <3>1, BoundsAssumption DEF Inodes
    <2>3. Holders = {}
      <3> SUFFICES ASSUME NEW q \in Procs, Own(q) PROVE FALSE
        BY DEF Holders, Own
      <3>1. lock[i] = fd[q] /\ fd[q] # None /\ q # p
        BY <2>1, <2>2, SoleOwner DEF OInv, OwnHasLock, Own
      <3> QED BY <2>1, <3>1 DEF OInv, SharedIsInherited, Own
    <2>4. Holders' = {p} /\ UNCHANGED <<content, linked>>
      <3>1. \A q \in Procs \ {p} : owner'[q] = owner[q]
        BY <1>3 DEF ReadBinding, OInv, TypeOK
      <3>2. owner'[p] # None /\ owner'[p].pid = p
        BY <1>3, <2>1, ObjectAssumption DEF ReadBinding, OInv, TypeOK, OwnerObjects
      <3> QED BY <1>3, <2>3, <3>1, <3>2 DEF Holders, ReadBinding
    <2>5. TheHolder = None /\ TheHolder' = p
      <3>1. (CHOOSE q \in {p} : TRUE) = p
        OBVIOUS
      <3> QED BY <2>3, <2>4, <3>1 DEF TheHolder
    <2>6. TheBinding # Torn /\ TheBinding' = TheBinding
      BY <1>3, <2>2, <2>4 DEF TheBinding
    <2> QED BY <2>5, <2>6, LockSteps
  <1> QED BY <1>1, <1>2, <1>3 DEF Acquire

\* Whoever loses its object leaves the account, if it was its owner.
LEMMA DropIsLeave ==
    ASSUME FInv, Undisturbed, NEW p \in Procs, owner' = [owner EXCEPT ![p] = None],
           UNCHANGED <<content, linked>>
    PROVE  [Account!Next]_(Account!vars)
  <1>1. TheBinding' = TheBinding
    BY DEF TheBinding
  <1>2. owner'[p] = None /\ \A q \in Procs \ {p} : owner'[q] = owner[q]
    BY DEF FInv, OInv, TypeOK
  <1>3. CASE Own(p)
    <2>1. TheHolder # None /\ Holders = {p}
      BY <1>3, HolderIsOwner DEF FInv
    <2>2. Holders' = {}
      BY <1>2, <2>1 DEF Holders
    <2> QED BY <1>1, <2>1, <2>2, LockSteps DEF TheHolder
  <1>4. CASE ~Own(p)
    <2>1. Holders' = Holders
      BY <1>2, <1>4 DEF Holders, Own
    <2> QED BY <1>1, <2>1, HolderStays, LockSteps
  <1> QED BY <1>3, <1>4

\* bind_journal_path settles the binding when it writes: with the path, or for good
\* with a part of it.
LEMMA BindIsSettle ==
    ASSUME FInv, UInv, Undisturbed, NEW p \in Procs, Bind(p)
    PROVE  [Account!Next]_(Account!vars)
  <1> USE DEF FInv
  <1>1. Holders' = Holders /\ linked' = linked
    <2>1. \A q \in Procs : (owner'[q] = None) = (owner[q] = None) /\ owner'[q].pid = owner[q].pid
      <3>1. CASE owner' = owner
        BY <3>1
      <3>2. CASE owner' = [owner EXCEPT ![p].journal = target[p]] /\ pc[p] = "written"
        BY <3>2, ObjectAssumption
        DEF OInv, TypeOK, OwnerObjects, BindingIsOwn, Committed
      <3> QED BY <3>1, <3>2 DEF Bind, BindCheck, BindTruncate, BindWrite, BindSync
    <2> QED BY <2>1 DEF Holders, Bind, BindCheck, BindTruncate, BindWrite, BindSync
  <1>2. CASE content' = content
    BY <1>1, <1>2, HolderStays, LockSteps DEF TheBinding
  <1>3. CASE BindTruncate(p) \/ BindWrite(p)
    <2>1. pc[p] \in {"binding", "truncated"} /\ pc[p] \in Committed
      BY <1>3 DEF BindTruncate, BindWrite, Committed
    <2>2. Own(p) /\ owner[p].inode = 1 /\ linked = 1 /\ 1 \in Inodes
      BY <2>1, BinderIsOwner
    <2>3. content[1] = Empty /\ target[p] \in Paths
      BY <2>1, <2>2 DEF OInv, BindingIsOwn
    <2>4. content'[1] \in {Empty, Torn} \cup Paths
      BY <1>3, <2>2, <2>3 DEF OInv, TypeOK, BindTruncate, BindWrite
    <2>5. TheHolder # None
      BY <2>2, HolderIsOwner
    <2>6. TheBinding = Empty /\ TheBinding' = content'[1]
      BY <1>1, <2>2, <2>3 DEF TheBinding
    <2> QED BY <1>1, <2>4, <2>5, <2>6, HolderStays, LockSteps
  <1> QED BY <1>2, <1>3 DEF Bind, BindCheck, BindSync

\* Every step of an account that is let alone is a step of the lock, or none.
LEMMA StepIsLockStep ==
    ASSUME FInv, UInv, [JournalNext]_vars, Undisturbed' PROVE [Account!Next]_(Account!vars)
  <1>1. Undisturbed
    BY DisturbedForGood
  <1>2. ASSUME NEW p \in Procs, Acquire(p) \/ Close(p) \/ Bind(p)
        PROVE  [Account!Next]_(Account!vars)
    BY <1>1, <1>2, AcquireIsTake, DropIsLeave, BindIsSettle DEF Close
  <1>3. ASSUME NEW p \in Procs, JournalCrash(p) PROVE [Account!Next]_(Account!vars)
    BY <1>1, <1>3, DropIsLeave DEF JournalCrash, Crash
  <1>4. CASE UNCHANGED <<owner, content, linked>>
    <2>1. Holders' = Holders /\ TheBinding' = TheBinding
      BY <1>4 DEF Holders, TheBinding
    <2> QED BY <2>1, HolderStays, LockSteps
  <1>5. ASSUME NEW p \in Procs, NEW q \in Procs, JournalFork(p, q)
        PROVE  [Account!Next]_(Account!vars)
    <2>1. /\ owner[p] # None /\ owner[p].pid = p /\ owner[q] = None /\ owner'[q] = owner[p]
          /\ \A r \in Procs \ {q} : owner'[r] = owner[r]
          /\ UNCHANGED <<content, linked>>
      BY <1>5 DEF JournalFork, Fork, FInv, OInv, TypeOK
    <2>2. Holders' = Holders /\ TheBinding' = TheBinding
      BY <2>1 DEF Holders, TheBinding
    <2> QED BY <2>2, HolderStays, LockSteps
  <1>6. ~JournalPowerLoss /\ ~JournalUnlink
    BY <1>1, BoundsAssumption
    DEF JournalPowerLoss, PowerLoss, JournalUnlink, Unlink, Undisturbed, FInv, OInv, TypeOK
  <1>7. ASSUME NEW p \in Procs, JournalStep(p) \/ Opened(p) \/ CloseJournal(p)
        PROVE  UNCHANGED <<owner, content, linked>>
    BY <1>7 DEF JournalStep, Create, Reopen, CreateFile, CommitSchema, Goto, Opened, BindReturn,
                CloseJournal, ownVars
  <1> QED
    BY <1>2, <1>3, <1>4, <1>5, <1>6, <1>7
    DEF JournalNext, JournalStep, OwnerStep, vars, ownVars

\* Code: all of acquire, bind_journal_path, close, create and reopen, for an account of
\* which nobody deletes the lock file and whose host keeps its power.
THEOREM JournalImplementsLock == ASSUME ~ChildCloses PROVE JournalSpec => ImplementsLock
  <1>1. JournalInit => UInv
    BY DEF JournalInit, Init, UInv, OneJournal
  <1>2. JournalInit => Account!Init
    BY DEF JournalInit, Init, Account!Init, Holders
  <1>3. FInv /\ UInv /\ [JournalNext]_vars
            => [Undisturbed' => [Account!Next]_(Account!vars)]_vars
    BY StepIsLockStep
  <1> QED
    BY <1>1, <1>2, <1>3, BindingKeeps, JournalInductive, PTL DEF JournalSpec, ImplementsLock
=============================================================================
