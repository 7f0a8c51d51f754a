-------------------------- MODULE AccountOwnership --------------------------
(***************************************************************************)
(* AccountOwner (src/src/shadow/execution/ownership.py): the advisory lock *)
(* of one paper account, held through flock on a file that also keeps the  *)
(* path of the account's only journal.                                     *)
(*                                                                         *)
(* The processes of one host run acquire, bind_journal_path, assert_held   *)
(* and close; each system call is a step. flock belongs to an open file    *)
(* description: a forked child shares the description of its parent, and   *)
(* the lock goes with LOCK_UN on any copy or with the last close. What was *)
(* written and not synced survives the death of a process but not a loss   *)
(* of power. The kernel, fork, crashes and whoever unlinks the lock file   *)
(* are external. A process has at most one owner object at a time.         *)
(***************************************************************************)
EXTENDS Naturals, FiniteSets

CONSTANTS
    Procs,            \* processes
    Paths,            \* journal paths
    Descriptions,     \* open file descriptions, at least one for each process
    MaxInodes,        \* bound: how many lock files are created in all
    MaxPowerLosses,   \* bound: how often the host loses power
    Forks,            \* whether processes fork
    ShortWrites,      \* whether os.write may write a part of what it is given
    ChildCloses,      \* whether a forked child closes the owner it inherited
    Empty,            \* content of a lock file without a binding; also None
    Torn,             \* content that is no complete binding
    None              \* no open file description, no owner object, no target

ASSUME NoneAssumption ==
    /\ None \notin Descriptions \cup Paths \cup Procs
    /\ Empty \notin Paths \cup {Torn} /\ Torn \notin Paths

ASSUME BoundsAssumption == MaxInodes \in Nat /\ MaxPowerLosses \in Nat

VARIABLES
    made,      \* how many lock files were created; the i-th has inode i
    linked,    \* the inode the lock path names; 0 when there is none
    content,   \* what each lock file holds
    durable,   \* what of it would survive a loss of power
    lock,      \* the description that holds flock on each inode
    fd,        \* the description each process has open for the lock
    inode,     \* the inode each description is open on
    pc,        \* where each process is in acquire or bind_journal_path
    target,    \* the journal path each process is binding
    owner,     \* the AccountOwner object of each process
    losses     \* how often power was lost

ownVars == <<made, linked, content, durable, lock, fd, inode, pc, target, owner, losses>>

Inodes == 1 .. MaxInodes

\* What an AccountOwner remembers; a closed one is of no use and kept as None.
OwnerObjects == [pid : Procs, inode : Inodes, journal : Paths \cup {Empty}]

ASSUME ObjectAssumption == None \notin OwnerObjects

Steps == {"idle", "opened", "checked", "locked",
          "creating", "created", "bindable", "binding", "truncated", "written", "bound"}

-----------------------------------------------------------------------------
\* Mutant: assert_held does not compare the file with the one at the lock path.
HeldAnyFile(p) ==
    /\ owner[p] # None
    /\ owner[p].pid = p
    /\ content[owner[p].inode] = owner[p].journal

\* assert_held in process p: its own open object, on the file at the lock path,
\* whose content reads as the binding the object remembers.
Held(p) ==
    /\ owner[p] # None
    /\ owner[p].pid = p
    /\ linked = owner[p].inode
    /\ content[linked] = owner[p].journal

\* The locks once processes gone have closed their descriptors.
LocksWithout(gone) ==
    [i \in Inodes |->
        IF lock[i] \in {fd[p] : p \in gone} \ {fd[p] : p \in Procs \ gone}
        THEN None ELSE lock[i]]

\* os.close(fd), then back to the caller.
CloseDescriptor(p) ==
    /\ lock' = LocksWithout({p})
    /\ fd' = [fd EXCEPT ![p] = None]
    /\ pc' = [pc EXCEPT ![p] = "idle"]

Init ==
    /\ made = 0 /\ linked = 0 /\ losses = 0
    /\ content = [i \in Inodes |-> Empty]
    /\ durable = [i \in Inodes |-> Empty]
    /\ lock = [i \in Inodes |-> None]
    /\ fd = [p \in Procs |-> None]
    /\ inode = [d \in Descriptions |-> 0]
    /\ pc = [p \in Procs |-> "idle"]
    /\ target = [p \in Procs |-> None]
    /\ owner = [p \in Procs |-> None]

-----------------------------------------------------------------------------
\* acquire: os.open with O_CREAT, which creates the file when there is none.
Open(p) ==
    /\ pc[p] = "idle" /\ owner[p] = None
    /\ \/ linked # 0 /\ UNCHANGED <<made, linked>>
       \/ linked = 0 /\ made < MaxInodes /\ made' = made + 1 /\ linked' = made + 1
    /\ \E d \in Descriptions \ {fd[q] : q \in Procs} :
          /\ fd' = [fd EXCEPT ![p] = d]
          /\ inode' = [inode EXCEPT ![d] = linked']
    /\ pc' = [pc EXCEPT ![p] = "opened"]
    /\ UNCHANGED <<content, durable, lock, target, owner, losses>>

\* acquire: the opened file is the one at the path, or the call fails.
Check(p) ==
    /\ pc[p] = "opened"
    /\ IF inode[fd[p]] = linked
       THEN pc' = [pc EXCEPT ![p] = "checked"] /\ UNCHANGED <<lock, fd>>
       ELSE CloseDescriptor(p)
    /\ UNCHANGED <<made, linked, content, durable, inode, target, owner, losses>>

\* Mutant: flock(LOCK_SH), which succeeds beside the locks of others.
LockShared(p) ==
    /\ pc[p] = "checked"
    /\ lock' = [lock EXCEPT ![inode[fd[p]]] = IF @ = None THEN fd[p] ELSE @]
    /\ pc' = [pc EXCEPT ![p] = "locked"]
    /\ UNCHANGED <<made, linked, content, durable, fd, inode, target, owner, losses>>

\* acquire: flock(LOCK_EX | LOCK_NB), or the call fails.
Lock(p) ==
    /\ pc[p] = "checked"
    /\ IF lock[inode[fd[p]]] = None
       THEN /\ lock' = [lock EXCEPT ![inode[fd[p]]] = fd[p]]
            /\ pc' = [pc EXCEPT ![p] = "locked"]
            /\ UNCHANGED fd
       ELSE CloseDescriptor(p)
    /\ UNCHANGED <<made, linked, content, durable, inode, target, owner, losses>>

\* acquire: read the binding; one that is not well formed fails the call.
ReadBinding(p) ==
    LET i == inode[fd[p]] IN
    /\ pc[p] = "locked"
    /\ IF content[i] = Torn
       THEN CloseDescriptor(p) /\ UNCHANGED owner
       ELSE /\ owner' = [owner EXCEPT ![p] = [pid |-> p, inode |-> i, journal |-> content[i]]]
            /\ pc' = [pc EXCEPT ![p] = "idle"]
            /\ UNCHANGED <<lock, fd>>
    /\ UNCHANGED <<made, linked, content, durable, inode, target, losses>>

\* close: LOCK_UN, on whichever copy of the object it is called, then os.close.
\* The object is of no further use and the process may acquire again.
Close(p) ==
    /\ pc[p] = "idle" /\ owner[p] # None
    /\ owner[p].pid = p \/ ChildCloses
    /\ lock' = [i \in Inodes |-> IF lock[i] = fd[p] THEN None ELSE lock[i]]
    /\ fd' = [fd EXCEPT ![p] = None]
    /\ owner' = [owner EXCEPT ![p] = None]
    /\ UNCHANGED <<made, linked, content, durable, inode, pc, target, losses>>

-----------------------------------------------------------------------------
\* bind_journal_path is called with an absolute path.
RequestBind(p, path) ==
    /\ pc[p] = "idle" /\ owner[p] # None
    /\ pc' = [pc EXCEPT ![p] = "bindable"]
    /\ target' = [target EXCEPT ![p] = path]
    /\ UNCHANGED <<made, linked, content, durable, lock, fd, inode, owner, losses>>

\* Mutant: an object already bound is bound again, to the other path.
BindCheckRebinds(p) ==
    /\ pc[p] = "bindable"
    /\ pc' = [pc EXCEPT ![p] =
                 IF ~Held(p) THEN "idle"
                 ELSE IF owner[p].journal = target[p] THEN "bound" ELSE "binding"]
    /\ UNCHANGED <<made, linked, content, durable, lock, fd, inode, target, owner, losses>>

\* Mutant: an object already bound accepts every path.
BindCheckAccepts(p) ==
    /\ pc[p] = "bindable"
    /\ pc' = [pc EXCEPT ![p] =
                 IF ~Held(p) THEN "idle"
                 ELSE IF owner[p].journal = Empty THEN "binding" ELSE "bound"]
    /\ UNCHANGED <<made, linked, content, durable, lock, fd, inode, target, owner, losses>>

\* bind: assert_held; an object already bound accepts its own path only.
BindCheck(p) ==
    /\ pc[p] = "bindable"
    /\ pc' = [pc EXCEPT ![p] =
                 IF ~Held(p) THEN "idle"
                 ELSE IF owner[p].journal = Empty THEN "binding"
                 ELSE IF owner[p].journal = target[p] THEN "bound" ELSE "idle"]
    /\ UNCHANGED <<made, linked, content, durable, lock, fd, inode, target, owner, losses>>

\* bind: ftruncate(fd, 0).
BindTruncate(p) ==
    /\ pc[p] = "binding"
    /\ content' = [content EXCEPT ![owner[p].inode] = Empty]
    /\ pc' = [pc EXCEPT ![p] = "truncated"]
    /\ UNCHANGED <<made, linked, durable, lock, fd, inode, target, owner, losses>>

\* bind: os.write, whose count of bytes written is not looked at, or which raises.
BindWrite(p) ==
    /\ pc[p] = "truncated"
    /\ \/ /\ \E written \in {target[p]} \cup IF ShortWrites THEN {Torn} ELSE {} :
                 content' = [content EXCEPT ![owner[p].inode] = written]
          /\ pc' = [pc EXCEPT ![p] = "written"]
       \/ /\ pc' = [pc EXCEPT ![p] = "idle"]
          /\ UNCHANGED content
    /\ UNCHANGED <<made, linked, durable, lock, fd, inode, target, owner, losses>>

\* bind: os.fsync, and only then the object remembers; or fsync raises.
BindSync(p) ==
    /\ pc[p] = "written"
    /\ \/ /\ durable' = [durable EXCEPT ![owner[p].inode] = content[owner[p].inode]]
          /\ owner' = [owner EXCEPT ![p].journal = target[p]]
          /\ pc' = [pc EXCEPT ![p] = "bound"]
       \/ /\ pc' = [pc EXCEPT ![p] = "idle"]
          /\ UNCHANGED <<durable, owner>>
    /\ UNCHANGED <<made, linked, content, lock, fd, inode, target, losses>>

\* bind_journal_path returns.
BindReturn(p) ==
    /\ pc[p] = "bound"
    /\ pc' = [pc EXCEPT ![p] = "idle"]
    /\ UNCHANGED <<made, linked, content, durable, lock, fd, inode, target, owner, losses>>

-----------------------------------------------------------------------------
\* p forks: an idle child q, which has nothing open, inherits object and descriptor.
\* Children do not fork again, so that no process gets the number of a dead one.
Fork(p, q) ==
    /\ Forks
    /\ pc[p] = "idle" /\ owner[p] # None /\ owner[p].pid = p
    /\ pc[q] = "idle" /\ owner[q] = None
    /\ owner' = [owner EXCEPT ![q] = owner[p]]
    /\ fd' = [fd EXCEPT ![q] = fd[p]]
    /\ UNCHANGED <<made, linked, content, durable, lock, inode, pc, target, losses>>

\* A process dies at any point; its descriptors are closed. It may start again.
Crash(p) ==
    /\ pc[p] # "idle" \/ owner[p] # None
    /\ lock' = LocksWithout({p})
    /\ fd' = [fd EXCEPT ![p] = None]
    /\ pc' = [pc EXCEPT ![p] = "idle"]
    /\ owner' = [owner EXCEPT ![p] = None]
    /\ UNCHANGED <<made, linked, content, durable, inode, target, losses>>

\* What a loss of power may leave of a file: all of it, what was synced or, where
\* the two differ, a part.
Surviving(i) ==
    {content[i], durable[i]} \cup IF content[i] = durable[i] THEN {} ELSE {Empty, Torn}

\* The host loses power: every process dies, the lock path itself survives.
PowerLoss ==
    /\ losses < MaxPowerLosses
    /\ losses' = losses + 1
    /\ \E left \in [Inodes -> Paths \cup {Empty, Torn}] :
          /\ \A i \in Inodes : left[i] \in Surviving(i)
          /\ content' = left
          /\ durable' = left
    /\ lock' = [i \in Inodes |-> None]
    /\ fd' = [p \in Procs |-> None]
    /\ pc' = [p \in Procs |-> "idle"]
    /\ owner' = [p \in Procs |-> None]
    /\ UNCHANGED <<made, linked, inode, target>>

\* Someone deletes the lock file; the next acquire creates another.
Unlink ==
    /\ linked # 0 /\ made < MaxInodes
    /\ linked' = 0
    /\ UNCHANGED <<made, content, durable, lock, fd, inode, pc, target, owner, losses>>

Acquire(p) == Open(p) \/ Check(p) \/ Lock(p) \/ ReadBinding(p)
Bind(p) == BindCheck(p) \/ BindTruncate(p) \/ BindWrite(p) \/ BindSync(p)
Environment ==
    \/ \E p, q \in Procs : Fork(p, q)
    \/ \E p \in Procs : Crash(p)
    \/ PowerLoss
    \/ Unlink

Next ==
    \/ \E p \in Procs : Acquire(p) \/ Close(p) \/ Bind(p) \/ BindReturn(p)
    \/ \E p \in Procs, path \in Paths : RequestBind(p, path)
    \/ Environment

Spec == Init /\ [][Next]_ownVars

-----------------------------------------------------------------------------
TypeOK ==
    /\ made \in 0 .. MaxInodes /\ linked \in 0 .. made /\ losses \in 0 .. MaxPowerLosses
    /\ content \in [Inodes -> Paths \cup {Empty, Torn}]
    /\ durable \in [Inodes -> Paths \cup {Empty, Torn}]
    /\ lock \in [Inodes -> Descriptions \cup {None}]
    /\ fd \in [Procs -> Descriptions \cup {None}]
    /\ inode \in [Descriptions -> 0 .. made]
    /\ pc \in [Procs -> Steps]
    /\ target \in [Procs -> Paths \cup {None}]
    /\ owner \in [Procs -> OwnerObjects \cup {None}]

\* assert_held never passes in two processes at once, whatever crashes, forks and
\* deletions of the lock file fall between the system calls of two acquires.
OneValidOwner == \A p, q \in Procs : Held(p) /\ Held(q) => p = q

\* A binding that was synced stays what it is as long as its file lives: no second
\* owner, crash or loss of power ever puts another one in its place.
BindingStable ==
    [][\A i \in Inodes :
          content[i] \in Paths /\ durable[i] = content[i] => content'[i] = content[i]]_ownVars

\* AccountOwner is "a nonblocking lock retained for the entire local owner lifetime"
\* (ownership.py:47): an object that is not closed, in the process that acquired it,
\* has the lock of its file.
LockRetained ==
    \A p \in Procs : owner[p] # None /\ owner[p].pid = p =>
        lock[owner[p].inode] = fd[p]

\* The processes that own the account through an object of their own.
Holders == {p \in Procs : owner[p] # None /\ owner[p].pid = p}

\* The abstract lock this implements, as long as nobody deletes the lock file, the
\* host does not lose power and children leave the inherited object alone; the run of
\* ExecutionJournal checks it.
Account ==
    INSTANCE AccountLock WITH
        holder <- IF Holders = {} THEN None ELSE CHOOSE p \in Holders : TRUE,
        binding <- IF linked = 0 THEN Empty ELSE content[linked]

=============================================================================
