-------------------------- MODULE ExecutionJournal --------------------------
(***************************************************************************)
(* ExecutionJournal (src/src/shadow/execution/journal.py): create and      *)
(* reopen the account's journal under its AccountOwner.                    *)
(*                                                                         *)
(* A journal file is absent, bare (created exclusively, no schema yet) or  *)
(* committed with an identity, of which the operational scope is kept: the *)
(* UUID and the time belong to the one commit a file ever sees. SQLite     *)
(* commits atomically and durably (journal_mode DELETE, synchronous        *)
(* EXTRA); a bare file may be gone after a loss of power. Files of other   *)
(* schemas and corrupted ones fail the checks of _read_identity and are    *)
(* left out. Every process serves the one account of the lock.             *)
(***************************************************************************)
EXTENDS AccountOwnership

CONSTANTS
    Scopes,    \* operational scopes
    Absent,    \* no journal file at a path
    Bare       \* a journal file without a schema

ASSUME FilesAssumption == Absent \notin Scopes /\ Bare \notin Scopes \cup {Absent}

VARIABLES
    files,     \* the journal file at each path
    wanted,    \* the scope each process creates or reopens for
    journal,   \* the ExecutionJournal each process holds: [path, scope]
    returned   \* every journal create and reopen ever returned

journalVars == <<files, wanted, journal, returned>>
vars == <<ownVars, journalVars>>

Journals == [path : Paths, scope : Scopes]

-----------------------------------------------------------------------------
JournalInit ==
    /\ Init
    /\ files = [path \in Paths |-> Absent]
    /\ wanted = [p \in Procs |-> None]
    /\ journal = [p \in Procs |-> None]
    /\ returned = {}

\* p goes to another step of create or reopen; the lock file is left alone.
Goto(p, step) ==
    /\ pc' = [pc EXCEPT ![p] = step]
    /\ UNCHANGED <<made, linked, content, durable, lock, fd, inode, owner, losses>>

\* create: assert_held, then "CREATE refuses an existing journal".
Create(p, path, scope) ==
    /\ pc[p] = "idle" /\ Held(p)
    /\ files[path] = Absent
    /\ target' = [target EXCEPT ![p] = path]
    /\ wanted' = [wanted EXCEPT ![p] = scope]
    /\ Goto(p, "creating")
    /\ UNCHANGED <<files, journal, returned>>

\* Mutant: the file is created without O_EXCL, and truncated.
CreateFileOver(p) ==
    /\ pc[p] = "creating"
    /\ files' = [files EXCEPT ![target[p]] = Bare]
    /\ Goto(p, "created")
    /\ UNCHANGED <<target, wanted, journal, returned>>

\* create: O_CREAT | O_EXCL; losing the race against another creation fails the call.
CreateFile(p) ==
    /\ pc[p] = "creating"
    /\ IF files[target[p]] = Absent
       THEN files' = [files EXCEPT ![target[p]] = Bare] /\ Goto(p, "created")
       ELSE Goto(p, "idle") /\ UNCHANGED files
    /\ UNCHANGED <<target, wanted, journal, returned>>

\* create: schema and identity in one transaction, read back and compared. A
\* failure rolls back and fails the call; the bare file stays behind.
CommitSchema(p) ==
    /\ pc[p] = "created"
    /\ \/ files' = [files EXCEPT ![target[p]] = wanted[p]] /\ Goto(p, "bindable")
       \/ Goto(p, "idle") /\ UNCHANGED files
    /\ UNCHANGED <<target, wanted, journal, returned>>

\* reopen: assert_held, "REOPEN never creates a missing journal", and the identity
\* of the file must be of the scope asked for.
Reopen(p, path, scope) ==
    /\ pc[p] = "idle" /\ Held(p)
    /\ files[path] = scope
    /\ target' = [target EXCEPT ![p] = path]
    /\ wanted' = [wanted EXCEPT ![p] = scope]
    /\ Goto(p, "bindable")
    /\ UNCHANGED <<files, journal, returned>>

\* bind_journal_path returned to create or reopen, which return the journal.
Opened(p) ==
    LET opened == [path |-> target[p], scope |-> wanted[p]] IN
    /\ BindReturn(p)
    /\ journal' = [journal EXCEPT ![p] = opened]
    /\ returned' = returned \cup {opened}
    /\ UNCHANGED <<files, wanted>>

\* ExecutionJournal.close: the connection only; the owner stays.
CloseJournal(p) ==
    /\ pc[p] = "idle" /\ journal[p] # None
    /\ journal' = [journal EXCEPT ![p] = None]
    /\ UNCHANGED <<ownVars, files, wanted, returned>>

\* The steps of the owner, with what becomes of the journals of dead processes.
OwnerStep ==
    /\ \E p \in Procs : Acquire(p) \/ Close(p) \/ Bind(p)
    /\ UNCHANGED journalVars

JournalCrash(p) ==
    /\ Crash(p)
    /\ journal' = [journal EXCEPT ![p] = None]
    /\ UNCHANGED <<files, wanted, returned>>

JournalPowerLoss ==
    /\ PowerLoss
    /\ \E gone \in SUBSET {path \in Paths : files[path] = Bare} :
          files' = [path \in Paths |-> IF path \in gone THEN Absent ELSE files[path]]
    /\ journal' = [p \in Procs |-> None]
    /\ UNCHANGED <<wanted, returned>>

JournalFork(p, q) ==
    /\ Fork(p, q)
    /\ journal' = [journal EXCEPT ![q] = journal[p]]
    /\ UNCHANGED <<files, wanted, returned>>

JournalUnlink == Unlink /\ UNCHANGED journalVars

JournalNext ==
    \/ OwnerStep
    \/ \E p \in Procs, path \in Paths, scope \in Scopes :
          Create(p, path, scope) \/ Reopen(p, path, scope)
    \/ \E p \in Procs : \/ CreateFile(p) \/ CommitSchema(p) \/ Opened(p)
                        \/ CloseJournal(p) \/ JournalCrash(p)
    \/ \E p, q \in Procs : JournalFork(p, q)
    \/ JournalPowerLoss
    \/ JournalUnlink

JournalSpec == JournalInit /\ [][JournalNext]_vars

-----------------------------------------------------------------------------
\* "One dedicated paper account has one authoritative local journal": whatever scope
\* and path callers ask for and wherever processes crash, create and reopen only ever
\* return one journal of the account (P5A_EXECUTION_CONTRACT.md:86).
OneJournal == \A j, k \in returned : j = k

\* Power was never lost and nobody deleted the lock file.
Undisturbed == losses = 0 /\ linked = made /\ made <= 1

\* Of an account whose lock file was let alone and whose host kept its power, create and
\* reopen only ever return one journal, committed on disk and named in the lock file,
\* also after crashes of its process and of the one that bound it. Where a short write
\* has torn the binding instead, nobody is left who passes assert_held.
OneBoundJournal ==
    Undisturbed =>
        /\ OneJournal
        /\ \A j \in returned :
              /\ files[j.path] = j.scope
              /\ content[linked] \in {j.path, Torn}
              /\ content[linked] = Torn => \A p \in Procs : ~Held(p)

\* The identity of a file, once committed, is never another one: no failed create,
\* reopen, crash or loss of power, of whatever process, spoils it.
IdentityImmutable ==
    [][\A path \in Paths : files[path] \in Scopes => files'[path] = files[path]]_vars

\* Taking, settling and leaving the account is all that the system calls, crashes and
\* forks of any number of processes amount to, as long as the lock file is let alone and
\* the host keeps its power (ownership.py:59 to 176, journal.py:55 to 163).
ImplementsLock == Account!Init /\ [][Undisturbed' => [Account!Next]_(Account!vars)]_vars

=============================================================================
