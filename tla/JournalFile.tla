----------------------------- MODULE JournalFile -----------------------------
(***************************************************************************)
(* The file of the write journal under the processes that open it:         *)
(* write_journal.py below begin and finish.  Every caller (a session of    *)
(* the server, a CLI process) opens the journal with a WriteJournal object *)
(* of its own, which checks the path, creates the file or migrates it, and *)
(* runs each operation on a fresh connection as one BEGIN IMMEDIATE        *)
(* transaction.  Any caller may die at any step.                           *)
(*                                                                         *)
(* SQLite is external, and modelled from how the code uses it (rollback    *)
(* journal, synchronous = FULL): one connection holds the write lock; the  *)
(* pages of a commit reach the file before the commit is final; what an    *)
(* unfinished commit wrote is rolled back by the next connection; whoever  *)
(* waits too long for the lock gets "database is locked".                  *)
(***************************************************************************)
EXTENDS Naturals, FiniteSets

CONSTANTS Callers, NoCaller,
          Plans, IssueTargets, CorrectionTargets, CounterpartyTargets,
          Contents, Payloads, NoKey

ASSUME CallersAssumption == NoCaller \notin Callers

VARIABLES
    status, target, payload, guards,  \* the committed rows, as in WriteJournal
    file,      \* what the path holds: its committed schema
    dirty,     \* pages of a commit that is not final are in the file
    lock,      \* the connection with the write lock
    at,        \* at[c]: where caller c is
    created,   \* created[c]: _created of its journal object
    call,      \* call[c]: the transaction c runs
    error,     \* error[c]: why its last operation raised, if it did
    started    \* <<c, p>>: begin has returned "started" for p to c

rows == <<status, target, payload, guards>>
disk == <<file, dirty, lock>>
vars == <<rows, disk, at, created, call, error, started>>

J == INSTANCE WriteJournal

\* no object; _prepare_path found no file; path prepared; object ready for use;
\* then of a transaction: before BEGIN IMMEDIATE, in it, with changes, with pages
\* in the file, committed.
Places == {"out", "no_file", "prepared", "ready", "waiting", "begun", "changed",
           "flushed", "committed"}

NoCall == [op |-> "none"]
Calls ==
    {NoCall} \cup [op: {"create", "migrate"}]
        \cup [op: {"begin"}, p: Plans, t: J!Targets, h: Payloads, gs: SUBSET Contents]
        \cup [op: {"finish"}, p: Plans, s: J!FinishStatuses]

\* "refused" stands for the codes of BeginReply and FinishReply; the others are all
\* raised as WRITE_JOURNAL_UNAVAILABLE.
Errors == {"none", "refused", "empty_file", "file_exists", "no_table", "table_exists",
           "locked", "io_error"}

Constructing(c) == call[c].op \in {"none", "create", "migrate"}

TypeOK ==
    /\ J!TypeOK
    /\ file \in {"absent", "empty", "v1", "v2"}
    /\ dirty \in BOOLEAN
    /\ lock \in Callers \cup {NoCaller}
    /\ at \in [Callers -> Places]
    /\ created \in [Callers -> BOOLEAN]
    /\ call \in [Callers -> Calls]
    /\ error \in [Callers -> Errors]
    /\ started \in SUBSET (Callers \X Plans)
    /\ \A c \in Callers :
          /\ at[c] \in {"begun", "changed", "flushed"} <=> lock = c
          /\ at[c] \in {"ready", "out", "no_file", "prepared"} <=> call[c] = NoCall
          /\ dirty /\ lock = c => at[c] = "flushed"

\* No file yet, or one that an earlier version or an earlier run has left behind.
Init ==
    /\ J!Init
    /\ file \in {"absent", "v1", "v2"}
    /\ file # "v1" => \A p \in Plans : ~J!Recorded(p)
    /\ dirty = FALSE
    /\ lock = NoCaller
    /\ at = [c \in Callers |-> "out"]
    /\ created = [c \in Callers |-> FALSE]
    /\ call = [c \in Callers |-> NoCall]
    /\ error = [c \in Callers |-> "none"]
    /\ started = {}

-----------------------------------------------------------------------------
(***************************************************************************)
(* How an operation ends                                                   *)
(***************************************************************************)
Go(c, place) == at' = [at EXCEPT ![c] = place]

\* c is through: back to a ready object, or to none if the constructor raised.
End(c, place, r) ==
    /\ Go(c, place)
    /\ call' = [call EXCEPT ![c] = NoCall]
    /\ error' = [error EXCEPT ![c] = r]

Fail(c, r) == End(c, IF Constructing(c) THEN "out" ELSE "ready", r)

Run(c, what) ==
    /\ Go(c, "waiting")
    /\ call' = [call EXCEPT ![c] = what]
    /\ error' = [error EXCEPT ![c] = "none"]

-----------------------------------------------------------------------------
(***************************************************************************)
(* _prepare_path                                                           *)
(***************************************************************************)
\* st_size: an interrupted commit counts until a connection rolls it back.
SizeIsZero == file = "empty" /\ ~dirty

FindPath(c) ==
    /\ at[c] = "out"
    /\ created' = [created EXCEPT ![c] = FALSE]
    /\ IF file = "absent" THEN End(c, "no_file", "none")
       ELSE IF SizeIsZero THEN End(c, "out", "empty_file")
       ELSE End(c, "prepared", "none")
    /\ UNCHANGED <<rows, disk, started>>

\* O_CREAT | O_EXCL: of several callers that saw no file, one makes it.
MakeFile(c) ==
    /\ at[c] = "no_file"
    /\ IF file = "absent"
       THEN /\ file' = "empty"
            /\ created' = [created EXCEPT ![c] = TRUE]
            /\ End(c, "prepared", "none")
       ELSE /\ End(c, "out", "file_exists")
            /\ UNCHANGED <<file, created>>
    /\ UNCHANGED <<rows, dirty, lock, started>>

-----------------------------------------------------------------------------
(***************************************************************************)
(* Connections: quick_check, the schema, and the lock                      *)
(***************************************************************************)
\* A read gets through unless a commit is writing; it rolls back a dead one.
Readable == ~(dirty /\ lock # NoCaller)

\* Mutated form: a file without tables is taken for a new journal by anyone.
ReadSchemaAnyone(c) ==
    /\ at[c] = "prepared"
    /\ Readable
    /\ dirty' = FALSE
    /\ IF file = "v1" THEN Run(c, [op |-> "migrate"])
       ELSE End(c, "ready", "none")
    /\ UNCHANGED <<rows, file, lock, created, started>>

\* _ensure_schema up to its BEGIN IMMEDIATE.
ReadSchema(c) ==
    /\ at[c] = "prepared"
    /\ Readable
    /\ dirty' = FALSE
    /\ CASE file = "v2" -> End(c, "ready", "none")
         [] file = "v1" -> Run(c, [op |-> "migrate"])
         [] file = "empty" /\ created[c] -> Run(c, [op |-> "create"])
         [] OTHER -> End(c, "out", "no_table")
    /\ UNCHANGED <<rows, file, lock, created, started>>

\* begin or finish on a new connection, after quick_check and _check_schema.
Operate(c, what) ==
    /\ at[c] = "ready"
    /\ Readable
    /\ file = "v2"
    /\ Run(c, what)
    /\ dirty' = FALSE
    /\ UNCHANGED <<rows, file, lock, created, started>>

\* Mutated forms: statements run in autocommit mode; nobody ever gives up.
LockIgnored == TRUE
NeverLate(c) == FALSE

LockFree == lock = NoCaller

\* BEGIN IMMEDIATE
Acquire(c) ==
    /\ at[c] = "waiting"
    /\ LockFree
    /\ lock' = c
    /\ dirty' = FALSE
    /\ Go(c, "begun")
    /\ UNCHANGED <<rows, file, created, call, error, started>>

\* The 5 seconds of sqlite3.connect are over.
Late(c) ==
    /\ \/ at[c] = "waiting" /\ ~LockFree
       \/ at[c] = "prepared" /\ ~Readable
    /\ Fail(c, "locked")
    /\ UNCHANGED <<rows, disk, created, started>>

-----------------------------------------------------------------------------
(***************************************************************************)
(* Transactions                                                            *)
(***************************************************************************)
Release == lock' = NoCaller /\ dirty' = FALSE

\* Nothing to change: an empty commit, or a rollback.
Quit(c, place, r) ==
    /\ End(c, place, r)
    /\ Release
    /\ UNCHANGED <<rows, file, created, started>>

Change(c) ==
    /\ Go(c, "changed")
    /\ UNCHANGED <<rows, disk, created, call, error, started>>

\* CREATE TABLE
Create(c) ==
    /\ at[c] = "begun" /\ call[c].op = "create"
    /\ Change(c)

\* Mutated form: user_version is not read again under the lock.
MigrateAgain(c) ==
    /\ at[c] = "begun" /\ call[c].op = "migrate"
    /\ IF file = "v1" THEN Change(c) ELSE Quit(c, "out", "table_exists")

\* user_version is read again: another caller may have migrated meanwhile.
Migrate(c) ==
    /\ at[c] = "begun" /\ call[c].op = "migrate"
    /\ IF file = "v1" THEN Change(c) ELSE Quit(c, "ready", "none")

Begin(c) ==
    LET k == call[c]
        r == J!BeginReply(k.p, k.t, k.h, k.gs)
    IN
    /\ at[c] = "begun" /\ k.op = "begin"
    /\ IF r = "started" THEN Change(c)
       ELSE Quit(c, "ready", IF r = "complete" THEN "none" ELSE "refused")

Finish(c) ==
    LET k == call[c]
        r == J!FinishReply(k.p, k.s)
    IN
    /\ at[c] = "begun" /\ k.op = "finish"
    /\ IF r = "ok" /\ status[k.p] # k.s THEN Change(c)
       ELSE Quit(c, "ready", IF r = "ok" THEN "none" ELSE "refused")

\* commit writes the changed pages to the file, ...
Flush(c) ==
    /\ at[c] = "changed"
    /\ dirty' = TRUE
    /\ Go(c, "flushed")
    /\ UNCHANGED <<rows, file, lock, created, call, error, started>>

\* Mutated form: the changes are lost.
NotStored(k) == UNCHANGED <<rows, file>>

Stored(k) ==
    CASE k.op = "begin" -> J!InsertAttempt(k.p, k.t, k.h, k.gs) /\ UNCHANGED file
      [] k.op = "finish" -> /\ status' = [status EXCEPT ![k.p] = k.s]
                            /\ UNCHANGED <<target, payload, guards, file>>
      [] OTHER -> file' = "v2" /\ UNCHANGED rows

\* ... and the deletion of the rollback journal makes them durable.
Commit(c) ==
    /\ at[c] = "flushed"
    /\ Stored(call[c])
    /\ Release
    /\ Go(c, "committed")
    /\ UNCHANGED <<created, call, error, started>>

\* The caller learns about it.
Return(c) ==
    LET k == call[c] IN
    /\ at[c] = "committed"
    /\ End(c, "ready", "none")
    /\ started' = IF k.op = "begin" THEN started \cup {<<c, k.p>>} ELSE started
    /\ UNCHANGED <<rows, disk, created>>

\* The disk is full or fails: rollback.
IOError(c) ==
    /\ at[c] \in {"begun", "changed", "flushed"}
    /\ Fail(c, "io_error")
    /\ Release
    /\ UNCHANGED <<rows, file, created, started>>

\* The process dies, or throws its journal object away.
Crash(c) ==
    /\ at[c] # "out"
    /\ End(c, "out", "none")
    /\ created' = [created EXCEPT ![c] = FALSE]
    /\ lock' = IF lock = c THEN NoCaller ELSE lock
    /\ UNCHANGED <<rows, file, dirty, started>>

-----------------------------------------------------------------------------
Ask(c) ==
    \/ \E p \in Plans, t \in J!Targets, h \in Payloads :
          \E gs \in J!GuardKeys(t) :
             Operate(c, [op |-> "begin", p |-> p, t |-> t, h |-> h, gs |-> gs])
    \/ \E p \in Plans, s \in J!FinishStatuses :
          Operate(c, [op |-> "finish", p |-> p, s |-> s])

Work(c) ==
    \/ MakeFile(c) \/ ReadSchema(c) \/ Acquire(c) \/ Late(c)
    \/ Create(c) \/ Migrate(c) \/ Begin(c) \/ Finish(c)
    \/ Flush(c) \/ Commit(c) \/ Return(c)

Next == \E c \in Callers : FindPath(c) \/ Ask(c) \/ Work(c) \/ IOError(c) \/ Crash(c)

Spec == Init /\ [][Next]_vars

\* A caller that runs goes on; SQLite waits 5 seconds at most.
FairSpec == Spec /\ \A c \in Callers : WF_vars(Work(c))

-----------------------------------------------------------------------------
\* write_journal.py:33-190: over all connections, locks, failures and crashes, the
\* committed rows change by atomic steps of begin and finish only.
Journal == J!Spec

\* write_journal.py:50-78, 152: of all callers that begin a plan, whatever dies in
\* between, one at most is told "started" and goes on to write to HomeTax; and its
\* row is on disk by then, so that no restart can start the plan again.
StartedOnce ==
    \A r \in started :
        /\ J!Recorded(r[2])
        /\ \A s \in started : r[2] = s[2] => r[1] = s[1]

\* write_journal.py:208-211, 276-286: an object that is ready has a complete schema
\* under it (the file of a creator that died is never taken for a journal); callers
\* that open an old journal at once do not trip over each other's migration; and
\* only the remains of a failed creation are reported as having no table.
OpenedRight ==
    \A c \in Callers :
        /\ at[c] = "ready" => file = "v2"
        /\ error[c] # "table_exists"
        /\ error[c] = "no_table" => file = "empty"

\* write_journal.py:227-265: every operation and every constructor returns or
\* raises, however busy the journal is.
EveryCallReturns ==
    \A c \in Callers :
        at[c] \notin {"out", "ready"} ~> at[c] \in {"out", "ready"}
=============================================================================
