--------------------------- MODULE JournalFileProofs ---------------------------
(***************************************************************************)
(* For any number of callers, plans and keys, and whoever dies where: what *)
(* the journal file holds changes as WriteJournal says, no plan is started *)
(* twice, and a journal object that opened stands on a complete schema.    *)
(*                                                                         *)
(* Only the holder of the write lock is between BEGIN IMMEDIATE and its    *)
(* commit, so what begin or finish found under the lock is still so when   *)
(* its changes are stored.                                                 *)
(***************************************************************************)
EXTENDS JournalFile, TLAPS

\* What was asked of the journal is a call that its callers make.
Asked(k) ==
    /\ k.op \in {"none", "create", "migrate", "begin", "finish"}
    /\ k.op = "begin" =>
          k.p \in Plans /\ k.t \in J!Targets /\ k.h \in Payloads /\ k.gs \in J!GuardKeys(k.t)
    /\ k.op = "finish" => k.p \in Plans /\ k.s \in J!FinishStatuses

Shape ==
    /\ status = [p \in Plans |-> status[p]]
    /\ at = [c \in Callers |-> at[c]] /\ call = [c \in Callers |-> call[c]]
    /\ created = [c \in Callers |-> created[c]] /\ error = [c \in Callers |-> error[c]]
    /\ started \in SUBSET (Callers \X Plans)
    /\ \A c \in Callers : Asked(call[c])

Writing == {"begun", "changed", "flushed"}

\* What the holder of the lock has found is still so.
Pending(k) ==
    /\ k.op = "begin" => J!BeginReply(k.p, k.t, k.h, k.gs) = "started"
    /\ k.op = "finish" => J!FinishReply(k.p, k.s) = "ok"

Locked ==
    \A c \in Callers :
        /\ at[c] \in Writing => lock = c
        /\ at[c] \in {"changed", "flushed"} => Pending(call[c])

\* c knows, or is about to learn, that it has started p.
Told(c, p) ==
    \/ <<c, p>> \in started
    \/ at[c] = "committed" /\ call[c].op = "begin" /\ call[c].p = p

ToldOnce ==
    \A c \in Callers, p \in Plans : Told(c, p) =>
        J!Recorded(p) /\ \A d \in Callers : Told(d, p) => c = d

FInv == Shape /\ Locked /\ ToldOnce

Step(c) == FindPath(c) \/ Ask(c) \/ Work(c) \/ IOError(c) \/ Crash(c)

-----------------------------------------------------------------------------
\* A step is of one caller.
LEMMA Frame ==
    ASSUME Shape, NEW c \in Callers, Step(c)
    PROVE  /\ at' = [d \in Callers |-> at'[d]] /\ call' = [d \in Callers |-> call'[d]]
           /\ created' = [d \in Callers |-> created'[d]] /\ error' = [d \in Callers |-> error'[d]]
           /\ \A d \in Callers \ {c} : /\ at'[d] = at[d] /\ call'[d] = call[d]
                                       /\ created'[d] = created[d] /\ error'[d] = error[d]
<1>1. CASE FindPath(c) \/ MakeFile(c)
  BY <1>1 DEF FindPath, MakeFile, End, Go, Shape
<1>2. CASE ReadSchema(c)
  BY <1>2 DEF ReadSchema, End, Run, Go, Shape
<1>3. CASE Ask(c) \/ Acquire(c)
  BY <1>3 DEF Ask, Operate, Run, Acquire, Go, Shape
<1>4. CASE Late(c) \/ IOError(c) \/ Crash(c) \/ Return(c)
  BY <1>4 DEF Late, IOError, Crash, Return, Fail, End, Go, Shape
<1>5. CASE Create(c) \/ Migrate(c) \/ Begin(c) \/ Finish(c)
  BY <1>5 DEF Create, Migrate, Begin, Finish, Change, Quit, End, Go, Shape
<1>6. CASE Flush(c) \/ Commit(c)
  BY <1>6 DEF Flush, Commit, Go, Shape
<1>7. QED
  BY <1>1, <1>2, <1>3, <1>4, <1>5, <1>6 DEF Step, Work

\* The rows change at a commit only, and what was told at the return from one.
LEMMA RowsFrame ==
    ASSUME NEW c \in Callers, Step(c)
    PROVE  /\ ~Commit(c) => UNCHANGED rows
           /\ ~Return(c) => UNCHANGED started
<1>1. CASE FindPath(c) \/ MakeFile(c) \/ ReadSchema(c) \/ Acquire(c) \/ Late(c)
  BY <1>1 DEF FindPath, MakeFile, ReadSchema, Acquire, Late
<1>2. CASE Ask(c) \/ IOError(c) \/ Crash(c) \/ Flush(c)
  BY <1>2 DEF Ask, Operate, IOError, Crash, Flush
<1>3. CASE Create(c) \/ Migrate(c) \/ Begin(c) \/ Finish(c)
  BY <1>3 DEF Create, Migrate, Begin, Finish, Change, Quit
<1>4. CASE Commit(c) \/ Return(c)
  BY <1>4 DEF Commit, Return
<1>5. QED
  BY <1>1, <1>2, <1>3, <1>4 DEF Step, Work

\* A caller gets a call to run from Ask, or from the schema it has read.
LEMMA CallFrame ==
    ASSUME Shape, NEW c \in Callers, Step(c)
    PROVE  Asked(call'[c]) /\ (call'[c] = call[c] \/ at'[c] \notin Writing \cup {"committed"})
<1>1. Asked(NoCall) /\ Asked([op |-> "create"]) /\ Asked([op |-> "migrate"]) /\ Asked(call[c])
  BY DEF Asked, NoCall, Shape
<1>2. CASE FindPath(c) \/ MakeFile(c)
  BY <1>1, <1>2 DEF FindPath, MakeFile, End, Go, Shape, Writing
<1>3. CASE ReadSchema(c)
  BY <1>1, <1>3 DEF ReadSchema, End, Run, Go, Shape, Writing
<1>4. CASE Ask(c)
  <2>1. PICK what : Operate(c, what) /\ Asked(what)
    <3>1. ASSUME NEW p \in Plans, NEW t \in J!Targets, NEW h \in Payloads, NEW gs \in J!GuardKeys(t)
          PROVE  Asked([op |-> "begin", p |-> p, t |-> t, h |-> h, gs |-> gs])
      BY DEF Asked
    <3>2. ASSUME NEW p \in Plans, NEW s \in J!FinishStatuses
          PROVE  Asked([op |-> "finish", p |-> p, s |-> s])
      BY DEF Asked
    <3>3. QED
      BY <1>4, <3>1, <3>2 DEF Ask
  <2>2. QED
    BY <2>1 DEF Operate, Run, Go, Shape, Writing
<1>5. CASE Late(c) \/ IOError(c) \/ Crash(c) \/ Return(c)
  BY <1>1, <1>5 DEF Late, IOError, Crash, Return, Fail, End, Go, Shape, Writing
<1>6. CASE Create(c) \/ Migrate(c) \/ Begin(c) \/ Finish(c)
  BY <1>1, <1>6 DEF Create, Migrate, Begin, Finish, Change, Quit, End, Go, Shape, Writing
<1>7. CASE Flush(c) \/ Commit(c) \/ Acquire(c)
  BY <1>1, <1>7 DEF Flush, Commit, Acquire
<1>8. QED
  BY <1>2, <1>3, <1>4, <1>5, <1>6, <1>7 DEF Step, Work

\* The lock goes to one caller, and comes back from its holder.
LEMMA LockFrame ==
    ASSUME Shape, Locked, NEW c \in Callers, Step(c)
    PROVE  /\ at'[c] \in Writing => lock' = c
           /\ \A d \in Callers \ {c} : lock = d => lock' = d
           /\ at'[c] \in {"changed", "flushed"} => Pending(call[c]) /\ call'[c] = call[c] /\ ~Commit(c)
           /\ Commit(c) => lock = c /\ Pending(call[c])
<1>1. CASE FindPath(c) \/ MakeFile(c)
  BY <1>1 DEF FindPath, MakeFile, End, Go, Shape, Writing, disk, Commit
<1>2. CASE ReadSchema(c)
  BY <1>2 DEF ReadSchema, End, Run, Go, Shape, Writing, Commit
<1>3. CASE Ask(c)
  BY <1>3 DEF Ask, Operate, Run, Go, Shape, Writing, Commit
<1>4. CASE Acquire(c)
  BY <1>4, CallersAssumption DEF Acquire, LockFree, Go, Shape, Writing, Commit
<1>5. CASE Late(c) \/ Return(c)
  BY <1>5 DEF Late, Return, Fail, End, Go, Shape, Writing, disk, Commit
<1>6. CASE IOError(c) \/ Crash(c)
  BY <1>6 DEF IOError, Crash, Fail, End, Go, Release, Shape, Locked, Writing, Commit
<1>7. CASE Create(c) \/ Migrate(c)
  BY <1>7 DEF Create, Migrate, Change, Quit, Release, End, Go, Shape, Locked, Writing, disk,
              Pending, Commit
<1>8. CASE Begin(c) \/ Finish(c)
  BY <1>8 DEF Begin, Finish, Change, Quit, Release, End, Go, Shape, Locked, Writing, disk,
              Pending, Commit
<1>9. CASE Flush(c)
  BY <1>9 DEF Flush, Go, Shape, Locked, Writing, Commit
<1>10. CASE Commit(c)
  BY <1>10 DEF Commit, Release, Go, Shape, Locked, Writing
<1>11. QED
  BY <1>1, <1>2, <1>3, <1>4, <1>5, <1>6, <1>7, <1>8, <1>9, <1>10 DEF Step, Work

\* A commit is a step of the journal, or changes its schema only.
LEMMA CommitFacts ==
    ASSUME FInv, NEW c \in Callers, Commit(c)
    PROVE  /\ J!Next \/ UNCHANGED rows
           /\ \A p \in Plans : J!Recorded(p) => J!Recorded(p)'
           /\ status' = [p \in Plans |-> status'[p]]
           /\ call[c].op = "begin" => /\ call[c].p \in Plans /\ ~J!Recorded(call[c].p)
                                      /\ status'[call[c].p] # "absent"
<1> DEFINE k == call[c]
<1>1. Asked(k) /\ Pending(k) /\ Stored(k) /\ status = [p \in Plans |-> status[p]]
  <2>1. Step(c)
    BY DEF Step, Work
  <2>2. QED
    BY <2>1, LockFrame DEF FInv, Shape, Commit
<1> HIDE DEF k
<1>2. CASE k.op = "begin"
  <2>1. J!Begin(k.p, k.t, k.h, k.gs) /\ ~J!Recorded(k.p)
    BY <1>1, <1>2 DEF Pending, Stored, J!Begin, J!BeginReply
  <2>2. J!Next
    BY <1>1, <1>2, <2>1 DEF J!Next, Asked
  <2>3. status' = [status EXCEPT ![k.p] = "in_flight"] /\ k.p \in Plans
    BY <1>1, <1>2, <2>1 DEF J!Begin, J!InsertAttempt, Asked
  <2>4. \A p \in Plans : J!Recorded(p) => J!Recorded(p)'
    BY <1>1, <2>3 DEF J!Recorded
  <2>5. QED
    BY <1>1, <2>1, <2>2, <2>3, <2>4 DEF k
<1>3. CASE k.op = "finish"
  <2>1. J!Finish(k.p, k.s) /\ status' = [status EXCEPT ![k.p] = k.s] /\ k.s # "absent"
    BY <1>1, <1>3 DEF Pending, Stored, J!Finish, Asked, J!FinishStatuses
  <2>2. J!Next
    BY <1>1, <1>3, <2>1 DEF J!Next, Asked
  <2>3. QED
    BY <1>1, <1>3, <2>1, <2>2 DEF J!Recorded, k
<1>4. CASE k.op \notin {"begin", "finish"}
  <2>1. UNCHANGED rows
    BY <1>1, <1>4 DEF Stored
  <2>2. QED
    BY <1>1, <1>4, <2>1 DEF rows, J!Recorded, k
<1>5. QED
  BY <1>2, <1>3, <1>4

\* A call stays right as long as the rows stay.
LEMMA SamePending ==
    ASSUME UNCHANGED rows, NEW c \in Callers, call'[c] = call[c], Pending(call[c])
    PROVE  Pending(call[c])'
BY DEF Pending, rows, J!BeginReply, J!FinishReply, J!Recorded, J!Conflicting, J!Open,
       J!LegacyOpen, J!GuardHeld, J!TargetOpen, J!TargetComplete

\* Only Commit ends in a commit that its caller does not know of yet.
LEMMA NotCommitted ==
    ASSUME Shape, NEW c \in Callers, Step(c), ~Commit(c)
    PROVE  at'[c] # "committed"
<1>1. CASE FindPath(c) \/ MakeFile(c)
  BY <1>1 DEF FindPath, MakeFile, End, Go, Shape
<1>2. CASE ReadSchema(c) \/ Ask(c) \/ Acquire(c)
  BY <1>2 DEF ReadSchema, Ask, Operate, Acquire, End, Run, Go, Shape
<1>3. CASE Late(c) \/ IOError(c) \/ Crash(c) \/ Return(c) \/ Flush(c)
  BY <1>3 DEF Late, IOError, Crash, Return, Flush, Fail, End, Go, Shape
<1>4. CASE Create(c) \/ Migrate(c) \/ Begin(c) \/ Finish(c)
  BY <1>4 DEF Create, Migrate, Begin, Finish, Change, Quit, End, Go, Shape
<1>5. QED
  BY <1>1, <1>2, <1>3, <1>4 DEF Step, Work

-----------------------------------------------------------------------------
\* Nothing is stored that was not found to be right under the lock it is stored under.
LEMMA LockedKeeps ==
    ASSUME FInv, NEW c \in Callers, Step(c)
    PROVE  Locked'
<1> SUFFICES ASSUME NEW d \in Callers
             PROVE  /\ at'[d] \in Writing => lock' = d
                    /\ at'[d] \in {"changed", "flushed"} => Pending(call[d])' 
  BY DEF Locked, Writing
<1>1. /\ at'[c] \in Writing => lock' = c
      /\ \A e \in Callers \ {c} : lock = e => lock' = e
      /\ at'[c] \in {"changed", "flushed"} => Pending(call[c]) /\ call'[c] = call[c] /\ ~Commit(c)
      /\ Commit(c) => lock = c
  BY LockFrame DEF FInv
<1>2. CASE d = c
  <2>1. at'[c] \in {"changed", "flushed"} => UNCHANGED rows
    BY <1>1, RowsFrame
  <2>2. at'[c] \in {"changed", "flushed"} => Pending(call[c])'
    BY <1>1, <2>1, SamePending
  <2>3. QED
    BY <1>1, <1>2, <2>2
<1>3. CASE d # c
  <2>1. at'[d] = at[d] /\ call'[d] = call[d]
    BY <1>3, Frame DEF FInv
  <2>2. at[d] \in Writing => lock = d /\ lock' = d /\ UNCHANGED rows
    BY <1>1, <1>3, RowsFrame DEF FInv, Locked
  <2>3. at[d] \in {"changed", "flushed"} => Pending(call[d])
    BY DEF FInv, Locked
  <2>4. at'[d] \in {"changed", "flushed"} => Pending(call[d])'
    BY <2>1, <2>2, <2>3, SamePending DEF Writing
  <2>5. QED
    BY <2>1, <2>2, <2>4
<1>4. QED
  BY <1>2, <1>3

\* write_journal.py:50-78: who is told "started" has just made the row.
LEMMA ToldKeeps ==
    ASSUME FInv, NEW c \in Callers, Step(c)
    PROVE  ToldOnce' /\ started' \in SUBSET (Callers \X Plans)
                /\ status' = [p \in Plans |-> status'[p]]
<1>1. CASE Commit(c)
  <2>1. /\ \A p \in Plans : J!Recorded(p) => J!Recorded(p)'
        /\ status' = [p \in Plans |-> status'[p]]
        /\ call[c].op = "begin" => /\ call[c].p \in Plans /\ ~J!Recorded(call[c].p)
                                   /\ status'[call[c].p] # "absent"
    BY <1>1, CommitFacts
  <2>2. started' = started /\ call' = call /\ at' = [at EXCEPT ![c] = "committed"]
    BY <1>1 DEF Commit, Go
  <2>3. \A d \in Callers, p \in Plans : Told(d, p)' =>
            Told(d, p) \/ (d = c /\ call[c].op = "begin" /\ call[c].p = p)
    BY <2>2 DEF Told, FInv, Shape
  <2>4. QED
    BY <2>1, <2>2, <2>3 DEF FInv, ToldOnce, J!Recorded, Shape
<1>2. CASE ~Commit(c)
  <2>1. UNCHANGED rows
    BY <1>2, RowsFrame
  <2>2. \A d \in Callers, p \in Plans : Told(d, p)' => Told(d, p)
    <3>1. CASE Return(c)
      <4>1. /\ at[c] = "committed" /\ at' = [at EXCEPT ![c] = "ready"]
            /\ \A r : r \in started' => r \in started \/ (call[c].op = "begin" /\ r = <<c, call[c].p>>)
        BY <3>1 DEF Return, End, Go
      <4>2. QED
        BY <3>1, <4>1, Frame DEF Told, FInv, Shape
    <3>2. CASE ~Return(c)
      <4>1. started' = started
        BY <3>2, RowsFrame
      <4>2. at'[c] # "committed"
        BY <1>2, <3>2, NotCommitted DEF FInv
      <4>3. QED
        BY <4>1, <4>2, Frame DEF Told, FInv
    <3>3. QED
      BY <3>1, <3>2
  <2>3. started' \in SUBSET (Callers \X Plans)
    <3>1. CASE Return(c)
      BY <3>1 DEF Return, FInv, Shape, Asked
    <3>2. CASE ~Return(c)
      BY <3>2, RowsFrame DEF FInv, Shape
    <3>3. QED
      BY <3>1, <3>2
  <2>4. QED
    BY <2>1, <2>2, <2>3 DEF FInv, ToldOnce, J!Recorded, rows, Shape
<1>3. QED
  BY <1>1, <1>2

\* What is known of the file holds at every step.
LEMMA FileKeeps == FInv /\ [Next]_vars => FInv'
<1> SUFFICES ASSUME FInv, [Next]_vars PROVE FInv'
  OBVIOUS
<1>1. ASSUME NEW c \in Callers, Step(c)
      PROVE  FInv'
  <2>1. Shape'
    <3>1. \A d \in Callers : Asked(call'[d])
      BY <1>1, CallFrame, Frame DEF FInv, Shape
    <3>2. QED
      BY <1>1, <3>1, Frame, ToldKeeps DEF FInv, Shape, Asked, J!Targets
  <2>2. QED
    BY <1>1, <2>1, LockedKeeps, ToldKeeps DEF FInv
<1>2. CASE UNCHANGED vars
  <2>1. UNCHANGED rows /\ UNCHANGED <<at, call, created, error, started, lock>>
    BY <1>2 DEF vars, disk
  <2>2. Shape' /\ ToldOnce'
    BY <2>1 DEF FInv, Shape, ToldOnce, Told, rows, J!Recorded, Asked
  <2>3. \A c \in Callers : Pending(call[c]) => Pending(call[c])'
    BY <2>1, SamePending
  <2>4. Locked'
    BY <2>1, <2>3 DEF FInv, Locked
  <2>5. QED
    BY <2>2, <2>4 DEF FInv
<1>3. QED
  BY <1>1, <1>2 DEF Next, Step

\* It holds to begin with, and the journal begins as specified.
LEMMA FileStarts == Init => FInv /\ J!Init
<1> SUFFICES ASSUME Init PROVE FInv /\ J!Init
  OBVIOUS
<1>1. J!Init /\ status = [p \in Plans |-> status[p]]
  BY DEF Init, J!Init
<1>2. Shape
  BY <1>1 DEF Init, Shape, Asked, NoCall
<1>3. Locked /\ ToldOnce
  BY DEF Init, Locked, ToldOnce, Told, Writing
<1>4. QED
  BY <1>1, <1>2, <1>3 DEF FInv

\* Whoever opens, commits, fails or dies: the file and its callers fit (write_journal.py:77-238).
THEOREM FileInvariant == Spec => []FInv
BY FileStarts, FileKeeps, PTL DEF Spec

-----------------------------------------------------------------------------
\* A step leaves the rows alone, or is a step of the journal.
LEMMA JournalSteps == FInv /\ [Next]_vars => [J!Next]_(J!vars)
<1> SUFFICES ASSUME FInv, [Next]_vars PROVE J!Next \/ UNCHANGED rows
  BY DEF rows, J!vars
<1>1. ASSUME NEW c \in Callers, Step(c)
      PROVE  J!Next \/ UNCHANGED rows
  BY <1>1, RowsFrame, CommitFacts
<1>2. CASE UNCHANGED vars
  BY <1>2 DEF vars
<1>3. QED
  BY <1>1, <1>2 DEF Next, Step

\* write_journal.py:33-190: under any interleaving of connections, with any failures
\* and deaths, the committed rows change as begin and finish of the abstract journal.
THEOREM JournalHolds == Spec => Journal
BY JournalSteps, FileStarts, FileInvariant, PTL DEF Spec, Journal, J!Spec

\* write_journal.py:50-78, 152: one caller at most is told "started" for a plan, and
\* its row is on disk by then.
THEOREM StartedOnceHolds == Spec => []StartedOnce
<1>1. FInv => StartedOnce
  <2> SUFFICES ASSUME FInv, NEW r \in started
               PROVE  /\ J!Recorded(r[2])
                      /\ \A s \in started : r[2] = s[2] => r[1] = s[1]
    BY DEF StartedOnce
  <2>1. \A s \in started : s[1] \in Callers /\ s[2] \in Plans /\ s = <<s[1], s[2]>>
    BY DEF FInv, Shape
  <2>2. \A s \in started : Told(s[1], s[2])
    BY <2>1 DEF Told
  <2>3. QED
    BY <2>1, <2>2 DEF FInv, ToldOnce
<1>2. QED
  BY <1>1, FileInvariant, PTL

-----------------------------------------------------------------------------
(***************************************************************************)
(* Who finds which schema                                                  *)
(***************************************************************************)
\* c has made the file and has not given up.
Alive(c) == created[c] /\ at[c] # "out"

\* Whoever made the file is writing its schema, and leaves a table or nothing.
Doomed == \A d \in Callers : Alive(d) => at[d] = "flushed"

\* A file without tables: its maker may still make them, others can only find none.
Bare ==
    /\ dirty => Doomed
    /\ \A c \in Callers :
          /\ (at[c] \notin {"out", "no_file"} /\ ~created[c]) => at[c] = "prepared" /\ Doomed
          /\ error[c] = "no_table" => \A d \in Callers : ~Alive(d)

Opened ==
    /\ file \in {"absent", "empty", "v1", "v2"}
    /\ file = "absent" => dirty = FALSE /\ \A c \in Callers : at[c] \in {"out", "no_file"}
    /\ file = "empty" => Bare
    /\ \A c, d \in Callers : Alive(c) /\ Alive(d) => c = d
    /\ \A c \in Callers :
          /\ at[c] = "no_file" => ~created[c]
          /\ at[c] = "prepared" => call[c].op = "none"
          /\ at[c] = "flushed" => dirty
          /\ at[c] \in {"ready", "committed"} \/ call[c].op \in {"begin", "finish"} => file = "v2"
          /\ call[c].op = "migrate" => file \in {"v1", "v2"}
          /\ error[c] # "table_exists"
          /\ error[c] = "no_table" => file = "empty"

Alone(c) ==
    \A d \in Callers \ {c} : at'[d] = at[d] /\ call'[d] = call[d] /\ error'[d] = error[d]

\* A call that ends does nothing to the others.
LEMMA EndFacts ==
    ASSUME Shape, NEW c \in Callers, NEW place, NEW r, End(c, place, r)
    PROVE  at'[c] = place /\ call'[c].op = "none" /\ error'[c] = r /\ Alone(c)
BY DEF End, Go, NoCall, Shape, Alone

\* Nor does one that begins.
LEMMA RunFacts ==
    ASSUME Shape, NEW c \in Callers, NEW what, Run(c, what)
    PROVE  at'[c] = "waiting" /\ call'[c] = what /\ error'[c] = "none" /\ Alone(c)
BY DEF Run, Go, Shape, Alone

\* A transaction without changes ends.
LEMMA QuitKeeps ==
    ASSUME Opened, Shape, Locked, NEW c \in Callers, at[c] = "begun", NEW place \in {"ready", "out"},
           NEW r \in Errors \ {"no_table", "table_exists"}, Quit(c, place, r),
           place = "ready" => file = "v2"
    PROVE  Opened'
<1>1. /\ at'[c] = place /\ call'[c].op = "none" /\ error'[c] = r /\ Alone(c)
      /\ dirty' = FALSE /\ UNCHANGED <<file, created>>
  BY EndFacts DEF Quit, Release
<1>2. \A d \in Callers : at[d] # "flushed" \/ d = c
  BY DEF Locked, Writing
<1>3. QED
  BY <1>1, <1>2 DEF Opened, Bare, Doomed, Alive, Alone

\* A read: whoever was writing the file is dead, or has rolled back.
LEMMA ReadFacts ==
    ASSUME Opened, Locked, Readable
    PROVE  \A d \in Callers : at[d] # "flushed"
BY CallersAssumption DEF Opened, Locked, Writing, Readable

\* How far a call has come says what the file has.
LEMMA OpenedKeeps ==
    ASSUME FInv, Opened, NEW c \in Callers, Step(c)
    PROVE  Opened'
<1> USE DEF Opened, Bare, Doomed, Alive
<1>0. Shape /\ Locked /\ \A d \in Callers \ {c} : created'[d] = created[d]
  BY Frame DEF FInv
<1>1. CASE FindPath(c)
  <2>1. created'[c] = FALSE /\ at[c] = "out" /\ UNCHANGED <<file, dirty>>
    BY <1>0, <1>1 DEF FindPath, Shape, disk
  <2>2. PICK place, r : /\ End(c, place, r) /\ r \in {"none", "empty_file"}
                        /\ \/ place = "out"
                           \/ place = "no_file"
                           \/ place = "prepared" /\ file # "absent" /\ (file = "empty" => dirty)
    BY <1>1 DEF FindPath, SizeIsZero
  <2>3. at'[c] = place /\ call'[c].op = "none" /\ error'[c] = r /\ Alone(c)
    BY <1>0, <2>2, EndFacts
  <2>4. QED
    BY <1>0, <2>1, <2>2, <2>3 DEF Alone
<1>2. CASE MakeFile(c)
  <2>1. dirty' = dirty /\ at[c] = "no_file"
    BY <1>2 DEF MakeFile
  <2>2. CASE file = "absent"
    <3>1. file' = "empty" /\ created'[c] = TRUE /\ End(c, "prepared", "none")
      BY <1>0, <1>2, <2>2 DEF MakeFile, Shape
    <3>2. at'[c] = "prepared" /\ call'[c].op = "none" /\ error'[c] = "none" /\ Alone(c)
      BY <1>0, <3>1, EndFacts
    <3>3. QED
      BY <1>0, <2>1, <2>2, <3>1, <3>2 DEF Alone
  <2>3. CASE file # "absent"
    <3>1. UNCHANGED <<file, created>> /\ End(c, "out", "file_exists")
      BY <1>2, <2>3 DEF MakeFile
    <3>2. at'[c] = "out" /\ call'[c].op = "none" /\ error'[c] = "file_exists" /\ Alone(c)
      BY <1>0, <3>1, EndFacts
    <3>3. QED
      BY <1>0, <2>1, <2>3, <3>1, <3>2 DEF Alone
  <2>4. QED
    BY <2>2, <2>3
<1>3. CASE ReadSchema(c)
  <2>1. at[c] = "prepared" /\ dirty' = FALSE /\ UNCHANGED <<file, created>>
    BY <1>3 DEF ReadSchema
  <2>2. \A d \in Callers : at[d] # "flushed"
    BY <1>0, <1>3, ReadFacts DEF ReadSchema
  <2>3. CASE file = "v2" /\ End(c, "ready", "none")
    <3>1. at'[c] = "ready" /\ call'[c].op = "none" /\ error'[c] = "none" /\ Alone(c)
      BY <1>0, <2>3, EndFacts
    <3>2. QED
      BY <1>0, <2>1, <2>2, <2>3, <3>1 DEF Alone
  <2>4. CASE file = "v1" /\ Run(c, [op |-> "migrate"])
    <3>1. at'[c] = "waiting" /\ call'[c].op = "migrate" /\ error'[c] = "none" /\ Alone(c)
      BY <1>0, <2>4, RunFacts
    <3>2. QED
      BY <1>0, <2>1, <2>2, <2>4, <3>1 DEF Alone
  <2>5. CASE file = "empty" /\ created[c] /\ Run(c, [op |-> "create"])
    <3>1. at'[c] = "waiting" /\ call'[c].op = "create" /\ error'[c] = "none" /\ Alone(c)
      BY <1>0, <2>5, RunFacts
    <3>2. QED
      BY <1>0, <2>1, <2>2, <2>5, <3>1 DEF Alone
  <2>6. CASE file = "empty" /\ ~created[c] /\ End(c, "out", "no_table")
    <3>1. at'[c] = "out" /\ call'[c].op = "none" /\ error'[c] = "no_table" /\ Alone(c)
      BY <1>0, <2>6, EndFacts
    <3>2. QED
      BY <1>0, <2>1, <2>2, <2>6, <3>1 DEF Alone
  <2>7. QED
    BY <1>3, <2>1, <2>3, <2>4, <2>5, <2>6 DEF ReadSchema
<1>4. CASE Ask(c)
  <2>1. PICK what : Operate(c, what)
    BY <1>4 DEF Ask
  <2>2. /\ at[c] = "ready" /\ file = "v2" /\ dirty' = FALSE /\ UNCHANGED <<file, created>>
        /\ Run(c, what) /\ Readable
    BY <2>1 DEF Operate
  <2>3. at'[c] = "waiting" /\ error'[c] = "none" /\ Alone(c)
    BY <1>0, <2>2, RunFacts
  <2>4. \A d \in Callers : at[d] # "flushed"
    BY <1>0, <2>2, ReadFacts
  <2>5. QED
    BY <1>0, <2>2, <2>3, <2>4 DEF Alone
<1>5. CASE Acquire(c)
  BY <1>5, CallersAssumption DEF Acquire, LockFree, Go, FInv, Shape, Locked, Writing
<1>6. CASE Late(c)
  <2>1. /\ at[c] \in {"waiting", "prepared"} /\ UNCHANGED <<file, dirty, created>>
        /\ End(c, IF Constructing(c) THEN "out" ELSE "ready", "locked")
    BY <1>6 DEF Late, Fail, disk
  <2>2. Constructing(c) \/ file = "v2"
    BY <1>0 DEF Constructing, Shape, Asked
  <2>3. /\ at'[c] = "out" \/ (at'[c] = "ready" /\ file = "v2")
        /\ call'[c].op = "none" /\ error'[c] = "locked" /\ Alone(c)
    BY <1>0, <2>1, <2>2, EndFacts
  <2>4. QED
    BY <1>0, <2>1, <2>3 DEF Alone
<1>7. CASE Create(c)
  BY <1>7 DEF Create, Change, Go, disk, FInv, Shape, Locked, Writing
<1>8. CASE Migrate(c)
  <2>1. CASE Change(c)
    BY <1>8, <2>1 DEF Migrate, Change, Go, disk, FInv, Shape
  <2>2. CASE file # "v1" /\ Quit(c, "ready", "none")
    BY <1>0, <1>8, <2>2, QuitKeeps DEF Migrate, Errors
  <2>3. QED
    BY <1>8, <2>1, <2>2 DEF Migrate
<1>9. CASE Begin(c) \/ Finish(c)
  <2>1. CASE Change(c)
    BY <1>9, <2>1 DEF Begin, Finish, Change, Go, disk, FInv, Shape
  <2>2. CASE \E r \in {"none", "refused"} : Quit(c, "ready", r)
    <3>1. at[c] = "begun" /\ file = "v2"
      BY <1>9 DEF Begin, Finish
    <3>2. QED
      BY <1>0, <2>2, <3>1, QuitKeeps DEF Errors
  <2>3. QED
    BY <1>9, <2>1, <2>2 DEF Begin, Finish
<1>10. CASE Flush(c)
  BY <1>10 DEF Flush, Go, FInv, Shape, Locked, Writing
<1>11. CASE Commit(c)
  BY <1>11 DEF Commit, Stored, Release, Go, FInv, Shape, Locked, Writing
<1>12. CASE Return(c)
  BY <1>12 DEF Return, End, Go, NoCall, disk, FInv, Shape
<1>13. CASE IOError(c)
  <2>1. /\ at[c] \in Writing /\ UNCHANGED <<file, created>> /\ dirty' = FALSE
        /\ End(c, IF Constructing(c) THEN "out" ELSE "ready", "io_error")
    BY <1>13 DEF IOError, Fail, Release, Writing
  <2>2. Constructing(c) \/ file = "v2"
    BY <1>0 DEF Constructing, Shape, Asked
  <2>3. \A d \in Callers : at[d] # "flushed" \/ d = c
    BY <1>0, <2>1 DEF Locked, Writing
  <2>4. /\ at'[c] = "out" \/ (at'[c] = "ready" /\ file = "v2")
        /\ call'[c].op = "none" /\ error'[c] = "io_error" /\ Alone(c)
    BY <1>0, <2>1, <2>2, EndFacts
  <2>5. QED
    BY <1>0, <2>1, <2>3, <2>4 DEF Alone, Writing
<1>14. CASE Crash(c)
  BY <1>14 DEF Crash, End, Go, NoCall, FInv, Shape
<1>15. QED
  BY <1>1, <1>2, <1>3, <1>4, <1>5, <1>6, <1>7, <1>8, <1>9, <1>10, <1>11, <1>12, <1>13, <1>14
  DEF Step, Work

\* Whoever opens the path, the schema in it is what its makers have come to
\* (write_journal.py:77-180).
THEOREM OpenedInvariant == Spec => []Opened
<1>1. Init => Opened
  BY DEF Init, Opened, Alive, NoCall
<1>2. FInv /\ Opened /\ [Next]_vars => Opened'
  <2>1. ASSUME UNCHANGED vars, Opened
        PROVE  Opened'
    BY <2>1 DEF vars, disk, Opened, Bare, Doomed, Alive
  <2>2. QED
    BY <2>1, OpenedKeeps DEF Next, Step
<1>3. QED
  BY <1>1, <1>2, FileInvariant, PTL DEF Spec

\* write_journal.py:208-211, 276-286: what is ready has a complete schema under it, no
\* migration trips over another, and only a failed creation leaves no table.
THEOREM OpenedRightHolds == Spec => []OpenedRight
<1>1. Opened => OpenedRight
  BY DEF Opened, OpenedRight
<1>2. QED
  BY <1>1, OpenedInvariant, PTL

-----------------------------------------------------------------------------
(***************************************************************************)
(* Types                                                                   *)
(***************************************************************************)
\* begin and finish keep the columns of the journal in their types.
LEMMA RowsTyped == J!TypeOK /\ [J!Next]_(J!vars) => J!TypeOK'
<1> SUFFICES ASSUME J!TypeOK, [J!Next]_(J!vars) PROVE J!TypeOK'
  OBVIOUS
<1> USE DEF J!TypeOK, J!Recorded
<1>1. ASSUME NEW p \in Plans, NEW t \in J!Targets, NEW h \in Payloads,
             NEW gs \in J!GuardKeys(t), J!Begin(p, t, h, gs)
      PROVE  J!TypeOK'
  <2>1. {t} \cup gs \in SUBSET J!Keys
    BY DEF J!GuardKeys, J!Keys
  <2>2. QED
    BY <1>1, <2>1 DEF J!Begin, J!InsertAttempt, J!Statuses, J!FinishStatuses
<1>2. ASSUME NEW p \in Plans, NEW s \in J!FinishStatuses, J!Finish(p, s)
      PROVE  J!TypeOK'
  BY <1>2 DEF J!Finish, J!FinishReply, J!Statuses, J!FinishStatuses
<1>3. CASE UNCHANGED J!vars
  BY <1>3 DEF J!vars
<1>4. QED
  BY <1>1, <1>2, <1>3 DEF J!Next

Idle == {"ready", "out", "no_file", "prepared"}

\* What TypeOK says of c, and of the file as far as c is concerned.
Typed(c) ==
    /\ dirty \in BOOLEAN
    /\ lock \in Callers \cup {NoCaller}
    /\ at[c] \in Places /\ created[c] \in BOOLEAN
    /\ call[c] \in Calls /\ error[c] \in Errors
    /\ at[c] \in Writing <=> lock = c
    /\ at[c] \in Idle <=> call[c] = NoCall
    /\ dirty /\ lock = c => at[c] = "flushed"

\* The lock and the pages of an unfinished commit, as far as others than c are concerned.
Aside(c) ==
    /\ \A d \in Callers \ {c} : lock' = d <=> lock = d
    /\ dirty' => dirty \/ lock' = c

\* c is through: it holds no lock, and has no call.
LEMMA EndTyped ==
    ASSUME Shape, NEW c \in Callers, Typed(c), NEW place \in Idle, NEW r \in Errors,
           End(c, place, r), created'[c] \in BOOLEAN,
           \/ lock # c /\ lock' = lock /\ (dirty' = dirty \/ dirty' = FALSE)
           \/ lock = c /\ lock' = NoCaller /\ dirty' \in BOOLEAN /\ (dirty' => dirty)
    PROVE  Typed(c)' /\ Aside(c)
<1>1. at'[c] = place /\ call'[c] = NoCall /\ error'[c] = r /\ NoCall \in Calls
  BY DEF End, Go, Shape, Calls
<1>2. place \in Places /\ place \notin Writing /\ lock' # c /\ lock' \in Callers \cup {NoCaller}
  BY CallersAssumption DEF Idle, Places, Writing, Typed
<1>3. dirty' \in BOOLEAN
  BY DEF Typed
<1>4. Typed(c)'
  BY <1>1, <1>2, <1>3 DEF Typed
<1>5. Aside(c)
  BY CallersAssumption DEF Aside
<1>6. QED
  BY <1>4, <1>5

\* c waits for the lock with a call of its own.
LEMMA RunTyped ==
    ASSUME Shape, NEW c \in Callers, Typed(c), lock # c, NEW what \in Calls, what.op # "none",
           Run(c, what), dirty' = FALSE, lock' = lock, created' = created
    PROVE  Typed(c)' /\ Aside(c)
<1>1. at'[c] = "waiting" /\ call'[c] = what /\ error'[c] = "none"
  BY DEF Run, Go, Shape
<1>2. what # NoCall
  BY DEF NoCall
<1>3. "waiting" \in Places \ (Writing \cup Idle) /\ "none" \in Errors
  BY DEF Places, Writing, Idle, Errors
<1>4. QED
  BY <1>1, <1>2, <1>3 DEF Typed, Aside

\* A step of one caller keeps its types, and those of the others.
LEMMA StepTyped ==
    ASSUME FInv, NEW c \in Callers, Typed(c), Step(c)
    PROVE  Typed(c)' /\ Aside(c)
<1>0. Shape /\ Locked /\ call[c] \in Calls /\ Asked(call[c])
  BY DEF FInv, Shape, Typed
<1>1. CASE FindPath(c)
  <2>1. lock # c /\ lock' = lock /\ dirty' = dirty /\ created'[c] = FALSE
    BY <1>0, <1>1 DEF FindPath, disk, Shape, Typed, Writing
  <2>2. QED
    BY <1>0, <1>1, <2>1, EndTyped DEF FindPath, Idle, Errors
<1>2. CASE MakeFile(c)
  <2>1. lock # c /\ lock' = lock /\ dirty' = dirty /\ created'[c] \in BOOLEAN
    BY <1>0, <1>2 DEF MakeFile, Shape, Typed, Writing
  <2>2. QED
    BY <1>0, <1>2, <2>1, EndTyped DEF MakeFile, Idle, Errors
<1>3. CASE ReadSchema(c)
  <2>1. lock # c /\ lock' = lock /\ dirty' = FALSE /\ created' = created
    BY <1>3 DEF ReadSchema, Typed, Writing
  <2>2. CASE \E place \in Idle, r \in Errors : End(c, place, r)
    BY <1>0, <2>1, <2>2, EndTyped DEF Typed
  <2>3. CASE Run(c, [op |-> "migrate"]) \/ Run(c, [op |-> "create"])
    <3>1. [op |-> "migrate"] \in Calls /\ [op |-> "create"] \in Calls
      BY DEF Calls
    <3>2. QED
      BY <1>0, <2>1, <2>3, <3>1, RunTyped
  <2>4. QED
    BY <1>3, <2>2, <2>3 DEF ReadSchema, Idle, Errors
<1>4. CASE Ask(c)
  <2>1. PICK what \in Calls : Operate(c, what) /\ what.op # "none"
    <3>1. ASSUME NEW p \in Plans, NEW t \in J!Targets, NEW h \in Payloads, NEW gs \in J!GuardKeys(t)
          PROVE  [op |-> "begin", p |-> p, t |-> t, h |-> h, gs |-> gs] \in Calls
      <4>1. gs \in SUBSET Contents
        BY DEF J!GuardKeys
      <4>2. QED
        BY <4>1 DEF Calls
    <3>2. ASSUME NEW p \in Plans, NEW s \in J!FinishStatuses
          PROVE  [op |-> "finish", p |-> p, s |-> s] \in Calls
      BY DEF Calls
    <3>3. QED
      BY <1>4, <3>1, <3>2 DEF Ask
  <2>2. QED
    BY <1>0, <2>1, RunTyped DEF Operate, Typed, Writing
<1>5. CASE Acquire(c)
  BY <1>0, <1>5, CallersAssumption
  DEF Acquire, LockFree, Go, Shape, Typed, Aside, Idle, Writing, Places
<1>6. CASE Late(c)
  BY <1>0, <1>6, EndTyped DEF Late, Fail, disk, Typed, Idle, Writing, Errors
<1>7. CASE Return(c)
  BY <1>0, <1>7, EndTyped DEF Return, disk, Typed, Idle, Writing, Errors
<1>8. CASE IOError(c)
  BY <1>0, <1>8, EndTyped DEF IOError, Fail, Release, Typed, Idle, Writing, Errors
<1>9. CASE Crash(c)
  <2>1. created'[c] = FALSE /\ dirty' = dirty /\ End(c, "out", "none")
        /\ lock' = IF lock = c THEN NoCaller ELSE lock
    BY <1>0, <1>9 DEF Crash, Shape
  <2>2. QED
    BY <1>0, <2>1, EndTyped DEF Typed, Idle, Errors
<1>10. ASSUME at[c] = "begun", Change(c)
       PROVE  Typed(c)' /\ Aside(c)
  BY <1>0, <1>10 DEF Change, Go, disk, Shape, Typed, Aside, Idle, Writing, Places
<1>11. ASSUME at[c] = "begun", NEW r \in Errors, Quit(c, "ready", r)
       PROVE  Typed(c)' /\ Aside(c)
  BY <1>0, <1>11, EndTyped DEF Quit, Release, Typed, Idle, Writing
<1>12. CASE Create(c) \/ Migrate(c) \/ Begin(c) \/ Finish(c)
  BY <1>10, <1>11, <1>12 DEF Create, Migrate, Begin, Finish, Errors
<1>13. CASE Flush(c)
  BY <1>0, <1>13 DEF Flush, Go, Shape, Typed, Aside, Idle, Writing, Places
<1>14. CASE Commit(c)
  BY <1>0, <1>14, CallersAssumption
  DEF Commit, Release, Go, Shape, Typed, Aside, Idle, Writing, Places
<1>15. QED
  BY <1>1, <1>2, <1>3, <1>4, <1>5, <1>6, <1>7, <1>8, <1>9, <1>12, <1>13, <1>14 DEF Step, Work

\* The types of one caller.
LEMMA TypedFromTypeOK ==
    ASSUME TypeOK, NEW c \in Callers
    PROVE  Typed(c)
BY DEF TypeOK, Typed, Writing, Idle

\* write_journal.py:193-265: the lock is held by who writes, and by nobody else, and a
\* commit that is not final has its pages in the file while its connection lives.
THEOREM TypeOKHolds == Spec => []TypeOK
<1>1. Init => TypeOK
  <2> SUFFICES ASSUME Init PROVE TypeOK
    OBVIOUS
  <2>1. J!TypeOK
    <3>1. J!Init
      BY DEF Init
    <3>2. \A p \in Plans : J!Recorded(p) => target[p] \in J!Targets
      BY <3>1 DEF J!Init, J!Recorded
    <3>3. QED
      BY <3>1, <3>2 DEF J!Init, J!TypeOK
  <2>2. QED
    BY <2>1, CallersAssumption DEF Init, TypeOK, Places, Errors, Calls
<1>2. FInv /\ Opened /\ Opened' /\ TypeOK /\ [Next]_vars => TypeOK'
  <2> SUFFICES ASSUME FInv, Opened, Opened', TypeOK, [Next]_vars PROVE TypeOK'
    OBVIOUS
  <2>1. J!TypeOK' /\ FInv' /\ file' \in {"absent", "empty", "v1", "v2"}
    BY JournalSteps, RowsTyped, FileKeeps DEF TypeOK, Opened
  <2>2. ASSUME NEW c \in Callers, Step(c)
        PROVE  TypeOK'
    <3>1. Typed(c)' /\ Aside(c)
      BY <2>2, StepTyped, TypedFromTypeOK DEF FInv
    <3>2. ASSUME NEW d \in Callers, d # c
          PROVE  Typed(d)'
      <4>1. Typed(d)
        BY TypedFromTypeOK
      <4>2. at'[d] = at[d] /\ call'[d] = call[d] /\ created'[d] = created[d] /\ error'[d] = error[d]
        BY <2>2, <3>2, Frame DEF FInv
      <4>3. QED
        BY <3>1, <3>2, <4>1, <4>2 DEF Typed, Aside
    <3>3. QED
      <4>1. Shape' /\ \A d \in Callers : Typed(d)'
        BY <2>1, <3>1, <3>2 DEF FInv
      <4>2. dirty' \in BOOLEAN /\ lock' \in Callers \cup {NoCaller}
        BY <3>1 DEF Typed
      <4>3. QED
        BY <2>1, <4>1, <4>2 DEF TypeOK, Typed, Shape, Writing, Idle
  <2>3. CASE UNCHANGED vars
    BY <2>1, <2>3 DEF vars, disk, TypeOK
  <2>4. QED
    BY <2>2, <2>3 DEF Next, Step
<1>3. QED
  BY <1>1, <1>2, FileInvariant, OpenedInvariant, PTL DEF Spec

=============================================================================
