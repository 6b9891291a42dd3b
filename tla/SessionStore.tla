---------------------------- MODULE SessionStore ----------------------------
(***************************************************************************)
(* The login sessions of the API server: sessions.py with the requests,    *)
(* the reaper and the shutdown of api.py that use it.                      *)
(*                                                                         *)
(* All of it runs on one asyncio event loop.  The body of every            *)
(* "async with self.lock" has no await in it, so the lock of the store is  *)
(* never held across a suspension: what a task does between two real       *)
(* suspensions (the lock of a session that is held, HomeTax, the close of  *)
(* a client) is one step here.  The lock of a session is an asyncio.Lock:  *)
(* first come, first served, with cancelled waiters leaving the line.      *)
(***************************************************************************)
EXTENDS Naturals, Sequences, FiniteSets

CONSTANTS
    Sessions,     \* session ids, each with the HomeTax client logged in for it
    Requests,     \* tasks that serve a request
    Reaper,       \* the background task; at the end, the task that shuts down
    NoTask, NoSession,
    Capacity,     \* settings.session_capacity
    MaxLogins     \* settings.concurrent_logins

Tasks == Requests \cup {Reaper}

ASSUME TasksAssumption ==
    /\ Reaper \notin Requests
    /\ NoTask \notin Tasks
    /\ NoSession \notin Sessions

ASSUME LimitsAssumption == Capacity \in Nat \ {0} /\ MaxLogins \in Nat \ {0}

VARIABLES
    items,     \* SessionStore.items, as a set of ids
    expired,   \* sessions whose expires_at is in the past
    client,    \* client[x]: the HomeTax client of x
    lock,      \* lock[x]: Session.lock
    task,      \* task[t]: what task t is doing
    up         \* before lifespan shuts the server down

vars == <<items, expired, client, lock, task, up>>

\* login and call have a limit of 60 seconds, status (GET session) and remove none.
Jobs == {"login", "call", "status", "remove", "sweep"}
Limited == {"login", "call"}

\* connect: client.login;  prune: at the lock of now, or closing its client;
\* wait: at the lock of x;  use: in the body of lease;  evict: remove, at the lock
\* of x or closing its client;  discard: closing a client that was not added.
TaskRecord ==
    [job: Jobs, at: {"connect", "prune", "wait", "use", "evict", "discard"},
     x: Sessions \cup {NoSession}, now: Sessions \cup {NoSession}, todo: SUBSET Sessions]
Idle == [at |-> "idle"]

LockRecord == [holder: Tasks \cup {NoTask}, waiters: Seq(Tasks)]
Unlocked == [holder |-> NoTask, waiters |-> <<>>]

\* The shape of the state; SessionStoreProofs proves its own form of it (Types there).
TypeOK ==
    /\ items \in SUBSET Sessions
    /\ expired \in SUBSET Sessions
    /\ client \in [Sessions -> {"none", "open", "closed"}]
    /\ lock \in [Sessions -> LockRecord]
    /\ task \in [Tasks -> TaskRecord \cup {Idle}]
    /\ up \in BOOLEAN

Init ==
    /\ items = {}
    /\ expired = {}
    /\ client = [x \in Sessions |-> "none"]
    /\ lock = [x \in Sessions |-> Unlocked]
    /\ task = [t \in Tasks |-> Idle]
    /\ up = TRUE

-----------------------------------------------------------------------------
(***************************************************************************)
(* asyncio.Lock, on the locks l of all sessions                            *)
(***************************************************************************)
Joining(k, t) ==
    IF k.holder = NoTask THEN [k EXCEPT !.holder = t]
    ELSE [k EXCEPT !.waiters = Append(@, t)]

Joined(l, x, t) == [l EXCEPT ![x] = Joining(l[x], t)]

\* Task t releases the lock, or, cancelled, leaves the line before it.
Leaving(k, t) ==
    IF k.holder # t THEN [k EXCEPT !.waiters = SelectSeq(@, LAMBDA u : u # t)]
    ELSE IF k.waiters = <<>> THEN Unlocked
    ELSE [holder |-> Head(k.waiters), waiters |-> Tail(k.waiters)]

Left(l, x, t) == [l EXCEPT ![x] = Leaving(l[x], t)]

Holds(t, x) == lock[x].holder = t

-----------------------------------------------------------------------------
(***************************************************************************)
(* SessionStore: what a task does once prune is through, with the items    *)
(* its and the locks l that prune has left                                 *)
(***************************************************************************)
\* _lookup; SESSION_NOT_FOUND otherwise.
Found(x, its) == x \in its /\ x \notin expired

At(job, at, x) == [job |-> job, at |-> at, x |-> x, now |-> NoSession, todo |-> {}]

\* Mutated form: one session too many.
FreePlaceOrOne(its) == Cardinality(its) <= Capacity

FreePlace(its) == Cardinality(its) < Capacity

\* Mutated form: transferred is set before add, not after it.
AddTransferred(t, x, its, l) ==
    /\ lock' = l
    /\ items' = IF FreePlace(its) THEN its \cup {x} ELSE its
    /\ task' = [task EXCEPT ![t] = Idle]

\* add: the session is stored, or SESSION_CAPACITY and login closes its client.
Add(t, x, its, l) ==
    /\ lock' = l
    /\ IF FreePlace(its)
       THEN /\ items' = its \cup {x}
            /\ task' = [task EXCEPT ![t] = Idle]
       ELSE /\ items' = its
            /\ task' = [task EXCEPT ![t] = At("login", "discard", x)]

\* lease: on to the lock of the session, if it is there.
Claim(t, job, x, its, l) ==
    /\ items' = its
    /\ IF Found(x, its)
       THEN /\ lock' = Joined(l, x, t)
            /\ task' = [task EXCEPT ![t] =
                           At(job, IF l[x].holder = NoTask THEN "use" ELSE "wait", x)]
       ELSE /\ lock' = l
            /\ task' = [task EXCEPT ![t] = Idle]

Rest(t, its, l) ==
    /\ items' = its
    /\ lock' = l
    /\ task' = [task EXCEPT ![t] = Idle]

Continue(t, job, x, its, l) ==
    CASE job = "login" -> Add(t, x, its, l)
      [] job \in {"call", "status"} -> Claim(t, job, x, its, l)
      [] OTHER -> Rest(t, its, l)

\* Close the clients of todo, each under its lock, then go on.
CloseAll(t, job, x, todo, its, l) ==
    IF todo = {} THEN Continue(t, job, x, its, l)
    ELSE \E y \in todo :
            /\ items' = its
            /\ lock' = Joined(l, y, t)
            /\ task' = [task EXCEPT ![t] =
                           [job |-> job, at |-> "prune", x |-> x, now |-> y, todo |-> todo]]

Dead == items \cap expired

\* Mutated form: a session stays in items until its client is closed.
PruneLater(t, job, x) == CloseAll(t, job, x, Dead, items, lock)

\* prune, at the start of add and of lease, and of the reaper.
Prune(t, job, x) == CloseAll(t, job, x, Dead, items \ Dead, lock)

-----------------------------------------------------------------------------
(***************************************************************************)
(* Requests                                                                *)
(***************************************************************************)
LoggingIn == {t \in Requests : task[t] # Idle /\ task[t].job = "login"}

\* login: a client of its own, and at most MaxLogins at a time (else BUSY).
Login(t, x) ==
    /\ up /\ task[t] = Idle
    /\ client[x] = "none"
    /\ Cardinality(LoggingIn) < MaxLogins
    /\ client' = [client EXCEPT ![x] = "open"]
    /\ task' = [task EXCEPT ![t] = At("login", "connect", x)]
    /\ UNCHANGED <<items, expired, lock, up>>

LoggedIn(t) ==
    /\ task[t].at = "connect"
    /\ Prune(t, "login", task[t].x)
    /\ UNCHANGED <<expired, client, up>>

\* HomeTax or the certificate refuses.
LoginFails(t) ==
    /\ task[t].at = "connect"
    /\ task' = [task EXCEPT ![t] = At("login", "discard", task[t].x)]
    /\ UNCHANGED <<items, expired, client, lock, up>>

\* The finally clause of login: "if not transferred".
Discard(t) ==
    /\ task[t].at = "discard"
    /\ client' = [client EXCEPT ![task[t].x] = "closed"]
    /\ task' = [task EXCEPT ![t] = Idle]
    /\ UNCHANGED <<items, expired, lock, up>>

\* A request that leases session x, which need not exist any more.
Lease(t, job, x) ==
    /\ up /\ task[t] = Idle
    /\ job \in {"call", "status"}
    /\ client[x] # "none"
    /\ Prune(t, job, x)
    /\ UNCHANGED <<expired, client, up>>

\* Mutated form: it is not.
EnterAnyway(t) ==
    /\ task[t].at = "wait"
    /\ Holds(t, task[t].x)
    /\ task' = [task EXCEPT ![t].at = "use"]
    /\ UNCHANGED <<items, expired, client, lock, up>>

\* Mutated form: the lock is kept when the session is gone.
EnterKeepingLock(t) ==
    /\ task[t].at = "wait"
    /\ Holds(t, task[t].x)
    /\ task' = [task EXCEPT ![t] = IF Found(@.x, items) THEN [@ EXCEPT !.at = "use"] ELSE Idle]
    /\ UNCHANGED <<items, expired, client, lock, up>>

\* The lock is there after a wait: the session is looked up a second time.
Enter(t) ==
    LET x == task[t].x IN
    /\ task[t].at = "wait"
    /\ Holds(t, x)
    /\ IF Found(x, items)
       THEN task' = [task EXCEPT ![t].at = "use"] /\ UNCHANGED lock
       ELSE task' = [task EXCEPT ![t] = Idle] /\ lock' = Left(lock, x, t)
    /\ UNCHANGED <<items, expired, client, up>>

Leave(t) ==
    /\ task[t].at = "use"
    /\ task' = [task EXCEPT ![t] = Idle]
    /\ lock' = Left(lock, task[t].x, t)
    /\ UNCHANGED <<items, expired, client, up>>

\* DELETE of a session; an unknown one changes nothing.
Remove(t, x) ==
    /\ up /\ task[t] = Idle
    /\ Found(x, items)
    /\ items' = items \ {x}
    /\ lock' = Joined(lock, x, t)
    /\ task' = [task EXCEPT ![t] = At("remove", "evict", x)]
    /\ UNCHANGED <<expired, client, up>>

\* Mutated form: remove closes the client of a session in use.
RemovedAtOnce(t) ==
    /\ task[t].at = "evict"
    /\ client' = [client EXCEPT ![task[t].x] = "closed"]
    /\ lock' = Left(lock, task[t].x, t)
    /\ task' = [task EXCEPT ![t] = Idle]
    /\ UNCHANGED <<items, expired, up>>

Removed(t) ==
    LET x == task[t].x IN
    /\ task[t].at = "evict"
    /\ Holds(t, x)
    /\ client' = [client EXCEPT ![x] = "closed"]
    /\ lock' = Left(lock, x, t)
    /\ task' = [task EXCEPT ![t] = Idle]
    /\ UNCHANGED <<items, expired, up>>

Remaining(k) == k.todo \ {k.now}

\* The client of a pruned session is closed; on to the next.
Pruned(t) ==
    LET k == task[t] IN
    /\ k.at = "prune"
    /\ Holds(t, k.now)
    /\ client' = [client EXCEPT ![k.now] = "closed"]
    /\ CloseAll(t, k.job, k.x, Remaining(k), items, Left(lock, k.now, t))
    /\ UNCHANGED <<expired, up>>

\* The 60 seconds of a request are over: CancelledError at its await.
Cancel(t) ==
    LET k == task[t] IN
    /\ k # Idle
    /\ k.job \in Limited
    /\ k.at # "discard"
    /\ lock' = CASE k.at = "prune" -> Left(lock, k.now, t)
                 [] k.at \in {"wait", "use"} -> Left(lock, k.x, t)
                 [] OTHER -> lock
    /\ task' = [task EXCEPT ![t] =
                   IF k.job = "login" THEN At("login", "discard", k.x) ELSE Idle]
    /\ UNCHANGED <<items, expired, client, up>>

-----------------------------------------------------------------------------
(***************************************************************************)
(* Time, the reaper and the end                                            *)
(***************************************************************************)
Expire(x) ==
    /\ x \in items \ expired
    /\ expired' = expired \cup {x}
    /\ UNCHANGED <<items, client, lock, task, up>>

\* Mutated form: expired sessions go when someone logs in.
ReapAtLogin ==
    /\ up /\ task[Reaper] = Idle
    /\ Dead # {} /\ LoggingIn # {}
    /\ Prune(Reaper, "sweep", NoSession)
    /\ UNCHANGED <<expired, client, up>>

\* Every 30 seconds.
Reap ==
    /\ up /\ task[Reaper] = Idle
    /\ Dead # {}
    /\ Prune(Reaper, "sweep", NoSession)
    /\ UNCHANGED <<expired, client, up>>

\* The server has served its last request: the reaper is cancelled, wherever it
\* is, and store.close takes every session out and closes its client.
Shutdown ==
    LET k == task[Reaper]
        l == IF k = Idle THEN lock ELSE Left(lock, k.now, Reaper) IN
    /\ up
    /\ \A t \in Requests : task[t] = Idle
    /\ up' = FALSE
    /\ CloseAll(Reaper, "sweep", NoSession, items, {}, l)
    /\ UNCHANGED <<expired, client>>

Work(t) == LoggedIn(t) \/ LoginFails(t) \/ Discard(t) \/ Enter(t) \/ Leave(t)
              \/ Removed(t) \/ Pruned(t)

Arrive(t) ==
    \E x \in Sessions :
        \/ Login(t, x)
        \/ \E job \in {"call", "status"} : Lease(t, job, x)
        \/ Remove(t, x)

\* Everything but the cancellation of tasks.
Calm ==
    \/ \E t \in Requests : Arrive(t)
    \/ \E t \in Tasks : Work(t)
    \/ \E x \in Sessions : Expire(x)
    \/ Reap
    \/ Shutdown /\ task[Reaper] = Idle

Next ==
    \/ Calm
    \/ \E t \in Requests : Cancel(t)
    \/ Shutdown

Spec == Init /\ [][Next]_vars

\* The loop runs what is ready, HomeTax answers or httpx gives up, the reaper wakes.
Fairness == (\A t \in Tasks : WF_vars(Work(t))) /\ WF_vars(Reap)

CalmSpec == Init /\ [][Calm]_vars /\ Fairness
FairSpec == Spec /\ Fairness

-----------------------------------------------------------------------------
\* sessions.py:47-62: while a request uses a session its client is open, whatever
\* deletes, expires, prunes or shuts down around it (the plans and cookies of the
\* client would be gone in the middle of a submission).
UsedIsOpen ==
    \A t \in Tasks : task[t].at = "use" => client[task[t].x] = "open"

\* sessions.py:52-55: nobody who waited for the lock gets to use a session that was
\* deleted or expired meanwhile (its plans would be submitted after all).
NoLateUse ==
    [][\A t \in Tasks :
          (task'[t].at = "use" /\ task[t].at # "use")
              => task'[t].x \in items' \ expired']_vars

\* Who has taken it on to close the client of x.
Keepers(x) ==
    {t \in Tasks : \/ task[t].at = "prune" /\ x \in task[t].todo
                   \/ task[t].at \in {"evict", "discard"} /\ task[t].x = x
                   \/ task[t] # Idle /\ task[t].job = "login" /\ task[t].x = x}

\* sessions.py:57-79: no client is closed twice, nor while it can still be leased:
\* it is up to one task at most, and to none as long as the session is listed.
OneKeeper ==
    \A x \in Sessions :
        /\ Cardinality(Keepers(x)) <= 1
        /\ x \in items => Keepers(x) = {}
        /\ client[x] = "closed" => Keepers(x) = {} /\ x \notin items

\* sessions.py:30-39: concurrent logins never store more than capacity sessions,
\* although each waits in prune before it adds its own.
CapacityRespected == Cardinality(items) <= Capacity

\* tests/test_sessions.py:30 test_expired_session_is_closed_and_capacity_freed: a
\* session that was taken out of the store is closed, or a task is about to.
ExpiredIsClosed ==
    \A x \in Sessions :
        (client[x] = "open" /\ x \notin items) => Keepers(x) # {}

\* Nobody waits forever: all waits are for tasks that hold one lock and no other.
EveryTaskEnds == \A t \in Tasks : task[t] # Idle ~> task[t] = Idle

\* api.py:196-201: an expired session is closed also when no request comes.
ExpiredGetsClosed == \A x \in Sessions : x \in items \cap expired ~> client[x] = "closed"
=============================================================================
