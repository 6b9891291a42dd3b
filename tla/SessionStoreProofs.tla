-------------------------- MODULE SessionStoreProofs --------------------------
(***************************************************************************)
(* For any number of sessions, requests and places: the client of a        *)
(* session in use is open, one task at most is to close each client, the   *)
(* store never overflows, and nobody enters a session that was deleted or  *)
(* has expired while it waited; also if tasks are cancelled at any await.  *)
(*                                                                         *)
(* The argument is about who minds what: a session is listed, or minded by *)
(* one task that will close it, or neither and closed (or leaked: what     *)
(* cancellation can do, see the run sessions_cancelled).  A user holds the *)
(* lock of its session, which whoever closes the client must hold too,     *)
(* save a login, and nobody can use what is not added yet.                 *)
(***************************************************************************)
EXTENDS SessionStore, FiniteSetTheorems, TLAPS

\* A lock has a holder and waiters; of what kind does not matter here.
LockLike(l) ==
    l = [y \in Sessions |-> [holder |-> l[y].holder, waiters |-> l[y].waiters]]

GoodTask(k) ==
    k # Idle =>
        /\ k.at \in {"connect", "discard"} => k.job = "login"
        /\ k.job = "login" => k.x \in Sessions /\ k.x \notin k.todo
                                /\ k.at \in {"connect", "prune", "discard"}
        /\ k.job \in {"call", "status"} => k.x \in Sessions
        /\ k.at \in {"wait", "use", "evict"} => k.x \in Sessions
        /\ k.at = "prune" => k.now \in k.todo

\* The task is to close, or to add, session y; it is in the body of a lease of y.
Minding(k, y) ==
    \/ k.at = "prune" /\ y \in k.todo
    \/ k.at \in {"evict", "discard"} /\ k.x = y
    \/ k # Idle /\ k.job = "login" /\ k.x = y
Using(k, y) == k.at = "use" /\ k.x = y

Types ==
    /\ items \in SUBSET Sessions /\ expired \in SUBSET Sessions
    /\ client \in [Sessions -> {"none", "open", "closed"}]
    /\ LockLike(lock)
    /\ task \in [Tasks -> TaskRecord \cup {Idle}]
    /\ \A t \in Tasks : GoodTask(task[t])

Bounded == IsFiniteSet(items) /\ Cardinality(items) <= Capacity

UsersHold ==
    \A t \in Tasks, y \in Sessions :
        Using(task[t], y) => lock[y].holder = t /\ client[y] = "open"

MindedOnce ==
    \A y \in Sessions :
        /\ \A t, u \in Tasks : Minding(task[t], y) /\ Minding(task[u], y) => t = u
        /\ \A t \in Tasks : Minding(task[t], y) => client[y] = "open" /\ y \notin items
        /\ y \in items => client[y] = "open"

\* Nobody uses a session that is being logged in.
LoginsAlone ==
    \A t, u \in Tasks, y \in Sessions :
        (task[t] # Idle /\ task[t].job = "login" /\ task[t].x = y) => ~Using(task[u], y)

SInv == Types /\ Bounded /\ UsersHold /\ MindedOnce /\ LoginsAlone

-----------------------------------------------------------------------------
\* Joining the line of a lock takes it from nobody.
LEMMA JoinedFacts ==
    ASSUME NEW l, LockLike(l), NEW x \in Sessions, NEW t \in Tasks
    PROVE  /\ LockLike(Joined(l, x, t))
           /\ \A y \in Sessions, u \in Tasks : l[y].holder = u => Joined(l, x, t)[y].holder = u
           /\ l[x].holder = NoTask => Joined(l, x, t)[x].holder = t
<1> DEFINE r == Joining(l[x], t)
<1>1. l[x] = [holder |-> l[x].holder, waiters |-> l[x].waiters]
  BY DEF LockLike
<1>2. /\ r = [holder |-> r.holder, waiters |-> r.waiters]
      /\ r.holder = IF l[x].holder = NoTask THEN t ELSE l[x].holder
  BY <1>1 DEF Joining
<1> HIDE DEF r
<1>3. Joined(l, x, t) = [l EXCEPT ![x] = r]
  BY DEF Joined, r
<1>4. Joined(l, x, t) = [y \in Sessions |-> IF y = x THEN r ELSE l[y]]
  BY <1>3 DEF LockLike
<1>5. LockLike(Joined(l, x, t))
  BY <1>2, <1>4 DEF LockLike
<1>6. QED
  BY <1>2, <1>4, <1>5, TasksAssumption

\* A task that leaves the line, or releases the lock, takes it from nobody else.
LEMMA LeftFacts ==
    ASSUME NEW l, LockLike(l), NEW x, NEW t \in Tasks
    PROVE  /\ LockLike(Left(l, x, t))
           /\ \A y \in Sessions, u \in Tasks \ {t} :
                 l[y].holder = u => Left(l, x, t)[y].holder = u
<1> DEFINE r == Leaving(l[x], t)
<1>1. ASSUME x \in Sessions
      PROVE  /\ r = [holder |-> r.holder, waiters |-> r.waiters]
             /\ l[x].holder # t => r.holder = l[x].holder
  <2> DEFINE w == SelectSeq(l[x].waiters, LAMBDA u : u # t)
  <2>1. l[x] = [holder |-> l[x].holder, waiters |-> l[x].waiters]
    BY <1>1 DEF LockLike
  <2>2. r = IF l[x].holder # t THEN [l[x] EXCEPT !.waiters = w]
            ELSE IF l[x].waiters = <<>> THEN Unlocked
            ELSE [holder |-> Head(l[x].waiters), waiters |-> Tail(l[x].waiters)]
    BY DEF Leaving
  <2> HIDE DEF w, r
  <2>3. QED
    BY <2>1, <2>2 DEF Unlocked
<1> HIDE DEF r
<1>2. Left(l, x, t) = [l EXCEPT ![x] = r]
  BY DEF Left, r
<1>3. Left(l, x, t) = [y \in Sessions |-> IF y = x THEN r ELSE l[y]]
  BY <1>2 DEF LockLike
<1>4. LockLike(Left(l, x, t))
  BY <1>1, <1>3 DEF LockLike
<1>5. QED
  BY <1>1, <1>3, <1>4

-----------------------------------------------------------------------------
\* A step in which one task changes to k, and what it must respect of the others.
LEMMA TaskMoves ==
    ASSUME SInv, NEW t \in Tasks, NEW k \in TaskRecord \cup {Idle}, GoodTask(k),
           task' = [task EXCEPT ![t] = k],
           items' \in SUBSET Sessions, expired' \in SUBSET Sessions, Bounded', LockLike(lock'),
           client' \in [Sessions -> {"none", "open", "closed"}],
           \A u \in Tasks \ {t}, y \in Sessions :
               Using(task[u], y) => lock'[y].holder = u /\ client'[y] = "open",
           \A y \in Sessions : Using(k, y) => lock'[y].holder = t /\ y \in items',
           \A y \in items' : /\ client'[y] = "open" /\ ~Minding(k, y)
                             /\ \A u \in Tasks \ {t} : ~Minding(task[u], y),
           \A y \in Sessions : Minding(k, y) =>
               client'[y] = "open" /\ \A u \in Tasks \ {t} : ~Minding(task[u], y),
           \A y \in Sessions, u \in Tasks \ {t} : Minding(task[u], y) => client'[y] = "open",
           \A y \in Sessions, u \in Tasks \ {t} :
               (k # Idle /\ k.job = "login" /\ k.x = y) => ~Using(task[u], y)
    PROVE  SInv'
<1>1. task'[t] = k /\ \A u \in Tasks \ {t} : task'[u] = task[u]
  BY DEF SInv, Types
<1>2. Types'
  BY <1>1 DEF SInv, Types, LockLike
<1>3. UsersHold'
  <2> SUFFICES ASSUME NEW u \in Tasks, NEW y \in Sessions, Using(task'[u], y)
               PROVE  lock'[y].holder = u /\ client'[y] = "open"
    BY DEF UsersHold, Using
  <2>1. QED
    BY <1>1
<1>4. MindedOnce'
  <2> SUFFICES ASSUME NEW y \in Sessions
               PROVE  /\ \A v, u \in Tasks : Minding(task'[v], y) /\ Minding(task'[u], y) => v = u
                      /\ \A u \in Tasks : Minding(task'[u], y) => client'[y] = "open" /\ y \notin items'
                      /\ y \in items' => client'[y] = "open"
    BY DEF MindedOnce, Minding
  <2>1. ASSUME NEW v \in Tasks, NEW u \in Tasks, Minding(task'[v], y), Minding(task'[u], y)
        PROVE  v = u
    BY <1>1, <2>1 DEF SInv, MindedOnce
  <2>2. ASSUME NEW u \in Tasks, Minding(task'[u], y)
        PROVE  client'[y] = "open" /\ y \notin items'
    BY <1>1, <2>2
  <2>3. QED
    BY <2>1, <2>2
<1>5. LoginsAlone'
  <2> SUFFICES ASSUME NEW v \in Tasks, NEW u \in Tasks, NEW y \in Sessions,
                      task'[v] # Idle, task'[v].job = "login", task'[v].x = y, Using(task'[u], y)
               PROVE  FALSE
    BY DEF LoginsAlone, Using
  <2>1. CASE u # t
    BY <1>1, <2>1 DEF SInv, LoginsAlone
  <2>2. CASE u = t
    <3>1. y \in items' /\ Minding(task'[v], y)
      BY <1>1, <2>2 DEF Minding
    <3>2. QED
      BY <1>1, <3>1
  <2>3. QED
    BY <2>1, <2>2
<1>6. QED
  BY <1>2, <1>3, <1>4, <1>5 DEF SInv

\* What a record of a task needs to be one.
LEMMA RecordFacts ==
    ASSUME NEW job \in Jobs, NEW x \in Sessions \cup {NoSession},
           NEW at \in {"connect", "prune", "wait", "use", "evict", "discard"}
    PROVE  /\ At(job, at, x) \in TaskRecord /\ At(job, at, x) # Idle
           /\ At(job, at, x).job = job /\ At(job, at, x).at = at /\ At(job, at, x).x = x
           /\ At(job, at, x).todo = {}
BY DEF At, TaskRecord, Idle

\* Idle is nobody's keeper.
LEMMA IdleFacts ==
    GoodTask(Idle) /\ \A y : ~Minding(Idle, y) /\ ~Using(Idle, y)
BY DEF Idle, GoodTask, Minding, Using

\* add: the session gets a place, or its login closes it (sessions.py:33-39).
LEMMA AddMoves ==
    ASSUME SInv, NEW t \in Tasks, NEW x \in Sessions, NEW its \in SUBSET Sessions, NEW l,
           LockLike(l), IsFiniteSet(its), Cardinality(its) <= Capacity,
           Add(t, x, its, l), expired' = expired,
           client' \in [Sessions -> {"none", "open", "closed"}],
           \A u \in Tasks \ {t}, y \in Sessions :
               Using(task[u], y) => l[y].holder = u /\ client'[y] = "open",
           \A y \in its : client'[y] = "open" /\ \A u \in Tasks \ {t} : ~Minding(task[u], y),
           \A y \in Sessions, u \in Tasks \ {t} : Minding(task[u], y) => client'[y] = "open",
           client'[x] = "open", x \notin its,
           \A u \in Tasks \ {t} : ~Minding(task[u], x) /\ ~Using(task[u], x)
    PROVE  SInv'
<1>1. expired' \in SUBSET Sessions
  BY DEF SInv, Types
<1>2. CASE FreePlace(its)
  <2>1. items' = its \cup {x} /\ task' = [task EXCEPT ![t] = Idle] /\ lock' = l
    BY <1>2 DEF Add
  <2>2. Bounded'
    <3>1. IsFiniteSet(its \cup {x}) /\ Cardinality(its \cup {x}) = Cardinality(its) + 1
      BY FS_AddElement
    <3>2. Cardinality(its) \in Nat
      BY FS_CardinalityType
    <3>3. QED
      BY <1>2, <2>1, <3>1, <3>2, LimitsAssumption DEF FreePlace, Bounded
  <2>3. \A y \in items' : client'[y] = "open" /\ \A u \in Tasks \ {t} : ~Minding(task[u], y)
    BY <2>1
  <2>4. Idle \in TaskRecord \cup {Idle} /\ items' \in SUBSET Sessions
    BY <2>1
  <2>5. QED
    BY <1>1, <2>1, <2>2, <2>3, <2>4, IdleFacts, TaskMoves
<1>3. CASE ~FreePlace(its)
  <2> DEFINE k == At("login", "discard", x)
  <2>1. items' = its /\ task' = [task EXCEPT ![t] = k] /\ lock' = l
    BY <1>3 DEF Add
  <2>2. Bounded'
    BY <2>1 DEF Bounded
  <2>3. "login" \in Jobs
    BY DEF Jobs
  <2>4. /\ k \in TaskRecord /\ k # Idle /\ k.job = "login" /\ k.at = "discard" /\ k.x = x
        /\ k.todo = {}
    BY <2>3, RecordFacts
  <2> HIDE DEF k
  <2>5. GoodTask(k) /\ \A y : (Minding(k, y) => y = x) /\ ~Using(k, y)
    BY <2>4 DEF GoodTask, Minding, Using
  <2>6. \A y \in items' : /\ client'[y] = "open" /\ ~Minding(k, y)
                          /\ \A u \in Tasks \ {t} : ~Minding(task[u], y)
    BY <2>1, <2>5
  <2>7. \A y \in Sessions : Minding(k, y) =>
            client'[y] = "open" /\ \A u \in Tasks \ {t} : ~Minding(task[u], y)
    BY <2>5
  <2>8. \A y \in Sessions, u \in Tasks \ {t} :
            (k # Idle /\ k.job = "login" /\ k.x = y) => ~Using(task[u], y)
    BY <2>4
  <2>9. \A u \in Tasks \ {t}, y \in Sessions :
            Using(task[u], y) => lock'[y].holder = u /\ client'[y] = "open"
    BY <2>1
  <2>10. LockLike(lock') /\ items' \in SUBSET Sessions
    BY <2>1
  <2>11. QED
    BY <1>1, <2>1, <2>2, <2>4, <2>5, <2>6, <2>7, <2>8, <2>9, <2>10, TaskMoves
<1>4. QED
  BY <1>2, <1>3

\* lease: the session is used, waited for, or unknown (sessions.py:47-52).
LEMMA ClaimMoves ==
    ASSUME SInv, NEW t \in Tasks, NEW job \in {"call", "status"}, NEW x \in Sessions,
           NEW its \in SUBSET Sessions, NEW l,
           LockLike(l), IsFiniteSet(its), Cardinality(its) <= Capacity,
           Claim(t, job, x, its, l), expired' = expired,
           client' \in [Sessions -> {"none", "open", "closed"}],
           \A u \in Tasks \ {t}, y \in Sessions :
               Using(task[u], y) => l[y].holder = u /\ client'[y] = "open",
           \A y \in its : client'[y] = "open" /\ \A u \in Tasks \ {t} : ~Minding(task[u], y),
           \A y \in Sessions, u \in Tasks \ {t} : Minding(task[u], y) => client'[y] = "open"
    PROVE  SInv'
<1>1. expired' \in SUBSET Sessions /\ items' = its /\ Bounded'
  BY DEF SInv, Types, Claim, Bounded
<1>2. CASE Found(x, its)
  <2> DEFINE a == IF l[x].holder = NoTask THEN "use" ELSE "wait"
             k == At(job, a, x)
  <2>1. task' = [task EXCEPT ![t] = k] /\ lock' = Joined(l, x, t) /\ x \in its
    BY <1>2 DEF Claim, Found
  <2>2. job \in Jobs /\ a \in {"use", "wait"}
    BY DEF Jobs
  <2>3. k \in TaskRecord /\ k # Idle /\ k.job = job /\ k.at = a /\ k.x = x
    BY <2>2, RecordFacts
  <2>4. a = "use" => l[x].holder = NoTask
    OBVIOUS
  <2> HIDE DEF k, a
  <2>5. GoodTask(k) /\ \A y : ~Minding(k, y) /\ (Using(k, y) => a = "use" /\ y = x)
    BY <2>2, <2>3 DEF GoodTask, Minding, Using
  <2>6. /\ LockLike(lock')
        /\ \A u \in Tasks \ {t}, y \in Sessions : Using(task[u], y) => lock'[y].holder = u
        /\ a = "use" => lock'[x].holder = t
    BY <2>1, <2>4, JoinedFacts
  <2>7. \A u \in Tasks \ {t}, y \in Sessions :
            Using(task[u], y) => lock'[y].holder = u /\ client'[y] = "open"
    BY <2>6
  <2>8. \A y \in items' : /\ client'[y] = "open" /\ ~Minding(k, y)
                          /\ \A u \in Tasks \ {t} : ~Minding(task[u], y)
    BY <1>1, <2>5
  <2>9. \A y \in Sessions : Using(k, y) => lock'[y].holder = t /\ y \in items'
    BY <1>1, <2>1, <2>5, <2>6
  <2>10. k.job # "login"
    BY <2>3
  <2>11. items' \in SUBSET Sessions /\ LockLike(lock')
    BY <1>1, <2>6
  <2>12. QED
    BY <1>1, <2>1, <2>3, <2>5, <2>7, <2>8, <2>9, <2>10, <2>11, TaskMoves
<1>3. CASE ~Found(x, its)
  <2>1. task' = [task EXCEPT ![t] = Idle] /\ lock' = l
    BY <1>3 DEF Claim
  <2>2. QED
    BY <1>1, <2>1, IdleFacts, TaskMoves
<1>4. QED
  BY <1>2, <1>3

\* prune goes on to the next client, or the task to what it came for (sessions.py:64-71).
LEMMA ClosingMoves ==
    ASSUME SInv, NEW t \in Tasks, NEW job \in Jobs, NEW x \in Sessions \cup {NoSession},
           NEW todo \in SUBSET Sessions, NEW its \in SUBSET Sessions, NEW l,
           LockLike(l), IsFiniteSet(its), Cardinality(its) <= Capacity,
           job \in {"login", "call", "status"} => x \in Sessions,
           CloseAll(t, job, x, todo, its, l), expired' = expired,
           client' \in [Sessions -> {"none", "open", "closed"}],
           \A u \in Tasks \ {t}, y \in Sessions :
               Using(task[u], y) => l[y].holder = u /\ client'[y] = "open",
           \A y \in its : client'[y] = "open" /\ \A u \in Tasks \ {t} : ~Minding(task[u], y),
           \A y \in todo : client'[y] = "open" /\ y \notin its
                               /\ \A u \in Tasks \ {t} : ~Minding(task[u], y),
           \A y \in Sessions, u \in Tasks \ {t} : Minding(task[u], y) => client'[y] = "open",
           job = "login" =>
               /\ client'[x] = "open" /\ x \notin its /\ x \notin todo
               /\ \A u \in Tasks \ {t} : ~Minding(task[u], x) /\ ~Using(task[u], x)
    PROVE  SInv'
<1>1. CASE todo = {} /\ job = "login"
  <2>1. Add(t, x, its, l)
    BY <1>1 DEF CloseAll, Continue
  <2>2. QED
    BY <1>1, <2>1, AddMoves
<1>2. CASE todo = {} /\ job \in {"call", "status"}
  <2>1. Claim(t, job, x, its, l)
    BY <1>2 DEF CloseAll, Continue
  <2>2. QED
    BY <1>2, <2>1, ClaimMoves
<1>3. CASE todo = {} /\ job \notin {"login", "call", "status"}
  <2>1. items' = its /\ lock' = l /\ task' = [task EXCEPT ![t] = Idle]
    BY <1>3 DEF CloseAll, Continue, Rest
  <2>2. expired' \in SUBSET Sessions /\ Bounded'
    BY <2>1 DEF SInv, Types, Bounded
  <2>3. QED
    BY <2>1, <2>2, IdleFacts, TaskMoves
<1>4. CASE todo # {}
  <2>1. PICK z \in todo : /\ items' = its /\ lock' = Joined(l, z, t)
                          /\ task' = [task EXCEPT ![t] =
                                [job |-> job, at |-> "prune", x |-> x, now |-> z, todo |-> todo]]
    BY <1>4 DEF CloseAll
  <2> DEFINE k == [job |-> job, at |-> "prune", x |-> x, now |-> z, todo |-> todo]
  <2>2. k \in TaskRecord /\ k # Idle
    BY DEF TaskRecord, Idle
  <2>3. GoodTask(k)
    BY DEF GoodTask
  <2>4. \A y : ~Using(k, y) /\ (Minding(k, y) => y \in todo \/ (job = "login" /\ y = x))
    BY DEF Minding, Using
  <2>5. \A y : k.job = "login" /\ k.x = y => job = "login" /\ y = x
    OBVIOUS
  <2>6. task' = [task EXCEPT ![t] = k] /\ items' = its
    BY <2>1
  <2> HIDE DEF k
  <2>7. expired' \in SUBSET Sessions /\ Bounded'
    BY <2>6 DEF SInv, Types, Bounded
  <2>8. /\ LockLike(lock')
        /\ \A u \in Tasks \ {t}, y \in Sessions :
              Using(task[u], y) => lock'[y].holder = u /\ client'[y] = "open"
    <3>1. /\ LockLike(Joined(l, z, t))
          /\ \A y \in Sessions, u \in Tasks : l[y].holder = u => Joined(l, z, t)[y].holder = u
      BY JoinedFacts
    <3>2. QED
      BY <2>1, <3>1
  <2>9. \A y \in Sessions : Minding(k, y) =>
            client'[y] = "open" /\ \A u \in Tasks \ {t} : ~Minding(task[u], y)
    BY <2>4
  <2>10. \A y \in items' : /\ client'[y] = "open" /\ ~Minding(k, y)
                           /\ \A u \in Tasks \ {t} : ~Minding(task[u], y)
    BY <2>4, <2>6
  <2>11. \A y \in Sessions, u \in Tasks \ {t} :
            (k # Idle /\ k.job = "login" /\ k.x = y) => ~Using(task[u], y)
    BY <2>5
  <2>12. QED
    BY <2>2, <2>3, <2>4, <2>6, <2>7, <2>8, <2>9, <2>10, <2>11, TaskMoves
<1>5. QED
  BY <1>1, <1>2, <1>3, <1>4

-----------------------------------------------------------------------------
\* What the invariant says of one task, and of the others beside it.
LEMMA TaskFacts ==
    ASSUME SInv, NEW t \in Tasks, task[t] # Idle
    PROVE  /\ task[t] \in TaskRecord /\ GoodTask(task[t])
           /\ \A y \in Sessions : Minding(task[t], y) =>
                 /\ client[y] = "open" /\ y \notin items
                 /\ \A u \in Tasks \ {t} : ~Minding(task[u], y)
           /\ task[t].job = "login" =>
                 /\ task[t].x \in Sessions /\ Minding(task[t], task[t].x)
                 /\ \A u \in Tasks \ {t} : ~Using(task[u], task[t].x)
<1>1. task[t] \in TaskRecord /\ GoodTask(task[t])
  BY DEF SInv, Types
<1>2. \A y \in Sessions : Minding(task[t], y) =>
          /\ client[y] = "open" /\ y \notin items
          /\ \A u \in Tasks \ {t} : ~Minding(task[u], y)
  BY DEF SInv, MindedOnce
<1>3. task[t].job = "login" => task[t].x \in Sessions /\ Minding(task[t], task[t].x)
  BY <1>1 DEF GoodTask, Minding
<1>4. QED
  BY <1>1, <1>2, <1>3 DEF SInv, LoginsAlone

\* prune begins: what has expired leaves the store (sessions.py:65-68).
LEMMA PruneMoves ==
    ASSUME SInv, NEW t \in Tasks, NEW job \in Jobs, NEW x \in Sessions \cup {NoSession},
           Prune(t, job, x), UNCHANGED <<expired, client>>,
           job \in {"call", "status"} => x \in Sessions,
           job = "login" => task[t] # Idle /\ task[t].job = "login" /\ task[t].x = x
    PROVE  SInv'
<1>1. /\ items \in SUBSET Sessions /\ Dead \in SUBSET Sessions /\ items \ Dead \in SUBSET Sessions
      /\ LockLike(lock) /\ client' \in [Sessions -> {"none", "open", "closed"}]
  BY DEF SInv, Types, Dead
<1>2. IsFiniteSet(items \ Dead) /\ Cardinality(items \ Dead) <= Capacity
  <2>1. IsFiniteSet(items) /\ Cardinality(items) <= Capacity /\ items \ Dead \subseteq items
    BY DEF SInv, Bounded
  <2>2. /\ IsFiniteSet(items \ Dead) /\ Cardinality(items \ Dead) <= Cardinality(items)
        /\ Cardinality(items \ Dead) \in Nat /\ Cardinality(items) \in Nat
    BY <2>1, FS_Subset, FS_CardinalityType
  <2>3. QED
    BY <2>1, <2>2, LimitsAssumption
<1>3. CloseAll(t, job, x, Dead, items \ Dead, lock)
  BY DEF Prune
<1>4. \A u \in Tasks \ {t}, y \in Sessions :
          Using(task[u], y) => lock[y].holder = u /\ client'[y] = "open"
  BY DEF SInv, UsersHold
<1>5. \A y \in items : client'[y] = "open" /\ \A u \in Tasks \ {t} : ~Minding(task[u], y)
  BY DEF SInv, MindedOnce, Types
<1>6. \A y \in Sessions, u \in Tasks \ {t} : Minding(task[u], y) => client'[y] = "open"
  BY DEF SInv, MindedOnce
<1>7. job = "login" => /\ x \in Sessions /\ client'[x] = "open" /\ x \notin items
                       /\ \A u \in Tasks \ {t} : ~Minding(task[u], x) /\ ~Using(task[u], x)
  BY TaskFacts
<1>8. /\ \A y \in items \ Dead : client'[y] = "open" /\ \A u \in Tasks \ {t} : ~Minding(task[u], y)
      /\ \A y \in Dead : client'[y] = "open" /\ y \notin items \ Dead
                            /\ \A u \in Tasks \ {t} : ~Minding(task[u], y)
      /\ job = "login" => x \notin items \ Dead /\ x \notin Dead
  BY <1>5, <1>7 DEF Dead
<1>9. QED
  BY <1>1, <1>2, <1>3, <1>4, <1>6, <1>7, <1>8, ClosingMoves

\* A client is closed under its lock, so nobody uses it (sessions.py:69-71).
LEMMA PrunedMoves ==
    ASSUME SInv, NEW t \in Tasks, Pruned(t)
    PROVE  SInv'
<1> DEFINE k == task[t]
<1>1. /\ k.at = "prune" /\ lock[k.now].holder = t
      /\ client' = [client EXCEPT ![k.now] = "closed"] /\ expired' = expired
      /\ CloseAll(t, k.job, k.x, Remaining(k), items, Left(lock, k.now, t))
  BY DEF Pruned, Holds
<1>2. k # Idle /\ k \in TaskRecord /\ GoodTask(k)
  BY <1>1, TaskFacts DEF Idle
<1>3. /\ k.job \in Jobs /\ k.x \in Sessions \cup {NoSession}
      /\ k.todo \in SUBSET Sessions /\ k.now \in k.todo /\ k.now \in Sessions
      /\ k.job \in {"login", "call", "status"} => k.x \in Sessions
  BY <1>1, <1>2 DEF TaskRecord, GoodTask
<1>4. Remaining(k) \in SUBSET Sessions /\ Remaining(k) = k.todo \ {k.now}
  BY <1>3 DEF Remaining
<1>5. \A y \in k.todo : /\ client[y] = "open" /\ y \notin items
                        /\ \A u \in Tasks \ {t} : ~Minding(task[u], y)
  BY <1>1, <1>2, <1>3, TaskFacts DEF Minding
<1>6. /\ \A y \in Sessions \ {k.now} : client'[y] = client[y]
      /\ client' \in [Sessions -> {"none", "open", "closed"}]
  BY <1>1 DEF SInv, Types
<1>7. /\ LockLike(Left(lock, k.now, t))
      /\ \A y \in Sessions, u \in Tasks \ {t} :
            lock[y].holder = u => Left(lock, k.now, t)[y].holder = u
  BY LeftFacts DEF SInv, Types
<1>8. \A u \in Tasks \ {t}, y \in Sessions :
          Using(task[u], y) => Left(lock, k.now, t)[y].holder = u /\ client'[y] = "open"
  <2> SUFFICES ASSUME NEW u \in Tasks \ {t}, NEW y \in Sessions, Using(task[u], y)
               PROVE  Left(lock, k.now, t)[y].holder = u /\ client'[y] = "open"
    OBVIOUS
  <2>1. lock[y].holder = u /\ client[y] = "open"
    BY DEF SInv, UsersHold
  <2>2. y # k.now
    BY <1>1, <2>1
  <2>3. QED
    BY <1>6, <1>7, <2>1, <2>2
<1>9. \A y \in items : client'[y] = "open" /\ \A u \in Tasks \ {t} : ~Minding(task[u], y)
  BY <1>3, <1>5, <1>6 DEF SInv, MindedOnce, Types
<1>10. \A y \in Remaining(k) : /\ client'[y] = "open" /\ y \notin items
                               /\ \A u \in Tasks \ {t} : ~Minding(task[u], y)
  BY <1>3, <1>4, <1>5, <1>6
<1>11. \A y \in Sessions, u \in Tasks \ {t} : Minding(task[u], y) => client'[y] = "open"
  BY <1>3, <1>5, <1>6 DEF SInv, MindedOnce
<1>12. k.job = "login" =>
          /\ client'[k.x] = "open" /\ k.x \notin items /\ k.x \notin Remaining(k)
          /\ \A u \in Tasks \ {t} : ~Minding(task[u], k.x) /\ ~Using(task[u], k.x)
  <2>1. k.job = "login" => k.x \notin k.todo
    BY <1>2 DEF GoodTask
  <2>2. QED
    BY <1>2, <1>3, <1>4, <1>6, <2>1, TaskFacts
<1>13. items \in SUBSET Sessions /\ IsFiniteSet(items) /\ Cardinality(items) <= Capacity
  BY DEF SInv, Types, Bounded
<1>14. ASSUME NEW job \in Jobs, NEW x \in Sessions \cup {NoSession},
              NEW todo \in SUBSET Sessions, NEW l,
              job = k.job, x = k.x, todo = Remaining(k), l = Left(lock, k.now, t)
       PROVE  SInv'
  <2> HIDE DEF k
  <2>1. CloseAll(t, job, x, todo, items, l) /\ LockLike(l)
    BY <1>1, <1>7, <1>14
  <2>2. \A u \in Tasks \ {t}, y \in Sessions :
            Using(task[u], y) => l[y].holder = u /\ client'[y] = "open"
    BY <1>8, <1>14
  <2>3. \A y \in todo : /\ client'[y] = "open" /\ y \notin items
                        /\ \A u \in Tasks \ {t} : ~Minding(task[u], y)
    BY <1>10, <1>14
  <2>4. job = "login" =>
            /\ client'[x] = "open" /\ x \notin items /\ x \notin todo
            /\ \A u \in Tasks \ {t} : ~Minding(task[u], x) /\ ~Using(task[u], x)
    BY <1>12, <1>14
  <2>5. job \in {"login", "call", "status"} => x \in Sessions
    BY <1>3, <1>14
  <2>6. /\ expired' = expired
        /\ client' \in [Sessions -> {"none", "open", "closed"}]
    BY <1>1, <1>6
  <2>7. QED
    BY <1>9, <1>11, <1>13, <2>1, <2>2, <2>3, <2>4, <2>5, <2>6, ClosingMoves
<1>15. QED
  BY <1>3, <1>4, <1>14

\* The end: what is still listed is taken out and closed (sessions.py:73-79), also when
\* the reaper is cancelled in the middle of a prune.
LEMMA ShutdownMoves ==
    ASSUME SInv, Shutdown
    PROVE  SInv'
<1>1. PICK l : /\ LockLike(l)
               /\ CloseAll(Reaper, "sweep", NoSession, items, {}, l)
  <2>1. LockLike(lock) /\ LockLike(Left(lock, task[Reaper].now, Reaper))
    BY LeftFacts DEF SInv, Types, Tasks
  <2>2. QED
    BY <2>1 DEF Shutdown
<1>2. /\ \A u \in Tasks \ {Reaper} : task[u] = Idle
      /\ expired' = expired /\ client' = client
  BY DEF Shutdown, Tasks
<1>3. \A u \in Tasks \ {Reaper}, y \in Sessions : ~Minding(task[u], y) /\ ~Using(task[u], y)
  BY <1>2, IdleFacts
<1>4. IsFiniteSet({}) /\ Cardinality({}) <= Capacity
  BY FS_EmptySet, LimitsAssumption
<1>5. \A y \in items : /\ client'[y] = "open" /\ y \notin {}
                       /\ \A u \in Tasks \ {Reaper} : ~Minding(task[u], y)
  BY <1>2, <1>3 DEF SInv, Types, MindedOnce
<1>6. /\ "sweep" \in Jobs /\ "sweep" \notin {"login", "call", "status"}
      /\ Reaper \in Tasks /\ items \in SUBSET Sessions
      /\ client' \in [Sessions -> {"none", "open", "closed"}]
  BY <1>2 DEF Jobs, Tasks, SInv, Types
<1>7. QED
  BY <1>1, <1>2, <1>3, <1>4, <1>5, <1>6, ClosingMoves

\* A step of one task in which the store stays as it is, or loses a session.
LEMMA OwnStep ==
    ASSUME SInv, NEW t \in Tasks, NEW k \in TaskRecord \cup {Idle}, GoodTask(k),
           task' = [task EXCEPT ![t] = k],
           items' \subseteq items, UNCHANGED expired, LockLike(lock'),
           client' \in [Sessions -> {"none", "open", "closed"}],
           \A u \in Tasks \ {t}, y \in Sessions :
               Using(task[u], y) => lock'[y].holder = u,
           \A y \in Sessions : Using(k, y) => lock'[y].holder = t /\ y \in items',
           \A y \in Sessions : client'[y] # client[y] =>
               /\ y \notin items'
               /\ \A u \in Tasks \ {t} : ~Minding(task[u], y) /\ ~Using(task[u], y),
           \A y \in Sessions : Minding(k, y) =>
               /\ client'[y] = "open" /\ y \notin items'
               /\ \A u \in Tasks \ {t} : ~Minding(task[u], y),
           k # Idle /\ k.job = "login" => \A u \in Tasks \ {t} : ~Using(task[u], k.x)
    PROVE  SInv'
<1>1. items' \in SUBSET Sessions /\ expired' \in SUBSET Sessions
  BY DEF SInv, Types
<1>2. Bounded'
  <2>1. IsFiniteSet(items) /\ Cardinality(items) <= Capacity
    BY DEF SInv, Bounded
  <2>2. /\ IsFiniteSet(items') /\ Cardinality(items') <= Cardinality(items)
        /\ Cardinality(items') \in Nat /\ Cardinality(items) \in Nat
    BY <2>1, FS_Subset, FS_CardinalityType
  <2>3. QED
    BY <2>1, <2>2, LimitsAssumption DEF Bounded
<1>3. \A u \in Tasks \ {t}, y \in Sessions :
          Using(task[u], y) => lock'[y].holder = u /\ client'[y] = "open"
  BY DEF SInv, UsersHold
<1>4. \A y \in items' : /\ client'[y] = "open" /\ ~Minding(k, y)
                        /\ \A u \in Tasks \ {t} : ~Minding(task[u], y)
  BY <1>1 DEF SInv, MindedOnce
<1>5. \A y \in Sessions, u \in Tasks \ {t} : Minding(task[u], y) => client'[y] = "open"
  BY DEF SInv, MindedOnce
<1>6. \A y \in Sessions : Minding(k, y) =>
          client'[y] = "open" /\ \A u \in Tasks \ {t} : ~Minding(task[u], y)
  OBVIOUS
<1>7. \A y \in Sessions, u \in Tasks \ {t} :
          (k # Idle /\ k.job = "login" /\ k.x = y) => ~Using(task[u], y)
  OBVIOUS
<1>8. QED
  BY <1>1, <1>2, <1>3, <1>4, <1>5, <1>6, <1>7, TaskMoves

\* The locks of the others when a task leaves a line, and when nothing happens to them.
LEMMA OthersHold ==
    ASSUME SInv, NEW t \in Tasks, NEW l,
           l = lock \/ \E x : l = Left(lock, x, t)
    PROVE  /\ LockLike(l)
           /\ \A u \in Tasks \ {t}, y \in Sessions : Using(task[u], y) => l[y].holder = u
<1>1. LockLike(lock) /\ \A u \in Tasks, y \in Sessions : Using(task[u], y) => lock[y].holder = u
  BY DEF SInv, Types, UsersHold
<1>2. CASE l = lock
  BY <1>1, <1>2
<1>3. ASSUME NEW x, l = Left(lock, x, t)
      PROVE  /\ LockLike(l)
             /\ \A u \in Tasks \ {t}, y \in Sessions : Using(task[u], y) => l[y].holder = u
  <2>1. /\ LockLike(Left(lock, x, t))
        /\ \A y \in Sessions, u \in Tasks \ {t} :
              lock[y].holder = u => Left(lock, x, t)[y].holder = u
    BY <1>1, LeftFacts
  <2>2. QED
    BY <1>1, <1>3, <2>1
<1>4. QED
  BY <1>2, <1>3

\* A task that ends, in the line of a lock, holding it, or neither.
LEMMA TaskEnds ==
    ASSUME SInv, NEW t \in Tasks, task' = [task EXCEPT ![t] = Idle],
           lock' = lock \/ \E x : lock' = Left(lock, x, t),
           UNCHANGED <<items, expired, client>>
    PROVE  SInv'
<1>1. \A y : ~Minding(Idle, y) /\ ~Using(Idle, y)
  BY IdleFacts
<1>2. client' \in [Sessions -> {"none", "open", "closed"}]
  BY DEF SInv, Types
<1>3. /\ LockLike(lock')
      /\ \A u \in Tasks \ {t}, y \in Sessions : Using(task[u], y) => lock'[y].holder = u
  BY OthersHold
<1>4. Idle \in TaskRecord \cup {Idle} /\ GoodTask(Idle) /\ items' \subseteq items
  BY IdleFacts
<1>5. QED
  BY <1>1, <1>2, <1>3, <1>4, OwnStep

\* A login that fails or is cancelled has its client to close (api.py:309-313).
LEMMA LoginDiscards ==
    ASSUME SInv, NEW t \in Tasks, task[t] # Idle, task[t].job = "login",
           task' = [task EXCEPT ![t] = At("login", "discard", task[t].x)],
           lock' = lock \/ \E x : lock' = Left(lock, x, t),
           UNCHANGED <<items, expired, client>>
    PROVE  SInv'
<1>1. PICK x \in Sessions :
          /\ x = task[t].x /\ client[x] = "open" /\ x \notin items
          /\ \A u \in Tasks \ {t} : ~Minding(task[u], x) /\ ~Using(task[u], x)
  BY TaskFacts
<1> DEFINE k == At("login", "discard", x)
<1>2. "login" \in Jobs
  BY DEF Jobs
<1>3. /\ k \in TaskRecord /\ k # Idle /\ k.job = "login" /\ k.at = "discard" /\ k.x = x
      /\ k.todo = {}
  BY <1>2, RecordFacts
<1>4. task' = [task EXCEPT ![t] = k]
  BY <1>1
<1> HIDE DEF k
<1>5. GoodTask(k) /\ \A y : (Minding(k, y) => y = x) /\ ~Using(k, y)
  BY <1>3 DEF GoodTask, Minding, Using
<1>6. client' \in [Sessions -> {"none", "open", "closed"}]
  BY DEF SInv, Types
<1>7. /\ LockLike(lock')
      /\ \A u \in Tasks \ {t}, y \in Sessions : Using(task[u], y) => lock'[y].holder = u
  BY OthersHold
<1>8. /\ \A y \in Sessions : Minding(k, y) =>
            /\ client'[y] = "open" /\ y \notin items'
            /\ \A u \in Tasks \ {t} : ~Minding(task[u], y)
      /\ k # Idle /\ k.job = "login" => \A u \in Tasks \ {t} : ~Using(task[u], k.x)
  BY <1>1, <1>3, <1>5
<1>9. k \in TaskRecord \cup {Idle} /\ items' \subseteq items
  BY <1>3
<1>10. QED
  BY <1>4, <1>5, <1>6, <1>7, <1>8, <1>9, OwnStep

-----------------------------------------------------------------------------
\* login: a new client, which nobody knows (api.py:294-303).
LEMMA LoginMoves ==
    ASSUME SInv, NEW t \in Requests, NEW x \in Sessions, Login(t, x)
    PROVE  SInv'
<1> DEFINE k == At("login", "connect", x)
<1>1. /\ client[x] = "none" /\ client' = [client EXCEPT ![x] = "open"]
      /\ task' = [task EXCEPT ![t] = k] /\ UNCHANGED <<items, expired, lock>>
  BY DEF Login
<1>2. t \in Tasks /\ "login" \in Jobs
  BY DEF Tasks, Jobs
<1>3. k \in TaskRecord /\ k # Idle /\ k.job = "login" /\ k.at = "connect" /\ k.x = x /\ k.todo = {}
  BY <1>2, RecordFacts
<1> HIDE DEF k
<1>4. GoodTask(k) /\ \A y : (Minding(k, y) => y = x) /\ ~Using(k, y)
  BY <1>3 DEF GoodTask, Minding, Using
<1>5. x \notin items /\ \A u \in Tasks : ~Minding(task[u], x) /\ ~Using(task[u], x)
  BY <1>1 DEF SInv, MindedOnce, UsersHold
<1>6. /\ client' \in [Sessions -> {"none", "open", "closed"}]
      /\ client'[x] = "open" /\ \A y \in Sessions \ {x} : client'[y] = client[y]
  BY <1>1 DEF SInv, Types
<1>7. /\ LockLike(lock')
      /\ \A u \in Tasks \ {t}, y \in Sessions : Using(task[u], y) => lock'[y].holder = u
  BY <1>1 DEF SInv, Types, UsersHold
<1>8. /\ \A y \in Sessions : client'[y] # client[y] =>
            /\ y \notin items'
            /\ \A u \in Tasks \ {t} : ~Minding(task[u], y) /\ ~Using(task[u], y)
      /\ \A y \in Sessions : Minding(k, y) =>
            /\ client'[y] = "open" /\ y \notin items'
            /\ \A u \in Tasks \ {t} : ~Minding(task[u], y)
      /\ k # Idle /\ k.job = "login" => \A u \in Tasks \ {t} : ~Using(task[u], k.x)
  BY <1>1, <1>3, <1>4, <1>5, <1>6
<1>9. k \in TaskRecord \cup {Idle} /\ items' \subseteq items
  BY <1>1, <1>3
<1>10. QED
  BY <1>1, <1>2, <1>4, <1>6, <1>7, <1>8, <1>9, OwnStep

\* A client is closed by the task that minds it, and nobody uses it.
LEMMA Closes ==
    ASSUME SInv, NEW t \in Tasks, NEW x \in Sessions, Minding(task[t], x), task[t] # Idle,
           \A u \in Tasks \ {t} : ~Using(task[u], x),
           client' = [client EXCEPT ![x] = "closed"], task' = [task EXCEPT ![t] = Idle],
           lock' = lock \/ \E y : lock' = Left(lock, y, t),
           UNCHANGED <<items, expired>>
    PROVE  SInv'
<1>1. x \notin items /\ \A u \in Tasks \ {t} : ~Minding(task[u], x)
  BY TaskFacts
<1>2. /\ client' \in [Sessions -> {"none", "open", "closed"}]
      /\ \A y \in Sessions \ {x} : client'[y] = client[y]
  BY DEF SInv, Types
<1>3. /\ LockLike(lock')
      /\ \A u \in Tasks \ {t}, y \in Sessions : Using(task[u], y) => lock'[y].holder = u
  BY OthersHold
<1>4. /\ Idle \in TaskRecord \cup {Idle} /\ GoodTask(Idle) /\ items' \subseteq items
      /\ \A y : ~Minding(Idle, y) /\ ~Using(Idle, y)
  BY IdleFacts
<1>5. \A y \in Sessions : client'[y] # client[y] =>
          /\ y \notin items'
          /\ \A u \in Tasks \ {t} : ~Minding(task[u], y) /\ ~Using(task[u], y)
  BY <1>1, <1>2
<1>6. QED
  BY <1>2, <1>3, <1>4, <1>5, OwnStep

\* The finally clause of login closes a client that was not added.
LEMMA DiscardMoves ==
    ASSUME SInv, NEW t \in Tasks, Discard(t)
    PROVE  SInv'
<1>1. task[t].at = "discard" /\ task[t] # Idle
  BY DEF Discard, Idle
<1>2. task[t].job = "login"
  BY <1>1, TaskFacts DEF GoodTask
<1>3. PICK x \in Sessions : /\ x = task[t].x /\ Minding(task[t], x)
                            /\ \A u \in Tasks \ {t} : ~Using(task[u], x)
  BY <1>1, <1>2, TaskFacts
<1>4. QED
  BY <1>1, <1>3, Closes DEF Discard

\* remove has the lock of the session: its last user is gone (sessions.py:61-62).
LEMMA RemovedMoves ==
    ASSUME SInv, NEW t \in Tasks, Removed(t)
    PROVE  SInv'
<1>1. task[t].at = "evict" /\ task[t] # Idle
  BY DEF Removed, Idle
<1>2. PICK x \in Sessions : x = task[t].x /\ Minding(task[t], x)
  BY <1>1, TaskFacts DEF GoodTask, Minding
<1>3. lock[x].holder = t
  BY <1>2 DEF Removed, Holds
<1>4. \A u \in Tasks \ {t} : ~Using(task[u], x)
  BY <1>3 DEF SInv, UsersHold
<1>5. QED
  BY <1>1, <1>2, <1>4, Closes DEF Removed

\* remove takes the session out, before it waits (sessions.py:57-61).
LEMMA RemoveMoves ==
    ASSUME SInv, NEW t \in Requests, NEW x \in Sessions, Remove(t, x)
    PROVE  SInv'
<1> DEFINE k == At("remove", "evict", x)
<1>1. /\ x \in items /\ items' = items \ {x}
      /\ lock' = Joined(lock, x, t)
      /\ task' = [task EXCEPT ![t] = k] /\ UNCHANGED <<expired, client>>
  BY DEF Remove, Found
<1>2. t \in Tasks /\ "remove" \in Jobs
  BY DEF Tasks, Jobs
<1>3. k \in TaskRecord /\ k # Idle /\ k.job = "remove" /\ k.at = "evict" /\ k.x = x
  BY <1>2, RecordFacts
<1> HIDE DEF k
<1>4. GoodTask(k) /\ \A y : (Minding(k, y) => y = x) /\ ~Using(k, y)
  BY <1>3 DEF GoodTask, Minding, Using
<1>5. client[x] = "open" /\ \A u \in Tasks : ~Minding(task[u], x)
  BY <1>1 DEF SInv, MindedOnce
<1>6. client' \in [Sessions -> {"none", "open", "closed"}] /\ items' \subseteq items
  BY <1>1 DEF SInv, Types
<1>7. /\ LockLike(lock')
      /\ \A u \in Tasks \ {t}, y \in Sessions : Using(task[u], y) => lock'[y].holder = u
  BY <1>1, <1>2, JoinedFacts DEF SInv, Types, UsersHold
<1>8. /\ \A y \in Sessions : Minding(k, y) =>
            /\ client'[y] = "open" /\ y \notin items'
            /\ \A u \in Tasks \ {t} : ~Minding(task[u], y)
      /\ k.job # "login"
  BY <1>1, <1>3, <1>4, <1>5
<1>9. QED
  BY <1>1, <1>2, <1>3, <1>4, <1>6, <1>7, <1>8, OwnStep

\* The lock is there: the session is looked up again (sessions.py:52-55).
LEMMA EnterMoves ==
    ASSUME SInv, NEW t \in Tasks, Enter(t)
    PROVE  SInv'
<1>1. task[t].at = "wait" /\ task[t] # Idle
  BY DEF Enter, Idle
<1>2. PICK x \in Sessions : x = task[t].x
  BY <1>1, TaskFacts DEF GoodTask
<1>3. /\ lock[x].holder = t
      /\ UNCHANGED <<items, expired, client>>
  BY <1>2 DEF Enter, Holds
<1>4. CASE x \in items /\ task' = [task EXCEPT ![t].at = "use"] /\ UNCHANGED lock
  <2>1. task[t] \in TaskRecord /\ task[t].job # "login" /\ task[t].job \in Jobs
    BY <1>1, TaskFacts DEF GoodTask, TaskRecord
  <2> DEFINE k == [job |-> task[t].job, at |-> "use", x |-> x, now |-> task[t].now,
                   todo |-> task[t].todo]
  <2>2. k \in TaskRecord /\ k.at = "use" /\ k.x = x /\ k.job = task[t].job
    BY <2>1 DEF TaskRecord
  <2>3. task' = [task EXCEPT ![t] = k]
    <3>1. [task[t] EXCEPT !.at = "use"] = k
      BY <1>2, <2>1 DEF TaskRecord
    <3>2. QED
      BY <1>4, <3>1
  <2> HIDE DEF k
  <2>4. k # Idle /\ k.x \in Sessions
    BY <2>2 DEF Idle
  <2>5. GoodTask(k) /\ \A y : ~Minding(k, y) /\ (Using(k, y) => y = x)
    BY <2>1, <2>2, <2>4 DEF GoodTask, Minding, Using
  <2>6. /\ client' \in [Sessions -> {"none", "open", "closed"}]
        /\ LockLike(lock')
        /\ \A u \in Tasks \ {t}, y \in Sessions : Using(task[u], y) => lock'[y].holder = u
    BY <1>3, <1>4 DEF SInv, Types, UsersHold
  <2>7. \A y \in Sessions : Using(k, y) => lock'[y].holder = t /\ y \in items'
    BY <1>3, <1>4, <2>5
  <2>8. k.job # "login" /\ k \in TaskRecord \cup {Idle} /\ items' \subseteq items
    BY <1>3, <2>1, <2>2
  <2>9. QED
    BY <1>3, <2>3, <2>5, <2>6, <2>7, <2>8, OwnStep
<1>5. CASE task' = [task EXCEPT ![t] = Idle] /\ lock' = Left(lock, x, t)
  BY <1>3, <1>5, TaskEnds
<1>6. QED
  BY <1>2, <1>4, <1>5 DEF Enter, Found

\* CancelledError at the await of a request (api.py:303, 324).
LEMMA CancelMoves ==
    ASSUME SInv, NEW t \in Requests, Cancel(t)
    PROVE  SInv'
<1>1. /\ t \in Tasks /\ task[t] # Idle
      /\ lock' = lock \/ \E x : lock' = Left(lock, x, t)
      /\ UNCHANGED <<items, expired, client>>
  BY DEF Cancel, Tasks
<1>2. CASE task[t].job = "login"
  BY <1>1, <1>2, LoginDiscards DEF Cancel
<1>3. CASE task[t].job # "login"
  BY <1>1, <1>3, TaskEnds DEF Cancel
<1>4. QED
  BY <1>2, <1>3

\* Steps of a task that is under way.
LEMMA WorkMoves ==
    ASSUME SInv, NEW t \in Tasks, Work(t)
    PROVE  SInv'
<1>1. CASE LoggedIn(t)
  <2>1. task[t].at = "connect" /\ task[t] # Idle
    BY <1>1 DEF LoggedIn, Idle
  <2>2. task[t].job = "login"
    BY <2>1, TaskFacts DEF GoodTask
  <2>3. PICK x \in Sessions : x = task[t].x
    BY <2>1, <2>2, TaskFacts
  <2>4. "login" \in Jobs /\ Prune(t, "login", x) /\ UNCHANGED <<expired, client>>
    BY <1>1, <2>3 DEF LoggedIn, Jobs
  <2>5. QED
    BY <2>1, <2>2, <2>3, <2>4, PruneMoves
<1>2. CASE LoginFails(t)
  <2>1. task[t].at = "connect" /\ task[t] # Idle
    BY <1>2 DEF LoginFails, Idle
  <2>2. task[t].job = "login"
    BY <2>1, TaskFacts DEF GoodTask
  <2>3. QED
    BY <1>2, <2>1, <2>2, LoginDiscards DEF LoginFails
<1>3. CASE Leave(t)
  BY <1>3, TaskEnds DEF Leave
<1>4. QED
  BY <1>1, <1>2, <1>3, DiscardMoves, EnterMoves, RemovedMoves, PrunedMoves DEF Work

\* A request arrives.
LEMMA ArriveMoves ==
    ASSUME SInv, NEW t \in Requests, Arrive(t)
    PROVE  SInv'
<1>1. ASSUME NEW x \in Sessions, NEW job \in {"call", "status"}, Lease(t, job, x)
      PROVE  SInv'
  <2>1. job \in Jobs /\ job # "login" /\ t \in Tasks
    BY DEF Jobs, Tasks
  <2>2. QED
    BY <1>1, <2>1, PruneMoves DEF Lease
<1>2. QED
  BY <1>1, LoginMoves, RemoveMoves DEF Arrive

\* No step of a request, of the reaper, of time or of the shutdown breaks the invariant.
LEMMA StoreKeeps == SInv /\ [Next]_vars => SInv'
<1> SUFFICES ASSUME SInv, [Next]_vars PROVE SInv'
  OBVIOUS
<1>1. ASSUME NEW x \in Sessions, Expire(x)
      PROVE  SInv'
  BY <1>1 DEF Expire, SInv, Types, Bounded, UsersHold, MindedOnce, LoginsAlone, Using, Minding,
              LockLike, GoodTask
<1>2. CASE Reap
  <2>1. /\ "sweep" \in Jobs /\ "sweep" \notin {"call", "status", "login"} /\ Reaper \in Tasks
    BY DEF Jobs, Tasks
  <2>2. QED
    BY <1>2, <2>1, PruneMoves DEF Reap
<1>3. CASE UNCHANGED vars
  BY <1>3 DEF vars, SInv, Types, Bounded, UsersHold, MindedOnce, LoginsAlone, Using, Minding,
              LockLike, GoodTask
<1>4. QED
  BY <1>1, <1>2, <1>3, ArriveMoves, WorkMoves, CancelMoves, ShutdownMoves DEF Next, Calm

\* The store is empty at the start.
LEMMA StoreStarts == Init => SInv
<1> SUFFICES ASSUME Init PROVE SInv
  OBVIOUS
<1>1. \A t \in Tasks : /\ task[t] = Idle /\ GoodTask(task[t])
                       /\ \A y : ~Minding(task[t], y) /\ ~Using(task[t], y)
  BY IdleFacts DEF Init
<1>2. Types
  BY <1>1 DEF Init, Types, LockLike, Unlocked
<1>3. Bounded
  BY FS_EmptySet, LimitsAssumption DEF Init, Bounded
<1>4. UsersHold /\ MindedOnce /\ LoginsAlone
  BY <1>1 DEF Init, UsersHold, MindedOnce, LoginsAlone
<1>5. QED
  BY <1>2, <1>3, <1>4 DEF SInv

\* Whatever interleaves at the awaits: every session is listed or minded by one task
\* (sessions.py:30-131).
THEOREM StoreInvariant == Spec => []SInv
BY StoreStarts, StoreKeeps, PTL DEF Spec

-----------------------------------------------------------------------------
\* sessions.py:47-62: while a request uses a session its client is open, whatever
\* deletes, expires, prunes, cancels or shuts down around it.
THEOREM UsedIsOpenHolds == Spec => []UsedIsOpen
<1>1. SInv => UsedIsOpen
  <2> SUFFICES ASSUME SInv, NEW t \in Tasks, task[t].at = "use"
               PROVE  client[task[t].x] = "open"
    BY DEF UsedIsOpen
  <2>1. task[t] # Idle
    BY DEF Idle
  <2>2. task[t].x \in Sessions
    BY <2>1 DEF SInv, Types, GoodTask
  <2>3. QED
    BY <2>2 DEF SInv, UsersHold, Using
<1>2. QED
  BY <1>1, StoreInvariant, PTL

\* sessions.py:57-79: the client of a session is for one task at most to close, for
\* none while the session is listed, and for none after it is closed.
THEOREM OneKeeperHolds == Spec => []OneKeeper
<1>1. SInv => OneKeeper
  <2> SUFFICES ASSUME SInv, NEW x \in Sessions
               PROVE  /\ Cardinality(Keepers(x)) <= 1
                      /\ x \in items => Keepers(x) = {}
                      /\ client[x] = "closed" => Keepers(x) = {} /\ x \notin items
    BY DEF OneKeeper
  <2>1. Keepers(x) = {t \in Tasks : Minding(task[t], x)}
    BY DEF Keepers, Minding
  <2>2. /\ \A t, u \in Keepers(x) : t = u
        /\ \A t \in Keepers(x) : client[x] = "open" /\ x \notin items
        /\ x \in items => client[x] = "open"
    BY <2>1 DEF SInv, MindedOnce
  <2>3. Cardinality(Keepers(x)) <= 1
    <3>1. Keepers(x) = {} \/ \E t : Keepers(x) = {t}
      BY <2>2
    <3>2. QED
      BY <3>1, FS_EmptySet, FS_Singleton
  <2>4. QED
    BY <2>2, <2>3
<1>2. QED
  BY <1>1, StoreInvariant, PTL

\* sessions.py:30-39: the store never holds more than its capacity, however many
\* logins finish together.
THEOREM CapacityRespectedHolds == Spec => []CapacityRespected
<1>1. SInv => CapacityRespected
  BY DEF SInv, Bounded, CapacityRespected
<1>2. QED
  BY <1>1, StoreInvariant, PTL

-----------------------------------------------------------------------------
EntersListed ==
    \A u \in Tasks :
        (task'[u].at = "use" /\ task[u].at # "use") => task'[u].x \in items' \ expired'

\* What follows a prune enters a session only if it finds it.
LEMMA ClosingEnters ==
    ASSUME SInv, NEW t \in Tasks, NEW job, NEW x, NEW todo, NEW its, NEW l,
           CloseAll(t, job, x, todo, its, l), expired' = expired
    PROVE  EntersListed
<1> SUFFICES ASSUME NEW u \in Tasks, task'[u].at = "use", task[u].at # "use"
             PROVE  task'[u].x \in items' \ expired'
  BY DEF EntersListed
<1>1. task \in [Tasks -> TaskRecord \cup {Idle}]
  BY DEF SInv, Types
<1>2. CASE todo # {}
  <2>1. PICK y : task' = [task EXCEPT ![t] =
                             [job |-> job, at |-> "prune", x |-> x, now |-> y, todo |-> todo]]
    BY <1>2 DEF CloseAll
  <2>2. QED
    BY <1>1, <2>1
<1>3. CASE todo = {}
  <2>1. Continue(t, job, x, its, l)
    BY <1>3 DEF CloseAll
  <2>2. CASE Claim(t, job, x, its, l) /\ Found(x, its)
    BY <1>1, <2>2 DEF Claim, Found, At
  <2>3. CASE ~(Claim(t, job, x, its, l) /\ Found(x, its))
    <3>1. task' = [task EXCEPT ![t] = Idle] \/ task' = [task EXCEPT ![t] = At("login", "discard", x)]
      BY <2>1, <2>3 DEF Continue, Add, Claim, Rest
    <3>2. QED
      BY <1>1, <3>1 DEF At, Idle
  <2>4. QED
    BY <2>2, <2>3
<1>4. QED
  BY <1>2, <1>3

\* sessions.py:52-55: nobody who waited for the lock gets to use a session that was
\* deleted or expired meanwhile.
THEOREM NoLateUseHolds == Spec => NoLateUse
<1>1. SInv /\ [Next]_vars => [EntersListed]_vars
  <2> SUFFICES ASSUME SInv, Next PROVE EntersListed
    OBVIOUS
  <2>1. task \in [Tasks -> TaskRecord \cup {Idle}]
    BY DEF SInv, Types
  <2>2. ASSUME NEW t \in Tasks, Work(t)
        PROVE  EntersListed
    <3>1. CASE LoggedIn(t)
      BY <3>1, ClosingEnters DEF LoggedIn, Prune
    <3>2. CASE Pruned(t)
      BY <3>2, ClosingEnters DEF Pruned
    <3>3. CASE Enter(t) /\ Found(task[t].x, items)
      <4>1. /\ task' = [task EXCEPT ![t] = [task[t] EXCEPT !.at = "use"]]
            /\ task[t].x \in items' \ expired' /\ task[t] # Idle
        BY <3>3 DEF Enter, Found, Idle
      <4>2. task'[t].x = task[t].x /\ \A u \in Tasks \ {t} : task'[u] = task[u]
        <5>1. task[t] \in TaskRecord
          BY <2>1, <4>1
        <5>2. [task[t] EXCEPT !.at = "use"].x = task[t].x
          BY <5>1 DEF TaskRecord
        <5>3. QED
          BY <2>1, <4>1, <5>2
      <4>3. QED
        BY <4>1, <4>2 DEF EntersListed
    <3>4. CASE LoginFails(t) \/ Discard(t) \/ Leave(t) \/ Removed(t)
                  \/ (Enter(t) /\ ~Found(task[t].x, items))
      <4>1. task' = [task EXCEPT ![t] = Idle]
               \/ task' = [task EXCEPT ![t] = At("login", "discard", task[t].x)]
        BY <3>4 DEF LoginFails, Discard, Leave, Removed, Enter
      <4>2. QED
        BY <2>1, <4>1 DEF At, Idle, EntersListed
    <3>5. QED
      BY <2>2, <3>1, <3>2, <3>3, <3>4 DEF Work
  <2>3. ASSUME NEW t \in Requests, Arrive(t)
        PROVE  EntersListed
    <3>1. ASSUME NEW x \in Sessions, Login(t, x) \/ Remove(t, x)
          PROVE  EntersListed
      BY <2>1, <3>1 DEF Login, Remove, At, EntersListed
    <3>2. ASSUME NEW x \in Sessions, NEW job, Lease(t, job, x)
          PROVE  EntersListed
      <4>1. t \in Tasks
        BY DEF Tasks
      <4>2. QED
        BY <3>2, <4>1, ClosingEnters DEF Lease, Prune
    <3>3. QED
      BY <2>3, <3>1, <3>2 DEF Arrive
  <2>4. ASSUME NEW t \in Requests, Cancel(t)
        PROVE  EntersListed
    <3>1. task' = [task EXCEPT ![t] = Idle]
               \/ task' = [task EXCEPT ![t] = At("login", "discard", task[t].x)]
      BY <2>4 DEF Cancel
    <3>2. QED
      BY <2>1, <3>1 DEF At, Idle, EntersListed
  <2>5. Reaper \in Tasks
    BY DEF Tasks
  <2>6. CASE Reap \/ Shutdown
    BY <2>5, <2>6, ClosingEnters DEF Reap, Shutdown, Prune
  <2>7. ASSUME NEW x \in Sessions, Expire(x)
        PROVE  EntersListed
    BY <2>7 DEF Expire, EntersListed
  <2>8. QED
    BY <2>2, <2>3, <2>4, <2>6, <2>7 DEF Next, Calm
<1>2. [EntersListed]_vars => [\A t \in Tasks :
          (task'[t].at = "use" /\ task[t].at # "use")
              => task'[t].x \in items' \ expired']_vars
  BY DEF EntersListed
<1>3. QED
  BY <1>1, <1>2, StoreInvariant, PTL DEF Spec, NoLateUse

-----------------------------------------------------------------------------
(***************************************************************************)
(* Without cancellation no client is leaked                                *)
(***************************************************************************)
MindedIfOut ==
    \A y \in Sessions :
        (client[y] = "open" /\ y \notin items) => \E u \in Tasks : Minding(task[u], y)

\* Task t keeps minding what it minded, and minds what its step takes or opens.
LEMMA TaskMinds ==
    ASSUME SInv, MindedIfOut, NEW t \in Tasks, NEW k, task' = [task EXCEPT ![t] = k],
           \A y \in Sessions :
               (client'[y] = "open" /\ y \notin items' /\ \A u \in Tasks \ {t} : ~Minding(task[u], y))
                   => Minding(k, y)
    PROVE  MindedIfOut'
<1>1. task'[t] = k /\ \A u \in Tasks \ {t} : task'[u] = task[u]
  BY DEF SInv, Types
<1> SUFFICES ASSUME NEW y \in Sessions, client'[y] = "open", y \notin items'
             PROVE  \E u \in Tasks : Minding(task'[u], y)
  BY DEF MindedIfOut, Minding
<1>2. QED
  BY <1>1

\* What was to be closed is minded by who closes it, one by one.
LEMMA ClosingMinds ==
    ASSUME SInv, MindedIfOut, NEW t \in Tasks, NEW job \in Jobs, NEW x, NEW todo, NEW its, NEW l,
           CloseAll(t, job, x, todo, its, l),
           \A y \in Sessions :
               (client'[y] = "open" /\ y \notin its /\ \A u \in Tasks \ {t} : ~Minding(task[u], y))
                   => y \in todo \/ (job = "login" /\ x = y)
    PROVE  MindedIfOut'
<1>1. CASE todo # {}
  <2>1. PICK z : items' = its /\ task' = [task EXCEPT ![t] =
                     [job |-> job, at |-> "prune", x |-> x, now |-> z, todo |-> todo]]
    BY <1>1 DEF CloseAll
  <2> DEFINE k == [job |-> job, at |-> "prune", x |-> x, now |-> z, todo |-> todo]
  <2>2. k # Idle
    BY DEF Idle
  <2>3. \A y \in Sessions : (y \in todo \/ (job = "login" /\ x = y)) => Minding(k, y)
    BY <2>2 DEF Minding
  <2> HIDE DEF k
  <2>4. task' = [task EXCEPT ![t] = k]
    BY <2>1 DEF k
  <2>5. QED
    BY <2>1, <2>3, <2>4, TaskMinds
<1>2. CASE todo = {} /\ job = "login"
  <2>1. Add(t, x, its, l)
    BY <1>2 DEF CloseAll, Continue
  <2>2. CASE FreePlace(its)
    <3>1. items' = its \cup {x} /\ task' = [task EXCEPT ![t] = Idle]
      BY <2>1, <2>2 DEF Add
    <3>2. \A y \in Sessions :
              ~(client'[y] = "open" /\ y \notin items' /\ \A u \in Tasks \ {t} : ~Minding(task[u], y))
      BY <1>2, <3>1
    <3>3. QED
      BY <3>1, <3>2, TaskMinds
  <2>3. CASE ~FreePlace(its)
    <3> DEFINE k == At("login", "discard", x)
    <3>1. Minding(k, x)
      BY DEF Minding, At
    <3>2. items' = its /\ task' = [task EXCEPT ![t] = k]
      BY <2>1, <2>3 DEF Add
    <3> HIDE DEF k
    <3>3. \A y \in Sessions :
              (client'[y] = "open" /\ y \notin items' /\ \A u \in Tasks \ {t} : ~Minding(task[u], y))
                  => Minding(k, y)
      BY <1>2, <3>1, <3>2
    <3>4. QED
      BY <3>2, <3>3, TaskMinds
  <2>4. QED
    BY <2>2, <2>3
<1>3. CASE todo = {} /\ job # "login"
  <2>1. items' = its /\ \E k : task' = [task EXCEPT ![t] = k]
    BY <1>3 DEF CloseAll, Continue, Claim, Rest
  <2>2. \A y \in Sessions :
            ~(client'[y] = "open" /\ y \notin items' /\ \A u \in Tasks \ {t} : ~Minding(task[u], y))
    BY <1>3, <2>1
  <2>3. QED
    BY <2>1, <2>2, TaskMinds
<1>4. QED
  BY <1>1, <1>2, <1>3

\* prune takes out what it is going to close; a login goes on with its own session.
LEMMA PruneMinds ==
    ASSUME SInv, MindedIfOut, NEW t \in Tasks, NEW job \in Jobs, NEW x, Prune(t, job, x),
           client' = client,
           job = "login" => task[t].x = x,
           \A y \in Sessions : Minding(task[t], y) => job = "login" /\ task[t].x = y
    PROVE  MindedIfOut'
<1>1. CloseAll(t, job, x, Dead, items \ Dead, lock)
  BY DEF Prune
<1>2. \A y \in Sessions :
          (client'[y] = "open" /\ y \notin items \ Dead /\ \A u \in Tasks \ {t} : ~Minding(task[u], y))
              => y \in Dead \/ (job = "login" /\ x = y)
  BY DEF MindedIfOut
<1>3. QED
  BY <1>1, <1>2, ClosingMinds

\* The task closes the client it minds and is done, or goes on to the next.
LEMMA WorkMinds ==
    ASSUME SInv, MindedIfOut, NEW t \in Tasks, Work(t)
    PROVE  MindedIfOut'
<1> DEFINE k == task[t]
<1>1. client \in [Sessions -> {"none", "open", "closed"}] /\ k # Idle
  BY DEF SInv, Types, Work, LoggedIn, LoginFails, Discard, Enter, Leave, Removed, Pruned, Idle
<1>2. /\ k \in TaskRecord /\ GoodTask(k)
      /\ k.job = "login" => k.x \in Sessions /\ Minding(k, k.x)
  BY <1>1, TaskFacts
<1>3. CASE LoggedIn(t)
  <2>1. k.at = "connect" /\ k.job = "login" /\ "login" \in Jobs
    BY <1>1, <1>2, <1>3 DEF LoggedIn, GoodTask, Jobs
  <2>2. \A y \in Sessions : Minding(k, y) => k.x = y
    BY <2>1 DEF Minding
  <2>3. Prune(t, "login", k.x) /\ client' = client
    BY <1>3 DEF LoggedIn
  <2>4. QED
    BY <2>1, <2>2, <2>3, PruneMinds
<1>4. CASE LoginFails(t)
  <2> DEFINE j == At("login", "discard", k.x)
  <2>1. k.at = "connect" /\ task' = [task EXCEPT ![t] = j] /\ UNCHANGED <<items, client>>
    BY <1>4 DEF LoginFails
  <2>2. \A y \in Sessions : Minding(k, y) => Minding(j, y)
    BY <2>1 DEF Minding, At
  <2> HIDE DEF j
  <2>3. \A y \in Sessions :
            (client'[y] = "open" /\ y \notin items' /\ \A u \in Tasks \ {t} : ~Minding(task[u], y))
                => Minding(j, y)
    BY <2>1, <2>2 DEF MindedIfOut
  <2>4. QED
    BY <2>1, <2>3, TaskMinds
<1>5. CASE Discard(t) \/ Removed(t)
  <2>1. /\ client' = [client EXCEPT ![k.x] = "closed"] /\ items' = items
        /\ task' = [task EXCEPT ![t] = Idle] /\ k.at \in {"discard", "evict"}
    BY <1>5 DEF Discard, Removed
  <2>2. \A y \in Sessions : Minding(k, y) => y = k.x
    BY <1>1, <2>1 DEF Minding
  <2>3. \A y \in Sessions :
            ~(client'[y] = "open" /\ y \notin items' /\ \A u \in Tasks \ {t} : ~Minding(task[u], y))
    BY <1>1, <2>1, <2>2 DEF MindedIfOut
  <2>4. QED
    BY <2>1, <2>3, TaskMinds
<1>6. CASE Leave(t) \/ Enter(t)
  <2>1. k.at \in {"use", "wait"} /\ UNCHANGED <<items, client>>
    BY <1>6 DEF Leave, Enter
  <2>2. k.job # "login" /\ \E j : task' = [task EXCEPT ![t] = j]
    BY <1>1, <1>2, <1>6, <2>1 DEF Leave, Enter, GoodTask
  <2>3. \A y \in Sessions : ~Minding(k, y)
    BY <2>1, <2>2 DEF Minding
  <2>4. \A y \in Sessions :
            ~(client'[y] = "open" /\ y \notin items' /\ \A u \in Tasks \ {t} : ~Minding(task[u], y))
    BY <2>1, <2>3 DEF MindedIfOut
  <2>5. QED
    BY <2>2, <2>4, TaskMinds
<1>7. CASE Pruned(t)
  <2>1. /\ k.at = "prune" /\ client' = [client EXCEPT ![k.now] = "closed"]
        /\ CloseAll(t, k.job, k.x, Remaining(k), items, Left(lock, k.now, t))
    BY <1>7 DEF Pruned
  <2>2. k.job \in Jobs /\ \A y \in Sessions :
            Minding(k, y) => y = k.now \/ y \in Remaining(k) \/ (k.job = "login" /\ k.x = y)
    BY <1>1, <1>2, <2>1 DEF Minding, Remaining, TaskRecord
  <2>3. \A y \in Sessions :
            (client'[y] = "open" /\ y \notin items /\ \A u \in Tasks \ {t} : ~Minding(task[u], y))
                => y \in Remaining(k) \/ (k.job = "login" /\ k.x = y)
    BY <1>1, <2>1, <2>2 DEF MindedIfOut
  <2>4. QED
    BY <2>1, <2>2, <2>3, ClosingMinds
<1>8. QED
  BY <1>3, <1>4, <1>5, <1>6, <1>7 DEF Work

\* An idle task that begins to prune minds nothing yet.
LEMMA BeginMinds ==
    ASSUME SInv, MindedIfOut, NEW t \in Tasks, task[t] = Idle, NEW job \in Jobs, job # "login",
           NEW x, Prune(t, job, x), client' = client
    PROVE  MindedIfOut'
<1>1. \A y \in Sessions : ~Minding(task[t], y)
  BY IdleFacts
<1>2. QED
  BY <1>1, PruneMinds

\* A request that arrives leaves no client behind.
LEMMA ArriveMinds ==
    ASSUME SInv, MindedIfOut, NEW t \in Requests, Arrive(t)
    PROVE  MindedIfOut'
<1>1. t \in Tasks /\ client \in [Sessions -> {"none", "open", "closed"}]
  BY DEF Tasks, SInv, Types
<1>2. ASSUME NEW x \in Sessions, Login(t, x)
      PROVE  MindedIfOut'
  <2> DEFINE j == At("login", "connect", x)
  <2>1. /\ task' = [task EXCEPT ![t] = j] /\ client' = [client EXCEPT ![x] = "open"]
        /\ items' = items /\ task[t] = Idle
    BY <1>2 DEF Login
  <2>2. Minding(j, x)
    BY DEF Minding, At, Idle
  <2> HIDE DEF j
  <2>3. \A y \in Sessions :
            (client'[y] = "open" /\ y \notin items' /\ \A u \in Tasks \ {t} : ~Minding(task[u], y))
                => Minding(j, y)
    BY <1>1, <2>1, <2>2, IdleFacts DEF MindedIfOut
  <2>4. QED
    BY <1>1, <2>1, <2>3, TaskMinds
<1>3. ASSUME NEW x \in Sessions, NEW job \in {"call", "status"}, Lease(t, job, x)
      PROVE  MindedIfOut'
  <2>1. job \in Jobs /\ job # "login"
    BY DEF Jobs
  <2>2. QED
    BY <1>1, <1>3, <2>1, BeginMinds DEF Lease
<1>4. ASSUME NEW x \in Sessions, Remove(t, x)
      PROVE  MindedIfOut'
  <2> DEFINE j == At("remove", "evict", x)
  <2>1. /\ task' = [task EXCEPT ![t] = j] /\ client' = client
        /\ items' = items \ {x} /\ task[t] = Idle
    BY <1>4 DEF Remove
  <2>2. Minding(j, x)
    BY DEF Minding, At
  <2> HIDE DEF j
  <2>3. \A y \in Sessions :
            (client'[y] = "open" /\ y \notin items' /\ \A u \in Tasks \ {t} : ~Minding(task[u], y))
                => Minding(j, y)
    BY <2>1, <2>2, IdleFacts DEF MindedIfOut
  <2>4. QED
    BY <1>1, <2>1, <2>3, TaskMinds
<1>5. QED
  BY <1>2, <1>3, <1>4 DEF Arrive

\* tests/test_sessions.py:30: as long as no task is cancelled, a session that was taken
\* out of the store is closed, or a task is about to close it.
THEOREM ExpiredIsClosedHolds == CalmSpec => []ExpiredIsClosed
<1>1. Init => MindedIfOut
  BY DEF Init, MindedIfOut
<1>2. SInv /\ MindedIfOut /\ [Calm]_vars => MindedIfOut'
  <2> SUFFICES ASSUME SInv, MindedIfOut, [Calm]_vars PROVE MindedIfOut'
    OBVIOUS
  <2>1. ASSUME NEW x \in Sessions, Expire(x)
        PROVE  MindedIfOut'
    BY <2>1 DEF Expire, MindedIfOut, Minding
  <2>2. Reaper \in Tasks /\ "sweep" \in Jobs /\ \A y : ~Minding(Idle, y)
    BY IdleFacts DEF Tasks, Jobs
  <2>3. CASE Reap
    BY <2>2, <2>3, BeginMinds DEF Reap
  <2>4. CASE Shutdown /\ task[Reaper] = Idle
    <3>1. CloseAll(Reaper, "sweep", NoSession, items, {}, lock) /\ client' = client
      BY <2>4 DEF Shutdown
    <3>2. \A y \in Sessions :
              (client'[y] = "open" /\ y \notin {} /\ \A u \in Tasks \ {Reaper} : ~Minding(task[u], y))
                  => y \in items
      BY <2>2, <2>4, <3>1 DEF MindedIfOut
    <3>3. QED
      BY <2>2, <3>1, <3>2, ClosingMinds
  <2>5. CASE UNCHANGED vars
    BY <2>5 DEF vars, MindedIfOut, Minding
  <2>6. QED
    BY <2>1, <2>3, <2>4, <2>5, WorkMinds, ArriveMinds DEF Calm
<1>3. [Calm]_vars => [Next]_vars
  BY DEF Next
<1>4. MindedIfOut => ExpiredIsClosed
  <2> SUFFICES ASSUME MindedIfOut, NEW x \in Sessions, client[x] = "open", x \notin items
               PROVE  Keepers(x) # {}
    BY DEF ExpiredIsClosed
  <2>1. QED
    BY DEF MindedIfOut, Keepers, Minding
<1>5. QED
  BY <1>1, <1>2, <1>3, <1>4, StoreStarts, StoreKeeps, PTL DEF CalmSpec

=============================================================================
