------------------------------ MODULE SqlPool ------------------------------
(***************************************************************************)
(* The pool of MySQL connections of iShare_source/mysql_pool.cc, at the    *)
(* granularity of its accesses to shared memory and of its calls into the  *)
(* MySQL client.  Every gRPC handler thread and the notification thread    *)
(* call get_sock_from_pool(), dereference what it returns without a check, *)
(* run SQL, and call release_sock_to_sql_pool().                           *)
(*                                                                         *)
(* Nodes are numbered in the order sql_pool_create() makes them.  It       *)
(* pushes each at the front of the list, so the head is the newest node    *)
(* and node n is followed by n - 1; number 0 is the NULL pointer.          *)
(*                                                                         *)
(* A scan of the list reads the function-static cursor last_used, which no *)
(* lock protects, once when it starts and again before every node.         *)
(***************************************************************************)
EXTENDS Integers, FiniteSets

CONSTANTS Threads,   \* threads that call the pool
          ConnNum,   \* CONN_NUM, the size main() asks for
          MaxHeld,   \* bound: connections one thread borrows at a time
          NoThread   \* the owner of an unlocked mutex

ASSUME ConnNumAssumption == ConnNum \in Nat \ {0}
ASSUME NoThreadAssumption == NoThread \notin Threads

VARIABLES
    pool,      \* progress of sql_pool_create: "creating", "ready" or "destroyed"
    created,   \* nodes created, the number of the list's head (sql_sock_pool->sql_pool)
    lock,      \* lock[n]: the thread that owns node n's sql_lock
    sqlState,  \* sqlState[n]: node n's sql_state
    sock,      \* sock[n]: node n's sql_sock: "null", or an open or a "broken" session
    lastUsed,  \* last_used, the cursor; NULL until the first call initialises it
    pc,        \* pc[t]: where t is inside get_sock_from_pool, or "idle"
    ret,       \* ret[t]: the call's local variable ret
    held,      \* held[t]: nodes returned to t and not released
    dbUp,      \* the MySQL server accepts connections
    down       \* "up", or the invalid memory access that killed the process

nodeVars == <<lock, sqlState, sock>>
threadVars == <<pc, ret, held>>
vars == <<pool, created, nodeVars, lastUsed, threadVars, dbUp, down>>

Nodes == 1..ConnNum
NULL == 0
Socks == {"live", "broken", "null"}

InPool == {"guard", "trylock", "reconnect", "ping"}
Failed == {"nopool", "exhausted", "noconn"}   \* get_sock_from_pool returned NULL

TypeOK ==
    /\ pool \in {"creating", "ready", "destroyed"}
    /\ created \in 0..ConnNum
    /\ lock \in [Nodes -> Threads \cup {NoThread}]
    /\ sqlState \in [Nodes -> {"CONN", "DISCONN"}]
    /\ sock \in [Nodes -> Socks]
    /\ lastUsed \in 0..ConnNum
    /\ pc \in [Threads -> InPool \cup Failed \cup {"idle"}]
    /\ ret \in [Threads -> 0..ConnNum]
    /\ held \in [Threads -> SUBSET Nodes]
    /\ dbUp \in BOOLEAN
    /\ down \in {"up", "null_node", "null_sock", "freed_node"}

----------------------------------------------------------------------------
(* The process starts: main() calls sql_pool_create and ignores its result. *)

Init ==
    /\ pool = "creating"
    /\ created = 0
    /\ lock = [n \in Nodes |-> NoThread]
    /\ sqlState = [n \in Nodes |-> "DISCONN"]
    /\ sock = [n \in Nodes |-> "null"]
    /\ lastUsed = NULL
    /\ pc = [t \in Threads |-> "idle"]
    /\ ret = [t \in Threads |-> NULL]
    /\ held = [t \in Threads |-> {}]
    /\ dbUp = TRUE
    /\ down = "up"

\* One turn of the creation loop: connect and push at the front.
CreateNode ==
    /\ pool = "creating"
    /\ dbUp
    /\ created' = created + 1
    /\ sock' = [sock EXCEPT ![created + 1] = "live"]
    /\ sqlState' = [sqlState EXCEPT ![created + 1] = "CONN"]
    /\ pool' = IF created + 1 = ConnNum THEN "ready" ELSE "creating"
    /\ UNCHANGED <<lock, lastUsed, threadVars, dbUp, down>>

\* No memory, no mutex or no connection for the next node: sql_pool_destroy
\* closes and frees the nodes made so far and leaves the head pointing at them.
CreateFails ==
    /\ pool = "creating"
    /\ pool' = "destroyed"
    /\ sock' = [n \in Nodes |-> "null"]
    /\ UNCHANGED <<created, lock, sqlState, lastUsed, threadVars, dbUp, down>>

----------------------------------------------------------------------------
(* get_sock_from_pool *)

\* n->next
NextNode(n) == n - 1

\* The static cursor is initialised with the head of the list by the first call.
Cursor == IF lastUsed = NULL THEN created ELSE lastUsed

\* The call begins at the cursor's successor.
Enter(t) ==
    /\ down = "up"
    /\ pool = "ready"
    /\ pc[t] = "idle"
    /\ Cardinality(held[t]) < MaxHeld
    /\ lastUsed' = Cursor
    /\ ret' = [ret EXCEPT ![t] = NextNode(Cursor)]
    /\ pc' = [pc EXCEPT ![t] = "guard"]
    /\ UNCHANGED <<pool, created, nodeVars, held, dbUp, down>>

\* A pool whose creation failed: an empty one answers NULL, otherwise the
\* cursor points at freed memory and reading its successor is undefined; here
\* it is the end of the process.
EnterDestroyed(t) ==
    /\ down = "up"
    /\ pool = "destroyed"
    /\ pc[t] = "idle"
    /\ IF created = 0
       THEN pc' = [pc EXCEPT ![t] = "nopool"] /\ UNCHANGED down
       ELSE down' = "freed_node" /\ UNCHANGED pc
    /\ UNCHANGED <<pool, created, nodeVars, lastUsed, ret, held, dbUp>>

\* while (ret != last_used), and the wrap to the head after the last node.
\* The head is not compared with the cursor again.
Guard(t) ==
    /\ down = "up"
    /\ pc[t] = "guard"
    /\ IF ret[t] = lastUsed
       THEN pc' = [pc EXCEPT ![t] = "exhausted"] /\ UNCHANGED ret
       ELSE /\ pc' = [pc EXCEPT ![t] = "trylock"]
            /\ ret' = [ret EXCEPT ![t] = IF @ = NULL THEN created ELSE @]
    /\ UNCHANGED <<pool, created, nodeVars, lastUsed, held, dbUp, down>>

\* Mutant: the result of pthread_mutex_trylock is ignored.
TryLockUnchecked(t) ==
    /\ down = "up"
    /\ pc[t] = "trylock"
    /\ lock' = [lock EXCEPT ![ret[t]] = t]
    /\ pc' = [pc EXCEPT ![t] =
                  IF sqlState[ret[t]] = "DISCONN" THEN "reconnect" ELSE "ping"]
    /\ UNCHANGED <<pool, created, ret, sqlState, sock, lastUsed, held, dbUp, down>>

\* pthread_mutex_trylock, and the look at sql_state when it succeeds.
TryLock(t) ==
    /\ down = "up"
    /\ pc[t] = "trylock"
    /\ IF lock[ret[t]] = NoThread
       THEN /\ lock' = [lock EXCEPT ![ret[t]] = t]
            /\ pc' = [pc EXCEPT ![t] =
                          IF sqlState[ret[t]] = "DISCONN" THEN "reconnect" ELSE "ping"]
            /\ UNCHANGED ret
       ELSE /\ ret' = [ret EXCEPT ![t] = NextNode(@)]
            /\ pc' = [pc EXCEPT ![t] = "guard"]
            /\ UNCHANGED lock
    /\ UNCHANGED <<pool, created, sqlState, sock, lastUsed, held, dbUp, down>>

\* Close_sock dereferences the node's sql_sock, NULL after an earlier failure.
\* Then Create_sock connects anew; sql_state keeps its value.
Reconnect(t) ==
    /\ down = "up"
    /\ pc[t] = "reconnect"
    /\ sock[ret[t]] # "null"
    /\ dbUp
    /\ sock' = [sock EXCEPT ![ret[t]] = "live"]
    /\ pc' = [pc EXCEPT ![t] = "ping"]
    /\ UNCHANGED <<pool, created, lock, sqlState, lastUsed, ret, held, dbUp, down>>

\* Mutant: the early return after a failed connection forgets the mutex.
ReconnectFailsLocked(t) ==
    /\ down = "up"
    /\ pc[t] = "reconnect"
    /\ sock[ret[t]] # "null"
    /\ ~dbUp
    /\ sock' = [sock EXCEPT ![ret[t]] = "null"]
    /\ pc' = [pc EXCEPT ![t] = "noconn"]
    /\ UNCHANGED <<pool, created, lock, sqlState, lastUsed, ret, held, dbUp, down>>

\* Mutant: the node counts as connected before Create_sock's result is known.
ReconnectFailsReset(t) ==
    /\ down = "up"
    /\ pc[t] = "reconnect"
    /\ sock[ret[t]] # "null"
    /\ ~dbUp
    /\ sock' = [sock EXCEPT ![ret[t]] = "null"]
    /\ sqlState' = [sqlState EXCEPT ![ret[t]] = "CONN"]
    /\ lock' = [lock EXCEPT ![ret[t]] = NoThread]
    /\ pc' = [pc EXCEPT ![t] = "noconn"]
    /\ UNCHANGED <<pool, created, lastUsed, ret, held, dbUp, down>>

\* No new connection: unlock the node, which has none now, and return NULL.
ReconnectFails(t) ==
    /\ down = "up"
    /\ pc[t] = "reconnect"
    /\ sock[ret[t]] # "null"
    /\ ~dbUp
    /\ sock' = [sock EXCEPT ![ret[t]] = "null"]
    /\ lock' = [lock EXCEPT ![ret[t]] = NoThread]
    /\ pc' = [pc EXCEPT ![t] = "noconn"]
    /\ UNCHANGED <<pool, created, sqlState, lastUsed, ret, held, dbUp, down>>

ReconnectNull(t) ==
    /\ down = "up"
    /\ pc[t] = "reconnect"
    /\ sock[ret[t]] = "null"
    /\ down' = "null_sock"
    /\ UNCHANGED <<pool, created, nodeVars, lastUsed, threadVars, dbUp>>

\* Mutant: the connection is not probed before it is lent.
PingSkipped(t) ==
    /\ down = "up"
    /\ pc[t] = "ping"
    /\ lastUsed' = ret[t]
    /\ held' = [held EXCEPT ![t] = @ \cup {ret[t]}]
    /\ pc' = [pc EXCEPT ![t] = "idle"]
    /\ UNCHANGED <<pool, created, nodeVars, ret, dbUp, down>>

\* mysql_ping answers: move the cursor and return the node.
PingAnswers(t) ==
    /\ down = "up"
    /\ pc[t] = "ping"
    /\ sock[ret[t]] = "live"
    /\ lastUsed' = ret[t]
    /\ held' = [held EXCEPT ![t] = @ \cup {ret[t]}]
    /\ pc' = [pc EXCEPT ![t] = "idle"]
    /\ UNCHANGED <<pool, created, nodeVars, ret, dbUp, down>>

\* Mutant: a connection that does not answer is not marked for reconnection.
PingFailsUnmarked(t) ==
    /\ down = "up"
    /\ pc[t] = "ping"
    /\ sock[ret[t]] # "live"
    /\ lock' = [lock EXCEPT ![ret[t]] = NoThread]
    /\ pc' = [pc EXCEPT ![t] = "guard"]
    /\ UNCHANGED <<pool, created, sock, sqlState, lastUsed, ret, held, dbUp, down>>

\* mysql_ping fails: mark the node and examine the same node again.
PingFails(t) ==
    /\ down = "up"
    /\ pc[t] = "ping"
    /\ sock[ret[t]] # "live"
    /\ sqlState' = [sqlState EXCEPT ![ret[t]] = "DISCONN"]
    /\ lock' = [lock EXCEPT ![ret[t]] = NoThread]
    /\ pc' = [pc EXCEPT ![t] = "guard"]
    /\ UNCHANGED <<pool, created, sock, lastUsed, ret, held, dbUp, down>>

\* Every caller reads sock_node->sql_sock without looking at the pointer.
DereferenceNull(t) ==
    /\ down = "up"
    /\ pc[t] \in Failed
    /\ down' = "null_node"
    /\ UNCHANGED <<pool, created, nodeVars, lastUsed, threadVars, dbUp>>

----------------------------------------------------------------------------
(* The borrower's calls, between its own queries *)

\* check_sql_sock_normal: a query failed, have the node reconnected next time.
CheckSqlSockNormal(t, n) ==
    /\ down = "up"
    /\ pc[t] = "idle"
    /\ n \in held[t]
    /\ sqlState' = [sqlState EXCEPT ![n] = "DISCONN"]
    /\ UNCHANGED <<pool, created, lock, sock, lastUsed, threadVars, dbUp, down>>

\* release_sock_to_sql_pool
Release(t, n) ==
    /\ down = "up"
    /\ pc[t] = "idle"
    /\ n \in held[t]
    /\ lock' = [lock EXCEPT ![n] = NoThread]
    /\ held' = [held EXCEPT ![t] = @ \ {n}]
    /\ UNCHANGED <<pool, created, sqlState, sock, lastUsed, pc, ret, dbUp, down>>

----------------------------------------------------------------------------
(* The MySQL server and the supervisor, which are outside the repository *)

\* A session times out, or a borrower left a result unread on it: it answers
\* no ping any more.
ConnBreaks(n) ==
    /\ down = "up"
    /\ sock[n] = "live"
    /\ sock' = [sock EXCEPT ![n] = "broken"]
    /\ UNCHANGED <<pool, created, lock, sqlState, lastUsed, threadVars, dbUp, down>>

DbDown ==
    /\ dbUp
    /\ dbUp' = FALSE
    /\ sock' = [n \in Nodes |-> IF sock[n] = "live" THEN "broken" ELSE sock[n]]
    /\ UNCHANGED <<pool, created, lock, sqlState, lastUsed, threadVars, down>>

DbUp ==
    /\ ~dbUp
    /\ dbUp' = TRUE
    /\ UNCHANGED <<pool, created, nodeVars, lastUsed, threadVars, down>>

\* supervisord starts a new process after a crash.
Restart ==
    /\ down # "up"
    /\ pool' = "creating"
    /\ created' = 0
    /\ lock' = [n \in Nodes |-> NoThread]
    /\ sqlState' = [n \in Nodes |-> "DISCONN"]
    /\ sock' = [n \in Nodes |-> "null"]
    /\ lastUsed' = NULL
    /\ pc' = [t \in Threads |-> "idle"]
    /\ ret' = [t \in Threads |-> NULL]
    /\ held' = [t \in Threads |-> {}]
    /\ down' = "up"
    /\ UNCHANGED dbUp

----------------------------------------------------------------------------

\* What a thread does inside get_sock_from_pool once it has entered it.
Scan(t) == \/ Guard(t) \/ TryLock(t)
           \/ Reconnect(t) \/ ReconnectFails(t) \/ ReconnectNull(t)
           \/ PingAnswers(t) \/ PingFails(t)

Environment == DbDown \/ DbUp \/ \E n \in Nodes : ConnBreaks(n)

Next ==
    \/ CreateNode \/ CreateFails
    \/ \E t \in Threads :
          \/ Enter(t) \/ EnterDestroyed(t)
          \/ Scan(t)
          \/ DereferenceNull(t)
          \/ \E n \in Nodes : CheckSqlSockNormal(t, n) \/ Release(t, n)
    \/ Environment
    \/ Restart

Spec == Init /\ [][Next]_vars

\* The scheduler keeps running a thread that is inside the pool.  Nothing is
\* assumed of when a borrower releases: the notification thread never does, and
\* some error paths of the handlers forget to.
FairSpec == Spec /\ \A t \in Threads : WF_vars(Scan(t))

----------------------------------------------------------------------------
(* Properties *)

\* A node is lent to one thread at a time, so that no two handlers interleave
\* their statements and results on one MySQL session.
ExclusiveLease ==
    \A t, u \in Threads : t # u => held[t] \cap held[u] = {}

\* A locked node is either lent to the owner of its mutex or under examination
\* by it: no failure path of the scan leaves a mutex locked, which would
\* shrink the pool for good.
NoLockLeak ==
    \A n \in Nodes, t \in Threads :
        lock[n] = t => \/ n \in held[t]
                       \/ pc[t] \in {"reconnect", "ping"} /\ ret[t] = n

----------------------------------------------------------------------------
(* The inductive invariant behind these two properties *)

\* A lent node is locked by its borrower and has a session, perhaps broken.
Leased ==
    \A t \in Threads : \A n \in held[t] : lock[n] = t /\ sock[n] # "null"

\* Where a thread is inside the scan tells what it owns.
Examining ==
    \A t \in Threads :
        /\ pc[t] = "trylock" => ret[t] \in Nodes
        /\ pc[t] \in {"reconnect", "ping"} =>
              ret[t] \in Nodes /\ lock[ret[t]] = t /\ ret[t] \notin held[t]
        /\ pc[t] = "reconnect" => sqlState[ret[t]] = "DISCONN"
        /\ pc[t] = "ping" => sock[ret[t]] # "null"

\* The pool is used only once it is complete.
PoolPhase ==
    /\ pool = "creating" => created < ConnNum
    /\ pool = "ready" => created = ConnNum
    /\ pool # "ready" => \A t \in Threads : held[t] = {} /\ pc[t] \notin InPool
    /\ (\E t \in Threads : pc[t] \in InPool) => lastUsed # NULL

\* A node without a session is marked, so the scan reconnects it before it
\* probes or lends it.
NullIsMarked ==
    pool # "destroyed" => \A n \in Nodes : sock[n] = "null" => sqlState[n] = "DISCONN"

PoolInv == TypeOK /\ Leased /\ Examining /\ PoolPhase /\ NullIsMarked /\ NoLockLeak

----------------------------------------------------------------------------

\* The mapping to the abstract pool: what is lent is what threads hold.
CP == INSTANCE ConnectionPool
          WITH Borrowers <- Threads, Connections <- Nodes,
               lent <- held, session <- sock

\* The scan lends free, working connections only, and no session is closed or
\* replaced while a borrower has it, even when it is broken and marked for
\* reconnection.
ImplementsConnectionPool == CP!Spec

----------------------------------------------------------------------------

\* Nothing but t's own scan happens from some point on: no connection breaks,
\* no other thread is lent one.
Disturbance(t) == \/ Environment
                  \/ \E u \in Threads \ {t} : PingAnswers(u)

Undisturbed(t) == <>[][~Disturbance(t)]_vars

SomeNodeFree == \E n \in Nodes : \A t \in Threads : n \notin held[t]

Inside(t) == down = "up" /\ pc[t] \in InPool

\* A call returns, with a connection or NULL, if connections stop changing
\* hands and one of them is free.
GetReturnsIfFree ==
    \A t \in Threads :
        (Undisturbed(t) /\ <>[]SomeNodeFree) => (Inside(t) ~> ~Inside(t))

\* A call returns even when every connection is lent: mysql_pool.cc:133 says the
\* scan then ends and get_sock_from_pool returns NULL.
GetReturnsWhenExhausted ==
    \A t \in Threads : Undisturbed(t) => (Inside(t) ~> ~Inside(t))

\* NULL for "exhausted" means that the threads want at least as many
\* connections as there are.  Every caller crashes on NULL.
ExhaustedOnlyByDemand ==
    Cardinality(Threads) * MaxHeld < ConnNum =>
        \A t \in Threads : pc[t] # "exhausted"
=============================================================================
