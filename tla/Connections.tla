----------------------------- MODULE Connections -----------------------------
(***************************************************************************)
(* How the handlers of iShareServer and its notification thread use the    *)
(* database connections they borrow.  The pool is the abstract one,        *)
(* ConnectionPool, which SqlPool implements; SqlPool in turn lets its      *)
(* threads release and mark only what they hold, at most MaxHeld = 2       *)
(* connections, and this module shows that the handlers keep to that.      *)
(*                                                                         *)
(* A handler is a program: the sequence of what it does with its           *)
(* connections on the way to its last return.  A statement says in `or`    *)
(* how the handler leaves when the statement fails.  What statements are   *)
(* about is the subject of the other modules.                              *)
(*                                                                         *)
(* mysql_use_result leaves the rows on the session until they have all     *)
(* been fetched or the result is freed; until then the session accepts no  *)
(* other statement and answers no ping.                                    *)
(*                                                                         *)
(* check_sql_sock_normal is left out: it makes the pool replace a session  *)
(* that the ping of the next get_sock_from_pool would find unfit as well.  *)
(***************************************************************************)
EXTENDS Integers, Sequences

CONSTANTS Threads,      \* handler threads
          Connections,  \* the pool's connections
          NoConn,       \* the value of a pointer not yet set
          Faults        \* statements fail, sessions break, the process crashes

ASSUME NoConnAssumption == NoConn \notin Connections
ASSUME FaultsAssumption == Faults \in BOOLEAN

VARIABLES
    lent,     \* of the pool: lent[t], the connections t has
    session,  \* of the pool: session[c], "live" or "broken"
    unread,   \* the connections whose session has rows not fetched
    handler,  \* handler[t]: the handler t runs, or "none"
    todo,     \* todo[t]: what remains of its program
    node      \* node[t]: its pointers sock_node and sock_node_

poolVars == <<lent, session>>
vars == <<lent, session, unread, handler, todo, node>>

Pool == INSTANCE ConnectionPool WITH Borrowers <- Threads

----------------------------------------------------------------------------
(* What a handler does with a connection.  k is 1 for sock_node and 2 for   *)
(* sock_node_.                                                              *)

Op(do, k, or) == [do |-> do, k |-> k, or |-> or]

Get(k) == <<Op("get", k, <<>>)>>                \* get_sock_from_pool
Release(k) == <<Op("release", k, <<>>)>>        \* release_sock_to_sql_pool
Run(k, or) == <<Op("run", k, or)>>              \* mysql_query, no rows
Attempt(k) == <<Op("attempt", k, <<>>)>>        \* the same, its failure ignored
Select(k, or) == <<Op("select", k, or)>>        \* mysql_query, mysql_use_result
Drain(k) == <<Op("drain", k, <<>>)>>            \* fetch to the end, or free
Leave(p) == <<Op("leave", 1, p)>>               \* may return, after p
Maybe(p) == <<Op("maybe", 1, p)>>               \* p or nothing
Repeat(p) == <<Op("repeat", 1, p)>>             \* p any number of times
Risk == <<Op("risk", 1, <<>>)>>                 \* memory is misused

\* The usual way out of a failure.
Give == Release(1)
GiveBoth == Release(1) \o Release(2)

\* A SELECT whose rows are fetched and freed.
Query(k, or) == Select(k, or) \o Drain(k)

OneStatement == Get(1) \o Run(1, Give) \o Release(1)
OneQuery == Get(1) \o Query(1, Give) \o Release(1)

----------------------------------------------------------------------------
(* The handlers of iShare_user.cc *)

User_inf ==
    Get(1) \o Query(1, Give) \o Repeat(Query(1, Give)) \o Query(1, Give)
        \o Run(1, Give) \o Release(1)

\* No such user: the fetch has met the end of the rows.  A wrong password: the
\* row is fetched, but not what ends the rows.
Login ==
    Get(1) \o Select(1, Give) \o Leave(Drain(1) \o Give) \o Leave(Give)
        \o Drain(1) \o Query(1, Give) \o Release(1)

\* The result of the last SELECT is not freed.
Sign_up ==
    Get(1) \o Query(1, Give) \o Leave(Give) \o Run(1, Give)
        \o Select(1, Give) \o Release(1)

Search_username == OneQuery

Add_friend ==
    Get(1) \o Query(1, Give) \o Query(1, Give) \o Leave(Give)
        \o Run(1, Give) \o Run(1, Give) \o Release(1)

\* The failure of the UPDATE keeps the connection.
Delete_friend == Get(1) \o Run(1, Give) \o Run(1, <<>>) \o Release(1)

Reset_Status == OneStatement

Update_user_lastModified ==
    Get(1) \o Attempt(1) \o Query(1, Give) \o Repeat(Run(1, Give)) \o Release(1)

Send_DeviceToken == OneStatement

----------------------------------------------------------------------------
(* The handlers of iShare_setting.cc *)

Obtain_setting == OneQuery

Reset_setting == OneStatement

\* When the name is taken, and when the SELECT of the old name fails, a result
\* that has been freed is freed again.
Reset_userInfo ==
    Get(1) \o Select(1, Give) \o Leave(Drain(1) \o Give \o Risk) \o Drain(1)
        \o Maybe(Query(1, Give \o Risk)) \o Run(1, Give)
        \o Leave(Give)
        \o Query(1, Give) \o Repeat(Run(1, Give)) \o Repeat(Query(1, Give))
        \o Release(1)

Obtain_userInfo == OneQuery

----------------------------------------------------------------------------
(* The handlers of iShare_bill.cc *)

Obtain_bills == Get(1) \o Query(1, Give) \o Run(1, Give) \o Release(1)

Delete_bill == Get(1) \o Run(1, Give) \o Run(1, Give) \o Release(1)

Create_share ==
    Get(1) \o Run(1, Give) \o Run(1, Give) \o Query(1, Give) \o Query(1, Give)
        \o Release(1)

----------------------------------------------------------------------------
(* The handlers of iShare_request.cc *)

Send_request ==
    Get(1) \o Query(1, Give) \o Run(1, Give) \o Run(1, Give) \o Query(1, Give)
        \o Release(1)

\* Mutant: the names are asked for through the connection that has the rows.
NamesOnOne(or) == Repeat(Query(1, or) \o Query(1, or))

\* For each row of the first connection, two names through the second.
Names(or) == Repeat(Query(2, or) \o Query(2, or))

\* Mutant: the second connection is released after the loop and at the end.
Obtain_requestGivesTwice ==
    Get(1) \o Get(2) \o Select(1, GiveBoth) \o Names(Drain(1) \o GiveBoth)
        \o Release(2) \o Drain(1) \o Run(1, Give) \o GiveBoth

Obtain_request ==
    Get(1) \o Get(2) \o Select(1, GiveBoth) \o Names(Drain(1) \o GiveBoth)
        \o Release(2) \o Drain(1) \o Run(1, Give) \o Release(1)

\* The failure of the first SELECT keeps the second connection, and a failure
\* in the loop leaves rows unread.
Obtain_requestLog ==
    Get(1) \o Get(2) \o Select(1, Give) \o Names(GiveBoth)
        \o Release(2) \o Drain(1) \o Run(1, Give) \o Run(1, Give) \o Run(1, Give)
        \o Release(1)

\* Mutant: the second connection is not given back.
Obtain_requestLogHistoryKeeps ==
    Get(1) \o Get(2) \o Select(1, GiveBoth) \o Names(Drain(1) \o GiveBoth)
        \o Drain(1) \o Release(1)

Obtain_requestLogHistory ==
    Get(1) \o Get(2) \o Select(1, GiveBoth) \o Names(Drain(1) \o GiveBoth)
        \o Release(2) \o Drain(1) \o Release(1)

\* A request that has been answered already has no row, and its first column is
\* read all the same.  Only two types of requests have statements of their own.
Request_response ==
    Get(1) \o Select(1, Give) \o Risk \o Drain(1) \o Leave(Give)
        \o Run(1, Give) \o Run(1, Give) \o Run(1, Give) \o Release(1)

MakePayment == Get(1) \o Repeat(Run(1, Give)) \o Release(1)

Create_requestLog == Get(1) \o Run(1, Give) \o Run(1, Give) \o Release(1)

IgnoreRequestLog == OneStatement

----------------------------------------------------------------------------
(* The notification thread, SynServer of iShare_synchronism.cc *)

\* One user: the query fails, or the user does not exist, and the thread gets
\* another connection; or its columns are read.
Poll ==
    Select(1, Release(1) \o Get(1)) \o Leave(Drain(1) \o Release(1) \o Get(1))
        \o Drain(1)

SynServer == Get(1) \o Poll

----------------------------------------------------------------------------

Programs == [
    User_inf |-> User_inf, Login |-> Login, Sign_up |-> Sign_up,
    Search_username |-> Search_username, Add_friend |-> Add_friend,
    Delete_friend |-> Delete_friend, Reset_Status |-> Reset_Status,
    Update_user_lastModified |-> Update_user_lastModified,
    Send_DeviceToken |-> Send_DeviceToken,
    Obtain_setting |-> Obtain_setting, Reset_setting |-> Reset_setting,
    Reset_userInfo |-> Reset_userInfo, Obtain_userInfo |-> Obtain_userInfo,
    Obtain_bills |-> Obtain_bills, Delete_bill |-> Delete_bill,
    Create_share |-> Create_share, Send_request |-> Send_request,
    Obtain_request |-> Obtain_request, Obtain_requestLog |-> Obtain_requestLog,
    Obtain_requestLogHistory |-> Obtain_requestLogHistory,
    Request_response |-> Request_response, MakePayment |-> MakePayment,
    Create_requestLog |-> Create_requestLog, IgnoreRequestLog |-> IgnoreRequestLog,
    SynServer |-> SynServer ]

Handlers == DOMAIN Programs

Ops == {"get", "release", "run", "attempt", "select", "drain", "leave", "maybe", "repeat",
        "risk"}

TypeOK ==
    /\ Pool!TypeOK
    /\ unread \subseteq Connections
    /\ handler \in [Threads -> Handlers \cup {"none"}]
    /\ \A t \in Threads : \A i \in DOMAIN todo[t] : todo[t][i].do \in Ops
    /\ node \in [Threads -> [1..2 -> Connections \cup {NoConn}]]

Unset == [k \in 1..2 |-> NoConn]

Init ==
    /\ lent = [t \in Threads |-> {}]
    /\ session = [c \in Connections |-> "live"]
    /\ unread = {}
    /\ handler = [t \in Threads |-> "none"]
    /\ todo = [t \in Threads |-> <<>>]
    /\ node = [t \in Threads |-> Unset]

----------------------------------------------------------------------------
(* One step of a program *)

\* The next thing t does, and the connection it does it with.
Step(t) == Head(todo[t])
Conn(t) == node[t][Step(t).k]

At(t, do) == todo[t] # <<>> /\ Step(t).do = do

Proceed(t) == todo' = [todo EXCEPT ![t] = Tail(@)]
GoTo(t, p) == todo' = [todo EXCEPT ![t] = p]

Begin(t, h) ==
    /\ handler[t] = "none"
    /\ handler' = [handler EXCEPT ![t] = h]
    /\ GoTo(t, Programs[h])
    /\ UNCHANGED <<poolVars, unread, node>>

\* The last statement of the body: the local variables are gone.
Return(t) ==
    /\ handler[t] \notin {"none", "SynServer"}
    /\ todo[t] = <<>>
    /\ handler' = [handler EXCEPT ![t] = "none"]
    /\ node' = [node EXCEPT ![t] = Unset]
    /\ UNCHANGED <<poolVars, unread, todo>>

\* The loops of SynServer, which never end.
NextPoll(t) ==
    /\ handler[t] = "SynServer"
    /\ todo[t] = <<>>
    /\ GoTo(t, Poll)
    /\ UNCHANGED <<poolVars, unread, handler, node>>

\* Mutant: the session is lent without a ping.
DoGetUnpinged(t, c) ==
    /\ At(t, "get")
    /\ Pool!Lend(t, c)
    /\ node' = [node EXCEPT ![t][Step(t).k] = c]
    /\ Proceed(t)
    /\ UNCHANGED <<unread, handler>>

\* A ping on a session that has rows left fails.
DoGet(t, c) ==
    /\ At(t, "get")
    /\ c \notin unread
    /\ Pool!Lend(t, c)
    /\ node' = [node EXCEPT ![t][Step(t).k] = c]
    /\ Proceed(t)
    /\ UNCHANGED <<unread, handler>>

\* pthread_mutex_unlock, whoever locked it.
DoRelease(t) ==
    /\ At(t, "release")
    /\ lent' = [u \in Threads |-> lent[u] \ {Conn(t)}]
    /\ Proceed(t)
    /\ UNCHANGED <<session, unread, handler, node>>

InStep(c) == session[c] = "live" /\ c \notin unread

\* mysql_query succeeds, and mysql_use_result after a SELECT.
DoStatement(t) ==
    /\ At(t, "run") \/ At(t, "attempt") \/ At(t, "select")
    /\ InStep(Conn(t))
    /\ unread' = IF At(t, "select") THEN unread \cup {Conn(t)} ELSE unread
    /\ Proceed(t)
    /\ UNCHANGED <<poolVars, handler, node>>

\* mysql_query fails: an error of the database, or of the session.
DoStatementFails(t) ==
    /\ \/ (At(t, "run") \/ At(t, "select")) /\ GoTo(t, Step(t).or)
       \/ At(t, "attempt") /\ Proceed(t)
    /\ Faults \/ ~InStep(Conn(t))
    /\ UNCHANGED <<poolVars, unread, handler, node>>

DoDrain(t) ==
    /\ At(t, "drain")
    /\ unread' = unread \ {Conn(t)}
    /\ Proceed(t)
    /\ UNCHANGED <<poolVars, handler, node>>

DoChoose(t) ==
    /\ \/ /\ At(t, "leave")
          /\ Proceed(t) \/ GoTo(t, Step(t).or)
       \/ /\ At(t, "maybe")
          /\ Proceed(t) \/ GoTo(t, Step(t).or \o Tail(todo[t]))
       \/ /\ At(t, "repeat")
          /\ Proceed(t) \/ GoTo(t, Step(t).or \o todo[t])
       \/ At(t, "risk") /\ Proceed(t)
    /\ UNCHANGED <<poolVars, unread, handler, node>>

----------------------------------------------------------------------------
(* The server of the database, and the process *)

Break(c) ==
    /\ Faults
    /\ session[c] = "live" /\ Pool!IsLent(c)
    /\ session' = [session EXCEPT ![c] = "broken"]
    /\ Pool!Maintain
    /\ UNCHANGED <<unread, handler, todo, node>>

\* get_sock_from_pool replaces a session that does not answer.
Reconnect(c) ==
    /\ ~InStep(c)
    /\ ~Pool!IsLent(c)
    /\ session' = [session EXCEPT ![c] = "live"]
    /\ unread' = unread \ {c}
    /\ Pool!Maintain
    /\ UNCHANGED <<handler, todo, node>>

\* The process ends and starts again: a crash, memory misused, or a NULL of
\* get_sock_from_pool, which nobody checks; SqlPool says when it is returned.
ProcessEnds ==
    /\ Faults \/ \E t \in Threads : At(t, "get") \/ At(t, "risk")
    /\ Pool!Restart
    /\ session' = [c \in Connections |-> "live"]
    /\ unread' = {}
    /\ handler' = [t \in Threads |-> "none"]
    /\ todo' = [t \in Threads |-> <<>>]
    /\ node' = [t \in Threads |-> Unset]

Next ==
    \/ \E t \in Threads :
          \/ \E h \in Handlers : Begin(t, h)
          \/ \E c \in Connections : DoGet(t, c)
          \/ DoRelease(t) \/ DoStatement(t) \/ DoStatementFails(t)
          \/ DoDrain(t) \/ DoChoose(t)
          \/ Return(t) \/ NextPoll(t)
    \/ \E c \in Connections : Break(c) \/ Reconnect(c)
    \/ ProcessEnds

Spec == Init /\ [][Next]_vars

----------------------------------------------------------------------------
(* Properties *)

\* A handler that makes a statement, fetches or releases holds the connection it
\* does this with, on every path through its loops and its error exits: what
\* SqlPool takes for granted of its callers.
HoldsWhatItUses ==
    \A t \in Threads :
        (\E do \in {"release", "run", "attempt", "select", "drain"} : At(t, do)) =>
            Conn(t) \in lent[t]

\* No statement is sent on a session that still has rows of an earlier one, be
\* it the handler's own or that of the handler which had the connection before.
NeverOutOfStep ==
    \A t \in Threads :
        At(t, "run") \/ At(t, "attempt") \/ At(t, "select") => Conn(t) \notin unread

Leaking == {"Delete_friend", "Obtain_requestLog"}

\* A handler other than those of Leaking returns only after it has given back all
\* that it borrowed, whichever of its statements fail.
OnlyKnownLeaks ==
    [][\A t \in Threads :
          handler[t] \notin Leaking /\ handler'[t] # handler[t] =>
              \A k \in 1..2 : node[t][k] \notin lent'[t]]_vars
=============================================================================
