---------------------------- MODULE Synchronism ----------------------------
(***************************************************************************)
(* The asynchronous Synchronism service of iShare_synchronism.cc and       *)
(* iShare_server.h.  A client opens a stream and names its user; the       *)
(* server writes to the stream whenever a synchronism_* column of that     *)
(* user's row is not 0.                                                    *)
(*                                                                         *)
(* Two threads of the server share users_ and mp_ with no lock:            *)
(*   - a handler thread, HandleRpcs, takes events of the completion queue  *)
(*     and runs CallData::Proceed, which registers new streams;            *)
(*   - the poller, SynServer, deletes the CallData of cancelled streams    *)
(*     and writes to those of users with a flag set.                       *)
(*                                                                         *)
(* An access to the two containers that another thread's insertion may     *)
(* overlap is undefined behaviour: the iteration may or may not meet the   *)
(* new element, or the process may crash.                                  *)
(***************************************************************************)
EXTENDS Integers

CONSTANTS Users,       \* what clients write in Inf.information
          ValidUsers,  \* those that are a user_id of table User
          MaxCalls,    \* bound: CallData instances one process creates
          Handlers,    \* threads that run HandleRpcs: Run does, and no other
          Absent       \* no element of this key in mp_

ASSUME CallsAssumption == MaxCalls \in Nat \ {0}
ASSUME UsersAssumption == ValidUsers \subseteq Users
ASSUME AbsentAssumption == Absent \notin Users \cup (0..MaxCalls)
ASSUME HandlersAssumption == \A g, h \in Handlers : g = h

VARIABLES
    status,   \* status[c]: "unborn", status_ of a live CallData, or "deleted";
              \* no statement assigns FINISH
    first,    \* first[c]: first_process_
    user,     \* user[c]: request_.information(), Absent before a call arrives
    stream,   \* stream[c]: "none", "requested", "open" or "cancelled"
    op,       \* op[c]: "none", or the "write" or "finish" c has outstanding
    finished, \* finished[c]: Finish was called on c
    cq,       \* the completion queue: events [tag, ok]
    users,    \* users_
    mp,       \* mp_: per user, Absent, NULL or a CallData
    hpc,      \* hpc[h]: next statement of handler h
    tag,      \* tag[h]: the CallData handler h works on
    ppc,      \* the poller's next statement
    todo,     \* elements the poller's running iteration has not met yet
    doomed,   \* cancel_users
    cur,      \* the user the poller works on
    flag,     \* flag[u]: some synchronism_* column of u is not 0 (in MySQL)
    down      \* "up", or what ended the process

callVars == <<status, first, user, stream, op, finished, cq>>
mapVars == <<users, mp>>
handlerVars == <<hpc, tag>>
pollerVars == <<ppc, todo, doomed, cur>>
vars == <<callVars, mapVars, handlerVars, pollerVars, flag, down>>

Calls == 1..MaxCalls
NULL == 0

Event(c, ok) == [tag |-> c, ok |-> ok]
Registered == {u \in Users : mp[u] # Absent}
Unborn == {c \in Calls : status[c] = "unborn"}

TypeOK ==
    /\ status \in [Calls -> {"unborn", "PROCESS", "deleted"}]
    /\ first \in [Calls -> BOOLEAN]
    /\ user \in [Calls -> Users \cup {Absent}]
    /\ stream \in [Calls -> {"none", "requested", "open", "cancelled"}]
    /\ op \in [Calls -> {"none", "write", "finish"}]
    /\ finished \in [Calls -> BOOLEAN]
    /\ cq \subseteq [tag : Calls, ok : BOOLEAN]
    /\ users \subseteq Users
    /\ mp \in [Users -> Calls \cup {NULL, Absent}]
    /\ hpc \in [Handlers -> {"next", "find", "insert", "assign"}]
    /\ tag \in [Handlers -> Calls \cup {NULL}]
    /\ ppc \in {"scan", "reap", "erase_user", "erase_entry", "poll", "push", "finish"}
    /\ todo \subseteq Users
    /\ doomed \subseteq Users
    /\ cur \in Users \cup {Absent}
    /\ flag \in [ValidUsers -> BOOLEAN]
    /\ down \in {"up", "assert_ok", "use_after_free", "null_calldata", "data_race",
                 "write_pending", "finish_twice", "null_node"}

----------------------------------------------------------------------------
(* CallData *)

\* new CallData(...): the constructor runs Proceed in state CREATE, which moves
\* to PROCESS and asks the runtime for the next call.
NewCallData(c) ==
    /\ status' = [status EXCEPT ![c] = "PROCESS"]
    /\ stream' = [stream EXCEPT ![c] = "requested"]

\* Run(): the server is built, the poller runs, the first CallData waits.
Init ==
    /\ status = [c \in Calls |-> IF c = 1 THEN "PROCESS" ELSE "unborn"]
    /\ first = [c \in Calls |-> TRUE]
    /\ user = [c \in Calls |-> Absent]
    /\ stream = [c \in Calls |-> IF c = 1 THEN "requested" ELSE "none"]
    /\ op = [c \in Calls |-> "none"]
    /\ finished = [c \in Calls |-> FALSE]
    /\ cq = {}
    /\ users = {}
    /\ mp = [u \in Users |-> Absent]
    /\ hpc = [h \in Handlers |-> "next"]
    /\ tag = [h \in Handlers |-> NULL]
    /\ ppc = "scan"
    /\ todo = {}
    /\ doomed = {}
    /\ cur = Absent
    /\ flag = [u \in ValidUsers |-> FALSE]
    /\ down = "up"

----------------------------------------------------------------------------
(* HandleRpcs and the PROCESS state of Proceed *)

\* An event whose CallData the poller has deleted: both the queue, which
\* completes the operation inside the object, and Proceed touch freed memory.
NextDeleted(h) ==
    /\ down = "up"
    /\ hpc[h] = "next"
    /\ \E e \in cq : status[e.tag] = "deleted"
    /\ down' = "use_after_free"
    /\ UNCHANGED <<callVars, mapVars, handlerVars, pollerVars, flag>>

\* GPR_ASSERT(ok)
NextFailed(h) ==
    /\ down = "up"
    /\ hpc[h] = "next"
    /\ \E e \in cq : status[e.tag] = "PROCESS" /\ ~e.ok
    /\ down' = "assert_ok"
    /\ UNCHANGED <<callVars, mapVars, handlerVars, pollerVars, flag>>

\* Mutant: first_process_ is not looked at, so that each completed write too
\* spawns a CallData.
NextRespawns(h) ==
    /\ down = "up"
    /\ hpc[h] = "next"
    /\ \E e \in cq :
          /\ status[e.tag] = "PROCESS" /\ e.ok
          /\ cq' = cq \ {e}
          /\ hpc' = [hpc EXCEPT ![h] = "find"]
          /\ tag' = [tag EXCEPT ![h] = e.tag]
          /\ first' = [first EXCEPT ![e.tag] = FALSE]
          /\ \E c \in Unborn : NewCallData(c)
    /\ UNCHANGED <<user, op, finished, mapVars, pollerVars, flag, down>>

\* Take an event.  The first one of a CallData says that a call arrived: spawn
\* the CallData that waits for the next one.  Later ones are completed writes.
NextEvent(h) ==
    /\ down = "up"
    /\ hpc[h] = "next"
    /\ \E e \in cq :
          /\ status[e.tag] = "PROCESS" /\ e.ok
          /\ cq' = cq \ {e}
          /\ hpc' = [hpc EXCEPT ![h] = "find"]
          /\ tag' = [tag EXCEPT ![h] = e.tag]
          /\ first' = [first EXCEPT ![e.tag] = FALSE]
          /\ IF first[e.tag]
             THEN \E c \in Unborn : NewCallData(c)
             ELSE UNCHANGED <<status, stream>>
    /\ UNCHANGED <<user, op, finished, mapVars, pollerVars, flag, down>>

\* Mutant: a new stream registers even if its user has one.
FindAlwaysNew(h) ==
    /\ down = "up"
    /\ hpc[h] = "find"
    /\ IF status[tag[h]] = "deleted"
       THEN down' = "use_after_free" /\ UNCHANGED hpc
       ELSE hpc' = [hpc EXCEPT ![h] = "insert"] /\ UNCHANGED down
    /\ UNCHANGED <<callVars, mapVars, tag, pollerVars, flag>>

\* mp_->find(request_.information()) == mp_->end()
Find(h) ==
    /\ down = "up"
    /\ hpc[h] = "find"
    /\ IF status[tag[h]] = "deleted"
       THEN down' = "use_after_free" /\ UNCHANGED hpc
       ELSE /\ hpc' = [hpc EXCEPT ![h] =
                          IF mp[user[tag[h]]] = Absent THEN "insert" ELSE "next"]
            /\ UNCHANGED down
    /\ UNCHANGED <<callVars, mapVars, tag, pollerVars, flag>>

\* Mutant: the stream is entered in mp_ only.
InsertNoUser(h) ==
    /\ down = "up"
    /\ hpc[h] = "insert"
    /\ hpc' = [hpc EXCEPT ![h] = "assign"]
    /\ UNCHANGED <<callVars, mapVars, tag, pollerVars, flag, down>>

\* users_->insert(...): a poll that iterates over users_ may or may not meet it.
InsertUser(h) ==
    /\ down = "up"
    /\ hpc[h] = "insert"
    /\ users' = users \cup {user[tag[h]]}
    /\ hpc' = [hpc EXCEPT ![h] = "assign"]
    /\ \/ UNCHANGED todo
       \/ /\ ppc \in {"poll", "push", "finish"}
          /\ todo' = todo \cup {user[tag[h]]}
    /\ UNCHANGED <<callVars, mp, tag, ppc, doomed, cur, flag, down>>

\* (*mp_)[...] = this: a scan that iterates over mp_ may or may not meet it.
AssignCall(h) ==
    /\ down = "up"
    /\ hpc[h] = "assign"
    /\ mp' = [mp EXCEPT ![user[tag[h]]] = tag[h]]
    /\ hpc' = [hpc EXCEPT ![h] = "next"]
    /\ \/ UNCHANGED todo
       \/ /\ ppc = "scan"
          /\ todo' = todo \cup {user[tag[h]]}
    /\ UNCHANGED <<callVars, users, tag, ppc, doomed, cur, flag, down>>

\* Two threads inside one container, one of them changing it.
DataRace ==
    /\ down = "up"
    /\ \E h \in Handlers :
          \/ hpc[h] = "insert" /\ ppc \in {"erase_user", "poll"}
          \/ hpc[h] = "assign" /\ ppc \in {"scan", "reap", "erase_entry", "push", "finish"}
          \/ hpc[h] = "find" /\ ppc = "erase_entry"
    /\ down' = "data_race"
    /\ UNCHANGED <<callVars, mapVars, handlerVars, pollerVars, flag>>

----------------------------------------------------------------------------
(* SynServer *)

\* Mutant: every stream counts as cancelled.
ScanDoomsAll ==
    /\ down = "up"
    /\ ppc = "scan"
    /\ \E u \in todo :
          /\ mp[u] # NULL
          /\ todo' = todo \ {u}
          /\ doomed' = doomed \cup {u}
    /\ UNCHANGED <<callVars, mapVars, handlerVars, ppc, cur, flag, down>>

\* for (auto& i : mp_): note the user if its stream is cancelled.
ScanEntry ==
    /\ down = "up"
    /\ ppc = "scan"
    /\ \E u \in todo :
          /\ mp[u] # NULL
          /\ todo' = todo \ {u}
          /\ doomed' = IF stream[mp[u]] = "cancelled" THEN doomed \cup {u} ELSE doomed
    /\ UNCHANGED <<callVars, mapVars, handlerVars, ppc, cur, flag, down>>

\* An element that mp_[user_id] of an earlier poll inserted holds NULL.
ScanNull ==
    /\ down = "up"
    /\ ppc = "scan"
    /\ \E u \in todo : mp[u] = NULL
    /\ down' = "null_calldata"
    /\ UNCHANGED <<callVars, mapVars, handlerVars, pollerVars, flag>>

\* Mutant: the loop over cancel_users is missing.
ScanEndsKeeping ==
    /\ down = "up"
    /\ ppc = "scan"
    /\ todo = {}
    /\ ppc' = "poll"
    /\ todo' = users
    /\ doomed' = {}
    /\ UNCHANGED <<callVars, mapVars, handlerVars, cur, flag, down>>

ScanEnds ==
    /\ down = "up"
    /\ ppc = "scan"
    /\ todo = {}
    /\ ppc' = "reap"
    /\ UNCHANGED <<callVars, mapVars, handlerVars, todo, doomed, cur, flag, down>>

\* delete mp_[i], whatever stream has the entry by now.
DeleteCall ==
    /\ down = "up"
    /\ ppc = "reap"
    /\ \E u \in doomed :
          /\ cur' = u
          /\ status' = [status EXCEPT ![mp[u]] = "deleted"]
    /\ ppc' = "erase_user"
    /\ UNCHANGED <<first, user, stream, op, finished, cq, mapVars, handlerVars,
                   todo, doomed, flag, down>>

\* Mutant: the reaper forgets users_.
EraseNoUser ==
    /\ down = "up"
    /\ ppc = "erase_user"
    /\ ppc' = "erase_entry"
    /\ UNCHANGED <<callVars, mapVars, handlerVars, todo, doomed, cur, flag, down>>

EraseUser ==
    /\ down = "up"
    /\ ppc = "erase_user"
    /\ users' = users \ {cur}
    /\ ppc' = "erase_entry"
    /\ UNCHANGED <<callVars, mp, handlerVars, todo, doomed, cur, flag, down>>

\* Mutant: the reaper forgets mp_.
EraseNoEntry ==
    /\ down = "up"
    /\ ppc = "erase_entry"
    /\ doomed' = doomed \ {cur}
    /\ cur' = Absent
    /\ ppc' = "reap"
    /\ UNCHANGED <<callVars, mapVars, handlerVars, todo, flag, down>>

EraseEntry ==
    /\ down = "up"
    /\ ppc = "erase_entry"
    /\ mp' = [mp EXCEPT ![cur] = Absent]
    /\ doomed' = doomed \ {cur}
    /\ cur' = Absent
    /\ ppc' = "reap"
    /\ UNCHANGED <<callVars, users, handlerVars, todo, flag, down>>

\* All cancelled streams are gone: iterate over users_.
ReapEnds ==
    /\ down = "up"
    /\ ppc = "reap"
    /\ doomed = {}
    /\ ppc' = "poll"
    /\ todo' = users
    /\ UNCHANGED <<callVars, mapVars, handlerVars, doomed, cur, flag, down>>

\* The row of a user without news.
PollQuiet(u) ==
    /\ down = "up"
    /\ ppc = "poll"
    /\ u \in todo \cap ValidUsers
    /\ ~flag[u]
    /\ todo' = todo \ {u}
    /\ UNCHANGED <<callVars, mapVars, handlerVars, ppc, doomed, cur, flag, down>>

\* Mutant: the four columns are not compared with "0".
PollFlaggedAlways(u) ==
    /\ down = "up"
    /\ ppc = "poll"
    /\ u \in todo \cap ValidUsers
    /\ cur' = u
    /\ ppc' = "push"
    /\ UNCHANGED <<callVars, mapVars, handlerVars, todo, doomed, flag, down>>

PollFlagged(u) ==
    /\ down = "up"
    /\ ppc = "poll"
    /\ u \in todo \cap ValidUsers
    /\ flag[u]
    /\ cur' = u
    /\ ppc' = "push"
    /\ UNCHANGED <<callVars, mapVars, handlerVars, todo, doomed, flag, down>>

\* row == NULL: no such user.
PollUnknown(u) ==
    /\ down = "up"
    /\ ppc = "poll"
    /\ u \in todo \ ValidUsers
    /\ cur' = u
    /\ ppc' = "finish"
    /\ UNCHANGED <<callVars, mapVars, handlerVars, todo, doomed, flag, down>>

\* The query fails; the user waits for the next poll, on another connection.
PollFails(u) ==
    /\ down = "up"
    /\ ppc = "poll"
    /\ u \in todo
    /\ todo' = todo \ {u}
    /\ UNCHANGED <<callVars, mapVars, handlerVars, ppc, doomed, cur, flag, down>>

\* get_sock_from_pool answers NULL and the poller dereferences it.
PollNoConnection ==
    /\ down = "up"
    /\ ppc = "poll"
    /\ down' = "null_node"
    /\ UNCHANGED <<callVars, mapVars, handlerVars, pollerVars, flag>>

\* mp_[user_id]: the entry is created, NULL, if there is none.
CallOfCur == IF mp[cur] = Absent THEN NULL ELSE mp[cur]

\* responder_.Write(reply, call_data).  The runtime aborts the process when the
\* previous operation of the stream is not complete.
Push ==
    /\ down = "up"
    /\ ppc = "push"
    /\ mp' = [mp EXCEPT ![cur] = CallOfCur]
    /\ IF CallOfCur = NULL
       THEN UNCHANGED <<op, down>>
       ELSE IF op[CallOfCur] = "none"
            THEN op' = [op EXCEPT ![CallOfCur] = "write"] /\ UNCHANGED down
            ELSE down' = "write_pending" /\ UNCHANGED op
    /\ ppc' = "poll"
    /\ todo' = todo \ {cur}
    /\ cur' = Absent
    /\ UNCHANGED <<status, first, user, stream, finished, cq, users, handlerVars,
                   doomed, flag>>

\* responder_.Finish(CANCELLED, call_data).  The runtime aborts the process when
\* the stream was finished before; nothing here remembers that it was.
Finish ==
    /\ down = "up"
    /\ ppc = "finish"
    /\ mp' = [mp EXCEPT ![cur] = CallOfCur]
    /\ IF CallOfCur = NULL
       THEN UNCHANGED <<op, finished, down>>
       ELSE IF ~finished[CallOfCur]
            THEN /\ op' = [op EXCEPT ![CallOfCur] = "finish"]
                 /\ finished' = [finished EXCEPT ![CallOfCur] = TRUE]
                 /\ UNCHANGED down
            ELSE down' = "finish_twice" /\ UNCHANGED <<op, finished>>
    /\ ppc' = "poll"
    /\ todo' = todo \ {cur}
    /\ cur' = Absent
    /\ UNCHANGED <<status, first, user, stream, cq, users, handlerVars, doomed, flag>>

\* sleep(1), and the next turn iterates over mp_.
PollEnds ==
    /\ down = "up"
    /\ ppc = "poll"
    /\ todo = {}
    /\ ppc' = "scan"
    /\ todo' = Registered
    /\ UNCHANGED <<callVars, mapVars, handlerVars, doomed, cur, flag, down>>

----------------------------------------------------------------------------
(* The gRPC runtime, the clients, the handlers that write the flags, and the *)
(* supervisor.                                                               *)

\* A client's call reaches the CallData that waits for one.  The bound keeps one
\* unborn CallData for the handler to spawn.
Connect(c, u) ==
    /\ down = "up"
    /\ stream[c] = "requested"
    /\ Unborn # {}
    /\ stream' = [stream EXCEPT ![c] = "open"]
    /\ user' = [user EXCEPT ![c] = u]
    /\ cq' = cq \cup {Event(c, TRUE)}
    /\ UNCHANGED <<status, first, op, finished, mapVars, handlerVars, pollerVars, flag, down>>

\* The client cancels, or its network is lost; not after the stream has finished.
Disconnect(c) ==
    /\ down = "up"
    /\ stream[c] = "open"
    /\ finished[c] => op[c] # "none"
    /\ stream' = [stream EXCEPT ![c] = "cancelled"]
    /\ UNCHANGED <<status, first, user, op, finished, cq, mapVars, handlerVars,
                   pollerVars, flag, down>>

\* An operation completes, unsuccessfully on a cancelled stream.  The bound is one
\* undelivered event per CallData.
OpDone(c) ==
    /\ down = "up"
    /\ op[c] # "none"
    /\ \A e \in cq : e.tag # c
    /\ op' = [op EXCEPT ![c] = "none"]
    /\ cq' = cq \cup {Event(c, stream[c] # "cancelled")}
    /\ UNCHANGED <<status, first, user, stream, finished, mapVars, handlerVars,
                   pollerVars, flag, down>>

\* A bill, a deletion, a friend or a request for u; u's client collects its news.
SetFlag(u) ==
    /\ ~flag[u]
    /\ flag' = [flag EXCEPT ![u] = TRUE]
    /\ UNCHANGED <<callVars, mapVars, handlerVars, pollerVars, down>>

ClearFlag(u) ==
    /\ flag[u]
    /\ flag' = [flag EXCEPT ![u] = FALSE]
    /\ UNCHANGED <<callVars, mapVars, handlerVars, pollerVars, down>>

\* Memory and streams are lost, the flags are in the database.
Restart ==
    /\ down # "up"
    /\ status' = [c \in Calls |-> IF c = 1 THEN "PROCESS" ELSE "unborn"]
    /\ first' = [c \in Calls |-> TRUE]
    /\ user' = [c \in Calls |-> Absent]
    /\ stream' = [c \in Calls |-> IF c = 1 THEN "requested" ELSE "none"]
    /\ op' = [c \in Calls |-> "none"]
    /\ finished' = [c \in Calls |-> FALSE]
    /\ cq' = {}
    /\ users' = {}
    /\ mp' = [u \in Users |-> Absent]
    /\ hpc' = [h \in Handlers |-> "next"]
    /\ tag' = [h \in Handlers |-> NULL]
    /\ ppc' = "scan"
    /\ todo' = {}
    /\ doomed' = {}
    /\ cur' = Absent
    /\ down' = "up"
    /\ UNCHANGED flag

----------------------------------------------------------------------------

HandlerStep(h) == \/ NextDeleted(h) \/ NextFailed(h) \/ NextEvent(h)
                  \/ Find(h) \/ InsertUser(h) \/ AssignCall(h)

PollerStep == \/ ScanEntry \/ ScanNull \/ ScanEnds
              \/ DeleteCall \/ EraseUser \/ EraseEntry \/ ReapEnds
              \/ \E u \in Users : \/ PollQuiet(u) \/ PollFlagged(u)
                                  \/ PollUnknown(u) \/ PollFails(u)
              \/ PollNoConnection
              \/ Push \/ Finish \/ PollEnds

Next ==
    \/ \E h \in Handlers : HandlerStep(h)
    \/ PollerStep
    \/ DataRace
    \/ \E c \in Calls : \/ \E u \in Users : Connect(c, u)
                        \/ Disconnect(c) \/ OpDone(c)
    \/ \E u \in ValidUsers : SetFlag(u) \/ ClearFlag(u)
    \/ Restart

Spec == Init /\ [][Next]_vars

\* Both threads run forever, and the runtime completes what was started.
FairSpec ==
    /\ Spec
    /\ \A h \in Handlers : WF_vars(HandlerStep(h))
    /\ WF_vars(PollerStep)
    /\ \A c \in Calls : WF_vars(OpDone(c))

----------------------------------------------------------------------------
(* Properties *)

\* Exactly one CallData waits for the next client, or has one and has not
\* spawned its successor yet: the server never stops accepting streams, and the
\* completion events of writes do not multiply the CallData.
OneAcceptor ==
    down = "up" =>
        \E c \in Calls : /\ status[c] = "PROCESS" /\ first[c]
                         /\ \A d \in Calls : status[d] = "PROCESS" /\ first[d] => d = c

\* mp_ leads to CallData that exist, each under the user it serves, but for the
\* entry the poller is erasing.
NoDanglingEntry ==
    down = "up" =>
        \A u \in Users : mp[u] \in Calls =>
            /\ user[mp[u]] = u
            /\ \/ status[mp[u]] = "PROCESS"
               \/ ppc \in {"erase_user", "erase_entry"} /\ cur = u

\* users_ and mp_, which are changed one after the other, name the same users
\* whenever no thread is between the two.
ContainersAgree ==
    (/\ down = "up"
     /\ \A h \in Handlers : hpc[h] \in {"next", "find", "insert"}
     /\ ppc # "erase_entry") => users = Registered

\* The inductive invariant behind these three.

Called(c) == stream[c] \in {"open", "cancelled"} /\ user[c] \in Users

\* Only a CallData that a client has called has operations and events, and one
\* with an operation outstanding is deleted or the one that serves its user.
CallsKnown ==
    /\ \A c \in Unborn : stream[c] = "none" /\ first[c]
    /\ \A e \in cq : Called(e.tag)
    /\ \A c \in Calls : op[c] # "none" =>
          Called(c) /\ (status[c] = "deleted" \/ mp[user[c]] = c)
    /\ \A u \in Users : mp[u] \in Calls => Called(mp[u]) /\ ~first[mp[u]]

Entering(h, u) == hpc[h] = "assign" /\ user[tag[h]] = u

\* What a handler is about to register is not deleted, and its user has no stream.
HandlerKnows(h) ==
    /\ hpc[h] # "next" => tag[h] \in Calls /\ Called(tag[h]) /\ ~first[tag[h]]
    /\ hpc[h] \in {"insert", "assign"} =>
          status[tag[h]] = "PROCESS" /\ mp[user[tag[h]]] \notin Calls
    /\ hpc[h] = "assign" => user[tag[h]] \in users

\* What the poller remembers of the containers stays true while it uses it.
PollerKnows ==
    /\ ppc = "scan" => todo \subseteq Registered
    /\ \A u \in doomed : mp[u] \in Calls /\ stream[mp[u]] = "cancelled"
    /\ ppc \in {"erase_user", "erase_entry"} => cur \in doomed /\ status[mp[cur]] = "deleted"
    /\ ppc = "erase_entry" => cur \notin users
    /\ ppc \in {"poll", "push", "finish"} => todo \subseteq users
    /\ ppc = "push" => cur \in users \cap ValidUsers
    /\ ppc = "finish" => cur \in users \ ValidUsers

\* The containers differ by the user that is being entered and the one that is
\* being erased.
ContainersDiffer ==
    /\ \A u \in users \ Registered : \E h \in Handlers : Entering(h, u)
    /\ \A u \in Registered \ users : ppc = "erase_entry" /\ cur = u

SyncInv ==
    /\ TypeOK
    /\ OneAcceptor
    /\ NoDanglingEntry
    /\ down = "up" => /\ CallsKnown
                      /\ \A h \in Handlers : HandlerKnows(h)
                      /\ PollerKnows
                      /\ ContainersDiffer

\* The poller deletes by user what it found by user: never the CallData of a
\* stream that is still open.
ReapsOnlyCancelled ==
    [][\A c \in Calls : status[c] = "PROCESS" /\ status'[c] = "deleted"
                            => stream[c] = "cancelled"]_vars

\* A registered stream keeps its entry until the poller has deleted it: another
\* stream of the same user does not take it over.
EntryNotReplaced ==
    [][\A u \in Users : mp[u] \in Calls /\ mp'[u] \in Calls => mp'[u] = mp[u]]_vars

\* The CallData of a cancelled stream that is registered is deleted.
CancelledReaped ==
    \A c \in Calls :
        (stream[c] = "cancelled" /\ \E u \in Users : mp[u] = c)
            ~> (status[c] = "deleted" \/ down # "up")

\* News for a registered user are written to its stream, if its queries do not
\* fail forever.
FlaggedPushed ==
    \A u \in ValidUsers :
        <>[][~(PollFails(u) /\ todo' # todo)]_vars =>
            ((mp[u] \in Calls /\ flag[u])
                ~> (\/ mp[u] \notin Calls \/ ~flag[u] \/ down # "up"
                    \/ mp[u] \in Calls /\ op[mp[u]] = "write"))

----------------------------------------------------------------------------
(* The mapping to the abstract stream of news *)

Serving(u) == mp[u] \in Calls /\ status[mp[u]] = "PROCESS"

Served == {u \in ValidUsers : down = "up" /\ Serving(u)}
Seen == {u \in ValidUsers : down = "up" /\ ppc = "push" /\ cur = u}
Told == {u \in Served : op[mp[u]] = "write"}

NS == INSTANCE NewsStream WITH
          Members <- ValidUsers, served <- Served, seen <- Seen, told <- Told

\* Whatever the two threads do to users_ and mp_ between each other's steps, a
\* user is written to through its own stream, after its flags were seen set, and
\* not again before the runtime has taken the last message.
ImplementsNewsStream == NS!Spec

----------------------------------------------------------------------------
(* What the repository says of this component *)

\* iShare_synchronism.cc:223, GPR_ASSERT(ok), does not fail.
AssertOkHolds == down # "assert_ok"

\* src/iShare.err:3: one message at a time is being sent on a stream.
OneWriteOutstanding == down # "write_pending"

\* iShare.proto:14: a stream keeps its client in synchronism, so an open stream
\* of an existing user is registered at some time.
OpenStreamRegistered ==
    \A c \in Calls :
        (stream[c] = "open" /\ user[c] \in ValidUsers)
            ~> (\/ \E u \in Users : mp[u] = c
                \/ stream[c] # "open"
                \/ down # "up")
=============================================================================
