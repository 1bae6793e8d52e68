-------------------------- MODULE SynchronismProofs --------------------------
(***************************************************************************)
(* Proofs about Synchronism, for any users and any number of streams: the  *)
(* containers and the CallData they lead to, and that the service is the   *)
(* stream of news that NewsStream describes.                               *)
(*                                                                         *)
(* All of them rest on SyncInv, which says something only of a process     *)
(* that is up.  It is true again when a process starts, whatever ended the *)
(* one before.                                                             *)
(***************************************************************************)
EXTENDS Synchronism, TLAPS

\* What SyncInv says of a process that is up, but for the types.
UpInv ==
    /\ \E c \in Calls : /\ status[c] = "PROCESS" /\ first[c]
                        /\ \A d \in Calls : status[d] = "PROCESS" /\ first[d] => d = c
    /\ \A u \in Users : mp[u] \in Calls =>
          /\ user[mp[u]] = u
          /\ \/ status[mp[u]] = "PROCESS"
             \/ ppc \in {"erase_user", "erase_entry"} /\ cur = u
    /\ CallsKnown
    /\ \A h \in Handlers : HandlerKnows(h)
    /\ PollerKnows
    /\ ContainersDiffer

LEMMA SyncInvParts ==
  /\ SyncInv <=> TypeOK /\ (down = "up" => UpInv)
  /\ SyncInv' <=> TypeOK' /\ (down' = "up" => UpInv')
  BY DEF SyncInv, UpInv, OneAcceptor, NoDanglingEntry

\* What ends the process changes nothing that matters before the restart.
LEMMA EndSteps ==
  ASSUME SyncInv, 
         \/ \E h \in Handlers : NextDeleted(h) \/ NextFailed(h)
         \/ DataRace \/ ScanNull \/ PollNoConnection
  PROVE  SyncInv'
<1>1. /\ UNCHANGED <<status, first, user, stream, op, finished, cq, users, mp, hpc, tag,
                     ppc, todo, doomed, cur, flag>>
      /\ down' \in {"use_after_free", "assert_ok", "data_race", "null_calldata", "null_node"}
  BY DEF NextDeleted, NextFailed, DataRace, ScanNull, PollNoConnection,
         callVars, mapVars, handlerVars, pollerVars
<1>2. TypeOK'
  BY <1>1 DEF SyncInv, TypeOK
<1> QED
  BY <1>1, <1>2, SyncInvParts

\* An event is taken: the acceptor that got its call names its successor.
LEMMA NextEventStep ==
  ASSUME SyncInv, NEW h \in Handlers, NextEvent(h)
  PROVE  SyncInv'
<1> /\ TypeOK /\ UpInv
  BY SyncInvParts DEF NextEvent
<1>1. PICK e \in cq :
         /\ status[e.tag] = "PROCESS" /\ e.ok
         /\ cq' = cq \ {e}
         /\ hpc' = [hpc EXCEPT ![h] = "find"]
         /\ tag' = [tag EXCEPT ![h] = e.tag]
         /\ first' = [first EXCEPT ![e.tag] = FALSE]
         /\ IF first[e.tag]
            THEN \E c \in Unborn : NewCallData(c)
            ELSE UNCHANGED <<status, stream>>
  BY DEF NextEvent
<1>2. UNCHANGED <<user, op, finished, users, mp, ppc, todo, doomed, cur, flag, down>>
  BY DEF NextEvent, mapVars, pollerVars
<1> PICK b : b = e.tag
  OBVIOUS
<1>3. /\ b \in Calls /\ Called(b) /\ status[b] = "PROCESS"
      /\ first' = [first EXCEPT ![b] = FALSE] /\ tag' = [tag EXCEPT ![h] = b]
  BY <1>1 DEF TypeOK, UpInv, CallsKnown
<1>4. ContainersDiffer'
  <2>1. \A g \in Handlers : \A u : ~Entering(g, u)
    BY HandlersAssumption DEF NextEvent, Entering
  <2> QED
    BY <1>2, <2>1 DEF UpInv, ContainersDiffer, Registered
<1>5. ASSUME NEW c \in Unborn, first[b], NewCallData(c)
      PROVE  SyncInv'
  <2>1. /\ c \in Calls /\ c # b /\ status[c] = "unborn" /\ stream[c] = "none" /\ first[c]
        /\ status' = [status EXCEPT ![c] = "PROCESS"]
        /\ stream' = [stream EXCEPT ![c] = "requested"]
    BY <1>3, <1>5 DEF Unborn, NewCallData, UpInv, CallsKnown
  <2>2. TypeOK'
    BY <1>1, <1>2, <1>3, <2>1 DEF TypeOK
  <2>3. \A d \in Calls : Called(d) => d # c /\ Called(d)'
    BY <1>2, <2>1 DEF Called, TypeOK
  <2>4. \E a \in Calls : /\ status'[a] = "PROCESS" /\ first'[a]
                         /\ \A d \in Calls : status'[d] = "PROCESS" /\ first'[d] => d = a
    BY <1>3, <1>5, <2>1 DEF UpInv, TypeOK
  <2>5. CallsKnown'
    BY <1>1, <1>2, <1>3, <2>1, <2>3 DEF UpInv, CallsKnown, Unborn, TypeOK
  <2>6. \A g \in Handlers : HandlerKnows(g)'
    BY <1>1, <1>2, <1>3, <2>1, <2>3 DEF UpInv, HandlerKnows, TypeOK
  <2>7. PollerKnows'
    BY <1>2, <1>3, <2>1 DEF UpInv, PollerKnows, Registered, TypeOK
  <2>8. UpInv'
    BY <1>2, <2>1, <2>4, <2>5, <1>4, <2>6, <2>7 DEF UpInv, TypeOK
  <2> QED
    BY <2>2, <2>8, SyncInvParts
<1>6. ASSUME ~first[b], UNCHANGED <<status, stream>>
      PROVE  SyncInv'
  <2>1. UNCHANGED first
    BY <1>3, <1>6 DEF TypeOK
  <2>2. TypeOK'
    BY <1>1, <1>2, <1>3, <1>6, <2>1 DEF TypeOK
  <2>3. \A d \in Calls : Called(d)' <=> Called(d)
    BY <1>2, <1>6 DEF Called
  <2>5. CallsKnown'
    BY <1>1, <1>2, <1>6, <2>1, <2>3 DEF UpInv, CallsKnown, Unborn, TypeOK
  <2>6. \A g \in Handlers : HandlerKnows(g)'
    BY <1>1, <1>2, <1>3, <1>6, <2>1, <2>3 DEF UpInv, HandlerKnows, TypeOK
  <2>7. PollerKnows'
    BY <1>2, <1>6 DEF UpInv, PollerKnows, Registered
  <2>8. UpInv'
    BY <1>2, <1>6, <2>1, <2>5, <1>4, <2>6, <2>7 DEF UpInv
  <2> QED
    BY <2>2, <2>8, SyncInvParts
<1> QED
  BY <1>1, <1>5, <1>6

\* The handler looks for its user: without a stream it will register this one.
LEMMA FindStep ==
  ASSUME SyncInv, NEW h \in Handlers, Find(h)
  PROVE  SyncInv'
<1> /\ TypeOK /\ UpInv
  BY SyncInvParts DEF Find
<1> PICK c : c = tag[h]
  OBVIOUS
<1>1. /\ hpc[h] = "find"
      /\ UNCHANGED <<status, first, user, stream, op, finished, cq, users, mp, tag,
                     ppc, todo, doomed, cur, flag>>
      /\ \/ status[c] = "deleted" /\ down' = "use_after_free" /\ UNCHANGED hpc
         \/ /\ status[c] # "deleted" /\ UNCHANGED down
            /\ \/ mp[user[c]] = Absent /\ hpc' = [hpc EXCEPT ![h] = "insert"]
               \/ mp[user[c]] # Absent /\ hpc' = [hpc EXCEPT ![h] = "next"]
  BY DEF Find, callVars, mapVars, pollerVars
<1>2. TypeOK'
  BY <1>1 DEF TypeOK
<1>3. CASE status[c] = "deleted"
  BY <1>1, <1>2, <1>3, SyncInvParts
<1>4. CASE status[c] # "deleted"
  <2>1. c \in Calls /\ Called(c) /\ ~first[c]
    BY <1>1 DEF UpInv, HandlerKnows
  <2>2. status[c] = "PROCESS"
    BY <1>4, <2>1 DEF TypeOK, UpInv, CallsKnown, Unborn, Called
  <2>3. mp[user[c]] = Absent => mp[user[c]] \notin Calls
    BY AbsentAssumption DEF Calls
  <2>4. \A d : Called(d)' <=> Called(d)
    BY <1>1 DEF Called
  <2>5. HandlerKnows(h)'
    BY <1>1, <1>4, <2>1, <2>2, <2>3, <2>4 DEF HandlerKnows, TypeOK
  <2>6. \A g \in Handlers : HandlerKnows(g)'
    BY <2>5, HandlersAssumption
  <2>7. CallsKnown' /\ PollerKnows'
    BY <1>1, <2>4 DEF UpInv, CallsKnown, PollerKnows, Unborn, Registered
  <2>8. ContainersDiffer'
    <3>1. \A g \in Handlers : \A u : ~Entering(g, u)
      BY <1>1, HandlersAssumption DEF Entering
    <3> QED
      BY <1>1, <3>1 DEF UpInv, ContainersDiffer, Registered
  <2>9. UpInv'
    BY <1>1, <1>4, <2>6, <2>7, <2>8 DEF UpInv
  <2> QED
    BY <1>2, <2>9, SyncInvParts
<1> QED
  BY <1>3, <1>4

\* The user is entered in users_.  It has no entry in mp_, so the poller, which
\* erases what has one, leaves it alone.
LEMMA InsertUserStep ==
  ASSUME SyncInv, NEW h \in Handlers, InsertUser(h)
  PROVE  SyncInv'
<1> /\ TypeOK /\ UpInv
  BY SyncInvParts DEF InsertUser
<1> PICK c : c = tag[h]
  OBVIOUS
<1> PICK u : u = user[c]
  OBVIOUS
<1>1. /\ hpc[h] = "insert" /\ down = "up" /\ hpc' = [hpc EXCEPT ![h] = "assign"]
      /\ users' = users \cup {u}
      /\ todo' = todo \/ (ppc \in {"poll", "push", "finish"} /\ todo' = todo \cup {u})
      /\ UNCHANGED <<status, first, user, stream, op, finished, cq, mp, tag,
                     ppc, doomed, cur, flag, down>>
  BY DEF InsertUser, callVars
<1>2. c \in Calls /\ Called(c) /\ ~first[c] /\ status[c] = "PROCESS" /\ mp[u] \notin Calls
  BY <1>1 DEF UpInv, HandlerKnows
<1>3. u \in Users
  BY <1>2 DEF Called
<1>4. TypeOK'
  BY <1>1, <1>3 DEF TypeOK
<1>5. \A d : Called(d)' <=> Called(d)
  BY <1>1 DEF Called
<1>6. HandlerKnows(h)'
  BY <1>1, <1>2, <1>5 DEF HandlerKnows, TypeOK
<1>7. \A g \in Handlers : HandlerKnows(g)'
  BY <1>6, HandlersAssumption
<1>8. CallsKnown'
  BY <1>1, <1>5 DEF UpInv, CallsKnown, Unborn
<1>9. PollerKnows'
  BY <1>1, <1>2 DEF UpInv, PollerKnows, Registered
<1>10. ContainersDiffer'
  <2>1. Entering(h, u)'
    BY <1>1 DEF Entering, TypeOK
  <2>2. \A g \in Handlers : \A v : ~Entering(g, v)
    BY <1>1, HandlersAssumption DEF Entering
  <2> QED
    BY <1>1, <2>1, <2>2 DEF UpInv, ContainersDiffer, Registered
<1>11. UpInv'
  BY <1>1, <1>7, <1>8, <1>9, <1>10 DEF UpInv
<1> QED
  BY <1>4, <1>11, SyncInvParts

\* The entry of the user leads to its new stream.
LEMMA AssignCallStep ==
  ASSUME SyncInv, NEW h \in Handlers, AssignCall(h)
  PROVE  SyncInv'
<1> /\ TypeOK /\ UpInv
  BY SyncInvParts DEF AssignCall
<1> PICK c : c = tag[h]
  OBVIOUS
<1> PICK u : u = user[c]
  OBVIOUS
<1>1. /\ hpc[h] = "assign" /\ down = "up" /\ hpc' = [hpc EXCEPT ![h] = "next"]
      /\ mp' = [mp EXCEPT ![u] = c]
      /\ todo' = todo \/ (ppc = "scan" /\ todo' = todo \cup {u})
      /\ UNCHANGED <<status, first, user, stream, op, finished, cq, users, tag,
                     ppc, doomed, cur, flag, down>>
  BY DEF AssignCall, callVars
<1>2. /\ c \in Calls /\ Called(c) /\ ~first[c] /\ status[c] = "PROCESS"
      /\ mp[u] \notin Calls /\ u \in users
  BY <1>1 DEF UpInv, HandlerKnows
<1>3. u \in Users
  BY <1>2 DEF Called
<1>4. TypeOK'
  BY <1>1, <1>2, <1>3 DEF TypeOK
<1>5. \A d : Called(d)' <=> Called(d)
  BY <1>1 DEF Called
<1>6. HandlerKnows(h)'
  BY <1>1, <1>2, <1>5 DEF HandlerKnows, TypeOK
<1>7. \A g \in Handlers : HandlerKnows(g)'
  BY <1>6, HandlersAssumption
<1>8. CallsKnown'
  <2>1. \A d \in Calls : mp[user[d]] = d => user[d] # u
    BY <1>2
  <2>2. mp'[u] = c /\ \A v \in Users \ {u} : mp'[v] = mp[v]
    BY <1>1, <1>3 DEF TypeOK
  <2> QED
    BY <1>1, <1>2, <1>5, <2>1, <2>2 DEF UpInv, CallsKnown, Unborn, Called
<1>9. PollerKnows'
  <2>1. u \notin doomed
    BY <1>2 DEF UpInv, PollerKnows
  <2>2. Registered' = Registered \cup {u}
    BY <1>1, <1>2, <1>3, AbsentAssumption DEF Registered, TypeOK, Calls
  <2>3. \A v \in Users \ {u} : mp'[v] = mp[v]
    BY <1>1 DEF TypeOK
  <2> QED
    BY <1>1, <2>1, <2>2, <2>3 DEF UpInv, PollerKnows, TypeOK
<1>10. ContainersDiffer'
  <2>1. \A g \in Handlers : \A v : Entering(g, v) => v = u
    BY HandlersAssumption DEF Entering
  <2>2. Registered' = Registered \cup {u}
    BY <1>1, <1>2, <1>3, AbsentAssumption DEF Registered, TypeOK, Calls
  <2> QED
    BY <1>1, <1>2, <2>1, <2>2 DEF UpInv, ContainersDiffer
<1>11. \A v \in Users : mp'[v] \in Calls =>
          /\ user'[mp'[v]] = v
          /\ \/ status'[mp'[v]] = "PROCESS"
             \/ ppc' \in {"erase_user", "erase_entry"} /\ cur' = v
  BY <1>1, <1>2, <1>3 DEF UpInv, TypeOK
<1>12. UpInv'
  BY <1>1, <1>7, <1>8, <1>9, <1>10, <1>11 DEF UpInv
<1> QED
  BY <1>4, <1>12, SyncInvParts

\* A step of the poller that only moves it on.
LEMMA PollerMoves ==
  ASSUME SyncInv, down = "up",
         UNCHANGED <<status, first, user, stream, op, finished, cq, users, mp, hpc, tag,
                     flag, down>>,
         ppc \notin {"erase_user", "erase_entry"},
         ppc' \in {"scan", "reap", "poll", "push", "finish"},
         todo' \subseteq Users, doomed' \subseteq Users, cur' \in Users \cup {Absent},
         PollerKnows'
  PROVE  SyncInv'
<1> /\ TypeOK /\ UpInv
  BY SyncInvParts
<1>1. TypeOK'
  BY DEF TypeOK
<1>2. \A d : Called(d)' <=> Called(d)
  BY DEF Called
<1>3. CallsKnown' /\ \A h \in Handlers : HandlerKnows(h)'
  BY <1>2 DEF UpInv, CallsKnown, HandlerKnows, Unborn
<1>4. ContainersDiffer'
  BY DEF UpInv, ContainersDiffer, Registered, Entering
<1>5. UpInv'
  BY <1>3, <1>4 DEF UpInv
<1> QED
  BY <1>1, <1>5, SyncInvParts

\* The scan, the end of the reaping, and the rows of the poll.
LEMMA MoveSteps ==
  ASSUME SyncInv,
         \/ ScanEntry \/ ScanEnds \/ ReapEnds \/ PollEnds
         \/ \E u \in Users : PollQuiet(u) \/ PollFlagged(u) \/ PollUnknown(u) \/ PollFails(u)
  PROVE  SyncInv'
<1> down = "up"
  BY DEF ScanEntry, ScanEnds, ReapEnds, PollEnds, PollQuiet, PollFlagged, PollUnknown, PollFails
<1> /\ TypeOK /\ UpInv
  BY SyncInvParts
<1>1. UNCHANGED <<status, first, user, stream, op, finished, cq, users, mp, hpc, tag, flag, down>>
  BY DEF ScanEntry, ScanEnds, ReapEnds, PollEnds, PollQuiet, PollFlagged, PollUnknown, PollFails,
         callVars, mapVars, handlerVars
<1>2. /\ ppc \in {"scan", "reap", "poll"} /\ ppc' \in {"scan", "reap", "poll", "push", "finish"}
      /\ todo' \subseteq Users /\ doomed' \subseteq Users /\ cur' \in Users \cup {Absent}
  BY DEF ScanEntry, ScanEnds, ReapEnds, PollEnds, PollQuiet, PollFlagged, PollUnknown, PollFails,
         TypeOK, Registered
<1>3. CASE ScanEntry
  <2>1. PICK u \in todo : mp[u] # NULL /\ todo' = todo \ {u}
                          /\ doomed' = IF stream[mp[u]] = "cancelled" THEN doomed \cup {u} ELSE doomed
    BY <1>3 DEF ScanEntry
  <2>2. ppc = "scan" /\ UNCHANGED <<ppc, cur>>
    BY <1>3 DEF ScanEntry
  <2>3. u \in Registered
    BY <2>1, <2>2 DEF UpInv, PollerKnows
  <2>4. mp[u] \in Calls
    BY <2>1, <2>3 DEF Registered, TypeOK
  <2>5. PollerKnows'
    BY <1>1, <2>1, <2>2, <2>4 DEF UpInv, PollerKnows, Registered
  <2> QED
    BY <1>1, <1>2, <2>5, PollerMoves
<1>4. CASE ScanEnds \/ ReapEnds \/ PollEnds
  <2>1. PollerKnows'
    BY <1>1, <1>4 DEF ScanEnds, ReapEnds, PollEnds, UpInv, PollerKnows, Registered
  <2> QED
    BY <1>1, <1>2, <2>1, PollerMoves
<1>5. ASSUME NEW u \in Users,
             PollQuiet(u) \/ PollFlagged(u) \/ PollUnknown(u) \/ PollFails(u)
      PROVE  SyncInv'
  <2>1. PollerKnows'
    BY <1>1, <1>5 DEF PollQuiet, PollFlagged, PollUnknown, PollFails, UpInv, PollerKnows
  <2> QED
    BY <1>1, <1>2, <2>1, PollerMoves
<1> QED
  BY <1>3, <1>4, <1>5

\* The CallData of a cancelled stream is deleted.  It is not the acceptor, it serves
\* nobody else, and no handler is about to register it.
LEMMA DeleteCallStep ==
  ASSUME SyncInv, DeleteCall
  PROVE  SyncInv'
<1> /\ TypeOK /\ UpInv
  BY SyncInvParts DEF DeleteCall
<1>1. PICK u \in doomed : cur' = u /\ status' = [status EXCEPT ![mp[u]] = "deleted"]
  BY DEF DeleteCall
<1> PICK c : c = mp[u]
  OBVIOUS
<1>2. /\ ppc = "reap" /\ ppc' = "erase_user" /\ down = "up"
      /\ UNCHANGED <<first, user, stream, op, finished, cq, users, mp, hpc, tag,
                     todo, doomed, flag, down>>
  BY DEF DeleteCall, mapVars, handlerVars
<1>3. /\ u \in Users /\ c \in Calls /\ user[c] = u /\ ~first[c] /\ Called(c)
      /\ status[c] = "PROCESS"
  BY <1>1, <1>2 DEF UpInv, PollerKnows, CallsKnown, TypeOK
<1>4. /\ status'[c] = "deleted" /\ \A d \in Calls \ {c} : status'[d] = status[d]
      /\ status' \in [Calls -> {"unborn", "PROCESS", "deleted"}]
  BY <1>1, <1>3 DEF TypeOK
<1>5. TypeOK'
  BY <1>1, <1>2, <1>4 DEF TypeOK
<1>6. \A d : Called(d)' <=> Called(d)
  BY <1>2 DEF Called
<1>7. CallsKnown'
  BY <1>2, <1>4, <1>6 DEF UpInv, CallsKnown, Unborn
<1>8. ASSUME NEW h \in Handlers
      PROVE  HandlerKnows(h)'
  <2>1. HandlerKnows(h)
    BY DEF UpInv
  <2>2. hpc[h] \in {"insert", "assign"} => tag[h] # c
    BY <1>3, <2>1 DEF HandlerKnows
  <2>3. hpc[h] \in {"insert", "assign"} => tag[h] \in Calls
    BY <2>1 DEF HandlerKnows
  <2> QED
    BY <1>2, <1>4, <1>6, <2>1, <2>2, <2>3 DEF HandlerKnows
<1>9. PollerKnows'
  BY <1>1, <1>2, <1>4 DEF UpInv, PollerKnows
<1>10. ContainersDiffer'
  BY <1>2 DEF UpInv, ContainersDiffer, Registered, Entering
<1>11. \A v \in Users : mp'[v] \in Calls =>
          /\ user'[mp'[v]] = v
          /\ \/ status'[mp'[v]] = "PROCESS"
             \/ ppc' \in {"erase_user", "erase_entry"} /\ cur' = v
  BY <1>1, <1>2, <1>3, <1>4 DEF UpInv
<1>12. \E a \in Calls : /\ status'[a] = "PROCESS" /\ first'[a]
                        /\ \A d \in Calls : status'[d] = "PROCESS" /\ first'[d] => d = a
  BY <1>2, <1>3, <1>4 DEF UpInv
<1>13. UpInv'
  BY <1>7, <1>8, <1>9, <1>10, <1>11, <1>12 DEF UpInv
<1> QED
  BY <1>5, <1>13, SyncInvParts

\* The user is erased from users_.
LEMMA EraseUserStep ==
  ASSUME SyncInv, EraseUser
  PROVE  SyncInv'
<1> /\ TypeOK /\ UpInv
  BY SyncInvParts DEF EraseUser
<1>1. /\ ppc = "erase_user" /\ ppc' = "erase_entry" /\ down = "up" /\ users' = users \ {cur}
      /\ UNCHANGED <<status, first, user, stream, op, finished, cq, mp, hpc, tag,
                     todo, doomed, cur, flag, down>>
  BY DEF EraseUser, callVars, handlerVars
<1>2. cur \in doomed /\ mp[cur] \in Calls /\ cur \in Users
  BY <1>1 DEF UpInv, PollerKnows, TypeOK
<1>3. TypeOK'
  BY <1>1 DEF TypeOK
<1>4. \A d : Called(d)' <=> Called(d)
  BY <1>1 DEF Called
<1>5. CallsKnown'
  BY <1>1, <1>4 DEF UpInv, CallsKnown, Unborn
<1>6. \A h \in Handlers : HandlerKnows(h)'
  BY <1>1, <1>2, <1>4 DEF UpInv, HandlerKnows
<1>7. PollerKnows'
  BY <1>1 DEF UpInv, PollerKnows, Registered
<1>8. ContainersDiffer'
  BY <1>1 DEF UpInv, ContainersDiffer, Registered, Entering
<1>9. UpInv'
  BY <1>1, <1>5, <1>6, <1>7, <1>8 DEF UpInv
<1> QED
  BY <1>3, <1>9, SyncInvParts

\* The entry is erased: its CallData is deleted by now.
LEMMA EraseEntryStep ==
  ASSUME SyncInv, EraseEntry
  PROVE  SyncInv'
<1> /\ TypeOK /\ UpInv
  BY SyncInvParts DEF EraseEntry
<1>1. /\ ppc = "erase_entry" /\ ppc' = "reap" /\ down = "up" /\ mp' = [mp EXCEPT ![cur] = Absent]
      /\ doomed' = doomed \ {cur} /\ cur' = Absent
      /\ UNCHANGED <<status, first, user, stream, op, finished, cq, users, hpc, tag,
                     todo, flag, down>>
  BY DEF EraseEntry, callVars, handlerVars
<1>2. /\ cur \in doomed /\ mp[cur] \in Calls /\ cur \in Users /\ cur \notin users
      /\ status[mp[cur]] = "deleted"
  BY <1>1 DEF UpInv, PollerKnows, TypeOK
<1>3. mp'[cur] = Absent /\ Absent \notin Calls /\ \A v \in Users \ {cur} : mp'[v] = mp[v]
  BY <1>1, <1>2, AbsentAssumption DEF TypeOK, Calls
<1>4. TypeOK'
  BY <1>1 DEF TypeOK
<1>5. \A d : Called(d)' <=> Called(d)
  BY <1>1 DEF Called
<1>6. CallsKnown'
  <2>1. ASSUME NEW d \in Calls, op[d] # "none", status[d] # "deleted"
        PROVE  mp'[user[d]] = d
    <3>1. Called(d) /\ mp[user[d]] = d
      BY <2>1 DEF UpInv, CallsKnown
    <3>2. user[d] \in Users /\ user[d] # cur
      BY <1>2, <2>1, <3>1 DEF Called
    <3> QED
      BY <1>3, <3>1, <3>2
  <2> QED
    BY <1>1, <1>3, <1>5, <2>1 DEF UpInv, CallsKnown, Unborn
<1>7. \A h \in Handlers : HandlerKnows(h)'
  BY <1>1, <1>3, <1>5 DEF UpInv, HandlerKnows, Called
<1>8. PollerKnows'
  BY <1>1, <1>3 DEF UpInv, PollerKnows, TypeOK
<1>9. Registered' = Registered \ {cur}
  BY <1>1, <1>3 DEF Registered
<1>10. ContainersDiffer'
  BY <1>1, <1>2, <1>9 DEF UpInv, ContainersDiffer, Entering
<1>11. \A v \in Users : mp'[v] \in Calls =>
          user'[mp'[v]] = v /\ status'[mp'[v]] = "PROCESS"
  BY <1>1, <1>3 DEF UpInv
<1>12. UpInv'
  BY <1>1, <1>6, <1>7, <1>8, <1>10, <1>11 DEF UpInv
<1> QED
  BY <1>4, <1>12, SyncInvParts

\* mp_[user_id] gives the stream of the user, and inserts NULL if there is none.
LEMMA Looked ==
  ASSUME TypeOK, cur \in Users, mp' = [mp EXCEPT ![cur] = CallOfCur]
  PROVE  /\ mp' \in [Users -> Calls \cup {NULL, Absent}]
         /\ CallOfCur \in Calls \cup {NULL} /\ mp'[cur] = CallOfCur
         /\ CallOfCur \in Calls <=> mp[cur] \in Calls
         /\ CallOfCur \in Calls => mp[cur] = CallOfCur
         /\ CallOfCur # NULL => CallOfCur \in Calls
         /\ \A v \in Users : mp'[v] \in Calls <=> mp[v] \in Calls
         /\ \A v \in Users : mp[v] \in Calls => mp'[v] = mp[v]
         /\ \A v \in Users \ {cur} : mp'[v] = mp[v]
         /\ Registered' = Registered \cup {cur}
<1>1. NULL \notin Calls /\ Absent \notin Calls /\ Absent # NULL
  BY AbsentAssumption, CallsAssumption DEF Calls, NULL
<1>2. /\ CallOfCur \in Calls \cup {NULL}
      /\ CallOfCur \in Calls <=> mp[cur] \in Calls
      /\ CallOfCur \in Calls => mp[cur] = CallOfCur
  BY <1>1 DEF CallOfCur, TypeOK
<1>3. /\ mp' \in [Users -> Calls \cup {NULL, Absent}]
      /\ mp'[cur] = CallOfCur /\ \A v \in Users \ {cur} : mp'[v] = mp[v]
  BY <1>2 DEF TypeOK
<1>4. Registered' = Registered \cup {cur}
  BY <1>1, <1>2, <1>3 DEF Registered
<1> QED
  BY <1>2, <1>3, <1>4

\* The poller writes to the stream of a user, or finishes it.
LEMMA PushSteps ==
  ASSUME SyncInv, Push \/ Finish
  PROVE  SyncInv'
<1> /\ TypeOK /\ UpInv
  BY SyncInvParts DEF Push, Finish
<1> PICK c : c = CallOfCur
  OBVIOUS
<1>1. /\ ppc \in {"push", "finish"} /\ ppc' = "poll" /\ down = "up"
      /\ mp' = [mp EXCEPT ![cur] = CallOfCur]
      /\ todo' = todo \ {cur} /\ cur' = Absent
      /\ UNCHANGED <<status, first, user, stream, cq, users, hpc, tag, doomed, flag>>
  BY DEF Push, Finish, handlerVars
<1>2. cur \in Users /\ cur \in users
  BY <1>1 DEF UpInv, PollerKnows, TypeOK
<1>3. /\ down' \in {"up", "write_pending", "finish_twice"}
      /\ finished' \in [Calls -> BOOLEAN]
      /\ \/ op' = op
         \/ c # NULL /\ \E o \in {"write", "finish"} : op' = [op EXCEPT ![c] = o]
  <2>1. CASE Push
    BY <2>1 DEF Push, TypeOK
  <2>2. CASE Finish
    BY <2>2 DEF Finish, TypeOK
  <2> QED
    BY <2>1, <2>2
<1>4. /\ mp' \in [Users -> Calls \cup {NULL, Absent}]
      /\ c # NULL => c \in Calls /\ mp[cur] = c
      /\ \A v \in Users : mp'[v] \in Calls <=> mp[v] \in Calls
      /\ \A v \in Users : mp[v] \in Calls => mp'[v] = mp[v]
      /\ Registered' = Registered \cup {cur}
  BY <1>1, <1>2, Looked
<1>5. TypeOK'
  BY <1>1, <1>3, <1>4 DEF TypeOK
<1>6. \A d : Called(d)' <=> Called(d)
  BY <1>1 DEF Called
<1>7. CallsKnown'
  <2>1. \A d \in Calls : op'[d] # "none" => op[d] # "none" \/ (d = c /\ mp[cur] = c /\ c \in Calls)
    BY <1>3, <1>4 DEF TypeOK
  <2>2. ASSUME NEW d \in Calls, op'[d] # "none"
        PROVE  Called(d) /\ (status[d] = "deleted" \/ mp'[user[d]] = d)
    <3>1. CASE op[d] # "none"
      <4>1. Called(d) /\ (status[d] = "deleted" \/ mp[user[d]] = d)
        BY <3>1 DEF UpInv, CallsKnown
      <4> QED
        BY <1>4, <4>1 DEF Called
    <3>2. CASE d = c /\ mp[cur] = c
      BY <1>2, <1>4, <3>2 DEF UpInv, CallsKnown
    <3> QED
      BY <2>1, <2>2, <3>1, <3>2
  <2> QED
    BY <1>1, <1>4, <1>6, <2>2 DEF UpInv, CallsKnown, Unborn
<1>8. \A h \in Handlers : HandlerKnows(h)'
  BY <1>1, <1>4, <1>6 DEF UpInv, HandlerKnows, Called
<1>9. PollerKnows'
  BY <1>1, <1>4 DEF UpInv, PollerKnows, TypeOK
<1>10. ContainersDiffer'
  BY <1>1, <1>2, <1>4 DEF UpInv, ContainersDiffer, Entering
<1>11. \A v \in Users : mp'[v] \in Calls => user'[mp'[v]] = v /\ status'[mp'[v]] = "PROCESS"
  BY <1>1, <1>4 DEF UpInv
<1>12. UpInv'
  BY <1>1, <1>7, <1>8, <1>9, <1>10, <1>11 DEF UpInv
<1> QED
  BY <1>5, <1>12, SyncInvParts

\* The client of the acceptor is known from its call on.
LEMMA ConnectStep ==
  ASSUME SyncInv, NEW c \in Calls, NEW u \in Users, Connect(c, u)
  PROVE  SyncInv'
<1> /\ TypeOK /\ UpInv
  BY SyncInvParts DEF Connect
<1>1. /\ stream[c] = "requested" /\ stream' = [stream EXCEPT ![c] = "open"]
      /\ user' = [user EXCEPT ![c] = u] /\ cq' = cq \cup {Event(c, TRUE)}
      /\ UNCHANGED <<status, first, op, finished, users, mp, hpc, tag,
                     ppc, todo, doomed, cur, flag, down>>
  BY DEF Connect, mapVars, handlerVars, pollerVars
<1>2. Event(c, TRUE) \in [tag : Calls, ok : BOOLEAN] /\ Event(c, TRUE).tag = c
  BY DEF Event
<1>3. TypeOK'
  BY <1>1, <1>2 DEF TypeOK
<1>4. /\ Called(c)' /\ ~Called(c)
      /\ \A d \in Calls \ {c} : /\ Called(d)' <=> Called(d)
                                /\ user'[d] = user[d] /\ stream'[d] = stream[d]
  BY <1>1 DEF Called, TypeOK
<1>5. \A d \in Calls : Called(d) => Called(d)' /\ user'[d] = user[d] /\ stream'[d] = stream[d]
  BY <1>4
<1>6. CallsKnown'
  <2>1. \A e \in cq : e.tag \in Calls
    BY DEF TypeOK
  <2>2. \A d \in Unborn : d # c /\ d \in Calls
    BY <1>1 DEF UpInv, CallsKnown, Unborn
  <2>3. \A d \in Unborn' : stream'[d] = "none" /\ first'[d]
    BY <1>1, <1>4, <2>2 DEF UpInv, CallsKnown, Unborn
  <2>4. ASSUME NEW e \in cq'
        PROVE  Called(e.tag)'
    <3>1. CASE e = Event(c, TRUE)
      BY <1>2, <1>4, <3>1 DEF Called
    <3>2. CASE e \in cq
      BY <1>5, <2>1, <3>2 DEF UpInv, CallsKnown, Called
    <3> QED
      BY <1>1, <3>1, <3>2
  <2>5. \A d \in Calls : op'[d] # "none" =>
           Called(d)' /\ (status'[d] = "deleted" \/ mp'[user'[d]] = d)
    BY <1>1, <1>5 DEF UpInv, CallsKnown
  <2>6. \A v \in Users : mp'[v] \in Calls => Called(mp[v])' /\ ~first'[mp'[v]]
    BY <1>1, <1>5 DEF UpInv, CallsKnown
  <2> QED
    BY <1>1, <2>3, <2>4, <2>5, <2>6 DEF CallsKnown
<1>7. \A h \in Handlers : HandlerKnows(h)'
  BY <1>1, <1>5 DEF UpInv, HandlerKnows
<1>8. \A v \in Users : mp[v] \in Calls => mp[v] # c
  BY <1>4 DEF UpInv, CallsKnown
<1>9. PollerKnows'
  BY <1>1, <1>4, <1>8 DEF UpInv, PollerKnows, Registered, TypeOK
<1>10. ContainersDiffer'
  <2>1. \A h \in Handlers : \A v : Entering(h, v) => Entering(h, v)'
    BY <1>1, <1>5 DEF Entering, UpInv, HandlerKnows
  <2> QED
    BY <1>1, <2>1 DEF UpInv, ContainersDiffer, Registered
<1>11. \A v \in Users : mp[v] \in Calls => user'[mp[v]] = user[mp[v]]
  BY <1>4, <1>8
<1>12. UpInv'
  BY <1>1, <1>6, <1>7, <1>9, <1>10, <1>11 DEF UpInv
<1> QED
  BY <1>3, <1>12, SyncInvParts

\* A stream is cancelled, and stays what it was to everybody but the scan.
LEMMA DisconnectStep ==
  ASSUME SyncInv, NEW c \in Calls, Disconnect(c)
  PROVE  SyncInv'
<1> /\ TypeOK /\ UpInv
  BY SyncInvParts DEF Disconnect
<1>1. /\ stream[c] = "open" /\ stream' = [stream EXCEPT ![c] = "cancelled"]
      /\ UNCHANGED <<status, first, user, op, finished, cq, users, mp, hpc, tag,
                     ppc, todo, doomed, cur, flag, down>>
  BY DEF Disconnect, mapVars, handlerVars, pollerVars
<1>2. TypeOK'
  BY <1>1 DEF TypeOK
<1>3. /\ \A d \in Calls : Called(d)' <=> Called(d)
      /\ \A d \in Calls : stream[d] = "cancelled" => stream'[d] = "cancelled"
      /\ \A d \in Calls : stream[d] = "none" => stream'[d] = "none"
  BY <1>1 DEF Called, TypeOK
<1>4. \A e \in cq : e.tag \in Calls
  BY DEF TypeOK
<1>5. CallsKnown'
  BY <1>1, <1>3, <1>4 DEF UpInv, CallsKnown, Unborn
<1>6. \A h \in Handlers : HandlerKnows(h)'
  BY <1>1, <1>3 DEF UpInv, HandlerKnows
<1>7. PollerKnows' /\ ContainersDiffer'
  BY <1>1, <1>3 DEF UpInv, PollerKnows, ContainersDiffer, Registered, Entering
<1>8. UpInv'
  BY <1>1, <1>5, <1>6, <1>7 DEF UpInv
<1> QED
  BY <1>2, <1>8, SyncInvParts

\* An operation completes.
LEMMA OpDoneStep ==
  ASSUME SyncInv, NEW c \in Calls, OpDone(c)
  PROVE  SyncInv'
<1> /\ TypeOK /\ UpInv
  BY SyncInvParts DEF OpDone
<1> PICK ok \in BOOLEAN : ok = (stream[c] # "cancelled")
  OBVIOUS
<1>1. /\ op[c] # "none" /\ op' = [op EXCEPT ![c] = "none"]
      /\ cq' = cq \cup {Event(c, ok)}
      /\ UNCHANGED <<status, first, user, stream, finished, users, mp, hpc, tag,
                     ppc, todo, doomed, cur, flag, down>>
  BY DEF OpDone, mapVars, handlerVars, pollerVars
<1>2. Event(c, ok) \in [tag : Calls, ok : BOOLEAN] /\ Event(c, ok).tag = c
  BY DEF Event
<1>3. TypeOK'
  BY <1>1, <1>2 DEF TypeOK
<1>4. \A d : Called(d)' <=> Called(d)
  BY <1>1 DEF Called
<1>5. \A d \in Calls : op'[d] # "none" => op[d] # "none"
  BY <1>1 DEF TypeOK
<1>6. CallsKnown'
  BY <1>1, <1>2, <1>4, <1>5 DEF UpInv, CallsKnown, Unborn
<1>7. \A h \in Handlers : HandlerKnows(h)'
  BY <1>1, <1>4 DEF UpInv, HandlerKnows
<1>8. PollerKnows' /\ ContainersDiffer'
  BY <1>1 DEF UpInv, PollerKnows, ContainersDiffer, Registered, Entering
<1>9. UpInv'
  BY <1>1, <1>6, <1>7, <1>8 DEF UpInv
<1> QED
  BY <1>3, <1>9, SyncInvParts

\* The flags are in the database and no part of the invariant.
LEMMA FlagSteps ==
  ASSUME SyncInv, \E u \in ValidUsers : SetFlag(u) \/ ClearFlag(u)
  PROVE  SyncInv'
<1>1. /\ UNCHANGED <<status, first, user, stream, op, finished, cq, users, mp, hpc, tag,
                     ppc, todo, doomed, cur, down>>
      /\ flag \in [ValidUsers -> BOOLEAN] => flag' \in [ValidUsers -> BOOLEAN]
  BY DEF SetFlag, ClearFlag, callVars, mapVars, handlerVars, pollerVars
<1>2. TypeOK'
  BY <1>1 DEF SyncInv, TypeOK
<1>3. \A d : Called(d)' <=> Called(d)
  BY <1>1 DEF Called
<1>4. UpInv => UpInv'
  BY <1>1, <1>3 DEF UpInv, CallsKnown, HandlerKnows, PollerKnows, ContainersDiffer,
                    Unborn, Registered, Entering
<1> QED
  BY <1>1, <1>2, <1>4, SyncInvParts

\* A process that has just started: one CallData waits, and the containers are empty.
Fresh ==
    /\ status = [c \in Calls |-> IF c = 1 THEN "PROCESS" ELSE "unborn"]
    /\ first = [c \in Calls |-> TRUE]
    /\ user = [c \in Calls |-> Absent]
    /\ stream = [c \in Calls |-> IF c = 1 THEN "requested" ELSE "none"]
    /\ op = [c \in Calls |-> "none"]
    /\ finished = [c \in Calls |-> FALSE]
    /\ cq = {}
    /\ users = {}
    /\ mp = [u \in Users |-> Absent]
    /\ hpc = [h \in Handlers |-> "next"]
    /\ tag = [h \in Handlers |-> NULL]
    /\ ppc = "scan"
    /\ todo = {}
    /\ doomed = {}
    /\ cur = Absent
    /\ flag \in [ValidUsers -> BOOLEAN]
    /\ down = "up"

LEMMA FreshInv == Fresh => SyncInv
<1> SUFFICES ASSUME Fresh PROVE SyncInv
  OBVIOUS
<1> USE DEF Fresh
<1>1. 1 \in Calls /\ Absent \notin Calls
  BY CallsAssumption, AbsentAssumption DEF Calls
<1>2. TypeOK
  BY <1>1 DEF TypeOK, NULL
<1>3. \A u \in Users : mp[u] = Absent
  OBVIOUS
<1>4. CallsKnown /\ PollerKnows /\ ContainersDiffer /\ \A h \in Handlers : HandlerKnows(h)
  BY <1>1, <1>3 DEF CallsKnown, PollerKnows, ContainersDiffer, HandlerKnows, Unborn, Registered
<1>5. UpInv
  BY <1>1, <1>3, <1>4 DEF UpInv
<1> QED
  BY <1>2, <1>5, SyncInvParts

LEMMA InitSyncInv == Init => SyncInv
<1>1. Init => Fresh
  BY Zenon DEF Init, Fresh
<1> QED
  BY <1>1, FreshInv

\* The next process starts like the first.
LEMMA RestartStep ==
  ASSUME SyncInv, Restart
  PROVE  SyncInv'
<1>1. flag' \in [ValidUsers -> BOOLEAN]
  BY DEF Restart, SyncInv, TypeOK
<1>2. Fresh'
  BY <1>1 DEF Restart, Fresh
<1>3. Fresh' => SyncInv'
  BY FreshInv, PTL
<1> QED
  BY <1>2, <1>3

\* Every step keeps the invariant.
LEMMA NextSyncInv == SyncInv /\ [Next]_vars => SyncInv'
<1> SUFFICES ASSUME SyncInv, [Next]_vars
             PROVE  SyncInv'
  OBVIOUS
<1>1. CASE UNCHANGED vars
  BY <1>1 DEF vars, callVars, mapVars, handlerVars, pollerVars, SyncInv, TypeOK,
              OneAcceptor, NoDanglingEntry, CallsKnown, HandlerKnows, PollerKnows,
              ContainersDiffer, Unborn, Registered, Entering, Called
<1> QED
  BY <1>1, EndSteps, NextEventStep, FindStep, InsertUserStep, AssignCallStep, MoveSteps,
     DeleteCallStep, EraseUserStep, EraseEntryStep, PushSteps, ConnectStep, DisconnectStep,
     OpDoneStep, FlagSteps, RestartStep
     DEF Next, HandlerStep, PollerStep

\* The inductive invariant of the two threads.
THEOREM SyncInvariant == Spec => []SyncInv
  BY InitSyncInv, NextSyncInv, PTL DEF Spec

\* Every variable keeps its type; in particular no CallData is ever FINISH.
THEOREM TypeCorrect == Spec => []TypeOK
<1>1. SyncInv => TypeOK
  BY DEF SyncInv
<1> QED
  BY <1>1, SyncInvariant, PTL

\* The server accepts one more stream, whatever became of the others.
THEOREM StillAccepts == Spec => []OneAcceptor
<1>1. SyncInv => OneAcceptor
  BY DEF SyncInv
<1> QED
  BY <1>1, SyncInvariant, PTL

\* mp_ leads to live CallData of the right user, but for the one being erased.
THEOREM EntriesLive == Spec => []NoDanglingEntry
<1>1. SyncInv => NoDanglingEntry
  BY DEF SyncInv
<1> QED
  BY <1>1, SyncInvariant, PTL

\* users_ and mp_ agree when no thread is between its changes of the two.
THEOREM SameUsers == Spec => []ContainersAgree
<1>1. SyncInv => ContainersAgree
  <2> SUFFICES ASSUME SyncInv, down = "up", ppc # "erase_entry",
                      \A h \in Handlers : hpc[h] \in {"next", "find", "insert"}
               PROVE  users = Registered
    BY DEF ContainersAgree
  <2>1. ContainersDiffer /\ \A h \in Handlers : \A u : ~Entering(h, u)
    BY DEF SyncInv, Entering
  <2> QED
    BY <2>1 DEF ContainersDiffer
<1> QED
  BY <1>1, SyncInvariant, PTL

----------------------------------------------------------------------------
(* What a step may never do *)

\* Only DeleteCall deletes, and what it deletes the scan found cancelled.
LEMMA Reaps ==
  ASSUME SyncInv, Next, NEW c \in Calls, status[c] = "PROCESS", status'[c] = "deleted"
  PROVE  stream[c] = "cancelled"
<1> USE DEF SyncInv
<1>1. CASE DeleteCall
  <2>1. PICK u \in doomed : status' = [status EXCEPT ![mp[u]] = "deleted"]
    BY <1>1 DEF DeleteCall
  <2>2. c = mp[u] /\ stream[mp[u]] = "cancelled"
    BY <1>1, <2>1 DEF DeleteCall, TypeOK, PollerKnows
  <2> QED
    BY <2>2
<1>2. ASSUME NEW h \in Handlers, NextEvent(h)
      PROVE  FALSE
  BY <1>2 DEF NextEvent, NewCallData, TypeOK, Unborn
<1>3. CASE Restart
  BY <1>3 DEF Restart
<1>4. CASE \/ \E h \in Handlers : \/ NextDeleted(h) \/ NextFailed(h) \/ Find(h)
                                  \/ InsertUser(h) \/ AssignCall(h)
           \/ DataRace \/ ScanEntry \/ ScanNull \/ ScanEnds \/ EraseUser \/ EraseEntry \/ ReapEnds
           \/ \E u \in Users : \/ PollQuiet(u) \/ PollFlagged(u)
                               \/ PollUnknown(u) \/ PollFails(u)
           \/ PollNoConnection \/ Push \/ Finish \/ PollEnds
           \/ \E d \in Calls : \/ \E u \in Users : Connect(d, u)
                               \/ Disconnect(d) \/ OpDone(d)
           \/ \E u \in ValidUsers : SetFlag(u) \/ ClearFlag(u)
  <2>1. UNCHANGED status
    BY <1>4 DEF NextDeleted, NextFailed, Find, InsertUser, AssignCall, DataRace, ScanEntry,
                ScanNull, ScanEnds, EraseUser, EraseEntry, ReapEnds, PollQuiet, PollFlagged,
                PollUnknown, PollFails, PollNoConnection, Push, Finish, PollEnds, Connect,
                Disconnect, OpDone, SetFlag, ClearFlag, callVars
  <2> QED
    BY <2>1
<1> QED
  BY <1>1, <1>2, <1>3, <1>4 DEF Next, HandlerStep, PollerStep

\* The poller never deletes the CallData of a stream that is still open, though it
\* deletes by user name what it has found by user name before.
THEOREM OnlyCancelledReaped == Spec => ReapsOnlyCancelled
<1>1. SyncInv /\ [Next]_vars =>
         [\A c \in Calls : status[c] = "PROCESS" /\ status'[c] = "deleted"
                             => stream[c] = "cancelled"]_vars
  BY Reaps
<1> QED
  BY <1>1, SyncInvariant, PTL DEF Spec, ReapsOnlyCancelled

\* Only AssignCall enters a CallData, and where there is none.
LEMMA Replaces ==
  ASSUME SyncInv, Next, NEW u \in Users, mp[u] \in Calls, mp'[u] \in Calls
  PROVE  mp'[u] = mp[u]
<1> USE DEF SyncInv
<1>1. ASSUME NEW h \in Handlers, AssignCall(h)
      PROVE  mp'[u] = mp[u]
  <2>1. mp[user[tag[h]]] \notin Calls
    BY <1>1 DEF AssignCall, HandlerKnows
  <2> QED
    BY <1>1, <2>1 DEF AssignCall, TypeOK
<1>2. CASE Push \/ Finish
  <2>1. mp' = [mp EXCEPT ![cur] = CallOfCur] /\ down = "up" /\ ppc \in {"push", "finish"}
    BY <1>2 DEF Push, Finish
  <2>2. cur \in Users
    BY <2>1 DEF TypeOK, PollerKnows
  <2> QED
    BY <2>1, <2>2, Looked
<1>3. CASE EraseEntry
  <2>1. mp' = [mp EXCEPT ![cur] = Absent] /\ Absent \notin Calls
    BY <1>3, AbsentAssumption DEF EraseEntry, Calls
  <2> QED
    BY <2>1 DEF TypeOK
<1>4. CASE Restart
  BY <1>4, AbsentAssumption DEF Restart, Calls
<1>5. CASE \/ \E h \in Handlers : \/ NextDeleted(h) \/ NextFailed(h) \/ NextEvent(h)
                                  \/ Find(h) \/ InsertUser(h)
           \/ DataRace \/ ScanEntry \/ ScanNull \/ ScanEnds \/ DeleteCall \/ EraseUser \/ ReapEnds
           \/ \E v \in Users : \/ PollQuiet(v) \/ PollFlagged(v)
                               \/ PollUnknown(v) \/ PollFails(v)
           \/ PollNoConnection \/ PollEnds
           \/ \E d \in Calls : \/ \E v \in Users : Connect(d, v)
                               \/ Disconnect(d) \/ OpDone(d)
           \/ \E v \in ValidUsers : SetFlag(v) \/ ClearFlag(v)
  <2>1. UNCHANGED mp
    BY <1>5 DEF NextDeleted, NextFailed, NextEvent, Find, InsertUser, DataRace, ScanEntry,
                ScanNull, ScanEnds, DeleteCall, EraseUser, ReapEnds, PollQuiet, PollFlagged,
                PollUnknown, PollFails, PollNoConnection, PollEnds, Connect,
                Disconnect, OpDone, SetFlag, ClearFlag, mapVars
  <2> QED
    BY <2>1
<1> QED
  BY <1>1, <1>2, <1>3, <1>4, <1>5 DEF Next, HandlerStep, PollerStep

\* A stream that is registered keeps its entry until the poller has deleted it.
THEOREM EntryKept == Spec => EntryNotReplaced
<1>1. SyncInv /\ [Next]_vars =>
         [\A u \in Users : mp[u] \in Calls /\ mp'[u] \in Calls => mp'[u] = mp[u]]_vars
  BY Replaces
<1> QED
  BY <1>1, SyncInvariant, PTL DEF Spec, EntryNotReplaced

----------------------------------------------------------------------------
(* Synchronism implements NewsStream *)

LEMMA InitRefines == Init => NS!Init
<1> SUFFICES ASSUME Init PROVE NS!Init
  OBVIOUS
<1>1. Served = {} /\ Seen = {} /\ Told = {}
  BY UsersAssumption, AbsentAssumption DEF Init, Served, Serving, Seen, Told, Calls
<1>2. flag \in [ValidUsers -> BOOLEAN]
  BY DEF Init
<1> QED
  BY <1>1, <1>2 DEF NS!Init

\* The mapped state of a process that has ended.
LEMMA Gone ==
  /\ down # "up" => Served = {} /\ Seen = {} /\ Told = {}
  /\ down' # "up" => Served' = {} /\ Seen' = {} /\ Told' = {}
  BY DEF Served, Seen, Told

\* The end of a process ends all streams.
LEMMA EndRefines ==
  ASSUME down' # "up", UNCHANGED flag
  PROVE  NS!Stop
  BY Gone DEF NS!Stop

\* The mapped state is a matter of a few variables.
LEMMA Same ==
  ASSUME UNCHANGED <<mp, op, down>>,
         \A u \in ValidUsers : mp[u] \in Calls =>
            (status'[mp[u]] = "PROCESS" <=> status[mp[u]] = "PROCESS"),
         \A u \in ValidUsers : ppc' = "push" /\ cur' = u <=> ppc = "push" /\ cur = u
  PROVE  UNCHANGED <<Served, Seen, Told>>
  BY DEF Served, Serving, Seen, Told

\* What concerns neither the streams that serve nor those that are written to.
LEMMA StutterRefines ==
  ASSUME SyncInv,
         \/ \E h \in Handlers : NextEvent(h) \/ Find(h) \/ InsertUser(h)
         \/ ScanEntry \/ ScanEnds \/ EraseUser \/ ReapEnds \/ PollEnds
         \/ \E u \in Users : PollQuiet(u) \/ PollUnknown(u) \/ PollFails(u)
         \/ \E c \in Calls : Disconnect(c) \/ \E u \in Users : Connect(c, u)
  PROVE  NS!Next \/ UNCHANGED NS!vars
<1> USE DEF SyncInv
<1>1. UNCHANGED <<mp, op, flag>>
  BY DEF NextEvent, Find, InsertUser, ScanEntry, ScanEnds, EraseUser, ReapEnds, PollEnds,
         PollQuiet, PollUnknown, PollFails, Disconnect, Connect, callVars, mapVars
<1>2. CASE down' # "up"
  BY <1>1, <1>2, EndRefines DEF NS!Next
<1>3. CASE down' = "up"
  <2>1. down = "up"
    BY DEF NextEvent, Find, InsertUser, ScanEntry, ScanEnds, EraseUser, ReapEnds, PollEnds,
           PollQuiet, PollUnknown, PollFails, Disconnect, Connect
  <2>2. \A u \in ValidUsers : ppc' = "push" /\ cur' = u <=> ppc = "push" /\ cur = u
    BY DEF NextEvent, Find, InsertUser, ScanEntry, ScanEnds, EraseUser, ReapEnds, PollEnds,
           PollQuiet, PollUnknown, PollFails, Disconnect, Connect, pollerVars
  <2>3. ASSUME NEW u \in ValidUsers, mp[u] \in Calls
        PROVE  status'[mp[u]] = "PROCESS" <=> status[mp[u]] = "PROCESS"
    <3>1. UNCHANGED status \/ \E c \in Unborn : status' = [status EXCEPT ![c] = "PROCESS"]
      BY DEF NextEvent, Find, InsertUser, ScanEntry, ScanEnds, EraseUser, ReapEnds, PollEnds,
             PollQuiet, PollUnknown, PollFails, Disconnect, Connect, NewCallData, callVars
    <3>2. mp[u] \notin Unborn
      BY <2>1, <2>3, UsersAssumption DEF CallsKnown, Called
    <3> QED
      BY <2>3, <3>1, <3>2 DEF TypeOK
  <2>4. UNCHANGED <<Served, Seen, Told>>
    BY <1>1, <1>3, <2>1, <2>2, <2>3, Same
  <2> QED
    BY <1>1, <2>4 DEF NS!vars
<1> QED
  BY <1>2, <1>3

\* A stream is registered.  It has no operation outstanding yet.
LEMMA AssignRefines ==
  ASSUME SyncInv, NEW h \in Handlers, AssignCall(h)
  PROVE  NS!Next \/ UNCHANGED NS!vars
<1> USE DEF SyncInv
<1> PICK c : c = tag[h]
  OBVIOUS
<1> PICK r : r = user[c]
  OBVIOUS
<1>1. /\ hpc[h] = "assign" /\ mp' = [mp EXCEPT ![r] = c]
      /\ UNCHANGED <<status, op, ppc, cur, flag, down>> /\ down = "up"
  BY DEF AssignCall, callVars
<1>2. /\ c \in Calls /\ status[c] = "PROCESS" /\ mp[r] \notin Calls /\ r \in Users
      /\ op[c] # "write"
  BY <1>1 DEF HandlerKnows, CallsKnown, Called
<1>3. mp'[r] = c /\ \A u \in Users \ {r} : mp'[u] = mp[u]
  BY <1>1, <1>2 DEF TypeOK
<1>4. /\ \A u \in ValidUsers : Serving(u)' <=> u = r \/ Serving(u)
      /\ ~Serving(r)
  BY <1>1, <1>2, <1>3, UsersAssumption DEF Serving
<1>5. Seen' = Seen
  BY <1>1 DEF Seen
<1>6. Served' = Served \cup ({r} \cap ValidUsers) /\ r \notin Served
  BY <1>1, <1>4 DEF Served
<1>7. Told' = Told
  BY <1>1, <1>2, <1>3, <1>6, UsersAssumption DEF Told, Served
<1>8. CASE r \in ValidUsers
  BY <1>1, <1>5, <1>6, <1>7, <1>8 DEF NS!Next, NS!Register
<1>9. CASE r \notin ValidUsers
  BY <1>1, <1>5, <1>6, <1>7, <1>9 DEF NS!vars
<1> QED
  BY <1>8, <1>9

\* The stream of a user is deleted, and nobody else's.
LEMMA DeleteRefines ==
  ASSUME SyncInv, DeleteCall
  PROVE  NS!Next \/ UNCHANGED NS!vars
<1> USE DEF SyncInv
<1>1. PICK d \in doomed : cur' = d /\ status' = [status EXCEPT ![mp[d]] = "deleted"]
  BY DEF DeleteCall
<1>2. /\ ppc = "reap" /\ ppc' = "erase_user" /\ down = "up"
      /\ UNCHANGED <<mp, op, flag, down>>
  BY DEF DeleteCall, mapVars
<1>3. d \in Users /\ mp[d] \in Calls /\ status[mp[d]] = "PROCESS"
  BY <1>1, <1>2 DEF PollerKnows, NoDanglingEntry, TypeOK
<1>4. \A u \in Users : mp[u] = mp[d] => u = d
  BY <1>2, <1>3 DEF NoDanglingEntry
<1>5. \A u \in ValidUsers : Serving(u)' <=> u # d /\ Serving(u)
  BY <1>1, <1>2, <1>3, <1>4, UsersAssumption DEF Serving, TypeOK
<1>6. Seen = {} /\ Seen' = {}
  BY <1>2 DEF Seen
<1>7. Served' = Served \ {d} /\ Told' = Told \ {d}
  BY <1>2, <1>5 DEF Served, Told
<1>8. d \in ValidUsers => d \in Served
  BY <1>2, <1>3 DEF Served, Serving
<1>9. CASE d \in ValidUsers
  BY <1>2, <1>6, <1>7, <1>8, <1>9 DEF NS!Next, NS!Drop
<1>10. CASE d \notin ValidUsers
  <2>1. Served' = Served /\ Told' = Told
    BY <1>7, <1>10 DEF Served, Told
  <2> QED
    BY <1>2, <1>6, <2>1 DEF NS!vars
<1> QED
  BY <1>9, <1>10

\* What is erased from mp_ serves nobody any more.
LEMMA EraseRefines ==
  ASSUME SyncInv, EraseEntry
  PROVE  UNCHANGED NS!vars
<1> USE DEF SyncInv
<1>1. /\ ppc = "erase_entry" /\ ppc' = "reap" /\ down = "up" /\ mp' = [mp EXCEPT ![cur] = Absent]
      /\ UNCHANGED <<status, op, flag, down>>
  BY DEF EraseEntry, callVars
<1>2. cur \in Users /\ status[mp[cur]] = "deleted"
  BY <1>1 DEF PollerKnows, TypeOK
<1>3. Absent \notin Calls
  BY AbsentAssumption DEF Calls
<1>4. mp'[cur] = Absent /\ \A u \in Users \ {cur} : mp'[u] = mp[u]
  BY <1>1, <1>2 DEF TypeOK
<1>5. \A u \in ValidUsers : Serving(u)' <=> Serving(u)
  BY <1>1, <1>2, <1>3, <1>4, UsersAssumption DEF Serving
<1>6. \A u \in ValidUsers : Serving(u) => u # cur
  BY <1>2 DEF Serving
<1>7. Seen' = Seen
  BY <1>1 DEF Seen
<1>8. Served' = Served
  BY <1>1, <1>5 DEF Served
<1>9. Told' = Told
  BY <1>1, <1>4, <1>6, <1>8, UsersAssumption DEF Told, Served
<1> QED
  BY <1>1, <1>7, <1>8, <1>9 DEF NS!vars

\* A row with a flag set is seen.
LEMMA FlaggedRefines ==
  ASSUME SyncInv, NEW u \in Users, PollFlagged(u)
  PROVE  NS!Next
<1>1. /\ u \in ValidUsers /\ flag[u] /\ ppc = "poll" /\ ppc' = "push" /\ cur' = u /\ down = "up"
      /\ UNCHANGED <<status, mp, op, flag, down>>
  BY DEF PollFlagged, callVars, mapVars
<1>2. Seen' = Seen \cup {u} /\ Served' = Served /\ Told' = Told
  BY <1>1 DEF Seen, Served, Told, Serving
<1> QED
  BY <1>1, <1>2 DEF NS!Next, NS!See

\* A message is written to a stream that has none under way, or the process ends.
LEMMA PushRefines ==
  ASSUME SyncInv, Push
  PROVE  NS!Next
<1> USE DEF SyncInv
<1> PICK c : c = CallOfCur
  OBVIOUS
<1> PICK r : r = cur
  OBVIOUS
<1>1. /\ ppc = "push" /\ ppc' = "poll" /\ down = "up" /\ mp' = [mp EXCEPT ![cur] = CallOfCur]
      /\ UNCHANGED <<status, flag>>
      /\ \/ c = NULL /\ UNCHANGED <<op, down>>
         \/ c # NULL /\ op[c] = "none" /\ op' = [op EXCEPT ![c] = "write"] /\ UNCHANGED down
         \/ down' = "write_pending"
  BY DEF Push
<1>2. r \in Users /\ r \in ValidUsers
  BY <1>1, UsersAssumption DEF PollerKnows
<1>3. /\ c # NULL => c \in Calls /\ mp[r] = c
      /\ c \in Calls <=> mp[r] \in Calls
      /\ NULL \notin Calls
      /\ \A u \in Users : mp'[u] \in Calls <=> mp[u] \in Calls
      /\ \A u \in Users : mp[u] \in Calls => mp'[u] = mp[u]
  BY <1>1, <1>2, Looked, CallsAssumption DEF Calls, NULL
<1>4. CASE down' # "up"
  BY <1>1, <1>4, EndRefines DEF NS!Next
<1>5. ASSUME down' = "up"
      PROVE  NS!Tell(r)
  <2>1. Seen = {r} /\ Seen' = {}
    BY <1>1, <1>2 DEF Seen
  <2>2. \A u \in ValidUsers : Serving(u)' <=> Serving(u)
    BY <1>1, <1>3, UsersAssumption DEF Serving
  <2>3. Served' = Served
    BY <1>1, <1>5, <2>2 DEF Served
  <2>4. \A u \in ValidUsers : Serving(u) => mp'[u] = mp[u] /\ mp[u] \in Calls /\ u \in Users
    BY <1>3, UsersAssumption DEF Serving
  <2>5. CASE c = NULL
    <3>1. r \notin Served /\ op' = op
      BY <1>1, <1>3, <1>5, <2>5 DEF Served, Serving
    <3>2. Told' = Told /\ r \notin Told
      BY <2>3, <2>4, <3>1 DEF Told, Served
    <3> QED
      BY <1>1, <2>1, <2>3, <3>1, <3>2 DEF NS!Tell
  <2>6. CASE c # NULL
    <3>1. c \in Calls /\ mp[r] = c /\ op[c] = "none" /\ op' = [op EXCEPT ![c] = "write"]
      BY <1>1, <1>3, <1>5, <2>6
    <3>2. r \in Served /\ r \notin Told
      BY <1>1, <1>2, <3>1 DEF Served, Serving, Told, NoDanglingEntry
    <3>3. \A u \in Users : mp[u] = c => u = r
      BY <1>1, <1>2, <3>1 DEF NoDanglingEntry
    <3>4. \A u \in Served : op'[mp'[u]] = "write" <=> u = r \/ op[mp[u]] = "write"
      BY <2>4, <3>1, <3>3 DEF Served, TypeOK
    <3>5. Told' = Told \cup {r}
      BY <2>3, <3>2, <3>4 DEF Told
    <3> QED
      BY <1>1, <2>1, <2>3, <3>2, <3>5 DEF NS!Tell
  <2> QED
    BY <2>5, <2>6
<1> QED
  BY <1>2, <1>4, <1>5 DEF NS!Next

\* The stream of a user who does not exist is no stream of NewsStream.
LEMMA FinishRefines ==
  ASSUME SyncInv, Finish
  PROVE  NS!Next \/ UNCHANGED NS!vars
<1> USE DEF SyncInv
<1> PICK c : c = CallOfCur
  OBVIOUS
<1> PICK r : r = cur
  OBVIOUS
<1>1. /\ ppc = "finish" /\ ppc' = "poll" /\ down = "up" /\ mp' = [mp EXCEPT ![cur] = CallOfCur]
      /\ UNCHANGED <<status, flag>>
      /\ op' = op \/ (c # NULL /\ op' = [op EXCEPT ![c] = "finish"])
      /\ down' \in {"up", "finish_twice"}
  BY DEF Finish
<1>2. r \in Users /\ r \notin ValidUsers
  BY <1>1 DEF PollerKnows, TypeOK
<1>3. /\ c # NULL => c \in Calls /\ mp[r] = c
      /\ \A u \in Users \ {r} : mp'[u] = mp[u]
  BY <1>1, <1>2, Looked
<1>4. CASE down' # "up"
  BY <1>1, <1>4, EndRefines DEF NS!Next
<1>5. CASE down' = "up"
  <2>1. \A u \in ValidUsers : u \in Users /\ u # r /\ mp'[u] = mp[u]
    BY <1>2, <1>3, UsersAssumption
  <2>2. \A u \in ValidUsers : Serving(u)' <=> Serving(u)
    BY <1>1, <2>1 DEF Serving
  <2>3. Seen' = Seen /\ Served' = Served
    BY <1>1, <1>5, <2>2 DEF Seen, Served
  <2>4. c # NULL => \A u \in Users : mp[u] = c => u = r
    BY <1>1, <1>2, <1>3 DEF NoDanglingEntry
  <2>5. \A u \in Served : op'[mp'[u]] = op[mp[u]]
    BY <1>1, <1>3, <2>1, <2>4 DEF Served, Serving, TypeOK
  <2>6. Told' = Told
    BY <2>3, <2>5 DEF Told
  <2> QED
    BY <1>1, <2>3, <2>6 DEF NS!vars
<1> QED
  BY <1>4, <1>5

\* A message has left, or an operation of another kind or of no user is complete.
LEMMA OpDoneRefines ==
  ASSUME SyncInv, NEW c \in Calls, OpDone(c)
  PROVE  NS!Next \/ UNCHANGED NS!vars
<1> USE DEF SyncInv
<1>1. /\ op' = [op EXCEPT ![c] = "none"] /\ down = "up"
      /\ UNCHANGED <<status, mp, ppc, cur, flag, down>>
  BY DEF OpDone, mapVars, pollerVars
<1>2. Seen' = Seen /\ Served' = Served
  BY <1>1 DEF Seen, Served, Serving
<1>3. \A u \in Served : mp[u] \in Calls /\ u \in Users
  BY UsersAssumption DEF Served, Serving
<1>4. CASE \E u \in Told : mp[u] = c
  <2>1. PICK u \in Told : mp[u] = c
    BY <1>4
  <2>2. u \in Served /\ u \in ValidUsers
    BY DEF Told, Served
  <2>3. \A v \in Served : mp[v] = c => v = u
    BY <1>1, <1>3, <2>1, <2>2 DEF NoDanglingEntry
  <2>4. Told' = Told \ {u}
    BY <1>1, <1>2, <1>3, <2>1, <2>3 DEF Told, TypeOK
  <2> QED
    BY <1>1, <1>2, <2>2, <2>4 DEF NS!Next, NS!Deliver
<1>5. CASE \A u \in Told : mp[u] # c
  <2>1. \A u \in Served : op'[mp[u]] = "write" <=> op[mp[u]] = "write"
    BY <1>1, <1>3, <1>5 DEF Told, TypeOK
  <2>2. Told' = Told
    BY <1>1, <1>2, <2>1 DEF Told
  <2> QED
    BY <1>1, <1>2, <2>2 DEF NS!vars
<1> QED
  BY <1>4, <1>5

\* The database, and the next process.
LEMMA OutsideRefines ==
  ASSUME SyncInv, Restart \/ \E u \in ValidUsers : SetFlag(u) \/ ClearFlag(u)
  PROVE  NS!Next \/ UNCHANGED NS!vars
<1>1. CASE Restart
  <2>1. Served = {} /\ Seen = {} /\ Told = {} /\ UNCHANGED flag
    BY <1>1, Gone DEF Restart
  <2>2. Served' = {} /\ Seen' = {}
    BY <1>1, UsersAssumption, AbsentAssumption DEF Restart, Served, Serving, Seen, Calls
  <2>3. Told' = {}
    BY <2>2 DEF Told
  <2> QED
    BY <2>1, <2>2, <2>3 DEF NS!vars
<1>2. ASSUME NEW u \in ValidUsers, SetFlag(u) \/ ClearFlag(u)
      PROVE  NS!Next
  <2>1. /\ UNCHANGED <<status, mp, op, ppc, cur, down>>
        /\ flag \in [ValidUsers -> BOOLEAN] => flag' \in [ValidUsers -> BOOLEAN]
    BY <1>2 DEF SetFlag, ClearFlag, callVars, mapVars, pollerVars
  <2>2. UNCHANGED <<Served, Seen, Told>>
    BY <2>1 DEF Served, Serving, Seen, Told
  <2> QED
    BY <2>1, <2>2 DEF NS!Next, NS!WriteFlags, NS!streamVars, SyncInv, TypeOK
<1> QED
  BY <1>1, <1>2

\* Every step of the service is a step of the stream of news, or none.
LEMMA NextRefines == SyncInv /\ [Next]_vars => [NS!Next]_NS!vars
<1> SUFFICES ASSUME SyncInv, [Next]_vars
             PROVE  NS!Next \/ UNCHANGED NS!vars
  OBVIOUS
<1>1. CASE UNCHANGED vars
  BY <1>1 DEF vars, callVars, mapVars, handlerVars, pollerVars, NS!vars,
              Served, Serving, Seen, Told
<1>2. CASE \/ \E h \in Handlers : NextDeleted(h) \/ NextFailed(h)
           \/ DataRace \/ ScanNull \/ PollNoConnection
  <2>1. down' # "up" /\ UNCHANGED flag
    BY <1>2 DEF NextDeleted, NextFailed, DataRace, ScanNull, PollNoConnection
  <2> QED
    BY <2>1, EndRefines DEF NS!Next
<1> QED
  BY <1>1, <1>2, StutterRefines, AssignRefines, DeleteRefines, EraseRefines, FlaggedRefines,
     PushRefines, FinishRefines, OpDoneRefines, OutsideRefines
     DEF Next, HandlerStep, PollerStep

\* Whatever the two threads do to users_ and mp_ between each other's steps, a user is
\* written to through its own stream, after its flags were seen set, and not again
\* before the runtime has taken the last message.
THEOREM Refinement == Spec => ImplementsNewsStream
  BY InitRefines, NextRefines, SyncInvariant, PTL DEF Spec, NS!Spec, ImplementsNewsStream
=============================================================================
