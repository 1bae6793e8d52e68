------------------------------ MODULE Requests ------------------------------
(***************************************************************************)
(* Friend invitations and payment requests, and the log of their answers:  *)
(* the handlers of iShare_request.cc but MakePayment, one SQL statement at *)
(* a time.                                                                 *)
(*                                                                         *)
(* A request is a row of table Request until its receiver answers it; the  *)
(* answer copies it to table RequestLog and deletes it.  Both events are   *)
(* announced to the users concerned through one column of their row,       *)
(* synchronism_request: 1 for a new request, 2 for an answer.  A log has a *)
(* mark for each side that says whether that side has read it.             *)
(*                                                                         *)
(* Handlers run in parallel, each statement commits on its own, and the    *)
(* process may end between two of them.  The history variable excused      *)
(* collects the news whose loss has a known reason, as in BillNews.        *)
(*                                                                         *)
(* What a handler sends is what it has written to the call of the client.  *)
(* The handlers do not look at the result of Write, and this module does   *)
(* not follow a row further: sent is not received.                         *)
(*                                                                         *)
(* The types of a request, friendInvite and payment, are treated alike and *)
(* are not told apart here.                                                *)
(***************************************************************************)
EXTENDS Integers, Sequences, FiniteSetsExt

CONSTANTS Users,        \* rows of table User
          Threads,      \* handler threads
          MaxRequests,  \* bound: requests ever sent
          MaxLogs,      \* bound: logs ever written
          MaxDirect,    \* bound: those that answer no request come first
          Faults        \* statements fail, the process crashes

ASSUME BoundsAssumption ==
    MaxRequests \in Nat \ {0} /\ MaxLogs \in Nat \ {0} /\ MaxDirect \in Nat
ASSUME FaultsAssumption == Faults \in BOOLEAN

VARIABLES
    request,   \* every request ever sent; its request_id is its position
    table,     \* request_ids of the rows of Request
    reqLog,    \* the rows of RequestLog, which are never deleted
    flag,      \* flag[u]: synchronism_request
    newDelete, \* newDelete[u]: these handlers have set synchronism_delete to 1
    sentReq,   \* sentReq[u]: the requests ever written to a call of u's client
    sentLog,   \* sentLog[u]: the logs ever written to a call of u's client
    pc,        \* pc[t]: the next statement of t's handler, or "idle"
    item,      \* item[t]: the request t's handler is about
    entry,     \* entry[t]: the log it has written
    caller,    \* caller[t]: {u} when t's handler serves u
    rows,      \* rows[t]: what it has written to u's call
    again,     \* requests whose answer may be logged again, for a known reason
    excused    \* <<u, k, i>>: u may not hear of request or log i, not written to it

tableVars == <<request, table, reqLog>>
flagVars == <<flag, newDelete>>
sentVars == <<sentReq, sentLog>>
threadVars == <<pc, item, entry, caller, rows>>
historyVars == <<again, excused>>
vars == <<tableVars, flagVars, sentVars, threadVars, historyVars>>

Sides == {"sender", "receiver"}
None == 0

Steps == {"idle", "send_flag", "req_clear",
          "log_clear", "log_read_receiver", "log_read_sender",
          "resp_insert", "resp_delete", "resp_flag", "log_flag"}

Row == [sender : Users, receiver : Users]
\* of, the request that the log answers, or None, is a history field: table
\* RequestLog has no such column, and no action reads it.
LogRow == [of : 0..MaxRequests, sender : Users, receiver : Users, unread : SUBSET Sides]

TypeOK ==
    /\ request \in Seq(Row) /\ Len(request) <= MaxRequests
    /\ table \subseteq DOMAIN request
    /\ reqLog \in Seq(LogRow) /\ Len(reqLog) <= MaxLogs
    /\ flag \in [Users -> 0..2]
    /\ newDelete \in [Users -> BOOLEAN]
    /\ sentReq \in [Users -> SUBSET DOMAIN request]
    /\ sentLog \in [Users -> SUBSET DOMAIN reqLog]
    /\ pc \in [Threads -> Steps]
    /\ item \in [Threads -> DOMAIN request \cup {None}]
    /\ entry \in [Threads -> DOMAIN reqLog \cup {None}]
    /\ caller \in [Threads -> SUBSET Users]
    /\ rows \in [Threads -> SUBSET (DOMAIN request \cup DOMAIN reqLog)]
    /\ again \subseteq DOMAIN request
    /\ excused \subseteq Users \X {"request", "log"} \X (1..(MaxRequests + MaxLogs))

Init ==
    /\ request = <<>>
    /\ table = {}
    /\ reqLog = <<>>
    /\ flag = [u \in Users |-> 0]
    /\ newDelete = [u \in Users |-> FALSE]
    /\ sentReq = [u \in Users |-> {}]
    /\ sentLog = [u \in Users |-> {}]
    /\ pc = [t \in Threads |-> "idle"]
    /\ item = [t \in Threads |-> None]
    /\ entry = [t \in Threads |-> None]
    /\ caller = [t \in Threads |-> {}]
    /\ rows = [t \in Threads |-> {}]
    /\ again = {}
    /\ excused = {}

----------------------------------------------------------------------------

\* The handler returns; its local variables are gone.
Return(t) ==
    /\ pc' = [pc EXCEPT ![t] = "idle"]
    /\ item' = [item EXCEPT ![t] = None]
    /\ entry' = [entry EXCEPT ![t] = None]
    /\ caller' = [caller EXCEPT ![t] = {}]
    /\ rows' = [rows EXCEPT ![t] = {}]

\* The bound on logs, with a place for every answer that is being written.
Answering == {t \in Threads : pc[t] = "resp_insert"}
RoomForLog == Len(reqLog) + Cardinality(Answering) < MaxLogs

Parties(l) == {reqLog[l].sender, reqLog[l].receiver}

RequestNews(i) == {<<request[i].receiver, "request", i>>}
LogNews(l) == {<<u, "log", l>> : u \in Parties(l)}

\* The handlers that are about to set u's column to 0 and have not sent this.
Overtakes(u, k, i) ==
    \E t \in Threads :
        /\ u \in caller[t]
        /\ \/ pc[t] = "req_clear" /\ ~(k = "request" /\ i \in rows[t])
           \/ pc[t] = "log_clear" /\ ~(k = "log" /\ i \in rows[t])

Overtaken(news) == {n \in news : Overtakes(n[1], n[2], n[3])}

\* u's news i of kind k was sent to it.
Sent(u, k, i) == i \in (IF k = "request" THEN sentReq ELSE sentLog)[u]

Excuse(news) == excused' = excused \cup {n \in news : ~Sent(n[1], n[2], n[3])}

\* What u is sent needs no excuse any more.
Settled(u, k, I) == {<<u, k, i>> : i \in I}

\* Whether u has unread marks on a log.
UnreadBy(u, l) == \/ reqLog[l].sender = u /\ "sender" \in reqLog[l].unread
                  \/ reqLog[l].receiver = u /\ "receiver" \in reqLog[l].unread

\* ORDER BY id DESC: what was written when a failure stopped the loop.
Newest(S, n) == {i \in S : Cardinality({j \in S : j > i}) < n}

----------------------------------------------------------------------------
(* Send_request.  When the receiver's name cannot be read or the INSERT      *)
(* fails it answers CANCELLED and has changed nothing.                       *)

SendInsert(t, from, to) ==
    /\ pc[t] = "idle"
    /\ Len(request) < MaxRequests
    /\ request' = Append(request, [sender |-> from, receiver |-> to])
    /\ table' = table \cup {Len(request) + 1}
    /\ item' = [item EXCEPT ![t] = Len(request) + 1]
    /\ pc' = [pc EXCEPT ![t] = "send_flag"]
    /\ UNCHANGED <<reqLog, flagVars, sentVars, entry, caller, rows, historyVars>>

\* Mutant: the sender is told of the request, not the receiver.
SendFlagSender(t) ==
    /\ pc[t] = "send_flag"
    /\ flag' = [flag EXCEPT ![request[item[t]].sender] = 1]
    /\ Excuse(Overtaken(RequestNews(item[t])))
    /\ Return(t)
    /\ UNCHANGED <<tableVars, newDelete, sentVars, again>>

\* Then it reads device tokens and sends push messages.
SendFlag(t) ==
    /\ pc[t] = "send_flag"
    /\ flag' = [flag EXCEPT ![request[item[t]].receiver] = 1]
    /\ Excuse(Overtaken(RequestNews(item[t])))
    /\ Return(t)
    /\ UNCHANGED <<tableVars, newDelete, sentVars, again>>

\* The UPDATE fails: CANCELLED, but the request is stored.
SendFlagFails(t) ==
    /\ Faults
    /\ pc[t] = "send_flag"
    /\ Excuse(RequestNews(item[t]))
    /\ Return(t)
    /\ UNCHANGED <<tableVars, flagVars, sentVars, again>>

----------------------------------------------------------------------------
(* Obtain_request, Obtain_requestLog and Obtain_requestLogHistory            *)

RequestsFor(u) == {i \in table : request[i].receiver = u}
UnreadLogs(u) == {l \in DOMAIN reqLog : UnreadBy(u, l)}
LogsOf(u) == {l \in DOMAIN reqLog : u \in Parties(l)}

\* The column it will clear may have been set for a log.
ObtainRequests(t, u) ==
    /\ pc[t] = "idle"
    /\ sentReq' = [sentReq EXCEPT ![u] = @ \cup RequestsFor(u)]
    /\ rows' = [rows EXCEPT ![t] = RequestsFor(u)]
    /\ caller' = [caller EXCEPT ![t] = {u}]
    /\ pc' = [pc EXCEPT ![t] = "req_clear"]
    /\ excused' = (excused \ Settled(u, "request", RequestsFor(u)))
                     \cup {<<u, "log", l>> : l \in LogsOf(u) \ sentLog[u]}
    /\ UNCHANGED <<tableVars, flagVars, sentLog, item, entry, again>>

\* The column it will clear may have been set for a request.
ObtainLogs(t, u) ==
    /\ pc[t] = "idle"
    /\ sentLog' = [sentLog EXCEPT ![u] = @ \cup UnreadLogs(u)]
    /\ rows' = [rows EXCEPT ![t] = UnreadLogs(u)]
    /\ caller' = [caller EXCEPT ![t] = {u}]
    /\ pc' = [pc EXCEPT ![t] = "log_clear"]
    /\ excused' = (excused \ Settled(u, "log", UnreadLogs(u)))
                     \cup {<<u, "request", i>> : i \in RequestsFor(u) \ sentReq[u]}
    /\ UNCHANGED <<tableVars, flagVars, sentReq, item, entry, again>>

\* A user name cannot be read: some rows were sent, and CANCELLED.
ObtainFails(t, u) ==
    /\ Faults
    /\ pc[t] = "idle"
    /\ \/ \E n \in 1..Cardinality(RequestsFor(u)) :
              LET some == Newest(RequestsFor(u), n - 1) IN
                 /\ sentReq' = [sentReq EXCEPT ![u] = @ \cup some]
                 /\ excused' = excused \ Settled(u, "request", some)
                 /\ UNCHANGED sentLog
       \/ \E n \in 1..Cardinality(UnreadLogs(u)) :
              LET some == Newest(UnreadLogs(u), n - 1) IN
                 /\ sentLog' = [sentLog EXCEPT ![u] = @ \cup some]
                 /\ excused' = excused \ Settled(u, "log", some)
                 /\ UNCHANGED sentReq
    /\ UNCHANGED <<tableVars, flagVars, threadVars, again>>

\* Received logs only; nothing is written to the database.
ObtainHistory(t, u) ==
    /\ pc[t] = "idle"
    /\ LET all == {l \in DOMAIN reqLog : reqLog[l].receiver = u} IN
          /\ sentLog' = [sentLog EXCEPT ![u] = @ \cup all]
          /\ excused' = excused \ Settled(u, "log", all)
    /\ UNCHANGED <<tableVars, flagVars, sentReq, threadVars, again>>

\* Mutant: the UPDATE has no WHERE.
ClearEveryone(t) ==
    /\ pc[t] = "req_clear"
    /\ flag' = [u \in Users |-> 0]
    /\ Return(t)
    /\ UNCHANGED <<tableVars, newDelete, sentVars, historyVars>>

ClearRequests(t) ==
    /\ pc[t] = "req_clear"
    /\ flag' = [u \in Users |-> IF u \in caller[t] THEN 0 ELSE flag[u]]
    /\ Return(t)
    /\ UNCHANGED <<tableVars, newDelete, sentVars, historyVars>>

ClearLogs(t) ==
    /\ pc[t] = "log_clear"
    /\ flag' = [u \in Users |-> IF u \in caller[t] THEN 0 ELSE flag[u]]
    /\ pc' = [pc EXCEPT ![t] = "log_read_receiver"]
    /\ UNCHANGED <<tableVars, newDelete, sentVars, item, entry, caller, rows, historyVars>>

\* Mark u's side of every log as read, those written since the SELECT included.
MarkRead(t, side) ==
    /\ reqLog' = [l \in DOMAIN reqLog |->
                     IF reqLog[l][side] \in caller[t]
                     THEN [reqLog[l] EXCEPT !.unread = @ \ {side}]
                     ELSE reqLog[l]]
    /\ Excuse({<<reqLog[l][side], "log", l>> : l \in
                  {k \in DOMAIN reqLog : reqLog[k][side] \in caller[t] /\ k \notin rows[t]}})

ReadReceiver(t) ==
    /\ pc[t] = "log_read_receiver"
    /\ MarkRead(t, "receiver")
    /\ pc' = [pc EXCEPT ![t] = "log_read_sender"]
    /\ UNCHANGED <<request, table, flagVars, sentVars, item, entry, caller, rows, again>>

ReadSender(t) ==
    /\ pc[t] = "log_read_sender"
    /\ MarkRead(t, "sender")
    /\ Return(t)
    /\ UNCHANGED <<request, table, flagVars, sentVars, again>>

\* One of the UPDATEs fails: the rest of the handler is skipped.
ObtainUpdateFails(t) ==
    /\ Faults
    /\ pc[t] \in {"req_clear", "log_clear", "log_read_receiver", "log_read_sender"}
    /\ Return(t)
    /\ UNCHANGED <<tableVars, flagVars, sentVars, historyVars>>

----------------------------------------------------------------------------
(* Request_response, Create_requestLog and IgnoreRequestLog                  *)

\* Mutant: the request is deleted as soon as it is read.
RespondDeletes(t, i) ==
    /\ pc[t] = "idle"
    /\ i \in table
    /\ RoomForLog
    /\ table' = table \ {i}
    /\ item' = [item EXCEPT ![t] = i]
    /\ pc' = [pc EXCEPT ![t] = "resp_insert"]
    /\ UNCHANGED <<request, reqLog, flagVars, sentVars, entry, caller, rows, historyVars>>

\* A client answers a request it was sent.  The row is there; another of the
\* user's devices may be answering it at the same time.
Respond(t, i) ==
    /\ pc[t] = "idle"
    /\ i \in table
    /\ RoomForLog
    /\ item' = [item EXCEPT ![t] = i]
    /\ pc' = [pc EXCEPT ![t] = "resp_insert"]
    /\ again' = again \cup {j \in {i} : \E s \in Threads :
                     item[s] = j /\ pc[s] \in {"resp_insert", "resp_delete"}}
    /\ UNCHANGED <<tableVars, flagVars, sentVars, entry, caller, rows, excused>>

\* The log that a handler writes: both sides have yet to read it.  The row has
\* no column for the request it answers; of is kept for the properties only.
WriteLog(of, from, to) ==
    reqLog' = Append(reqLog, [of |-> of, sender |-> from, receiver |-> to, unread |-> Sides])

RespondInsert(t) ==
    /\ pc[t] = "resp_insert"
    /\ WriteLog(item[t], request[item[t]].sender, request[item[t]].receiver)
    /\ entry' = [entry EXCEPT ![t] = Len(reqLog) + 1]
    /\ pc' = [pc EXCEPT ![t] = "resp_delete"]
    /\ UNCHANGED <<request, table, flagVars, sentVars, item, caller, rows, historyVars>>

\* Mutant: the failure is logged and the handler goes on to the DELETE.
RespondInsertFailsGoesOn(t) ==
    /\ Faults
    /\ pc[t] = "resp_insert"
    /\ pc' = [pc EXCEPT ![t] = "resp_delete"]
    /\ UNCHANGED <<tableVars, flagVars, sentVars, item, entry, caller, rows, historyVars>>

RespondInsertFails(t) ==
    /\ Faults
    /\ pc[t] = "resp_insert"
    /\ Return(t)
    /\ UNCHANGED <<tableVars, flagVars, sentVars, historyVars>>

\* Mutant: the request is kept.
RespondKeeps(t) ==
    /\ pc[t] = "resp_delete"
    /\ pc' = [pc EXCEPT ![t] = "resp_flag"]
    /\ UNCHANGED <<tableVars, flagVars, sentVars, item, entry, caller, rows, historyVars>>

\* Another handler may have deleted it: that is no failure.
RespondDelete(t) ==
    /\ pc[t] = "resp_delete"
    /\ table' = table \ {item[t]}
    /\ pc' = [pc EXCEPT ![t] = "resp_flag"]
    /\ UNCHANGED <<request, reqLog, flagVars, sentVars, item, entry, caller, rows, historyVars>>

RespondDeleteFails(t) ==
    /\ Faults
    /\ pc[t] = "resp_delete"
    /\ again' = again \cup {item[t]}
    /\ Excuse(LogNews(entry[t]))
    /\ Return(t)
    /\ UNCHANGED <<tableVars, flagVars, sentVars>>

CreateLog(t, from, to) ==
    /\ pc[t] = "idle"
    /\ RoomForLog
    /\ Len(reqLog) < MaxDirect
    /\ WriteLog(None, from, to)
    /\ entry' = [entry EXCEPT ![t] = Len(reqLog) + 1]
    /\ pc' = [pc EXCEPT ![t] = "log_flag"]
    /\ UNCHANGED <<request, table, flagVars, sentVars, item, caller, rows, historyVars>>

\* Mutant: only the receiver is told of the answer.
AnswerFlagReceiver(t) ==
    /\ pc[t] \in {"resp_flag", "log_flag"}
    /\ flag' = [flag EXCEPT ![reqLog[entry[t]].receiver] = 2]
    /\ newDelete' = [newDelete EXCEPT ![reqLog[entry[t]].receiver] = TRUE]
    /\ Excuse(Overtaken(LogNews(entry[t])))
    /\ Return(t)
    /\ UNCHANGED <<tableVars, sentVars, again>>

\* The same UPDATE in Request_response and Create_requestLog.
AnswerFlag(t) ==
    /\ pc[t] \in {"resp_flag", "log_flag"}
    /\ flag' = [u \in Users |-> IF u \in Parties(entry[t]) THEN 2 ELSE flag[u]]
    /\ newDelete' = [u \in Users |-> newDelete[u] \/ u \in Parties(entry[t])]
    /\ Excuse(Overtaken(LogNews(entry[t])))
    /\ Return(t)
    /\ UNCHANGED <<tableVars, sentVars, again>>

AnswerFlagFails(t) ==
    /\ Faults
    /\ pc[t] \in {"resp_flag", "log_flag"}
    /\ Excuse(LogNews(entry[t]))
    /\ Return(t)
    /\ UNCHANGED <<tableVars, flagVars, sentVars, again>>

\* A client marks a log it was sent.
IgnoreLog(u, l, side) ==
    /\ l \in sentLog[u]
    /\ reqLog[l][side] = u
    /\ side \in reqLog[l].unread
    /\ reqLog' = [reqLog EXCEPT ![l].unread = @ \ {side}]
    /\ UNCHANGED <<request, table, flagVars, sentVars, threadVars, historyVars>>

----------------------------------------------------------------------------

\* The process ends between two statements; what they wrote stays.
ProcessEnds ==
    /\ pc' = [t \in Threads |-> "idle"]
    /\ item' = [t \in Threads |-> None]
    /\ entry' = [t \in Threads |-> None]
    /\ caller' = [t \in Threads |-> {}]
    /\ rows' = [t \in Threads |-> {}]
    /\ again' = again \cup {item[t] : t \in {s \in Threads : pc[s] = "resp_delete"}}
    /\ Excuse((UNION {RequestNews(item[t]) : t \in {s \in Threads : pc[s] = "send_flag"}})
               \cup (UNION {LogNews(entry[t]) : t \in {s \in Threads :
                                pc[s] \in {"resp_delete", "resp_flag", "log_flag"}}}))
    /\ UNCHANGED <<tableVars, flagVars, sentVars>>

\* An answer to a request that was answered before: Request_response uses the
\* row that its SELECT did not find.
RespondGone(t, i) ==
    /\ pc[t] = "idle"
    /\ i \in DOMAIN request \ table
    /\ ProcessEnds

Crash == Faults /\ ProcessEnds

Next ==
    \/ \E t \in Threads :
          \/ \E from \in Users : \E to \in Users \ {from} :
                 SendInsert(t, from, to) \/ CreateLog(t, from, to)
          \/ SendFlag(t) \/ SendFlagFails(t)
          \/ \E u \in Users : \/ ObtainRequests(t, u) \/ ObtainLogs(t, u)
                              \/ ObtainHistory(t, u) \/ ObtainFails(t, u)
          \/ ClearRequests(t) \/ ClearLogs(t) \/ ReadReceiver(t) \/ ReadSender(t)
          \/ ObtainUpdateFails(t)
          \/ \E u \in Users : \E i \in sentReq[u] : Respond(t, i) \/ RespondGone(t, i)
          \/ RespondInsert(t) \/ RespondInsertFails(t)
          \/ RespondDelete(t) \/ RespondDeleteFails(t)
          \/ AnswerFlag(t) \/ AnswerFlagFails(t)
    \/ \E u \in Users : \E l \in sentLog[u], side \in Sides : IgnoreLog(u, l, side)
    \/ Crash

Spec == Init /\ [][Next]_vars
----------------------------------------------------------------------------
(* Properties *)

InFlight(step, i) == \E t \in Threads : pc[t] \in step /\ (item[t] = i)
LogInFlight(l) ==
    \E t \in Threads : pc[t] \in {"resp_delete", "resp_flag", "log_flag"} /\ entry[t] = l

\* The answer to request i is logged.
Logged(i) == \E l \in DOMAIN reqLog : reqLog[l].of = i

\* No request disappears: until its answer is logged it stays in the table,
\* through failing statements, crashes and answers from two devices.
NoRequestLost ==
    \A i \in DOMAIN request :
        i \in table \/ Logged(i)

\* An answer is logged twice only if two handlers answered the request at the
\* same time, or if one of them failed or died before it deleted the request.
LoggedOnce ==
    \A k, l \in DOMAIN reqLog :
        (k # l /\ reqLog[k].of = reqLog[l].of) => reqLog[k].of \in again \cup {None}

\* The inductive invariant behind these two.

\* The part of the types that it needs.
StoreOK ==
    /\ request \in Seq(Row) /\ Len(request) <= MaxRequests
    /\ table \subseteq DOMAIN request
    /\ reqLog \in Seq(LogRow)
    /\ \A l \in DOMAIN reqLog : reqLog[l].of \in DOMAIN request \cup {None}
    /\ pc \in [Threads -> Steps]
    /\ item \in [Threads -> 0..MaxRequests]

Answers(t, i) == pc[t] \in {"resp_insert", "resp_delete"} /\ item[t] = i

\* A handler deletes a request only after it has logged the answer.
LoggedBeforeDelete ==
    \A t \in Threads :
        /\ pc[t] \in {"resp_insert", "resp_delete"} => item[t] \in DOMAIN request
        /\ pc[t] = "resp_delete" => Logged(item[t])

\* Why a request that is about to be logged is not logged yet, and one that is
\* logged is about to be deleted: but for those in again.
OneAnswer ==
    /\ \A s, t \in Threads : \A i \in DOMAIN request :
          s # t /\ Answers(s, i) /\ Answers(t, i) => i \in again
    /\ \A t \in Threads :
          pc[t] = "resp_insert" /\ Logged(item[t]) => item[t] \in again
    /\ \A i \in table : Logged(i) =>
          i \in again \/ \E t \in Threads : pc[t] = "resp_delete" /\ item[t] = i

RequestInv == StoreOK /\ LoggedBeforeDelete /\ NoRequestLost /\ OneAnswer /\ LoggedOnce

\* An open request was written to a call of its receiver, or the receiver is
\* flagged, or is about to be.  Whether what is written arrives is not known
\* here: Obtain_request does not look at what Write returns.  The news are lost only when the handler that writes them fails or dies
\* between its two statements, when a handler that serves the receiver spans
\* both of them, or when the receiver asks for its logs: one column stands for
\* both kinds of news.
RequestsAnnounced ==
    \A i \in table :
        LET u == request[i].receiver IN
            \/ i \in sentReq[u] \/ flag[u] # 0 \/ InFlight({"send_flag"}, i)
            \/ <<u, "request", i>> \in excused

\* A log was written to a call of each of its sides, or that side has yet to
\* read it and is flagged or about to be, with the same exceptions and the logs that Obtain_requestLog
\* marks as read though they were written after its SELECT.
AnswersAnnounced ==
    \A l \in DOMAIN reqLog : \A u \in Parties(l) :
        \/ l \in sentLog[u]
        \/ UnreadBy(u, l) /\ (flag[u] # 0 \/ LogInFlight(l))
        \/ <<u, "log", l>> \in excused

\* The inductive invariant behind these two.

\* A handler works on rows that are there, and what a reader remembers was sent.
HandlerKnows(t) ==
    /\ pc[t] \in {"send_flag", "resp_insert", "resp_delete"} => item[t] \in DOMAIN request
    /\ pc[t] \in {"resp_delete", "resp_flag", "log_flag"} => entry[t] \in DOMAIN reqLog
    /\ pc[t] = "req_clear" => \A u \in caller[t] : rows[t] \subseteq sentReq[u]
    /\ pc[t] \in {"log_clear", "log_read_receiver", "log_read_sender"} =>
          \A u \in caller[t] : rows[t] \subseteq sentLog[u]

\* Every answer that is being written has its place.
PlaceForAnswers ==
    IsFiniteSet(Answering) /\ Len(reqLog) + Cardinality(Answering) <= MaxLogs

TypeInv == TypeOK /\ PlaceForAnswers /\ \A t \in Threads : HandlerKnows(t)

\* A handler is about to set u's column to 0: then the column is of no use to u.
Clearing(u) == \E t \in Threads : pc[t] \in {"req_clear", "log_clear"} /\ u \in caller[t]
Flagged(u) == flag[u] # 0 /\ ~Clearing(u)

RequestsTold ==
    \A i \in table :
        LET u == request[i].receiver IN
            \/ i \in sentReq[u] \/ <<u, "request", i>> \in excused
            \/ InFlight({"send_flag"}, i) \/ Flagged(u)

AnswersTold ==
    \A l \in DOMAIN reqLog : \A u \in Parties(l) :
        \/ l \in sentLog[u] \/ <<u, "log", l>> \in excused
        \/ UnreadBy(u, l) /\ (LogInFlight(l) \/ Flagged(u))

NewsInv == TypeInv /\ RequestsTold /\ AnswersTold

\* A log is marked as read by a user only if it was written to that user's call:
\* iShare.proto:133 says that Obtain_requestLog returns what "has not been read".
ReadWasSent ==
    \A l \in DOMAIN reqLog : \A side \in Sides \ reqLog[l].unread :
        l \in sentLog[reqLog[l][side]]
=============================================================================
