--------------------------- MODULE RequestsProofs ---------------------------
(***************************************************************************)
(* Proofs about Requests, for any users, any number of handlers, requests  *)
(* and logs, with failing statements and crashes: no request is lost, its  *)
(* answer is logged once but for the reasons that again records, and both  *)
(* are announced but for the reasons that excused records.                 *)
(*                                                                         *)
(* The first two rest on RequestInv.  Only the handlers that answer a      *)
(* request touch what it speaks of; of all the others, Elsewhere says so   *)
(* once.  The announcements rest on NewsInv, and this on the types         *)
(* (TypeInv), which bound the logs by the handlers that may yet write one. *)
(***************************************************************************)
EXTENDS Requests, SequenceTheorems, FiniteSetTheorems, TLAPS

\* A sequence whose elements are replaced one by one stays a sequence.
LEMMA Mapped ==
  ASSUME NEW S, NEW s \in Seq(S), NEW f, f \in [DOMAIN s -> S]
  PROVE  f \in Seq(S) /\ Len(f) = Len(s) /\ DOMAIN f = DOMAIN s
<1>1. Len(s) \in Nat /\ DOMAIN s = 1..Len(s)
  OBVIOUS
<1>2. f \in Seq(S)
  BY <1>1, SeqDef
<1> QED
  BY <1>1, <1>2

\* What an appended sequence holds.
LEMMA Appended ==
  ASSUME NEW S, NEW s \in Seq(S), NEW e \in S
  PROVE  /\ Append(s, e) \in Seq(S)
         /\ Len(s) \in Nat
         /\ DOMAIN s = 1..Len(s)
         /\ DOMAIN Append(s, e) = 1..(Len(s) + 1)
         /\ \A i \in DOMAIN s : Append(s, e)[i] = s[i]
         /\ Append(s, e)[Len(s) + 1] = e
  OBVIOUS

\* There are no requests, logs or handlers at first.
LEMMA InitRequestInv == Init => RequestInv
<1> SUFFICES ASSUME Init PROVE RequestInv
  OBVIOUS
<1> USE BoundsAssumption DEF Init
<1>1. StoreOK
  BY EmptySeq DEF StoreOK, None, Steps
<1>2. LoggedBeforeDelete /\ NoRequestLost /\ OneAnswer /\ LoggedOnce
  BY DEF LoggedBeforeDelete, NoRequestLost, OneAnswer, LoggedOnce, Answers
<1> QED
  BY <1>1, <1>2 DEF RequestInv

\* A step that writes no request and deletes none, writes no log, and moves at
\* most the handler t, to a place where it answers nothing, preserves the
\* invariant.  It may change the marks of logs.
LEMMA Elsewhere ==
  ASSUME RequestInv,
         UNCHANGED <<request, table>>,
         reqLog' \in Seq(LogRow), DOMAIN reqLog' = DOMAIN reqLog,
         \A l \in DOMAIN reqLog : reqLog'[l].of = reqLog[l].of,
         again \subseteq again',
         pc' \in [Threads -> Steps], item' \in [Threads -> 0..MaxRequests],
         \A t \in Threads :
            \/ pc'[t] = pc[t] /\ item'[t] = item[t]
            \/ /\ pc'[t] \notin {"resp_insert", "resp_delete"}
               /\ pc[t] = "resp_delete" => item[t] \in again'
  PROVE  RequestInv'
<1> USE DEF RequestInv
<1>1. \A i : Logged(i)' <=> Logged(i)
  BY DEF Logged
<1>2. StoreOK'
  BY DEF StoreOK
<1>3. LoggedBeforeDelete'
  BY <1>1 DEF LoggedBeforeDelete
<1>4. NoRequestLost'
  BY <1>1 DEF NoRequestLost
<1>5. LoggedOnce'
  BY DEF LoggedOnce
<1>6. OneAnswer'
  <2>1. \A s, t \in Threads : \A i \in DOMAIN request' :
           s # t /\ Answers(s, i)' /\ Answers(t, i)' => i \in again'
    BY DEF OneAnswer, Answers
  <2>2. \A t \in Threads :
           pc'[t] = "resp_insert" /\ Logged(item[t])' => item'[t] \in again'
    BY <1>1 DEF OneAnswer
  <2>3. ASSUME NEW i \in table', Logged(i)'
        PROVE  i \in again' \/ \E t \in Threads : pc'[t] = "resp_delete" /\ item'[t] = i
    BY <1>1, <2>3 DEF OneAnswer
  <2> QED
    BY <1>1, <2>1, <2>2, <2>3 DEF OneAnswer
<1> QED
  BY <1>2, <1>3, <1>4, <1>5, <1>6

\* A handler at another step answers nothing.
LEMMA ReturnElsewhere ==
  ASSUME RequestInv, NEW t \in Threads, Return(t)
  PROVE  /\ pc' \in [Threads -> Steps] /\ item' \in [Threads -> 0..MaxRequests]
         /\ pc'[t] = "idle"
         /\ \A s \in Threads \ {t} : pc'[s] = pc[s] /\ item'[s] = item[s]
  BY BoundsAssumption DEF Return, RequestInv, StoreOK, Steps, None

\* Send_request adds a request, and forgets nothing.
LEMMA SendInsertInv ==
  ASSUME RequestInv, NEW t \in Threads, NEW from \in Users, NEW to \in Users,
         SendInsert(t, from, to)
  PROVE  RequestInv'
<1> USE BoundsAssumption DEF RequestInv
<1>1. /\ request' \in Seq(Row) /\ Len(request') <= MaxRequests
      /\ DOMAIN request' = DOMAIN request \cup {Len(request) + 1}
      /\ Len(request) + 1 \in 1..MaxRequests /\ Len(request) + 1 \notin DOMAIN request
  <2> DEFINE r == [sender |-> from, receiver |-> to]
  <2>1. r \in Row
    BY DEF Row
  <2>2. request \in Seq(Row) /\ request' = Append(request, r) /\ Len(request) < MaxRequests
    BY DEF SendInsert, StoreOK
  <2> HIDE DEF r
  <2>3. /\ Len(request) \in Nat /\ DOMAIN request = 1..Len(request)
        /\ request' \in Seq(Row) /\ DOMAIN request' = 1..(Len(request) + 1)
    BY <2>1, <2>2, Appended
  <2>4. Len(request') = Len(request) + 1
    BY <2>1, <2>2
  <2> QED
    BY <2>2, <2>3, <2>4
<1>2. /\ pc' = [pc EXCEPT ![t] = "send_flag"] /\ item' = [item EXCEPT ![t] = Len(request) + 1]
      /\ table' = table \cup {Len(request) + 1} /\ pc[t] = "idle"
      /\ UNCHANGED <<reqLog, again>>
  BY DEF SendInsert, historyVars
<1>3. StoreOK'
  BY <1>1, <1>2 DEF StoreOK, Steps
<1>4. \A s \in Threads : pc'[s] \in {"resp_insert", "resp_delete"} =>
         s # t /\ pc'[s] = pc[s] /\ item'[s] = item[s] /\ item[s] \in DOMAIN request
  BY <1>2 DEF StoreOK, LoggedBeforeDelete
<1>5. /\ \A i : Logged(i)' <=> Logged(i)
      /\ ~Logged(Len(request) + 1)
  BY <1>1, <1>2 DEF Logged, StoreOK, None
<1>6. LoggedBeforeDelete' /\ NoRequestLost'
  BY <1>1, <1>2, <1>4, <1>5 DEF LoggedBeforeDelete, NoRequestLost
<1>7. LoggedOnce'
  BY <1>2 DEF LoggedOnce
<1>8. OneAnswer'
  <2>1. ASSUME NEW r \in Threads, NEW s \in Threads, NEW i \in DOMAIN request',
               r # s, Answers(r, i)', Answers(s, i)'
        PROVE  i \in again'
    BY <2>1, <1>2, <1>4 DEF OneAnswer, Answers
  <2>2. ASSUME NEW s \in Threads, pc'[s] = "resp_insert", Logged(item[s])'
        PROVE  item'[s] \in again'
    BY <2>2, <1>2, <1>4, <1>5 DEF OneAnswer
  <2>3. ASSUME NEW i \in table', Logged(i)'
        PROVE  i \in again' \/ \E s \in Threads : pc'[s] = "resp_delete" /\ item'[s] = i
    <3>1. i \in table /\ Logged(i)
      BY <2>3, <1>2, <1>5
    <3> QED
      BY <3>1, <1>2 DEF OneAnswer, StoreOK
  <2> QED
    BY <2>1, <2>2, <2>3 DEF OneAnswer
<1> QED
  BY <1>3, <1>6, <1>7, <1>8

\* What a handler that writes a log changes.
LEMMA LogWritten ==
  ASSUME StoreOK, NEW of \in DOMAIN request \cup {None},
         NEW from \in Users, NEW to \in Users, WriteLog(of, from, to)
  PROVE  /\ reqLog' \in Seq(LogRow)
         /\ Len(reqLog) \in Nat
         /\ DOMAIN reqLog = 1..Len(reqLog)
         /\ DOMAIN reqLog' = 1..(Len(reqLog) + 1)
         /\ \A l \in DOMAIN reqLog : reqLog'[l] = reqLog[l]
         /\ reqLog'[Len(reqLog) + 1].of = of
         /\ \A i : Logged(i)' <=> Logged(i) \/ i = of
<1> DEFINE e == [of |-> of, sender |-> from, receiver |-> to, unread |-> Sides]
<1>1. reqLog \in Seq(LogRow) /\ reqLog' = Append(reqLog, e) /\ e.of = of
  BY DEF WriteLog, StoreOK
<1>2. e \in LogRow
  BY BoundsAssumption DEF LogRow, StoreOK, None
<1> HIDE DEF e
<1>3. /\ reqLog' \in Seq(LogRow)
      /\ Len(reqLog) \in Nat
      /\ DOMAIN reqLog = 1..Len(reqLog)
      /\ DOMAIN reqLog' = 1..(Len(reqLog) + 1)
      /\ \A l \in DOMAIN reqLog : reqLog'[l] = reqLog[l]
      /\ reqLog'[Len(reqLog) + 1] = e
  BY <1>1, <1>2, Appended
<1>4. ASSUME NEW i
      PROVE  Logged(i)' <=> Logged(i) \/ i = of
  BY <1>1, <1>3 DEF Logged
<1> QED
  BY <1>1, <1>3, <1>4

\* A log that answers no request answers none twice.
LEMMA CreateLogInv ==
  ASSUME RequestInv, NEW t \in Threads, NEW from \in Users, NEW to \in Users,
         CreateLog(t, from, to)
  PROVE  RequestInv'
<1> USE BoundsAssumption DEF RequestInv
<1>1. /\ pc[t] = "idle" /\ pc' = [pc EXCEPT ![t] = "log_flag"]
      /\ UNCHANGED <<request, table, item, again>>
      /\ WriteLog(None, from, to)
  BY DEF CreateLog, historyVars
<1>2. /\ reqLog' \in Seq(LogRow)
      /\ Len(reqLog) \in Nat
      /\ DOMAIN reqLog = 1..Len(reqLog)
      /\ DOMAIN reqLog' = 1..(Len(reqLog) + 1)
      /\ \A l \in DOMAIN reqLog : reqLog'[l] = reqLog[l]
      /\ reqLog'[Len(reqLog) + 1].of = None
      /\ \A i : Logged(i)' <=> Logged(i) \/ i = None
  BY <1>1, LogWritten
<1>3. DOMAIN request \subseteq Nat \ {None}
  BY DEF StoreOK, None
<1>4. StoreOK'
  BY <1>1, <1>2 DEF StoreOK, Steps
<1>5. \A s \in Threads : pc'[s] \in {"resp_insert", "resp_delete"} => s # t /\ pc'[s] = pc[s]
  BY <1>1 DEF StoreOK
<1>6. LoggedBeforeDelete' /\ NoRequestLost'
  BY <1>1, <1>2, <1>5 DEF LoggedBeforeDelete, NoRequestLost
<1>7. LoggedOnce'
  BY <1>1, <1>2 DEF LoggedOnce
<1>8. OneAnswer'
  <2>1. ASSUME NEW r \in Threads, NEW s \in Threads, NEW i \in DOMAIN request',
               r # s, Answers(r, i)', Answers(s, i)'
        PROVE  i \in again'
    BY <2>1, <1>1, <1>5 DEF OneAnswer, Answers
  <2>2. ASSUME NEW s \in Threads, pc'[s] = "resp_insert", Logged(item[s])'
        PROVE  item'[s] \in again'
    BY <2>2, <1>1, <1>2, <1>3, <1>5 DEF OneAnswer, LoggedBeforeDelete
  <2>3. ASSUME NEW i \in table', Logged(i)'
        PROVE  i \in again' \/ \E s \in Threads : pc'[s] = "resp_delete" /\ item'[s] = i
    <3>1. i \in table /\ Logged(i)
      BY <2>3, <1>1, <1>2, <1>3 DEF StoreOK
    <3> QED
      BY <3>1, <1>1 DEF OneAnswer, StoreOK
  <2> QED
    BY <2>1, <2>2, <2>3 DEF OneAnswer
<1> QED
  BY <1>4, <1>6, <1>7, <1>8

\* A second handler that begins to answer a request is noted in again, and so
\* is one that begins after a failure has left the request logged.
LEMMA RespondInv ==
  ASSUME RequestInv, NEW t \in Threads, NEW i, Respond(t, i)
  PROVE  RequestInv'
<1> USE BoundsAssumption DEF RequestInv
<1>1. /\ pc[t] = "idle" /\ pc' = [pc EXCEPT ![t] = "resp_insert"]
      /\ i \in table /\ item' = [item EXCEPT ![t] = i]
      /\ UNCHANGED <<request, table, reqLog>>
      /\ again \subseteq again'
      /\ \A s \in Threads : Answers(s, i) => i \in again'
  BY DEF Respond, Answers, tableVars
<1>2. i \in DOMAIN request /\ i \in 1..MaxRequests
  BY <1>1 DEF StoreOK
<1>3. \A j : Logged(j)' <=> Logged(j)
  BY <1>1 DEF Logged
<1>4. StoreOK'
  BY <1>1, <1>2 DEF StoreOK, Steps
<1>5. LoggedBeforeDelete' /\ NoRequestLost' /\ LoggedOnce'
  BY <1>1, <1>2, <1>3 DEF StoreOK, LoggedBeforeDelete, NoRequestLost, LoggedOnce
<1>6. OneAnswer'
  <2>1. ASSUME NEW r \in Threads, NEW s \in Threads, NEW j \in DOMAIN request',
               r # s, Answers(r, j)', Answers(s, j)'
        PROVE  j \in again'
    BY <2>1, <1>1 DEF OneAnswer, Answers, StoreOK
  <2>2. ASSUME NEW s \in Threads, pc'[s] = "resp_insert", Logged(item[s])'
        PROVE  item'[s] \in again'
    <3>1. CASE s = t
      <4>1. Logged(i) /\ item'[s] = i
        BY <2>2, <3>1, <1>1, <1>3 DEF StoreOK
      <4>2. i \in again \/ \E r \in Threads : pc[r] = "resp_delete" /\ item[r] = i
        BY <4>1, <1>1 DEF OneAnswer
      <4> QED
        BY <4>1, <4>2, <1>1 DEF Answers
    <3>2. CASE s # t
      BY <2>2, <3>2, <1>1, <1>3 DEF OneAnswer, StoreOK
    <3> QED
      BY <3>1, <3>2
  <2>3. ASSUME NEW j \in table', Logged(j)'
        PROVE  j \in again' \/ \E s \in Threads : pc'[s] = "resp_delete" /\ item'[s] = j
    BY <2>3, <1>1, <1>3 DEF OneAnswer, StoreOK
  <2> QED
    BY <2>1, <2>2, <2>3 DEF OneAnswer
<1> QED
  BY <1>4, <1>5, <1>6

\* The answer that is logged is the first one, or known in again.
LEMMA RespondInsertInv ==
  ASSUME RequestInv, NEW t \in Threads, RespondInsert(t)
  PROVE  RequestInv'
<1> USE BoundsAssumption DEF RequestInv
<1> DEFINE i == item[t]
<1>1. /\ pc[t] = "resp_insert" /\ pc' = [pc EXCEPT ![t] = "resp_delete"]
      /\ UNCHANGED <<request, table, item, again>>
      /\ WriteLog(i, request[i].sender, request[i].receiver)
  BY DEF RespondInsert, historyVars
<1>2. i \in DOMAIN request /\ i # None /\ request[i] \in Row
  BY <1>1 DEF StoreOK, LoggedBeforeDelete, None
<1> HIDE DEF i
<1>3. /\ reqLog' \in Seq(LogRow)
      /\ Len(reqLog) \in Nat
      /\ DOMAIN reqLog = 1..Len(reqLog)
      /\ DOMAIN reqLog' = 1..(Len(reqLog) + 1)
      /\ \A l \in DOMAIN reqLog : reqLog'[l] = reqLog[l]
      /\ reqLog'[Len(reqLog) + 1].of = i
      /\ \A j : Logged(j)' <=> Logged(j) \/ j = i
  BY <1>1, <1>2, LogWritten DEF Row
<1>4. StoreOK'
  <2>1. \A l \in DOMAIN reqLog' : reqLog'[l].of \in DOMAIN request \cup {None}
    BY <1>2, <1>3 DEF StoreOK
  <2>2. pc' \in [Threads -> Steps]
    BY <1>1 DEF StoreOK, Steps
  <2> QED
    BY <1>1, <1>3, <2>1, <2>2 DEF StoreOK
<1>5. \A s \in Threads : pc'[s] = IF s = t THEN "resp_delete" ELSE pc[s]
  BY <1>1 DEF StoreOK
<1>6. LoggedBeforeDelete'
  BY <1>1, <1>2, <1>3, <1>5 DEF LoggedBeforeDelete, i
<1>7. NoRequestLost'
  BY <1>1, <1>3 DEF NoRequestLost
<1>8. Logged(i) => i \in again
  BY <1>1 DEF OneAnswer, i
<1>9. LoggedOnce'
  BY <1>1, <1>3, <1>8 DEF LoggedOnce, Logged
<1>10. OneAnswer'
  <2>1. ASSUME NEW r \in Threads, NEW s \in Threads, NEW j \in DOMAIN request',
               r # s, Answers(r, j)', Answers(s, j)'
        PROVE  j \in again'
    <3>1. Answers(r, j) /\ Answers(s, j) /\ j \in DOMAIN request
      BY <2>1, <1>1, <1>5 DEF Answers
    <3> QED
      BY <3>1, <2>1, <1>1 DEF OneAnswer
  <2>2. ASSUME NEW s \in Threads, pc'[s] = "resp_insert", Logged(item[s])'
        PROVE  item'[s] \in again'
    <3>1. s # t /\ pc[s] = "resp_insert" /\ (Logged(item[s]) \/ item[s] = i)
      BY <2>2, <1>1, <1>3, <1>5
    <3>2. CASE item[s] = i
      BY <3>1, <3>2, <1>1, <1>2 DEF OneAnswer, Answers, i
    <3> QED
      BY <3>1, <3>2, <1>1 DEF OneAnswer
  <2>3. ASSUME NEW j \in table', Logged(j)'
        PROVE  j \in again' \/ \E s \in Threads : pc'[s] = "resp_delete" /\ item'[s] = j
    <3>1. CASE j = i
      BY <3>1, <1>1, <1>5 DEF i
    <3>2. CASE j # i
      BY <2>3, <3>2, <1>1, <1>3, <1>5 DEF OneAnswer
    <3> QED
      BY <3>1, <3>2
  <2> QED
    BY <2>1, <2>2, <2>3 DEF OneAnswer
<1> QED
  BY <1>4, <1>6, <1>7, <1>9, <1>10

\* What is deleted is logged.
LEMMA RespondDeleteInv ==
  ASSUME RequestInv, NEW t \in Threads, RespondDelete(t)
  PROVE  RequestInv'
<1> USE BoundsAssumption DEF RequestInv
<1>1. /\ pc[t] = "resp_delete" /\ pc' = [pc EXCEPT ![t] = "resp_flag"]
      /\ table' = table \ {item[t]}
      /\ UNCHANGED <<request, reqLog, item, again>>
  BY DEF RespondDelete, historyVars
<1>2. \A j : Logged(j)' <=> Logged(j)
  BY <1>1 DEF Logged
<1>3. \A s \in Threads : pc'[s] = IF s = t THEN "resp_flag" ELSE pc[s]
  BY <1>1 DEF StoreOK
<1>4. StoreOK'
  BY <1>1 DEF StoreOK, Steps
<1>5. LoggedBeforeDelete' /\ LoggedOnce'
  BY <1>1, <1>2, <1>3 DEF LoggedBeforeDelete, LoggedOnce
<1>6. NoRequestLost'
  BY <1>1, <1>2 DEF LoggedBeforeDelete, NoRequestLost
<1>7. OneAnswer'
  <2>1. ASSUME NEW r \in Threads, NEW s \in Threads, NEW j \in DOMAIN request',
               r # s, Answers(r, j)', Answers(s, j)'
        PROVE  j \in again'
    BY <2>1, <1>1, <1>3 DEF OneAnswer, Answers
  <2>2. ASSUME NEW s \in Threads, pc'[s] = "resp_insert", Logged(item[s])'
        PROVE  item'[s] \in again'
    BY <2>2, <1>1, <1>2, <1>3 DEF OneAnswer
  <2>3. ASSUME NEW j \in table', Logged(j)'
        PROVE  j \in again' \/ \E s \in Threads : pc'[s] = "resp_delete" /\ item'[s] = j
    BY <2>3, <1>1, <1>2, <1>3 DEF OneAnswer
  <2> QED
    BY <2>1, <2>2, <2>3 DEF OneAnswer
<1> QED
  BY <1>4, <1>5, <1>6, <1>7

----------------------------------------------------------------------------
(* The other handlers *)

\* Marks that are read leave the logs otherwise as they were.
LEMMA MarkReadKeeps ==
  ASSUME StoreOK, NEW t \in Threads, NEW side \in Sides, MarkRead(t, side)
  PROVE  /\ reqLog' \in Seq(LogRow) /\ DOMAIN reqLog' = DOMAIN reqLog
         /\ \A l \in DOMAIN reqLog : reqLog'[l].of = reqLog[l].of
<1>1. reqLog \in Seq(LogRow)
  BY DEF StoreOK
<1>2. \A l \in DOMAIN reqLog : reqLog[l] \in LogRow
  BY <1>1
<1>3. /\ reqLog' \in [DOMAIN reqLog -> LogRow]
      /\ \A l \in DOMAIN reqLog : reqLog'[l].of = reqLog[l].of
  BY <1>2 DEF MarkRead, LogRow
<1> QED
  BY <1>1, <1>3, Mapped

\* The first steps of the readers, and what they do when something fails.
LEMMA ObtainInv ==
  ASSUME RequestInv, NEW t \in Threads, NEW u \in Users,
         \/ ObtainRequests(t, u) \/ ObtainLogs(t, u)
         \/ ObtainHistory(t, u) \/ ObtainFails(t, u)
  PROVE  RequestInv'
<1>1. UNCHANGED <<request, table, reqLog, item, again>>
  BY DEF ObtainRequests, ObtainLogs, ObtainHistory, ObtainFails, tableVars, threadVars
<1>2. /\ pc[t] = "idle"
      /\ \/ UNCHANGED pc
         \/ pc' = [pc EXCEPT ![t] = "req_clear"]
         \/ pc' = [pc EXCEPT ![t] = "log_clear"]
  BY DEF ObtainRequests, ObtainLogs, ObtainHistory, ObtainFails, threadVars
<1>3. /\ pc' \in [Threads -> Steps]
      /\ \A s \in Threads : pc'[s] = pc[s] \/ (s = t /\ pc'[s] \notin {"resp_insert", "resp_delete"})
  BY <1>2 DEF RequestInv, StoreOK, Steps
<1> QED
  BY <1>1, <1>2, <1>3, Elsewhere DEF RequestInv, StoreOK

\* The last step of a handler, and a step whose failure ends it.
LEMMA ReturnInv ==
  ASSUME RequestInv, NEW t \in Threads,
         \/ SendFlag(t) \/ SendFlagFails(t) \/ ClearRequests(t) \/ ObtainUpdateFails(t)
         \/ RespondInsertFails(t) \/ RespondDeleteFails(t)
         \/ AnswerFlag(t) \/ AnswerFlagFails(t)
  PROVE  RequestInv'
<1>1. Return(t) /\ UNCHANGED <<request, table, reqLog>>
  BY DEF SendFlag, SendFlagFails, ClearRequests, ObtainUpdateFails, RespondInsertFails,
         RespondDeleteFails, AnswerFlag, AnswerFlagFails, tableVars
<1>2. again \subseteq again' /\ (pc[t] = "resp_delete" => item[t] \in again')
  BY DEF SendFlag, SendFlagFails, ClearRequests, ObtainUpdateFails, RespondInsertFails,
         RespondDeleteFails, AnswerFlag, AnswerFlagFails, historyVars
<1> QED
  BY <1>1, <1>2, ReturnElsewhere, Elsewhere DEF RequestInv, StoreOK

\* The three UPDATEs of Obtain_requestLog and the one of IgnoreRequestLog.
LEMMA ReadInv ==
  ASSUME RequestInv,
         \/ \E t \in Threads : ClearLogs(t) \/ ReadReceiver(t) \/ ReadSender(t)
         \/ \E u \in Users : \E l \in sentLog[u], side \in Sides : IgnoreLog(u, l, side)
  PROVE  RequestInv'
<1>1. ASSUME NEW t \in Threads, ClearLogs(t)
      PROVE  RequestInv'
  <2>1. /\ pc[t] = "log_clear" /\ pc' = [pc EXCEPT ![t] = "log_read_receiver"]
        /\ UNCHANGED <<request, table, reqLog, item, again>>
    BY <1>1 DEF ClearLogs, tableVars, historyVars
  <2>2. /\ pc' \in [Threads -> Steps]
        /\ \A s \in Threads : pc'[s] = pc[s] \/ (s = t /\ pc'[s] = "log_read_receiver")
    BY <2>1 DEF RequestInv, StoreOK, Steps
  <2> QED
    BY <2>1, <2>2, Elsewhere DEF RequestInv, StoreOK
<1>2. ASSUME NEW t \in Threads, ReadReceiver(t)
      PROVE  RequestInv'
  <2>1. /\ pc[t] = "log_read_receiver" /\ pc' = [pc EXCEPT ![t] = "log_read_sender"]
        /\ MarkRead(t, "receiver") /\ UNCHANGED <<request, table, item, again>>
    BY <1>2 DEF ReadReceiver
  <2>2. /\ pc' \in [Threads -> Steps]
        /\ \A s \in Threads : pc'[s] = pc[s] \/ (s = t /\ pc'[s] = "log_read_sender")
    BY <2>1 DEF RequestInv, StoreOK, Steps
  <2>3. /\ reqLog' \in Seq(LogRow) /\ DOMAIN reqLog' = DOMAIN reqLog
        /\ \A l \in DOMAIN reqLog : reqLog'[l].of = reqLog[l].of
    BY <2>1, MarkReadKeeps DEF RequestInv, Sides
  <2> QED
    BY <2>1, <2>2, <2>3, Elsewhere DEF RequestInv, StoreOK
<1>3. ASSUME NEW t \in Threads, ReadSender(t)
      PROVE  RequestInv'
  <2>1. /\ pc[t] = "log_read_sender" /\ Return(t)
        /\ MarkRead(t, "sender") /\ UNCHANGED <<request, table, again>>
    BY <1>3 DEF ReadSender
  <2>2. /\ reqLog' \in Seq(LogRow) /\ DOMAIN reqLog' = DOMAIN reqLog
        /\ \A l \in DOMAIN reqLog : reqLog'[l].of = reqLog[l].of
    BY <2>1, MarkReadKeeps DEF RequestInv, Sides
  <2> QED
    BY <2>1, <2>2, ReturnElsewhere, Elsewhere
<1>4. ASSUME NEW u \in Users, NEW l \in sentLog[u], NEW side \in Sides, IgnoreLog(u, l, side)
      PROVE  RequestInv'
  <2>1. /\ reqLog' = [reqLog EXCEPT ![l].unread = @ \ {side}]
        /\ UNCHANGED <<request, table, pc, item, again>>
    BY <1>4 DEF IgnoreLog, threadVars, historyVars
  <2>2. reqLog \in Seq(LogRow) /\ \A k \in DOMAIN reqLog : reqLog[k] \in LogRow
    BY DEF RequestInv, StoreOK
  <2>3. /\ reqLog' \in [DOMAIN reqLog -> LogRow]
        /\ \A k \in DOMAIN reqLog : reqLog'[k].of = reqLog[k].of
    BY <2>1, <2>2 DEF LogRow
  <2>4. reqLog' \in Seq(LogRow) /\ DOMAIN reqLog' = DOMAIN reqLog
    BY <2>2, <2>3, Mapped
  <2> QED
    BY <2>1, <2>3, <2>4, Elsewhere DEF RequestInv, StoreOK
<1> QED
  BY <1>1, <1>2, <1>3, <1>4

\* The end of the process stops all handlers, those about to delete included.
LEMMA ProcessEndsInv ==
  ASSUME RequestInv, ProcessEnds
  PROVE  RequestInv'
<1>1. /\ pc' = [t \in Threads |-> "idle"] /\ item' = [t \in Threads |-> None]
      /\ UNCHANGED <<request, table, reqLog>>
      /\ again' = again \cup {item[t] : t \in {s \in Threads : pc[s] = "resp_delete"}}
  BY DEF ProcessEnds, tableVars
<1>2. pc' \in [Threads -> Steps] /\ item' \in [Threads -> 0..MaxRequests]
  BY <1>1, BoundsAssumption DEF Steps, None
<1> QED
  BY <1>1, <1>2, Elsewhere DEF RequestInv, StoreOK

----------------------------------------------------------------------------

\* Every step of every handler preserves the inductive invariant.
LEMMA NextRequestInv == RequestInv /\ [Next]_vars => RequestInv'
<1> SUFFICES ASSUME RequestInv, [Next]_vars
             PROVE  RequestInv'
  OBVIOUS
<1>1. ASSUME NEW t \in Threads, NEW from \in Users, NEW to \in Users,
             SendInsert(t, from, to) \/ CreateLog(t, from, to)
      PROVE  RequestInv'
  BY <1>1, SendInsertInv, CreateLogInv
<1>2. ASSUME NEW t \in Threads, NEW i, Respond(t, i)
      PROVE  RequestInv'
  BY <1>2, RespondInv
<1>3. ASSUME NEW t \in Threads, RespondInsert(t) \/ RespondDelete(t)
      PROVE  RequestInv'
  BY <1>3, RespondInsertInv, RespondDeleteInv
<1>4. CASE ProcessEnds
  BY <1>4, ProcessEndsInv
<1>5. CASE UNCHANGED vars
  <2>1. UNCHANGED <<request, table, reqLog, pc, item, again>>
    BY <1>5 DEF vars, tableVars, threadVars, historyVars
  <2> QED
    BY <2>1, Elsewhere DEF RequestInv, StoreOK
<1> QED
  BY <1>1, <1>2, <1>3, <1>4, <1>5, ObtainInv, ReturnInv, ReadInv
     DEF Next, RespondGone, Crash

\* The inductive invariant holds in every reachable state.
THEOREM RequestInvariant == Spec => []RequestInv
  BY InitRequestInv, NextRequestInv, PTL DEF Spec

\* A request stays in table Request until its answer is in table RequestLog,
\* whatever statements fail, whoever answers, whenever the process ends.
THEOREM NoneLost == Spec => []NoRequestLost
  BY RequestInvariant, PTL DEF RequestInv

\* Two logs answer one request only after two handlers answered it at the same
\* time, or one of them failed or died between its INSERT and its DELETE.
THEOREM NoneLoggedTwice == Spec => []LoggedOnce
  BY RequestInvariant, PTL DEF RequestInv
----------------------------------------------------------------------------
(* Types, and what a handler knows *)

News == Users \X {"request", "log"} \X (1..(MaxRequests + MaxLogs))

\* What the two tables hold.
LEMMA Stored ==
  ASSUME TypeOK
  PROVE  /\ Len(request) \in Nat /\ DOMAIN request = 1..Len(request)
         /\ Len(reqLog) \in Nat /\ DOMAIN reqLog = 1..Len(reqLog)
         /\ None \notin DOMAIN request \cup DOMAIN reqLog
         /\ \A i \in DOMAIN request : request[i] \in Row
         /\ \A l \in DOMAIN reqLog : reqLog[l] \in LogRow
         /\ \A l \in DOMAIN reqLog : Parties(l) \subseteq Users
<1>1. /\ Len(request) \in Nat /\ DOMAIN request = 1..Len(request)
      /\ \A i \in DOMAIN request : request[i] \in Row
  BY DEF TypeOK
<1>2. /\ Len(reqLog) \in Nat /\ DOMAIN reqLog = 1..Len(reqLog)
      /\ \A l \in DOMAIN reqLog : reqLog[l] \in LogRow
  BY DEF TypeOK
<1> QED
  BY <1>1, <1>2 DEF None, Parties, LogRow

\* The news of what is stored are news.
LEMMA StoredNews ==
  ASSUME TypeOK
  PROVE  /\ \A i \in DOMAIN request : RequestNews(i) \subseteq News
         /\ \A l \in DOMAIN reqLog : LogNews(l) \subseteq News
         /\ \A u \in Users, i \in DOMAIN request : <<u, "request", i>> \in News
         /\ \A u \in Users, l \in DOMAIN reqLog : <<u, "log", l>> \in News
<1>1. /\ DOMAIN request \subseteq 1..(MaxRequests + MaxLogs)
      /\ DOMAIN reqLog \subseteq 1..(MaxRequests + MaxLogs)
  BY Stored, BoundsAssumption DEF TypeOK
<1>2. \A i \in DOMAIN request : request[i].receiver \in Users
  BY Stored DEF Row
<1> QED
  BY <1>1, <1>2, Stored DEF RequestNews, LogNews, News

\* Excuses are made for news.
LEMMA ExcuseOK ==
  ASSUME TypeOK, NEW news, news \subseteq News, Excuse(news)
  PROVE  excused' \subseteq News
  BY DEF Excuse, TypeOK, News

\* A step that writes no log and lets no handler begin to answer.
LEMMA PlaceKept ==
  ASSUME PlaceForAnswers, Len(reqLog') = Len(reqLog), Len(reqLog) \in Nat,
         \A t \in Threads : pc'[t] = "resp_insert" => pc[t] = "resp_insert"
  PROVE  PlaceForAnswers'
<1>1. Answering' \in SUBSET Answering
  BY DEF Answering
<1>2. /\ IsFiniteSet(Answering') /\ Cardinality(Answering') <= Cardinality(Answering)
      /\ Cardinality(Answering') \in Nat /\ Cardinality(Answering) \in Nat
  BY <1>1, FS_Subset, FS_CardinalityType DEF PlaceForAnswers
<1>3. MaxLogs \in Nat
  BY BoundsAssumption
<1> QED
  BY <1>2, <1>3 DEF PlaceForAnswers

\* What a handler's return leaves of the threads.
LEMMA Returned ==
  ASSUME TypeOK, NEW t \in Threads, Return(t)
  PROVE  /\ pc' \in [Threads -> Steps]
         /\ item' \in [Threads -> DOMAIN request \cup {None}]
         /\ entry' \in [Threads -> DOMAIN reqLog \cup {None}]
         /\ caller' \in [Threads -> SUBSET Users]
         /\ rows' \in [Threads -> SUBSET (DOMAIN request \cup DOMAIN reqLog)]
         /\ pc'[t] = "idle" /\ caller'[t] = {}
         /\ \A s \in Threads \ {t} : /\ pc'[s] = pc[s] /\ item'[s] = item[s]
                                     /\ entry'[s] = entry[s]
                                     /\ caller'[s] = caller[s] /\ rows'[s] = rows[s]
  BY DEF TypeOK, Return, Steps

\* Send_request stores a request, which its handler announces.
LEMMA SendInsertType ==
  ASSUME TypeInv, NEW t \in Threads, NEW from \in Users, NEW to \in Users,
         SendInsert(t, from, to)
  PROVE  TypeInv'
<1> USE DEF TypeInv
<1> DEFINE n == Len(request) + 1
<1>1. /\ pc[t] = "idle" /\ Len(request) < MaxRequests
      /\ request' = Append(request, [sender |-> from, receiver |-> to])
      /\ table' = table \cup {n} /\ item' = [item EXCEPT ![t] = n]
      /\ pc' = [pc EXCEPT ![t] = "send_flag"]
      /\ UNCHANGED <<reqLog, flag, newDelete, sentReq, sentLog, entry, caller, rows, again, excused>>
  BY DEF SendInsert, flagVars, sentVars, historyVars
<1>2. /\ request' \in Seq(Row) /\ Len(request) \in Nat
      /\ DOMAIN request = 1..Len(request) /\ DOMAIN request' = 1..n
      /\ Len(request') = n
  BY <1>1 DEF TypeOK, Row
<1>3. /\ DOMAIN request \subseteq DOMAIN request' /\ n \in DOMAIN request'
      /\ Len(request') <= MaxRequests
  BY <1>1, <1>2, BoundsAssumption
<1>4. TypeOK'
  BY <1>1, <1>2, <1>3 DEF TypeOK, Steps
<1>5. \A s \in Threads : HandlerKnows(s)'
  BY <1>1, <1>3 DEF HandlerKnows, TypeOK
<1>6. PlaceForAnswers'
  BY <1>1, Stored, PlaceKept DEF TypeOK
<1> QED
  BY <1>4, <1>5, <1>6

\* The last step of a handler, and a step whose failure ends it.
LEMMA ReturnType ==
  ASSUME TypeInv, NEW t \in Threads,
         \/ SendFlag(t) \/ SendFlagFails(t) \/ ClearRequests(t) \/ ObtainUpdateFails(t)
         \/ RespondInsertFails(t) \/ RespondDeleteFails(t)
         \/ AnswerFlag(t) \/ AnswerFlagFails(t)
  PROVE  TypeInv'
<1> USE DEF TypeInv
<1>1. Return(t) /\ UNCHANGED <<request, table, reqLog, sentReq, sentLog>>
  BY DEF SendFlag, SendFlagFails, ClearRequests, ObtainUpdateFails, RespondInsertFails,
         RespondDeleteFails, AnswerFlag, AnswerFlagFails, tableVars, sentVars
<1>2. flag' \in [Users -> 0..2] /\ newDelete' \in [Users -> BOOLEAN]
  <2>1. \/ UNCHANGED flag \/ \E u : flag' = [flag EXCEPT ![u] = 1]
        \/ \E U : \E n \in {0, 2} : flag' = [u \in Users |-> IF u \in U THEN n ELSE flag[u]]
    BY DEF SendFlag, SendFlagFails, ClearRequests, ObtainUpdateFails, RespondInsertFails,
           RespondDeleteFails, AnswerFlag, AnswerFlagFails, flagVars
  <2>2. \/ UNCHANGED newDelete
        \/ \E U : newDelete' = [u \in Users |-> newDelete[u] \/ u \in U]
    BY DEF SendFlag, SendFlagFails, ClearRequests, ObtainUpdateFails, RespondInsertFails,
           RespondDeleteFails, AnswerFlag, AnswerFlagFails, flagVars
  <2>3. newDelete' \in [Users -> BOOLEAN]
    BY <2>2, Zenon DEF TypeOK
  <2>4. flag' \in [Users -> 0..2]
    BY <2>1 DEF TypeOK
  <2> QED
    BY <2>3, <2>4
<1>3. again' \subseteq DOMAIN request
  BY DEF SendFlag, SendFlagFails, ClearRequests, ObtainUpdateFails, RespondInsertFails,
         RespondDeleteFails, AnswerFlag, AnswerFlagFails, historyVars, TypeOK, HandlerKnows
<1>4. excused' \subseteq News
  <2>1. CASE SendFlag(t) \/ SendFlagFails(t)
    <3>1. RequestNews(item[t]) \subseteq News
      BY <2>1, StoredNews DEF SendFlag, SendFlagFails, HandlerKnows
    <3> QED
      BY <2>1, <3>1, ExcuseOK DEF SendFlag, SendFlagFails, Overtaken
  <2>2. CASE RespondDeleteFails(t) \/ AnswerFlag(t) \/ AnswerFlagFails(t)
    <3>1. LogNews(entry[t]) \subseteq News
      BY <2>2, StoredNews DEF RespondDeleteFails, AnswerFlag, AnswerFlagFails, HandlerKnows
    <3> QED
      BY <2>2, <3>1, ExcuseOK DEF RespondDeleteFails, AnswerFlag, AnswerFlagFails, Overtaken
  <2>3. CASE ClearRequests(t) \/ ObtainUpdateFails(t) \/ RespondInsertFails(t)
    BY <2>3 DEF ClearRequests, ObtainUpdateFails, RespondInsertFails, historyVars, TypeOK, News
  <2> QED
    BY <2>1, <2>2, <2>3
<1>5. TypeOK'
  BY <1>1, <1>2, <1>3, <1>4, Returned DEF TypeOK, News
<1>6. \A s \in Threads : HandlerKnows(s)'
  BY <1>1, Returned DEF HandlerKnows
<1>7. PlaceForAnswers'
  BY <1>1, Returned, Stored, PlaceKept
<1> QED
  BY <1>5, <1>6, <1>7

\* The SELECT of a reader, and what it wrote when a failure ended it.
LEMMA ObtainType ==
  ASSUME TypeInv, NEW t \in Threads, NEW u \in Users,
         \/ ObtainRequests(t, u) \/ ObtainLogs(t, u)
         \/ ObtainHistory(t, u) \/ ObtainFails(t, u)
  PROVE  TypeInv'
<1> USE DEF TypeInv
<1>1. UNCHANGED <<request, table, reqLog, flag, newDelete, item, entry, again>>
  BY DEF ObtainRequests, ObtainLogs, ObtainHistory, ObtainFails, tableVars, flagVars, threadVars
<1>2. RequestsFor(u) \subseteq DOMAIN request /\ LogsOf(u) \subseteq DOMAIN reqLog
  BY DEF RequestsFor, LogsOf, TypeOK
<1>3. UnreadLogs(u) \subseteq DOMAIN reqLog
  BY DEF UnreadLogs
<1>4. \E R \in SUBSET DOMAIN request :
         sentReq' = sentReq \/ sentReq' = [sentReq EXCEPT ![u] = @ \cup R]
  BY <1>2 DEF ObtainRequests, ObtainLogs, ObtainHistory, ObtainFails, Newest, threadVars
<1>5. \E L \in SUBSET DOMAIN reqLog :
         sentLog' = sentLog \/ sentLog' = [sentLog EXCEPT ![u] = @ \cup L]
  BY <1>3 DEF ObtainRequests, ObtainLogs, ObtainHistory, ObtainFails, Newest, threadVars
<1>6. /\ sentReq' \in [Users -> SUBSET DOMAIN request]
      /\ sentLog' \in [Users -> SUBSET DOMAIN reqLog]
      /\ \A v \in Users : sentReq[v] \subseteq sentReq'[v] /\ sentLog[v] \subseteq sentLog'[v]
  <2>1. PICK R \in SUBSET DOMAIN request :
           sentReq' = sentReq \/ sentReq' = [sentReq EXCEPT ![u] = @ \cup R]
    BY <1>4
  <2>2. PICK L \in SUBSET DOMAIN reqLog :
           sentLog' = sentLog \/ sentLog' = [sentLog EXCEPT ![u] = @ \cup L]
    BY <1>5
  <2>3. /\ sentReq' \in [Users -> SUBSET DOMAIN request]
        /\ \A v \in Users : sentReq[v] \subseteq sentReq'[v]
    BY <2>1 DEF TypeOK
  <2>4. /\ sentLog' \in [Users -> SUBSET DOMAIN reqLog]
        /\ \A v \in Users : sentLog[v] \subseteq sentLog'[v]
    BY <2>2 DEF TypeOK
  <2> QED
    BY <2>3, <2>4
<1>7. excused' \subseteq News
  <2>1. {<<u, "request", i>> : i \in RequestsFor(u)} \cup {<<u, "log", l>> : l \in LogsOf(u)}
           \subseteq News
    BY <1>2, StoredNews
  <2>2. excused' \subseteq excused \cup {<<u, "request", i>> : i \in RequestsFor(u)}
                                  \cup {<<u, "log", l>> : l \in LogsOf(u)}
    <3>1. CASE ObtainRequests(t, u)
      BY <3>1 DEF ObtainRequests
    <3>2. CASE ObtainLogs(t, u)
      BY <3>2 DEF ObtainLogs
    <3>3. CASE ObtainHistory(t, u) \/ ObtainFails(t, u)
      BY <3>3 DEF ObtainHistory, ObtainFails
    <3> QED
      BY <3>1, <3>2, <3>3
  <2> QED
    BY <2>1, <2>2 DEF TypeOK, News
<1>8. CASE ObtainRequests(t, u)
  <2>1. /\ rows' = [rows EXCEPT ![t] = RequestsFor(u)]
        /\ caller' = [caller EXCEPT ![t] = {u}]
        /\ pc' = [pc EXCEPT ![t] = "req_clear"]
        /\ sentReq' = [sentReq EXCEPT ![u] = @ \cup RequestsFor(u)]
    BY <1>8 DEF ObtainRequests
  <2>2. TypeOK'
    BY <1>1, <1>2, <1>6, <1>7, <2>1 DEF TypeOK, Steps, News
  <2>3. ASSUME NEW s \in Threads
        PROVE  HandlerKnows(s)'
    <3>1. CASE s = t
      BY <1>1, <2>1, <3>1 DEF HandlerKnows, TypeOK
    <3>2. CASE s # t
      BY <1>1, <1>6, <2>1, <3>2 DEF HandlerKnows, TypeOK
    <3> QED
      BY <3>1, <3>2
  <2>4. PlaceForAnswers'
    BY <1>1, <2>1, Stored, PlaceKept DEF TypeOK
  <2> QED
    BY <2>2, <2>3, <2>4
<1>9. CASE ObtainLogs(t, u)
  <2>1. /\ rows' = [rows EXCEPT ![t] = UnreadLogs(u)]
        /\ caller' = [caller EXCEPT ![t] = {u}]
        /\ pc' = [pc EXCEPT ![t] = "log_clear"]
        /\ sentLog' = [sentLog EXCEPT ![u] = @ \cup UnreadLogs(u)]
    BY <1>9 DEF ObtainLogs
  <2>2. TypeOK'
    BY <1>1, <1>3, <1>6, <1>7, <2>1 DEF TypeOK, Steps, News
  <2>3. ASSUME NEW s \in Threads
        PROVE  HandlerKnows(s)'
    <3>1. CASE s = t
      BY <1>1, <2>1, <3>1 DEF HandlerKnows, TypeOK
    <3>2. CASE s # t
      BY <1>1, <1>6, <2>1, <3>2 DEF HandlerKnows, TypeOK
    <3> QED
      BY <3>1, <3>2
  <2>4. PlaceForAnswers'
    BY <1>1, <2>1, Stored, PlaceKept DEF TypeOK
  <2> QED
    BY <2>2, <2>3, <2>4
<1>10. CASE ObtainHistory(t, u) \/ ObtainFails(t, u)
  <2>1. UNCHANGED <<pc, caller, rows>>
    BY <1>10 DEF ObtainHistory, ObtainFails, threadVars
  <2>2. TypeOK'
    BY <1>1, <1>6, <1>7, <2>1 DEF TypeOK, News
  <2>3. \A s \in Threads : HandlerKnows(s)'
    BY <1>1, <1>6, <2>1 DEF HandlerKnows, TypeOK
  <2>4. PlaceForAnswers'
    BY <1>1, <2>1, Stored, PlaceKept
  <2> QED
    BY <2>2, <2>3, <2>4
<1> QED
  BY <1>8, <1>9, <1>10

\* Marks that are read leave the logs otherwise as they were, and excuse logs.
LEMMA MarkReadType ==
  ASSUME TypeOK, NEW t \in Threads, NEW side \in Sides, MarkRead(t, side)
  PROVE  /\ reqLog' \in Seq(LogRow) /\ DOMAIN reqLog' = DOMAIN reqLog
         /\ Len(reqLog') = Len(reqLog)
         /\ excused' \subseteq News
<1>1. reqLog' \in [DOMAIN reqLog -> LogRow]
  BY Stored DEF MarkRead, LogRow
<1>2. reqLog' \in Seq(LogRow) /\ DOMAIN reqLog' = DOMAIN reqLog /\ Len(reqLog') = Len(reqLog)
  BY <1>1, Mapped DEF TypeOK
<1>3. \A l \in DOMAIN reqLog : reqLog[l][side] \in Users
  BY Stored DEF LogRow, Sides
<1> QED
  BY <1>2, <1>3, StoredNews, ExcuseOK DEF MarkRead

\* The UPDATEs of Obtain_requestLog and the one of IgnoreRequestLog.
LEMMA ReadType ==
  ASSUME TypeInv,
         \/ \E t \in Threads : ClearLogs(t) \/ ReadReceiver(t) \/ ReadSender(t)
         \/ \E u \in Users : \E l \in sentLog[u], side \in Sides : IgnoreLog(u, l, side)
  PROVE  TypeInv'
<1> USE DEF TypeInv
<1>1. ASSUME NEW t \in Threads, ClearLogs(t)
      PROVE  TypeInv'
  <2>1. /\ pc[t] = "log_clear" /\ pc' = [pc EXCEPT ![t] = "log_read_receiver"]
        /\ flag' = [u \in Users |-> IF u \in caller[t] THEN 0 ELSE flag[u]]
        /\ UNCHANGED <<request, table, reqLog, newDelete, sentReq, sentLog,
                       item, entry, caller, rows, again, excused>>
    BY <1>1 DEF ClearLogs, tableVars, sentVars, historyVars
  <2>2. TypeOK'
    BY <2>1 DEF TypeOK, Steps
  <2>3. \A s \in Threads : HandlerKnows(s)'
    BY <2>1 DEF HandlerKnows, TypeOK
  <2>4. PlaceForAnswers'
    BY <2>1, Stored, PlaceKept DEF TypeOK
  <2> QED
    BY <2>2, <2>3, <2>4
<1>2. ASSUME NEW t \in Threads, ReadReceiver(t)
      PROVE  TypeInv'
  <2>1. /\ pc[t] = "log_read_receiver" /\ pc' = [pc EXCEPT ![t] = "log_read_sender"]
        /\ MarkRead(t, "receiver")
        /\ UNCHANGED <<request, table, flag, newDelete, sentReq, sentLog,
                       item, entry, caller, rows, again>>
    BY <1>2 DEF ReadReceiver, flagVars, sentVars
  <2>2. /\ reqLog' \in Seq(LogRow) /\ DOMAIN reqLog' = DOMAIN reqLog
        /\ Len(reqLog') = Len(reqLog) /\ excused' \subseteq News
    BY <2>1, MarkReadType DEF Sides
  <2>3. TypeOK'
    BY <2>1, <2>2 DEF TypeOK, Steps, News
  <2>4. \A s \in Threads : HandlerKnows(s)'
    BY <2>1, <2>2 DEF HandlerKnows, TypeOK
  <2>5. PlaceForAnswers'
    BY <2>1, <2>2, Stored, PlaceKept DEF TypeOK
  <2> QED
    BY <2>3, <2>4, <2>5
<1>3. ASSUME NEW t \in Threads, ReadSender(t)
      PROVE  TypeInv'
  <2>1. /\ Return(t) /\ MarkRead(t, "sender")
        /\ UNCHANGED <<request, table, flag, newDelete, sentReq, sentLog, again>>
    BY <1>3 DEF ReadSender, flagVars, sentVars
  <2>2. /\ reqLog' \in Seq(LogRow) /\ DOMAIN reqLog' = DOMAIN reqLog
        /\ Len(reqLog') = Len(reqLog) /\ excused' \subseteq News
    BY <2>1, MarkReadType DEF Sides
  <2>3. TypeOK'
    BY <2>1, <2>2, Returned DEF TypeOK, News
  <2>4. \A s \in Threads : HandlerKnows(s)'
    BY <2>1, <2>2, Returned DEF HandlerKnows
  <2>5. PlaceForAnswers'
    BY <2>1, <2>2, Returned, Stored, PlaceKept
  <2> QED
    BY <2>3, <2>4, <2>5
<1>4. ASSUME NEW u \in Users, NEW l \in sentLog[u], NEW side \in Sides, IgnoreLog(u, l, side)
      PROVE  TypeInv'
  <2>1. /\ reqLog' = [reqLog EXCEPT ![l].unread = @ \ {side}]
        /\ UNCHANGED <<request, table, flag, newDelete, sentReq, sentLog,
                       pc, item, entry, caller, rows, again, excused>>
    BY <1>4 DEF IgnoreLog, flagVars, sentVars, threadVars, historyVars
  <2>2. reqLog' \in [DOMAIN reqLog -> LogRow]
    BY <2>1, Stored DEF LogRow
  <2>3. /\ reqLog' \in Seq(LogRow) /\ DOMAIN reqLog' = DOMAIN reqLog
        /\ Len(reqLog') = Len(reqLog)
    BY <2>2, Mapped DEF TypeOK
  <2>4. TypeOK'
    BY <2>1, <2>3 DEF TypeOK
  <2>5. \A s \in Threads : HandlerKnows(s)'
    BY <2>1, <2>3 DEF HandlerKnows
  <2>6. PlaceForAnswers'
    BY <2>1, <2>3, Stored, PlaceKept
  <2> QED
    BY <2>4, <2>5, <2>6
<1> QED
  BY <1>1, <1>2, <1>3, <1>4

\* A client answers a request: its answer will have a place.
LEMMA RespondType ==
  ASSUME TypeInv, NEW t \in Threads, NEW i, Respond(t, i)
  PROVE  TypeInv'
<1> USE DEF TypeInv
<1>1. /\ pc[t] = "idle" /\ pc' = [pc EXCEPT ![t] = "resp_insert"]
      /\ i \in table /\ i \in DOMAIN request /\ item' = [item EXCEPT ![t] = i]
      /\ RoomForLog
      /\ again' \subseteq again \cup {i}
      /\ UNCHANGED <<request, table, reqLog, flag, newDelete, sentReq, sentLog,
                     entry, caller, rows, excused>>
  BY DEF Respond, tableVars, flagVars, sentVars, TypeOK
<1>2. TypeOK'
  BY <1>1 DEF TypeOK, Steps
<1>3. \A s \in Threads : HandlerKnows(s)'
  BY <1>1 DEF HandlerKnows, TypeOK
<1>4. PlaceForAnswers'
  <2>1. Answering' = Answering \cup {t} /\ t \notin Answering
    BY <1>1 DEF Answering, TypeOK
  <2>2. /\ IsFiniteSet(Answering') /\ Cardinality(Answering') = Cardinality(Answering) + 1
        /\ Cardinality(Answering) \in Nat
    BY <2>1, FS_AddElement, FS_CardinalityType DEF PlaceForAnswers
  <2>3. Len(reqLog') = Len(reqLog) /\ Len(reqLog) \in Nat /\ MaxLogs \in Nat
    BY <1>1, Stored, BoundsAssumption
  <2> QED
    BY <1>1, <2>2, <2>3 DEF PlaceForAnswers, RoomForLog
<1> QED
  BY <1>2, <1>3, <1>4

\* The log that a handler writes.
LEMMA WrittenType ==
  ASSUME TypeOK, NEW of \in 0..MaxRequests, NEW from \in Users, NEW to \in Users,
         WriteLog(of, from, to)
  PROVE  /\ reqLog' \in Seq(LogRow) /\ Len(reqLog') = Len(reqLog) + 1
         /\ Len(reqLog) \in Nat
         /\ DOMAIN reqLog \subseteq DOMAIN reqLog' /\ Len(reqLog) + 1 \in DOMAIN reqLog'
         /\ DOMAIN reqLog' = DOMAIN reqLog \cup {Len(reqLog) + 1}
         /\ \A l \in DOMAIN reqLog : reqLog'[l] = reqLog[l]
         /\ reqLog'[Len(reqLog) + 1] =
               [of |-> of, sender |-> from, receiver |-> to, unread |-> Sides]
<1> DEFINE e == [of |-> of, sender |-> from, receiver |-> to, unread |-> Sides]
<1>1. e \in LogRow
  BY DEF LogRow
<1>2. reqLog' = Append(reqLog, e) /\ reqLog \in Seq(LogRow)
  BY DEF WriteLog, TypeOK
<1> HIDE DEF e
<1>3. /\ reqLog' \in Seq(LogRow) /\ Len(reqLog') = Len(reqLog) + 1
      /\ Len(reqLog) \in Nat /\ DOMAIN reqLog = 1..Len(reqLog)
      /\ DOMAIN reqLog' = 1..(Len(reqLog) + 1)
      /\ \A l \in DOMAIN reqLog : reqLog'[l] = reqLog[l]
      /\ reqLog'[Len(reqLog) + 1] = e
  BY <1>1, <1>2
<1> QED
  BY <1>3 DEF e

\* The answer takes the place that was kept for it.
LEMMA RespondInsertType ==
  ASSUME TypeInv, NEW t \in Threads, RespondInsert(t)
  PROVE  TypeInv'
<1> USE DEF TypeInv
<1>1. /\ pc[t] = "resp_insert" /\ pc' = [pc EXCEPT ![t] = "resp_delete"]
      /\ WriteLog(item[t], request[item[t]].sender, request[item[t]].receiver)
      /\ entry' = [entry EXCEPT ![t] = Len(reqLog) + 1]
      /\ UNCHANGED <<request, table, flag, newDelete, sentReq, sentLog,
                     item, caller, rows, again, excused>>
  BY DEF RespondInsert, flagVars, sentVars, historyVars
<1>2. /\ item[t] \in DOMAIN request /\ item[t] \in 0..MaxRequests
      /\ request[item[t]].sender \in Users /\ request[item[t]].receiver \in Users
  <2>1. item[t] \in DOMAIN request
    BY <1>1 DEF HandlerKnows
  <2>2. request[item[t]] \in Row /\ item[t] \in 1..Len(request)
    BY <2>1, Stored
  <2>3. Len(request) \in Nat /\ Len(request) <= MaxRequests
    BY Stored DEF TypeOK
  <2> QED
    BY <2>1, <2>2, <2>3, BoundsAssumption DEF Row
<1>3. /\ reqLog' \in Seq(LogRow) /\ Len(reqLog') = Len(reqLog) + 1 /\ Len(reqLog) \in Nat
      /\ DOMAIN reqLog \subseteq DOMAIN reqLog' /\ Len(reqLog) + 1 \in DOMAIN reqLog'
  BY <1>1, <1>2, WrittenType
<1>4. PlaceForAnswers'
  <2>1. Answering' = Answering \ {t} /\ t \in Answering
    BY <1>1 DEF Answering, TypeOK
  <2>2. /\ IsFiniteSet(Answering') /\ Cardinality(Answering') = Cardinality(Answering) - 1
        /\ Cardinality(Answering) \in Nat
    BY <2>1, FS_RemoveElement, FS_CardinalityType DEF PlaceForAnswers
  <2> QED
    BY <1>3, <2>2, BoundsAssumption DEF PlaceForAnswers
<1>5. Len(reqLog') <= MaxLogs
  <2>1. Cardinality(Answering') \in Nat
    BY <1>4, FS_CardinalityType DEF PlaceForAnswers
  <2> QED
    BY <1>3, <1>4, <2>1, BoundsAssumption DEF PlaceForAnswers
<1>6. TypeOK'
  BY <1>1, <1>3, <1>5 DEF TypeOK, Steps
<1>7. \A s \in Threads : HandlerKnows(s)'
  BY <1>1, <1>2, <1>3 DEF HandlerKnows, TypeOK
<1> QED
  BY <1>4, <1>6, <1>7

\* Create_requestLog writes a log if there is a place that is not kept.
LEMMA CreateLogType ==
  ASSUME TypeInv, NEW t \in Threads, NEW from \in Users, NEW to \in Users,
         CreateLog(t, from, to)
  PROVE  TypeInv'
<1> USE DEF TypeInv
<1>1. /\ pc[t] = "idle" /\ pc' = [pc EXCEPT ![t] = "log_flag"]
      /\ RoomForLog /\ WriteLog(None, from, to)
      /\ entry' = [entry EXCEPT ![t] = Len(reqLog) + 1]
      /\ UNCHANGED <<request, table, flag, newDelete, sentReq, sentLog,
                     item, caller, rows, again, excused>>
  BY DEF CreateLog, flagVars, sentVars, historyVars
<1>2. None \in 0..MaxRequests
  BY BoundsAssumption DEF None
<1>3. /\ reqLog' \in Seq(LogRow) /\ Len(reqLog') = Len(reqLog) + 1 /\ Len(reqLog) \in Nat
      /\ DOMAIN reqLog \subseteq DOMAIN reqLog' /\ Len(reqLog) + 1 \in DOMAIN reqLog'
  BY <1>1, <1>2, WrittenType
<1>4. Answering' = Answering /\ IsFiniteSet(Answering) /\ Cardinality(Answering) \in Nat
  BY <1>1, FS_CardinalityType DEF Answering, TypeOK, PlaceForAnswers
<1>5. PlaceForAnswers' /\ Len(reqLog') <= MaxLogs
  BY <1>1, <1>3, <1>4, BoundsAssumption DEF PlaceForAnswers, RoomForLog
<1>6. TypeOK'
  BY <1>1, <1>3, <1>5 DEF TypeOK, Steps
<1>7. \A s \in Threads : HandlerKnows(s)'
  BY <1>1, <1>3 DEF HandlerKnows, TypeOK
<1> QED
  BY <1>5, <1>6, <1>7

\* The request that was answered is deleted.
LEMMA RespondDeleteType ==
  ASSUME TypeInv, NEW t \in Threads, RespondDelete(t)
  PROVE  TypeInv'
<1> USE DEF TypeInv
<1>1. /\ pc[t] = "resp_delete" /\ pc' = [pc EXCEPT ![t] = "resp_flag"]
      /\ table' = table \ {item[t]}
      /\ UNCHANGED <<request, reqLog, flag, newDelete, sentReq, sentLog,
                     item, entry, caller, rows, again, excused>>
  BY DEF RespondDelete, flagVars, sentVars, historyVars
<1>2. TypeOK' /\ \A s \in Threads : HandlerKnows(s)'
  BY <1>1 DEF TypeOK, Steps, HandlerKnows
<1>3. PlaceForAnswers'
  BY <1>1, Stored, PlaceKept DEF TypeOK
<1> QED
  BY <1>2, <1>3

\* The end of the process leaves the tables and what was sent.
LEMMA ProcessEndsType ==
  ASSUME TypeInv, ProcessEnds
  PROVE  TypeInv'
<1> USE DEF TypeInv
<1> DEFINE requests == UNION {RequestNews(item[t]) : t \in {s \in Threads : pc[s] = "send_flag"}}
           logs == UNION {LogNews(entry[t]) : t \in {s \in Threads :
                              pc[s] \in {"resp_delete", "resp_flag", "log_flag"}}}
<1>1. /\ pc' = [t \in Threads |-> "idle"] /\ item' = [t \in Threads |-> None]
      /\ entry' = [t \in Threads |-> None] /\ caller' = [t \in Threads |-> {}]
      /\ rows' = [t \in Threads |-> {}]
      /\ again' = again \cup {item[t] : t \in {s \in Threads : pc[s] = "resp_delete"}}
      /\ Excuse(requests \cup logs)
      /\ UNCHANGED <<request, table, reqLog, flag, newDelete, sentReq, sentLog>>
  BY DEF ProcessEnds, tableVars, flagVars, sentVars
<1>2. requests \subseteq News
  <2>1. \A t \in Threads : pc[t] = "send_flag" => RequestNews(item[t]) \subseteq News
    BY StoredNews DEF HandlerKnows
  <2> QED
    BY <2>1
<1>3. logs \subseteq News
  <2>1. \A t \in Threads : pc[t] \in {"resp_delete", "resp_flag", "log_flag"}
                             => LogNews(entry[t]) \subseteq News
    BY StoredNews DEF HandlerKnows
  <2> QED
    BY <2>1
<1> HIDE DEF requests, logs
<1>4. excused' \subseteq News
  <2>1. requests \cup logs \subseteq News
    BY <1>2, <1>3
  <2> QED
    BY <1>1, <2>1, ExcuseOK
<1>5. again' \subseteq DOMAIN request
  BY <1>1 DEF TypeOK, HandlerKnows
<1>6. TypeOK'
  BY <1>1, <1>4, <1>5 DEF TypeOK, Steps, News
<1>7. \A s \in Threads : HandlerKnows(s)'
  BY <1>1 DEF HandlerKnows
<1>8. PlaceForAnswers'
  BY <1>1, Stored, PlaceKept
<1> QED
  BY <1>6, <1>7, <1>8

\* No handler knows anything at first.
LEMMA InitTypeInv == Init => TypeInv
<1> SUFFICES ASSUME Init PROVE TypeInv
  OBVIOUS
<1> USE BoundsAssumption DEF Init
<1>1. TypeOK
  BY EmptySeq DEF TypeOK, None, Steps
<1>2. Answering = {} /\ \A t \in Threads : HandlerKnows(t)
  BY DEF Answering, HandlerKnows
<1>3. PlaceForAnswers
  BY <1>2, FS_EmptySet DEF PlaceForAnswers
<1> QED
  BY <1>1, <1>2, <1>3 DEF TypeInv

\* Every step keeps the types and what the handlers know.
LEMMA NextTypeInv == TypeInv /\ [Next]_vars => TypeInv'
<1> SUFFICES ASSUME TypeInv, [Next]_vars
             PROVE  TypeInv'
  OBVIOUS
<1>1. CASE UNCHANGED vars
  BY <1>1 DEF vars, tableVars, flagVars, sentVars, threadVars, historyVars,
              TypeInv, TypeOK, HandlerKnows, PlaceForAnswers, Answering
<1> QED
  BY <1>1, SendInsertType, ReturnType, ObtainType, ReadType, RespondType,
     RespondInsertType, CreateLogType, RespondDeleteType, ProcessEndsType
     DEF Next, RespondGone, Crash

\* Every variable keeps its type: in particular every handler that is about to
\* tell somebody of a row works on a row that exists.
THEOREM TypeCorrect == Spec => []TypeOK
<1>1. Spec => []TypeInv
  BY InitTypeInv, NextTypeInv, PTL DEF Spec
<1> QED
  BY <1>1, PTL DEF TypeInv

----------------------------------------------------------------------------
(* The announcements *)

\* What the two parts of NewsInv say of one request, or one log and a side.
ToldRequest(i, u) ==
    \/ i \in sentReq[u] \/ <<u, "request", i>> \in excused
    \/ InFlight({"send_flag"}, i) \/ Flagged(u)
ToldAnswer(l, u) ==
    \/ l \in sentLog[u] \/ <<u, "log", l>> \in excused
    \/ UnreadBy(u, l) /\ (LogInFlight(l) \/ Flagged(u))

\* The users who ask for news, and those who are told of them.
LEMMA Concerned ==
  ASSUME TypeOK
  PROVE  /\ \A i \in table : request[i].receiver \in Users /\ i \in DOMAIN request
         /\ \A l \in DOMAIN reqLog : \A u \in Parties(l) : u \in Users
         /\ RequestsTold <=> \A i \in table : ToldRequest(i, request[i].receiver)
         /\ AnswersTold <=> \A l \in DOMAIN reqLog : \A u \in Parties(l) : ToldAnswer(l, u)
<1>1. \A i \in table : request[i].receiver \in Users /\ i \in DOMAIN request
  BY Stored DEF TypeOK, Row
<1> QED
  BY <1>1, Stored DEF RequestsTold, AnswersTold, ToldRequest, ToldAnswer

\* A step that adds no request and no log, marks nothing as read, clears no flag
\* and lets no handler begin to, and that forgets nothing without excuse.
LEMMA NewsKept ==
  ASSUME NewsInv, TypeInv',
         request' = request, reqLog' = reqLog, table' \subseteq table,
         \A u \in Users : flag[u] # 0 => flag'[u] # 0,
         \A u \in Users : sentReq[u] \subseteq sentReq'[u] /\ sentLog[u] \subseteq sentLog'[u],
         \A u \in Users, i \in DOMAIN request :
            <<u, "request", i>> \in excused => <<u, "request", i>> \in excused' \/ i \in sentReq'[u],
         \A u \in Users, l \in DOMAIN reqLog :
            <<u, "log", l>> \in excused => <<u, "log", l>> \in excused' \/ l \in sentLog'[u],
         \A t \in Threads : pc'[t] \in {"req_clear", "log_clear"} =>
            pc[t] \in {"req_clear", "log_clear"} /\ caller'[t] = caller[t],
         \A i \in table' : InFlight({"send_flag"}, i) => ToldRequest(i, request[i].receiver)',
         \A l \in DOMAIN reqLog : \A u \in Parties(l) :
            LogInFlight(l) => ToldAnswer(l, u)' \/ LogInFlight(l)'
  PROVE  NewsInv'
<1> USE DEF NewsInv
<1> TypeOK /\ TypeOK'
  BY DEF TypeInv
<1>1. \A u \in Users : Flagged(u) => Flagged(u)'
  BY DEF Flagged, Clearing
<1>2. \A i \in table' : ToldRequest(i, request[i].receiver)'
  BY <1>1, Concerned DEF ToldRequest
<1>3. \A l \in DOMAIN reqLog : \A u \in Parties(l) : ToldAnswer(l, u)'
  <2> SUFFICES ASSUME NEW l \in DOMAIN reqLog, NEW u \in Parties(l)
               PROVE  ToldAnswer(l, u)'
    OBVIOUS
  <2>1. u \in Users /\ ToldAnswer(l, u)
    BY Concerned
  <2>2. UnreadBy(u, l) => UnreadBy(u, l)'
    BY DEF UnreadBy
  <2> QED
    BY <1>1, <2>1, <2>2 DEF ToldAnswer
<1>4. RequestsTold'
  BY <1>2 DEF RequestsTold, ToldRequest
<1>5. AnswersTold'
  BY <1>3 DEF AnswersTold, ToldAnswer, Parties
<1> QED
  BY <1>4, <1>5

\* A step of handler t that does not end the flight of its news.
LEMMA FlightKept ==
  ASSUME TypeOK, NEW t \in Threads,
         \A s \in Threads \ {t} : pc'[s] = pc[s] /\ item'[s] = item[s] /\ entry'[s] = entry[s]
  PROVE  /\ \A i : InFlight({"send_flag"}, i) =>
               InFlight({"send_flag"}, i)' \/ (pc[t] = "send_flag" /\ item[t] = i)
         /\ \A l : LogInFlight(l) =>
               \/ LogInFlight(l)'
               \/ pc[t] \in {"resp_delete", "resp_flag", "log_flag"} /\ entry[t] = l
  BY DEF InFlight, LogInFlight

\* What is excused when a handler is too late is sent or excused afterwards.
LEMMA Excused ==
  ASSUME NEW news, Excuse(news)
  PROVE  /\ excused \subseteq excused'
         /\ \A u, i : <<u, "request", i>> \in news => i \in sentReq[u] \/ <<u, "request", i>> \in excused'
         /\ \A u, l : <<u, "log", l>> \in news => l \in sentLog[u] \/ <<u, "log", l>> \in excused'
<1>1. \A u, i : <<u, "request", i>>[2] = "request" /\ <<u, "request", i>>[1] = u
                  /\ <<u, "request", i>>[3] = i
  OBVIOUS
<1>2. \A u, l : <<u, "log", l>>[2] = "log" /\ <<u, "log", l>>[1] = u /\ <<u, "log", l>>[3] = l
  OBVIOUS
<1>3. excused' = excused \cup {n \in news : ~Sent(n[1], n[2], n[3])}
  BY DEF Excuse
<1>4. \A u, i : Sent(u, "request", i) <=> i \in sentReq[u]
  BY DEF Sent
<1>5. \A u, l : Sent(u, "log", l) <=> l \in sentLog[u]
  BY DEF Sent
<1>6. \A n \in news : Sent(n[1], n[2], n[3]) \/ n \in excused'
  BY <1>3
<1>7. ASSUME NEW u, NEW i, <<u, "request", i>> \in news
      PROVE  i \in sentReq[u] \/ <<u, "request", i>> \in excused'
  BY <1>1, <1>4, <1>6, <1>7
<1>8. ASSUME NEW u, NEW l, <<u, "log", l>> \in news
      PROVE  l \in sentLog[u] \/ <<u, "log", l>> \in excused'
  BY <1>2, <1>5, <1>6, <1>8
<1> QED
  BY <1>3, <1>7, <1>8

\* The new request is in flight from the moment it can be seen.
LEMMA SendInsertNews ==
  ASSUME NewsInv, TypeInv', NEW t \in Threads, NEW from \in Users, NEW to \in Users,
         SendInsert(t, from, to)
  PROVE  NewsInv'
<1> USE DEF NewsInv
<1> TypeOK /\ TypeOK'
  BY DEF TypeInv
<1>1. /\ pc[t] = "idle"
      /\ request' = Append(request, [sender |-> from, receiver |-> to])
      /\ table' = table \cup {Len(request) + 1} /\ item' = [item EXCEPT ![t] = Len(request) + 1]
      /\ pc' = [pc EXCEPT ![t] = "send_flag"]
      /\ UNCHANGED <<reqLog, flag, sentReq, sentLog, entry, caller, excused>>
  BY DEF SendInsert, flagVars, sentVars, historyVars
<1>2. \A i \in table : request'[i] = request[i]
  BY <1>1, Stored DEF TypeOK
<1>3. \A s \in Threads \ {t} : pc'[s] = pc[s] /\ item'[s] = item[s] /\ entry'[s] = entry[s]
  BY <1>1 DEF TypeOK
<1>4. pc'[t] = "send_flag" /\ item'[t] = Len(request) + 1
  BY <1>1 DEF TypeOK
<1>5. \A i : i = Len(request) + 1 => InFlight({"send_flag"}, i)'
  BY <1>4 DEF InFlight
<1>6. \A u \in Users : Flagged(u) => Flagged(u)'
  BY <1>1, <1>3, <1>4 DEF Flagged, Clearing
<1>7. RequestsTold'
  <2> SUFFICES ASSUME NEW i \in table'
               PROVE  ToldRequest(i, request[i].receiver)'
    BY DEF RequestsTold, ToldRequest
  <2>1. CASE i = Len(request) + 1
    BY <1>5, <2>1 DEF ToldRequest
  <2>2. CASE i \in table
    BY <1>1, <1>2, <1>3, <1>6, <2>2, Concerned, FlightKept DEF ToldRequest
  <2> QED
    BY <1>1, <2>1, <2>2
<1>8. AnswersTold'
  <2> SUFFICES ASSUME NEW l \in DOMAIN reqLog, NEW u \in Parties(l)
               PROVE  ToldAnswer(l, u)'
    BY <1>1 DEF AnswersTold, ToldAnswer, Parties
  <2> QED
    BY <1>1, <1>3, <1>6, Concerned, FlightKept DEF ToldAnswer, UnreadBy
<1> QED
  BY <1>7, <1>8

\* The receiver is flagged, or excused if a handler is about to clear the flag.
LEMMA SendFlagNews ==
  ASSUME NewsInv, TypeInv', NEW t \in Threads, SendFlag(t)
  PROVE  NewsInv'
<1> USE DEF NewsInv
<1> TypeOK /\ TypeOK'
  BY DEF TypeInv
<1> PICK d : d = item[t]
  OBVIOUS
<1> PICK r : r = request[d].receiver
  OBVIOUS
<1>1. /\ pc[t] = "send_flag" /\ flag' = [flag EXCEPT ![r] = 1]
      /\ Excuse(Overtaken(RequestNews(d)))
      /\ Return(t)
      /\ UNCHANGED <<request, table, reqLog, sentReq, sentLog>>
  BY DEF SendFlag, tableVars, sentVars
<1>2. d \in DOMAIN request /\ r \in Users
  BY <1>1, Stored DEF TypeInv, HandlerKnows, Row
<1>3. ToldRequest(d, r)'
  <2>1. flag'[r] # 0
    BY <1>1, <1>2 DEF TypeOK
  <2>2. CASE Clearing(r)'
    <3>1. PICK s \in Threads : pc'[s] \in {"req_clear", "log_clear"} /\ r \in caller'[s]
      BY <2>2 DEF Clearing
    <3>2. s # t /\ pc[s] = pc'[s] /\ r \in caller[s]
      BY <1>1, <3>1, Returned
    <3>3. CASE pc[s] = "req_clear" /\ d \in rows[s]
      BY <1>1, <3>2, <3>3 DEF TypeInv, HandlerKnows, ToldRequest
    <3>4. CASE ~(pc[s] = "req_clear" /\ d \in rows[s])
      <4>1. Overtakes(r, "request", d)
        BY <3>1, <3>2, <3>4 DEF Overtakes
      <4>2. <<r, "request", d>> \in Overtaken(RequestNews(d))
        BY <4>1 DEF Overtaken, RequestNews
      <4> QED
        BY <1>1, <4>2, Excused DEF ToldRequest
    <3> QED
      BY <3>3, <3>4
  <2>3. CASE ~Clearing(r)'
    BY <2>1, <2>3 DEF ToldRequest, Flagged
  <2> QED
    BY <2>2, <2>3
<1>4. \A s \in Threads \ {t} : pc'[s] = pc[s] /\ item'[s] = item[s] /\ entry'[s] = entry[s]
  BY <1>1, Returned
<1>5. \A i \in table' : InFlight({"send_flag"}, i) => ToldRequest(i, request[i].receiver)'
  BY <1>1, <1>3, <1>4, FlightKept DEF ToldRequest
<1>6. \A l \in DOMAIN reqLog : LogInFlight(l) => LogInFlight(l)'
  BY <1>1, <1>4, FlightKept
<1>7. \A u \in Users : flag[u] # 0 => flag'[u] # 0
  BY <1>1 DEF TypeOK
<1>8. \A s \in Threads : pc'[s] \in {"req_clear", "log_clear"} =>
         pc[s] \in {"req_clear", "log_clear"} /\ caller'[s] = caller[s]
  BY <1>1, Returned
<1> QED
  BY <1>1, <1>5, <1>6, <1>7, <1>8, Excused, NewsKept

\* The SELECT of a reader that is about to clear the column of its user: what it
\* sends needs the column no more, and what the other SELECT would is excused.
LEMMA ObtainNews ==
  ASSUME NewsInv, TypeInv', NEW t \in Threads, NEW u \in Users,
         ObtainRequests(t, u) \/ ObtainLogs(t, u)
  PROVE  NewsInv'
<1> USE DEF NewsInv
<1> TypeOK /\ TypeOK'
  BY DEF TypeInv
<1>1. /\ pc[t] = "idle" /\ pc'[t] \in {"req_clear", "log_clear"} /\ caller'[t] = {u}
      /\ \A s \in Threads \ {t} : pc'[s] = pc[s] /\ caller'[s] = caller[s]
      /\ UNCHANGED <<request, table, reqLog, flag, item, entry>>
  BY DEF ObtainRequests, ObtainLogs, tableVars, flagVars, TypeOK
<1>2. \A v \in Users \ {u} : Flagged(v) => Flagged(v)'
  BY <1>1 DEF Flagged, Clearing
<1>3. /\ \A i : InFlight({"send_flag"}, i) => InFlight({"send_flag"}, i)'
      /\ \A l : LogInFlight(l) => LogInFlight(l)'
  BY <1>1, FlightKept
<1>4. \A v \in Users : sentReq[v] \subseteq sentReq'[v] /\ sentLog[v] \subseteq sentLog'[v]
  <2>1. CASE ObtainRequests(t, u)
    BY <2>1 DEF ObtainRequests, TypeOK
  <2>2. CASE ObtainLogs(t, u)
    BY <2>2 DEF ObtainLogs, TypeOK
  <2> QED
    BY <2>1, <2>2
<1>5. \A v \in Users : \A i :
         /\ <<v, "request", i>> \in excused =>
              <<v, "request", i>> \in excused' \/ i \in sentReq'[v]
         /\ <<v, "log", i>> \in excused =>
              <<v, "log", i>> \in excused' \/ i \in sentLog'[v]
  <2>1. CASE ObtainRequests(t, u)
    BY <2>1 DEF ObtainRequests, Settled, TypeOK
  <2>2. CASE ObtainLogs(t, u)
    BY <2>2 DEF ObtainLogs, Settled, TypeOK
  <2> QED
    BY <2>1, <2>2
<1>6. \A i \in RequestsFor(u) : i \in sentReq'[u] \/ <<u, "request", i>> \in excused'
  BY DEF ObtainRequests, ObtainLogs, TypeOK
<1>7. \A l \in DOMAIN reqLog : u \in Parties(l) => ToldAnswer(l, u)'
  <2> SUFFICES ASSUME NEW l \in DOMAIN reqLog, u \in Parties(l)
               PROVE  ToldAnswer(l, u)'
    OBVIOUS
  <2>1. CASE ObtainRequests(t, u)
    <3>1. l \in sentLog[u] \/ <<u, "log", l>> \in excused'
      BY <2>1 DEF ObtainRequests, LogsOf
    <3> QED
      BY <1>4, <3>1 DEF ToldAnswer
  <2>2. CASE ObtainLogs(t, u)
    <3>1. UnreadBy(u, l) => l \in sentLog'[u]
      BY <2>2 DEF ObtainLogs, UnreadLogs, TypeOK
    <3>2. ToldAnswer(l, u)
      BY Concerned
    <3> QED
      BY <1>4, <1>5, <3>1, <3>2 DEF ToldAnswer
  <2> QED
    BY <2>1, <2>2
<1>8. RequestsTold'
  <2> SUFFICES ASSUME NEW i \in table
               PROVE  ToldRequest(i, request[i].receiver)'
    BY <1>1 DEF RequestsTold, ToldRequest
  <2>1. CASE request[i].receiver = u
    BY <1>1, <1>6, <2>1 DEF RequestsFor, ToldRequest
  <2>2. CASE request[i].receiver # u
    <3>1. request[i].receiver \in Users \ {u} /\ ToldRequest(i, request[i].receiver)
      BY <2>2, Concerned
    <3> QED
      BY <1>1, <1>2, <1>3, <1>4, <1>5, <3>1 DEF ToldRequest
  <2> QED
    BY <2>1, <2>2
<1>9. AnswersTold'
  <2> SUFFICES ASSUME NEW l \in DOMAIN reqLog, NEW v \in Parties(l)
               PROVE  ToldAnswer(l, v)'
    BY <1>1 DEF AnswersTold, ToldAnswer, Parties
  <2>1. CASE v = u
    BY <1>7, <2>1
  <2>2. CASE v # u
    <3>1. v \in Users \ {u} /\ ToldAnswer(l, v)
      BY <2>2, Concerned
    <3>2. UnreadBy(v, l) => UnreadBy(v, l)'
      BY <1>1 DEF UnreadBy
    <3> QED
      BY <1>2, <1>3, <1>4, <1>5, <3>1, <3>2 DEF ToldAnswer
  <2> QED
    BY <2>1, <2>2
<1> QED
  BY <1>8, <1>9

\* A column is cleared: its user had no use for it.
LEMMA ClearNews ==
  ASSUME NewsInv, TypeInv', NEW t \in Threads, ClearRequests(t) \/ ClearLogs(t)
  PROVE  NewsInv'
<1> USE DEF NewsInv
<1> TypeOK /\ TypeOK'
  BY DEF TypeInv
<1>1. /\ pc[t] \in {"req_clear", "log_clear"} /\ pc'[t] \in {"idle", "log_read_receiver"}
      /\ flag' = [u \in Users |-> IF u \in caller[t] THEN 0 ELSE flag[u]]
      /\ \A s \in Threads \ {t} : /\ pc'[s] = pc[s] /\ item'[s] = item[s]
                                  /\ entry'[s] = entry[s] /\ caller'[s] = caller[s]
      /\ UNCHANGED <<request, table, reqLog, sentReq, sentLog, excused>>
  BY DEF ClearRequests, ClearLogs, Return, tableVars, sentVars, historyVars, TypeOK
<1>2. \A u \in Users : Flagged(u) => Flagged(u)'
  BY <1>1 DEF Flagged, Clearing
<1>3. /\ \A i : InFlight({"send_flag"}, i) => InFlight({"send_flag"}, i)'
      /\ \A l : LogInFlight(l) => LogInFlight(l)'
  BY <1>1, FlightKept
<1>4. RequestsTold'
  <2> SUFFICES ASSUME NEW i \in table
               PROVE  ToldRequest(i, request[i].receiver)'
    BY <1>1 DEF RequestsTold, ToldRequest
  <2> QED
    BY <1>1, <1>2, <1>3, Concerned DEF ToldRequest
<1>5. AnswersTold'
  <2> SUFFICES ASSUME NEW l \in DOMAIN reqLog, NEW u \in Parties(l)
               PROVE  ToldAnswer(l, u)'
    BY <1>1 DEF AnswersTold, ToldAnswer, Parties
  <2> QED
    BY <1>1, <1>2, <1>3, Concerned DEF ToldAnswer, UnreadBy
<1> QED
  BY <1>4, <1>5

\* Logs are marked as read: those that were not sent are excused.
LEMMA ReadNews ==
  ASSUME NewsInv, TypeInv', NEW t \in Threads, ReadReceiver(t) \/ ReadSender(t)
  PROVE  NewsInv'
<1> USE DEF NewsInv
<1> TypeOK /\ TypeOK'
  BY DEF TypeInv
<1>1. PICK side \in Sides : MarkRead(t, side)
  BY DEF ReadReceiver, ReadSender, Sides
<1>2. /\ pc[t] \in {"log_read_receiver", "log_read_sender"}
      /\ pc'[t] \in {"log_read_sender", "idle"}
      /\ \A s \in Threads \ {t} : /\ pc'[s] = pc[s] /\ item'[s] = item[s]
                                  /\ entry'[s] = entry[s] /\ caller'[s] = caller[s]
      /\ UNCHANGED <<request, table, flag, sentReq, sentLog>>
  BY DEF ReadReceiver, ReadSender, Return, flagVars, sentVars, TypeOK
<1>3. \A u \in Users : Flagged(u) => Flagged(u)'
  BY <1>2 DEF Flagged, Clearing
<1>4. /\ \A i : InFlight({"send_flag"}, i) => InFlight({"send_flag"}, i)'
      /\ \A l : LogInFlight(l) => LogInFlight(l)'
  BY <1>2, FlightKept
<1>5. excused \subseteq excused'
  BY <1>1, Excused DEF MarkRead
<1>6. DOMAIN reqLog' = DOMAIN reqLog
  BY <1>1 DEF MarkRead
<1>7. ASSUME NEW l \in DOMAIN reqLog
      PROVE  /\ reqLog'[l].sender = reqLog[l].sender /\ reqLog'[l].receiver = reqLog[l].receiver
             /\ reqLog'[l] = reqLog[l] \/ reqLog[l][side] \in caller[t]
             /\ reqLog'[l].unread = reqLog[l].unread \/ reqLog'[l].unread = reqLog[l].unread \ {side}
  BY <1>1, Stored DEF MarkRead, LogRow
<1>8. ASSUME NEW l \in DOMAIN reqLog, NEW u \in caller[t], reqLog[l][side] = u
      PROVE  l \in sentLog[u] \/ <<u, "log", l>> \in excused'
  <2>1. CASE l \in rows[t]
    BY <1>2, <1>8, <2>1 DEF TypeInv, HandlerKnows
  <2>2. CASE l \notin rows[t]
    <3> DEFINE news == {<<reqLog[k][side], "log", k>> : k \in
                  {j \in DOMAIN reqLog : reqLog[j][side] \in caller[t] /\ j \notin rows[t]}}
    <3>1. Excuse(news) /\ <<u, "log", l>> \in news
      BY <1>1, <1>8, <2>2 DEF MarkRead
    <3> HIDE DEF news
    <3> QED
      BY <3>1, Excused
  <2> QED
    BY <2>1, <2>2
<1>9. RequestsTold'
  <2> SUFFICES ASSUME NEW i \in table
               PROVE  ToldRequest(i, request[i].receiver)'
    BY <1>2 DEF RequestsTold, ToldRequest
  <2> QED
    BY <1>2, <1>3, <1>4, <1>5, Concerned DEF ToldRequest
<1>10. AnswersTold'
  <2> SUFFICES ASSUME NEW l \in DOMAIN reqLog, NEW u \in Parties(l)
               PROVE  ToldAnswer(l, u)'
    BY <1>6, <1>7 DEF AnswersTold, ToldAnswer, Parties
  <2>1. u \in Users /\ ToldAnswer(l, u)
    BY Concerned
  <2>2. CASE reqLog[l][side] = u /\ u \in caller[t]
    BY <1>2, <1>8, <2>2 DEF ToldAnswer
  <2>3. CASE ~(reqLog[l][side] = u /\ u \in caller[t])
    <3>1. UnreadBy(u, l) => UnreadBy(u, l)'
      BY <1>7, <2>3 DEF UnreadBy, Sides
    <3> QED
      BY <1>2, <1>3, <1>4, <1>5, <2>1, <3>1 DEF ToldAnswer
  <2> QED
    BY <2>2, <2>3
<1> QED
  BY <1>9, <1>10

\* A client marks a log that it was sent.
LEMMA IgnoreNews ==
  ASSUME NewsInv, TypeInv', NEW u \in Users, NEW d \in sentLog[u], NEW side \in Sides,
         IgnoreLog(u, d, side)
  PROVE  NewsInv'
<1> USE DEF NewsInv
<1> TypeOK /\ TypeOK'
  BY DEF TypeInv
<1>1. /\ reqLog' = [reqLog EXCEPT ![d].unread = @ \ {side}] /\ reqLog[d][side] = u
      /\ UNCHANGED <<request, table, flag, sentReq, sentLog, pc, item, entry, caller, excused>>
  BY DEF IgnoreLog, flagVars, sentVars, threadVars, historyVars
<1>2. \A v : Flagged(v)' <=> Flagged(v)
  BY <1>1 DEF Flagged, Clearing
<1>3. /\ \A i : InFlight({"send_flag"}, i)' <=> InFlight({"send_flag"}, i)
      /\ \A l : LogInFlight(l)' <=> LogInFlight(l)
  BY <1>1 DEF InFlight, LogInFlight
<1>4. DOMAIN reqLog' = DOMAIN reqLog
  BY <1>1
<1>5. ASSUME NEW l \in DOMAIN reqLog
      PROVE  /\ reqLog'[l].sender = reqLog[l].sender /\ reqLog'[l].receiver = reqLog[l].receiver
             /\ reqLog'[l] = reqLog[l] \/ l = d
             /\ reqLog'[l].unread = reqLog[l].unread \/ reqLog'[l].unread = reqLog[l].unread \ {side}
  BY <1>1, Stored DEF LogRow
<1>6. \A l \in DOMAIN reqLog : Parties(l)' = Parties(l)
  BY <1>5 DEF Parties
<1>7. RequestsTold'
  BY <1>1, <1>2, <1>3 DEF RequestsTold
<1>8. AnswersTold'
  <2> SUFFICES ASSUME NEW l \in DOMAIN reqLog, NEW v \in Parties(l)
               PROVE  ToldAnswer(l, v)'
    BY <1>4, <1>6 DEF AnswersTold, ToldAnswer
  <2>1. ToldAnswer(l, v)
    BY Concerned
  <2>2. CASE l = d /\ v = u
    BY <1>1, <2>2 DEF ToldAnswer
  <2>3. CASE ~(l = d /\ v = u)
    <3>1. UnreadBy(v, l) => UnreadBy(v, l)'
      BY <1>1, <1>5, <2>3 DEF UnreadBy, Sides
    <3> QED
      BY <1>1, <1>2, <1>3, <2>1, <3>1 DEF ToldAnswer
  <2> QED
    BY <2>2, <2>3
<1> QED
  BY <1>7, <1>8

\* Answers and failures that write no log, the reading of all logs, and the
\* deletion of a request: nothing is forgotten without excuse.
LEMMA QuietNews ==
  ASSUME NewsInv, TypeInv', NEW t \in Threads,
         \/ SendFlagFails(t) \/ ObtainUpdateFails(t)
         \/ \E u \in Users : ObtainHistory(t, u) \/ ObtainFails(t, u)
         \/ \E i : Respond(t, i)
         \/ RespondInsertFails(t) \/ RespondDelete(t) \/ RespondDeleteFails(t)
         \/ AnswerFlagFails(t)
  PROVE  NewsInv'
<1> TypeOK
  BY DEF NewsInv, TypeInv
<1>1. CASE SendFlagFails(t)
  <2>1. /\ Return(t) /\ UNCHANGED <<request, table, reqLog, flag, sentReq, sentLog>>
        /\ pc[t] = "send_flag" /\ Excuse(RequestNews(item[t]))
    BY <1>1 DEF SendFlagFails, tableVars, flagVars, sentVars
  <2>2. \A i : i = item[t] => ToldRequest(i, request[i].receiver)'
    BY <2>1, Excused DEF RequestNews, ToldRequest
  <2>3. /\ \A i : InFlight({"send_flag"}, i) => InFlight({"send_flag"}, i)' \/ item[t] = i
        /\ \A l : LogInFlight(l) => LogInFlight(l)'
    BY <2>1, Returned, FlightKept
  <2>4. \A i : InFlight({"send_flag"}, i) => ToldRequest(i, request[i].receiver)'
    BY <2>2, <2>3 DEF ToldRequest
  <2> QED
    BY <2>1, <2>3, <2>4, Returned, Excused, NewsKept
<1>2. CASE RespondDeleteFails(t) \/ AnswerFlagFails(t)
  <2>1. /\ Return(t) /\ UNCHANGED <<request, table, reqLog, flag, sentReq, sentLog>>
        /\ pc[t] # "send_flag" /\ Excuse(LogNews(entry[t]))
    BY <1>2 DEF RespondDeleteFails, AnswerFlagFails, tableVars, flagVars, sentVars
  <2>2. \A l : l = entry[t] => \A u \in Parties(l) : ToldAnswer(l, u)'
    BY <2>1, Excused DEF LogNews, ToldAnswer
  <2>3. /\ \A i : InFlight({"send_flag"}, i) => InFlight({"send_flag"}, i)'
        /\ \A l : LogInFlight(l) => LogInFlight(l)' \/ entry[t] = l
    BY <2>1, Returned, FlightKept
  <2>4. \A i : InFlight({"send_flag"}, i) => ToldRequest(i, request[i].receiver)'
    BY <2>3 DEF ToldRequest
  <2>5. \A l \in DOMAIN reqLog : \A u \in Parties(l) :
           LogInFlight(l) => ToldAnswer(l, u)' \/ LogInFlight(l)'
    BY <2>2, <2>3
  <2> QED
    BY <2>1, <2>4, <2>5, Returned, Excused, NewsKept
<1>3. CASE ObtainUpdateFails(t) \/ RespondInsertFails(t)
  <2>1. /\ Return(t) /\ UNCHANGED <<request, table, reqLog, flag, sentReq, sentLog, excused>>
        /\ pc[t] \notin {"send_flag", "resp_delete", "resp_flag", "log_flag"}
    BY <1>3 DEF ObtainUpdateFails, RespondInsertFails, tableVars, flagVars, sentVars, historyVars
  <2>2. /\ \A i : InFlight({"send_flag"}, i) => InFlight({"send_flag"}, i)'
        /\ \A l : LogInFlight(l) => LogInFlight(l)'
    BY <2>1, Returned, FlightKept
  <2>3. \A i : InFlight({"send_flag"}, i) => ToldRequest(i, request[i].receiver)'
    BY <2>2 DEF ToldRequest
  <2> QED
    BY <2>1, <2>2, <2>3, Returned, NewsKept
<1>4. ASSUME NEW u \in Users, ObtainHistory(t, u) \/ ObtainFails(t, u)
      PROVE  NewsInv'
  <2>1. UNCHANGED <<request, table, reqLog, flag, pc, item, entry, caller>>
    BY <1>4 DEF ObtainHistory, ObtainFails, tableVars, flagVars, threadVars
  <2>2. \/ \E R : /\ sentReq' = [sentReq EXCEPT ![u] = @ \cup R] /\ sentLog' = sentLog
                  /\ excused' = excused \ Settled(u, "request", R)
        \/ \E L : /\ sentLog' = [sentLog EXCEPT ![u] = @ \cup L] /\ sentReq' = sentReq
                  /\ excused' = excused \ Settled(u, "log", L)
    BY <1>4 DEF ObtainHistory, ObtainFails
  <2>3. \A v \in Users : sentReq[v] \subseteq sentReq'[v] /\ sentLog[v] \subseteq sentLog'[v]
    BY <2>2 DEF TypeOK
  <2>4. \A v \in Users : \A i :
           /\ <<v, "request", i>> \in excused =>
                <<v, "request", i>> \in excused' \/ i \in sentReq'[v]
           /\ <<v, "log", i>> \in excused =>
                <<v, "log", i>> \in excused' \/ i \in sentLog'[v]
    BY <2>2 DEF TypeOK, Settled
  <2>5. /\ \A i : InFlight({"send_flag"}, i) => ToldRequest(i, request[i].receiver)'
        /\ \A l : LogInFlight(l) => LogInFlight(l)'
    BY <2>1 DEF InFlight, LogInFlight, ToldRequest
  <2> QED
    BY <2>1, <2>3, <2>4, <2>5, NewsKept
<1>5. ASSUME NEW i, Respond(t, i)
      PROVE  NewsInv'
  <2>1. /\ pc[t] = "idle" /\ pc' = [pc EXCEPT ![t] = "resp_insert"]
        /\ item' = [item EXCEPT ![t] = i]
        /\ UNCHANGED <<request, table, reqLog, flag, sentReq, sentLog, entry, caller, excused>>
    BY <1>5 DEF Respond, tableVars, flagVars, sentVars
  <2>2. /\ pc'[t] = "resp_insert"
        /\ \A s \in Threads \ {t} : pc'[s] = pc[s] /\ item'[s] = item[s] /\ entry'[s] = entry[s]
    BY <2>1 DEF TypeOK
  <2>3. /\ \A j : InFlight({"send_flag"}, j) => ToldRequest(j, request[j].receiver)'
        /\ \A l : LogInFlight(l) => LogInFlight(l)'
    BY <2>1, <2>2, FlightKept DEF ToldRequest
  <2> QED
    BY <2>1, <2>2, <2>3, NewsKept
<1>6. CASE RespondDelete(t)
  <2>1. /\ pc[t] = "resp_delete" /\ pc' = [pc EXCEPT ![t] = "resp_flag"]
        /\ table' \subseteq table
        /\ UNCHANGED <<request, reqLog, flag, sentReq, sentLog, item, entry, caller, excused>>
    BY <1>6 DEF RespondDelete, flagVars, sentVars, historyVars
  <2>2. \A s \in Threads : pc'[s] = IF s = t THEN "resp_flag" ELSE pc[s]
    BY <2>1 DEF TypeOK
  <2>3. /\ \A j : InFlight({"send_flag"}, j) => ToldRequest(j, request[j].receiver)'
        /\ \A l : LogInFlight(l) => LogInFlight(l)'
    BY <2>1, <2>2 DEF InFlight, LogInFlight, ToldRequest
  <2> QED
    BY <2>1, <2>2, <2>3, NewsKept
<1> QED
  BY <1>1, <1>2, <1>3, <1>4, <1>5, <1>6

\* The new log is unread on both sides and in flight.
LEMMA WrittenNews ==
  ASSUME NewsInv, TypeInv', NEW t \in Threads,
         NEW of \in 0..MaxRequests, NEW from \in Users, NEW to \in Users,
         WriteLog(of, from, to),
         pc[t] \in {"idle", "resp_insert"}, pc'[t] \in {"resp_delete", "log_flag"},
         entry'[t] = Len(reqLog) + 1,
         \A s \in Threads \ {t} : /\ pc'[s] = pc[s] /\ item'[s] = item[s]
                                  /\ entry'[s] = entry[s] /\ caller'[s] = caller[s],
         UNCHANGED <<request, table, flag, sentReq, sentLog, excused>>
  PROVE  NewsInv'
<1> USE DEF NewsInv
<1> TypeOK /\ TypeOK'
  BY DEF TypeInv
<1> PICK n : n = Len(reqLog) + 1
  OBVIOUS
<1>1. /\ DOMAIN reqLog' = DOMAIN reqLog \cup {n}
      /\ \A l \in DOMAIN reqLog : reqLog'[l] = reqLog[l]
      /\ reqLog'[n] = [of |-> of, sender |-> from, receiver |-> to, unread |-> Sides]
  BY WrittenType
<1>2. \A u \in Users : Flagged(u) => Flagged(u)'
  BY DEF Flagged, Clearing
<1>3. /\ \A i : InFlight({"send_flag"}, i) => InFlight({"send_flag"}, i)'
      /\ \A l : LogInFlight(l) => LogInFlight(l)'
  BY FlightKept
<1>4. LogInFlight(n)'
  BY DEF LogInFlight
<1>5. \A l \in DOMAIN reqLog : /\ Parties(l)' = Parties(l)
                               /\ \A u : UnreadBy(u, l) => UnreadBy(u, l)'
  BY <1>1 DEF Parties, UnreadBy
<1>6. \A u \in Parties(n)' : UnreadBy(u, n)'
  BY <1>1 DEF Parties, UnreadBy, Sides
<1>7. RequestsTold'
  <2> SUFFICES ASSUME NEW i \in table
               PROVE  ToldRequest(i, request[i].receiver)'
    BY DEF RequestsTold, ToldRequest
  <2> QED
    BY <1>2, <1>3, Concerned DEF ToldRequest
<1>8. AnswersTold'
  <2> SUFFICES ASSUME NEW l \in DOMAIN reqLog', NEW u \in Parties(l)'
               PROVE  ToldAnswer(l, u)'
    BY DEF AnswersTold, ToldAnswer
  <2>1. CASE l = n
    BY <1>4, <1>6, <2>1 DEF ToldAnswer
  <2>2. CASE l \in DOMAIN reqLog
    BY <1>2, <1>3, <1>5, <2>2, Concerned DEF ToldAnswer
  <2> QED
    BY <1>1, <2>1, <2>2
<1> QED
  BY <1>7, <1>8

\* Both ways to write a log.
LEMMA WriteNews ==
  ASSUME NewsInv, TypeInv', NEW t \in Threads,
         \/ RespondInsert(t)
         \/ \E from, to \in Users : CreateLog(t, from, to)
  PROVE  NewsInv'
<1> TypeInv /\ TypeOK
  BY DEF NewsInv, TypeInv
<1>1. CASE RespondInsert(t)
  <2>1. /\ pc[t] = "resp_insert" /\ pc' = [pc EXCEPT ![t] = "resp_delete"]
        /\ WriteLog(item[t], request[item[t]].sender, request[item[t]].receiver)
        /\ entry' = [entry EXCEPT ![t] = Len(reqLog) + 1]
        /\ UNCHANGED <<request, table, flag, sentReq, sentLog, item, caller, excused>>
    BY <1>1 DEF RespondInsert, flagVars, sentVars, historyVars
  <2>2. /\ item[t] \in 0..MaxRequests
        /\ request[item[t]].sender \in Users /\ request[item[t]].receiver \in Users
    <3>1. item[t] \in DOMAIN request
      BY <2>1 DEF TypeInv, HandlerKnows
    <3>2. request[item[t]] \in Row /\ item[t] \in 1..Len(request)
      BY <3>1, Stored
    <3>3. Len(request) \in Nat /\ Len(request) <= MaxRequests
      BY Stored DEF TypeOK
    <3> QED
      BY <3>2, <3>3, BoundsAssumption DEF Row
  <2>3. /\ pc'[t] = "resp_delete" /\ entry'[t] = Len(reqLog) + 1
        /\ \A s \in Threads \ {t} : /\ pc'[s] = pc[s] /\ item'[s] = item[s]
                                    /\ entry'[s] = entry[s] /\ caller'[s] = caller[s]
    BY <2>1 DEF TypeOK
  <2> QED
    BY <2>1, <2>2, <2>3, WrittenNews
<1>2. ASSUME NEW from \in Users, NEW to \in Users, CreateLog(t, from, to)
      PROVE  NewsInv'
  <2>1. /\ pc[t] = "idle" /\ pc' = [pc EXCEPT ![t] = "log_flag"]
        /\ WriteLog(None, from, to)
        /\ entry' = [entry EXCEPT ![t] = Len(reqLog) + 1]
        /\ UNCHANGED <<request, table, flag, sentReq, sentLog, item, caller, excused>>
    BY <1>2 DEF CreateLog, flagVars, sentVars, historyVars
  <2>2. None \in 0..MaxRequests
    BY BoundsAssumption DEF None
  <2>3. /\ pc'[t] = "log_flag" /\ entry'[t] = Len(reqLog) + 1
        /\ \A s \in Threads \ {t} : /\ pc'[s] = pc[s] /\ item'[s] = item[s]
                                    /\ entry'[s] = entry[s] /\ caller'[s] = caller[s]
    BY <2>1 DEF TypeOK
  <2> QED
    BY <2>1, <2>2, <2>3, WrittenNews
<1> QED
  BY <1>1, <1>2

\* Both sides are flagged, or excused if a handler is about to clear the flag.
LEMMA AnswerFlagNews ==
  ASSUME NewsInv, TypeInv', NEW t \in Threads, AnswerFlag(t)
  PROVE  NewsInv'
<1> USE DEF NewsInv
<1> TypeOK /\ TypeOK'
  BY DEF TypeInv
<1> PICK d : d = entry[t]
  OBVIOUS
<1>1. /\ pc[t] \in {"resp_flag", "log_flag"}
      /\ flag' = [u \in Users |-> IF u \in Parties(d) THEN 2 ELSE flag[u]]
      /\ Excuse(Overtaken(LogNews(d)))
      /\ Return(t)
      /\ UNCHANGED <<request, table, reqLog, sentReq, sentLog>>
  BY DEF AnswerFlag, tableVars, sentVars
<1>2. d \in DOMAIN reqLog
  BY <1>1 DEF TypeInv, HandlerKnows
<1>3. ASSUME NEW r \in Parties(d)
      PROVE  ToldAnswer(d, r)'
  <2>1. flag'[r] # 0 /\ r \in Users
    BY <1>1, <1>2, Concerned DEF TypeOK
  <2>2. CASE Clearing(r)'
    <3>1. PICK s \in Threads : pc'[s] \in {"req_clear", "log_clear"} /\ r \in caller'[s]
      BY <2>2 DEF Clearing
    <3>2. s # t /\ pc[s] = pc'[s] /\ r \in caller[s]
      BY <1>1, <3>1, Returned
    <3>3. CASE pc[s] = "log_clear" /\ d \in rows[s]
      BY <1>1, <3>2, <3>3 DEF TypeInv, HandlerKnows, ToldAnswer
    <3>4. CASE ~(pc[s] = "log_clear" /\ d \in rows[s])
      <4>1. Overtakes(r, "log", d)
        BY <3>1, <3>2, <3>4 DEF Overtakes
      <4>2. <<r, "log", d>> \in Overtaken(LogNews(d))
        BY <1>3, <4>1 DEF Overtaken, LogNews
      <4> QED
        BY <1>1, <4>2, Excused DEF ToldAnswer
    <3> QED
      BY <3>3, <3>4
  <2>3. CASE ~Clearing(r)'
    <3>1. Flagged(r)'
      BY <2>1, <2>3 DEF Flagged
    <3>2. ToldAnswer(d, r)
      BY <1>2, Concerned
    <3>3. excused \subseteq excused' /\ UNCHANGED <<reqLog, sentLog>>
      BY <1>1, Excused
    <3> QED
      BY <3>1, <3>2, <3>3 DEF ToldAnswer, UnreadBy
  <2> QED
    BY <2>2, <2>3
<1>4. \A s \in Threads \ {t} : pc'[s] = pc[s] /\ item'[s] = item[s] /\ entry'[s] = entry[s]
  BY <1>1, Returned
<1>5. \A i \in table' : InFlight({"send_flag"}, i) => ToldRequest(i, request[i].receiver)'
  BY <1>1, <1>4, FlightKept DEF ToldRequest
<1>6. \A l \in DOMAIN reqLog : \A u \in Parties(l) :
         LogInFlight(l) => ToldAnswer(l, u)' \/ LogInFlight(l)'
  BY <1>1, <1>3, <1>4, FlightKept
<1>7. \A u \in Users : flag[u] # 0 => flag'[u] # 0
  BY <1>1 DEF TypeOK
<1>8. \A s \in Threads : pc'[s] \in {"req_clear", "log_clear"} =>
         pc[s] \in {"req_clear", "log_clear"} /\ caller'[s] = caller[s]
  BY <1>1, Returned
<1> QED
  BY <1>1, <1>5, <1>6, <1>7, <1>8, Excused, NewsKept

\* What the process had not announced yet is excused.
LEMMA ProcessEndsNews ==
  ASSUME NewsInv, TypeInv', ProcessEnds
  PROVE  NewsInv'
<1> TypeInv /\ TypeOK
  BY DEF NewsInv, TypeInv
<1> DEFINE requests == UNION {RequestNews(item[t]) : t \in {s \in Threads : pc[s] = "send_flag"}}
           logs == UNION {LogNews(entry[t]) : t \in {s \in Threads :
                              pc[s] \in {"resp_delete", "resp_flag", "log_flag"}}}
<1>1. /\ pc' = [t \in Threads |-> "idle"]
      /\ Excuse(requests \cup logs)
      /\ UNCHANGED <<request, table, reqLog, flag, sentReq, sentLog>>
  BY DEF ProcessEnds, tableVars, flagVars, sentVars
<1>2. \A i \in table : InFlight({"send_flag"}, i) => <<request[i].receiver, "request", i>> \in requests
  BY DEF InFlight, RequestNews
<1>3. \A l \in DOMAIN reqLog : \A u \in Parties(l) : LogInFlight(l) => <<u, "log", l>> \in logs
  BY DEF LogInFlight, LogNews
<1> HIDE DEF requests, logs
<1>4. PICK news : news = requests \cup logs
  OBVIOUS
<1>5. Excuse(news)
  BY <1>1, <1>4
<1>6. \A i \in table : InFlight({"send_flag"}, i) => ToldRequest(i, request[i].receiver)'
  BY <1>1, <1>2, <1>4, <1>5, Excused DEF ToldRequest
<1>7. \A l \in DOMAIN reqLog : \A u \in Parties(l) : LogInFlight(l) => ToldAnswer(l, u)'
  BY <1>1, <1>3, <1>4, <1>5, Excused DEF ToldAnswer
<1> QED
  BY <1>1, <1>5, <1>6, <1>7, Excused, NewsKept

\* No request and no log at first.
LEMMA InitNewsInv == Init => NewsInv
<1> SUFFICES ASSUME Init PROVE NewsInv
  OBVIOUS
<1>1. table = {} /\ DOMAIN reqLog = {}
  BY DEF Init
<1> QED
  BY <1>1, InitTypeInv DEF NewsInv, RequestsTold, AnswersTold

\* Every step keeps everybody told.
LEMMA NextNewsInv == NewsInv /\ [Next]_vars => NewsInv'
<1> SUFFICES ASSUME NewsInv, [Next]_vars
             PROVE  NewsInv'
  OBVIOUS
<1>1. TypeInv'
  BY NextTypeInv DEF NewsInv
<1>2. CASE UNCHANGED vars
  <2>1. UNCHANGED <<request, table, reqLog, flag, sentReq, sentLog, pc, item, entry,
                    caller, excused>>
    BY <1>2 DEF vars, tableVars, flagVars, sentVars, threadVars, historyVars
  <2> QED
    BY <1>1, <2>1 DEF NewsInv, RequestsTold, AnswersTold, InFlight, LogInFlight,
                      Flagged, Clearing, Parties, UnreadBy
<1>3. CASE Next
  BY <1>1, <1>3, SendInsertNews, SendFlagNews, ObtainNews, ClearNews, ReadNews, IgnoreNews,
     QuietNews, WriteNews, AnswerFlagNews, ProcessEndsNews
     DEF Next, RespondGone, Crash
<1> QED
  BY <1>2, <1>3

\* Everybody whom an open request or a log concerns was sent it, is flagged for it
\* with nobody about to clear the flag, or will be flagged, or has an excuse.
THEOREM NewsInvariant == Spec => []NewsInv
  BY InitNewsInv, NextNewsInv, PTL DEF Spec

\* The receiver of an open request hears of it, but for the excuses.
THEOREM RequestsAreAnnounced == Spec => []RequestsAnnounced
<1>1. NewsInv => RequestsAnnounced
  BY DEF NewsInv, RequestsTold, RequestsAnnounced, Flagged
<1> QED
  BY <1>1, NewsInvariant, PTL

\* Both sides of a log hear of it, but for the excuses.
THEOREM AnswersAreAnnounced == Spec => []AnswersAnnounced
<1>1. NewsInv => AnswersAnnounced
  BY DEF NewsInv, AnswersTold, AnswersAnnounced, Flagged
<1> QED
  BY <1>1, NewsInvariant, PTL
=============================================================================
