---------------------------- MODULE BillNewsProofs ----------------------------
(***************************************************************************)
(* Proofs about BillNews, for any users, any number of handlers and bills, *)
(* with failing statements and crashes: the news of a bill, and of its     *)
(* deletion, are lost for the reasons that excused records, and no other.  *)
(*                                                                         *)
(* Both rest on BillInv.  Its part ReaderInformed is what makes it         *)
(* inductive: an Obtain_bills clears a flag whose news its rows hold, and  *)
(* from then on it is its answer that owes them to the client.             *)
(*                                                                         *)
(* The last section takes BillInv over to News, whose steps are steps of   *)
(* BillNews and of NewsStream at once.                                     *)
(***************************************************************************)
EXTENDS News, FiniteSetTheorems, TLAPS

Steps == {"idle", "flag", "flag_delete", "clear", "reply"}

\* "all" leaves nothing out: there are never MaxBills bills above one of them.
LEMMA AllIsAll ==
  ASSUME NEW S \in SUBSET Bills
  PROVE  Newest(S, All) = S
<1> USE BillsAssumption DEF Bills, All
<1> SUFFICES ASSUME NEW b \in S
             PROVE  Cardinality({c \in S : c > b}) < MaxBills
  BY DEF Newest
<1>1. {c \in S : c > b} \in SUBSET (2..MaxBills)
  <2>1. ASSUME NEW c \in S, c > b
        PROVE  c \in 2..MaxBills
    <3>1. b \in 1..MaxBills /\ c \in 1..MaxBills
      OBVIOUS
    <3> QED
      BY <2>1, <3>1
  <2> QED
    BY <2>1
<1>2. IsFiniteSet(2..MaxBills) /\ Cardinality(2..MaxBills) = MaxBills - 1
  BY FS_Interval
<1>3. /\ IsFiniteSet({c \in S : c > b})
      /\ Cardinality({c \in S : c > b}) <= MaxBills - 1
  BY <1>1, <1>2, FS_Subset
<1>4. Cardinality({c \in S : c > b}) \in Nat
  BY <1>3, FS_CardinalityType
<1> QED
  BY <1>3, <1>4

\* A request for all bills excuses nobody.
LEMMA AllExcusesNothing ==
  ASSUME TypeOK, NEW t \in Threads, NEW u \in Users, ObtainSelect(t, u, All)
  PROVE  excused' = excused
<1>1. Visible(u) \in SUBSET Bills
  BY DEF Visible, TypeOK
<1>2. Newest(Visible(u), All) = Visible(u)
  BY <1>1, AllIsAll
<1> QED
  BY <1>2 DEF ObtainSelect

\* What a handler's return leaves of the threads.
LEMMA Returned ==
  ASSUME TypeOK, NEW t \in Threads, Return(t)
  PROVE  /\ pc' \in [Threads -> Steps]
         /\ bill' \in [Threads -> Bills \cup {NoBill}]
         /\ caller' \in [Threads -> SUBSET Users]
         /\ limit' \in [Threads -> 0..MaxBills]
         /\ rows' \in [Threads -> SUBSET Bills]
         /\ pc'[t] = "idle" /\ rows'[t] = {}
         /\ \A s \in Threads \ {t} : /\ pc'[s] = pc[s] /\ bill'[s] = bill[s]
                                     /\ caller'[s] = caller[s] /\ rows'[s] = rows[s]
<1>1. limit' \in [Threads -> 0..MaxBills]
  BY BillsAssumption DEF TypeOK, Return
<1> QED
  BY <1>1 DEF TypeOK, Return, Steps

\* What the ids given so far are.
LEMMA CreatedBills ==
  ASSUME TypeOK
  PROVE  /\ Created \subseteq Bills /\ nextId \notin Created
         /\ nextId' = nextId + 1 => Created' = Created \cup {nextId}
         /\ nextId' = nextId => Created' = Created
         /\ \A b \in Bills : b < nextId => b \in Created
<1>1. nextId \in 1..(MaxBills + 1)
  BY DEF TypeOK
<1> QED
  BY <1>1, BillsAssumption DEF Created, Bills

\* No bill, no handler and no excuse at first.
LEMMA InitBillInv == Init => BillInv
<1> SUFFICES ASSUME Init PROVE BillInv
  OBVIOUS
<1> USE BillsAssumption DEF Init, Bills
<1>1. TypeOK
  BY DEF TypeOK
<1>2. KnowsCreated /\ ExcusedAreWrong /\ \A t \in Threads : ReaderInformed(t)
  BY DEF KnowsCreated, ExcusedAreWrong, ReaderInformed
<1> QED
  BY <1>1, <1>2 DEF BillInv, OnlyKnownLosses, OnlyKnownStaleBills

----------------------------------------------------------------------------
(* Create_share *)

\* The new bill is in flight from the moment it can be seen.
LEMMA CreateInsertInv ==
  ASSUME BillInv, NEW t \in Threads, NEW M \in SUBSET Users, NEW payer \in Users,
         CreateInsert(t, M, payer)
  PROVE  BillInv'
<1> USE DEF BillInv
<1>1. /\ pc[t] = "idle" /\ nextId \in Bills
      /\ table' = table \cup {nextId} /\ nextId' = nextId + 1
      /\ members' = [members EXCEPT ![nextId] = M]
      /\ pc' = [pc EXCEPT ![t] = "flag"] /\ bill' = [bill EXCEPT ![t] = nextId]
      /\ UNCHANGED <<newBill, newDelete, view, caller, limit, rows, excused>>
  BY DEF CreateInsert, flagVars
<1>2. TypeOK'
  BY <1>1, BillsAssumption DEF TypeOK, CreateInsert, Bills
<1>3. /\ pc'[t] = "flag" /\ bill'[t] = nextId
      /\ \A s \in Threads \ {t} : pc'[s] = pc[s] /\ bill'[s] = bill[s]
  BY <1>1 DEF TypeOK
<1>4. nextId \notin Created /\ Created' = Created \cup {nextId}
  BY <1>1, CreatedBills
<1>5. KnowsCreated'
  BY <1>1, <1>3, <1>4 DEF KnowsCreated
<1>6. /\ \A b : b = nextId => InFlight(b, "flag")'
      /\ \A b : InFlight(b, "flag") => InFlight(b, "flag")'
      /\ \A b : InFlight(b, "flag_delete") => InFlight(b, "flag_delete")'
  BY <1>1, <1>3 DEF InFlight
<1>7. \A b \in table : b # nextId /\ members'[b] = members[b]
  <2>1. table \subseteq Bills /\ nextId \notin table
    BY <1>4 DEF KnowsCreated, TypeOK
  <2> QED
    BY <1>1, <2>1 DEF TypeOK
<1>8. ASSUME NEW s \in Threads
      PROVE  ReaderInformed(s)'
  <2> SUFFICES ASSUME pc'[s] = "clear", NEW u \in caller'[s],
                      NEW b \in table', u \in members'[b]
               PROVE  \/ b \in rows'[s] \/ b \in view'[u]
                      \/ InFlight(b, "flag")' \/ <<u, b>> \in excused'
    BY DEF ReaderInformed
  <2>1. pc[s] = "clear" /\ u \in caller[s] /\ rows'[s] = rows[s]
    BY <1>1, <1>3
  <2>2. CASE b = nextId
    BY <1>6, <2>2
  <2>3. CASE b \in table
    BY <1>1, <1>6, <1>7, <2>1, <2>3 DEF ReaderInformed
  <2> QED
    BY <1>1, <2>2, <2>3
<1>9. OnlyKnownLosses'
  <2> SUFFICES ASSUME NEW b \in table', NEW u \in members'[b]
               PROVE  Informed(u, b)' \/ <<u, b>> \in excused'
    BY DEF OnlyKnownLosses
  <2>1. CASE b = nextId
    BY <1>6, <2>1 DEF Informed
  <2>2. CASE b \in table
    <3>1. AboutToShow(u, b) => AboutToShow(u, b)'
      BY <1>1, <1>3 DEF AboutToShow
    <3> QED
      BY <1>1, <1>6, <1>7, <2>2, <3>1 DEF OnlyKnownLosses, Informed
  <2> QED
    BY <1>1, <2>1, <2>2
<1>10. OnlyKnownStaleBills'
  BY <1>1, <1>6 DEF OnlyKnownStaleBills, TellsGone, TypeOK
<1>11. ExcusedAreWrong'
  <2> SUFFICES ASSUME NEW p \in excused
               PROVE  ~RightAbout(view[p[1]], p[2])'
    BY <1>1 DEF ExcusedAreWrong
  <2>1. ~RightAbout(view[p[1]], p[2]) /\ view[p[1]] \subseteq Created
    BY DEF ExcusedAreWrong, KnowsCreated, TypeOK
  <2> QED
    BY <1>1, <1>4, <2>1 DEF RightAbout
<1> QED
  BY <1>2, <1>5, <1>8, <1>9, <1>10, <1>11

\* What a reader overtakes is excused, the others see the flag.
LEMMA CreateFlagInv ==
  ASSUME BillInv, NEW t \in Threads, CreateFlag(t)
  PROVE  BillInv'
<1> USE DEF BillInv
<1> DEFINE d == bill[t]
<1>1. /\ pc[t] = "flag"
      /\ newBill' = [u \in Users |-> newBill[u] \/ u \in members[d]]
      /\ excused' = excused \cup Overtaken(d)
      /\ Return(t)
      /\ UNCHANGED <<table, nextId, members, paidBy, newDelete, view>>
  BY DEF CreateFlag, tableVars
<1>2. d \in Bills
  BY <1>1, CreatedBills DEF KnowsCreated
<1>3. /\ pc'[t] = "idle" /\ rows'[t] = {}
      /\ \A s \in Threads \ {t} : /\ pc'[s] = pc[s] /\ bill'[s] = bill[s]
                                  /\ caller'[s] = caller[s] /\ rows'[s] = rows[s]
  BY <1>1, Returned
<1>4. TypeOK'
  <2>1. Overtaken(d) \subseteq Users \X Bills
    BY <1>2 DEF Overtaken, NewsOf, TypeOK
  <2>2. newBill' \in [Users -> BOOLEAN]
    BY <1>1 DEF TypeOK
  <2> QED
    BY <1>1, <2>1, <2>2, Returned DEF TypeOK, Steps
<1>5. KnowsCreated'
  BY <1>1, <1>3 DEF KnowsCreated, Created
<1>6. \A b : InFlight(b, "flag") => b = d \/ InFlight(b, "flag")'
  BY <1>3 DEF InFlight
<1>7. \A b : InFlight(b, "flag_delete") => InFlight(b, "flag_delete")'
  BY <1>1, <1>3 DEF InFlight
<1>8. ASSUME NEW s \in Threads
      PROVE  ReaderInformed(s)'
  <2> SUFFICES ASSUME pc'[s] = "clear", NEW u \in caller'[s],
                      NEW b \in table, u \in members[b]
               PROVE  \/ b \in rows'[s] \/ b \in view[u]
                      \/ InFlight(b, "flag")' \/ <<u, b>> \in excused'
    BY <1>1 DEF ReaderInformed
  <2>1. s # t /\ pc[s] = "clear" /\ u \in caller[s] /\ rows'[s] = rows[s]
    BY <1>3
  <2>2. CASE b = d /\ b \notin rows[s] /\ b \notin view[u]
    BY <1>1, <2>1, <2>2 DEF Overtaken, NewsOf, RightAbout
  <2>3. CASE b # d
    BY <1>1, <1>6, <2>1, <2>3 DEF ReaderInformed
  <2> QED
    BY <2>1, <2>2, <2>3
<1>9. OnlyKnownLosses'
  <2> SUFFICES ASSUME NEW b \in table, NEW u \in members[b]
               PROVE  Informed(u, b)' \/ <<u, b>> \in excused'
    BY <1>1 DEF OnlyKnownLosses
  <2>1. u \in Users
    BY DEF TypeOK
  <2>2. CASE Informed(u, b)
    <3>1. AboutToShow(u, b) => AboutToShow(u, b)'
      BY <1>1, <1>3 DEF AboutToShow
    <3> QED
      BY <1>1, <1>6, <2>1, <2>2, <3>1 DEF Informed
  <2>3. CASE <<u, b>> \in excused
    BY <1>1, <2>3
  <2> QED
    BY <2>2, <2>3 DEF OnlyKnownLosses
<1>10. OnlyKnownStaleBills'
  BY <1>1, <1>7 DEF OnlyKnownStaleBills, TellsGone
<1>11. ExcusedAreWrong'
  BY <1>1 DEF ExcusedAreWrong, RightAbout, Overtaken, NewsOf
<1> QED
  BY <1>4, <1>5, <1>8, <1>9, <1>10, <1>11

----------------------------------------------------------------------------
(* Obtain_bills *)

\* After its SELECT a reader has, or is excused for, all there is.
LEMMA ObtainSelectInv ==
  ASSUME BillInv, NEW t \in Threads, NEW u \in Users, NEW amount \in Limits \cup {All},
         ObtainSelect(t, u, amount)
  PROVE  BillInv'
<1> USE DEF BillInv
<1> DEFINE sent == Newest(Visible(u), amount)
           left == Visible(u) \ (sent \cup view[u])
<1>1. /\ pc[t] = "idle"
      /\ rows' = [rows EXCEPT ![t] = sent]
      /\ excused' = excused \cup ({u} \X left)
      /\ caller' = [caller EXCEPT ![t] = {u}]
      /\ limit' = [limit EXCEPT ![t] = amount]
      /\ pc' = [pc EXCEPT ![t] = "clear"]
      /\ UNCHANGED <<table, nextId, members, paidBy, newBill, newDelete, view, bill>>
  BY DEF ObtainSelect, tableVars, flagVars
<1>2. sent \subseteq table /\ table \subseteq Bills /\ left \subseteq table
  BY DEF Newest, Visible, TypeOK
<1>3. \A b \in table : u \in members[b] => b \in sent \/ b \in view[u] \/ b \in left
  BY DEF Visible
<1>4. \A b \in left : b \notin view[u]
  OBVIOUS
<1> HIDE DEF sent, left
<1>5. TypeOK'
  <2>1. sent \in SUBSET Bills /\ {u} \X left \subseteq Users \X Bills
    BY <1>2
  <2>2. amount \in 0..MaxBills
    BY BillsAssumption, LimitsAssumption DEF All
  <2>3. limit' \in [Threads -> 0..MaxBills]
    BY <1>1, <2>2 DEF TypeOK
  <2> QED
    BY <1>1, <2>1, <2>3 DEF TypeOK
<1>6. KnowsCreated'
  BY <1>1, <1>2 DEF KnowsCreated, Created, TypeOK
<1>7. /\ pc'[t] = "clear" /\ rows'[t] = sent /\ caller'[t] = {u}
      /\ \A s \in Threads \ {t} : /\ pc'[s] = pc[s] /\ caller'[s] = caller[s]
                                  /\ rows'[s] = rows[s]
  BY <1>1 DEF TypeOK
<1>8. \A b : /\ InFlight(b, "flag") => InFlight(b, "flag")'
             /\ InFlight(b, "flag_delete") => InFlight(b, "flag_delete")'
  BY <1>1, <1>7 DEF InFlight
<1>9. ASSUME NEW s \in Threads
      PROVE  ReaderInformed(s)'
  <2> SUFFICES ASSUME pc'[s] = "clear", NEW v \in caller'[s],
                      NEW b \in table, v \in members[b]
               PROVE  \/ b \in rows'[s] \/ b \in view[v]
                      \/ InFlight(b, "flag")' \/ <<v, b>> \in excused'
    BY <1>1 DEF ReaderInformed
  <2>1. CASE s = t
    BY <1>1, <1>3, <1>7, <2>1
  <2>2. CASE s # t
    BY <1>1, <1>7, <1>8, <2>2 DEF ReaderInformed
  <2> QED
    BY <2>1, <2>2
<1>10. OnlyKnownLosses'
  <2>1. \A v, b : AboutToShow(v, b) => AboutToShow(v, b)'
    BY <1>1, <1>7 DEF AboutToShow
  <2> QED
    BY <1>1, <1>8, <2>1 DEF OnlyKnownLosses, Informed
<1>11. OnlyKnownStaleBills'
  BY <1>1, <1>8 DEF OnlyKnownStaleBills, TellsGone
<1>12. ExcusedAreWrong'
  BY <1>1, <1>2, <1>4 DEF ExcusedAreWrong, RightAbout
<1> QED
  BY <1>5, <1>6, <1>9, <1>10, <1>11, <1>12

\* A reader clears the flag of its own user, to whom its answer brings the news.
LEMMA ObtainClearInv ==
  ASSUME BillInv, NEW t \in Threads, ObtainClear(t) \/ ObtainClearFails(t)
  PROVE  BillInv'
<1> USE DEF BillInv
<1>1. /\ pc[t] = "clear"
      /\ pc' = [pc EXCEPT ![t] = "reply"]
      /\ UNCHANGED <<table, nextId, members, paidBy, newDelete, view, bill, caller, limit,
                    rows, excused>>
  BY DEF ObtainClear, ObtainClearFails, tableVars, flagVars
<1>2. newBill' \in [Users -> BOOLEAN]
  BY DEF ObtainClear, ObtainClearFails, flagVars, TypeOK
<1>3. \A u \in Users : newBill[u] => newBill'[u] \/ u \in caller[t]
  BY DEF ObtainClear, ObtainClearFails, flagVars, TypeOK
<1>4. TypeOK'
  BY <1>1, <1>2 DEF TypeOK
<1>5. pc'[t] = "reply" /\ \A s \in Threads \ {t} : pc'[s] = pc[s]
  BY <1>1 DEF TypeOK
<1>6. KnowsCreated'
  BY <1>1, <1>5 DEF KnowsCreated, Created
<1>7. /\ \A b : /\ InFlight(b, "flag") => InFlight(b, "flag")'
                /\ InFlight(b, "flag_delete") => InFlight(b, "flag_delete")'
      /\ \A u, b : AboutToShow(u, b) => AboutToShow(u, b)'
      /\ \A u \in caller[t] : \A b \in rows[t] : AboutToShow(u, b)'
  BY <1>1, <1>5 DEF InFlight, AboutToShow
<1>8. \A s \in Threads : ReaderInformed(s)'
  BY <1>1, <1>5, <1>7 DEF ReaderInformed
<1>9. OnlyKnownLosses'
  <2> SUFFICES ASSUME NEW b \in table, NEW u \in members[b]
               PROVE  Informed(u, b)' \/ <<u, b>> \in excused
    BY <1>1 DEF OnlyKnownLosses
  <2>1. u \in Users
    BY DEF TypeOK
  <2>2. CASE u \in caller[t]
    BY <1>1, <1>7, <2>2 DEF ReaderInformed, Informed
  <2>3. CASE u \notin caller[t]
    BY <1>1, <1>3, <1>7, <2>1, <2>3 DEF OnlyKnownLosses, Informed
  <2> QED
    BY <2>2, <2>3
<1>10. OnlyKnownStaleBills' /\ ExcusedAreWrong'
  BY <1>1, <1>7 DEF OnlyKnownStaleBills, TellsGone, ExcusedAreWrong, RightAbout
<1> QED
  BY <1>4, <1>6, <1>8, <1>9, <1>10

\* What an answer takes from the screen is excused; what it brings is forgotten
\* among the excuses.
LEMMA ObtainReplyInv ==
  ASSUME BillInv, NEW t \in Threads, ObtainReply(t)
  PROVE  BillInv'
<1> USE DEF BillInv
<1>1. /\ pc[t] = "reply"
      /\ view' = [u \in Users |-> IF u \in caller[t] THEN Shown(t, u) ELSE view[u]]
      /\ Return(t)
      /\ UNCHANGED <<table, nextId, members, paidBy, newBill, newDelete>>
  BY DEF ObtainReply, tableVars, flagVars
<1>2. excused' = {p \in excused : p[1] \in caller[t] => ~RightAbout(Shown(t, p[1]), p[2])} \cup
                 {p \in caller[t] \X Bills : p[2] \in Undone(t, p[1])}
  BY DEF ObtainReply
<1>3. caller[t] \subseteq Users /\ rows[t] \subseteq Bills /\ rows[t] \subseteq Created
  BY DEF TypeOK, KnowsCreated
<1>4. \A u \in Users : /\ Shown(t, u) \subseteq view[u] \cup rows[t]
                       /\ rows[t] \subseteq Shown(t, u)
  BY DEF Shown
<1>5. /\ pc'[t] = "idle" /\ rows'[t] = {}
      /\ \A s \in Threads \ {t} : /\ pc'[s] = pc[s] /\ bill'[s] = bill[s]
                                  /\ caller'[s] = caller[s] /\ rows'[s] = rows[s]
  BY <1>1, Returned
<1>6. TypeOK'
  <2>1. view' \in [Users -> SUBSET Bills]
    BY <1>1, <1>3, <1>4 DEF TypeOK
  <2>2. excused' \subseteq Users \X Bills
    BY <1>2, <1>3 DEF TypeOK
  <2> QED
    BY <1>1, <2>1, <2>2, Returned DEF TypeOK, Steps
<1>7. KnowsCreated'
  <2>1. \A u \in Users : view'[u] \subseteq Created
    BY <1>1, <1>3, <1>4 DEF KnowsCreated
  <2> QED
    BY <1>1, <1>5, <2>1 DEF KnowsCreated, Created
<1>8. \A b : /\ InFlight(b, "flag") => InFlight(b, "flag")'
             /\ InFlight(b, "flag_delete") => InFlight(b, "flag_delete")'
  BY <1>1, <1>5 DEF InFlight
<1>9. \A u \in Users \ caller[t] : /\ view'[u] = view[u]
                                  /\ \A b : <<u, b>> \in excused => <<u, b>> \in excused'
  BY <1>1, <1>2
<1>10. ASSUME NEW u \in caller[t]
       PROVE  /\ view'[u] = Shown(t, u)
              /\ \A b \in Bills : <<u, b>> \in excused /\ ~RightAbout(Shown(t, u), b)
                                  => <<u, b>> \in excused'
              /\ \A b \in Undone(t, u) : <<u, b>> \in excused'
  <2>1. view'[u] = Shown(t, u)
    BY <1>1, <1>3
  <2>2. ASSUME NEW b \in Bills, <<u, b>> \in excused, ~RightAbout(Shown(t, u), b)
        PROVE  <<u, b>> \in excused'
    BY <1>2, <2>2
  <2>3. ASSUME NEW b \in Undone(t, u)
        PROVE  <<u, b>> \in excused'
    BY <1>2, <2>3 DEF Undone
  <2> QED
    BY <2>1, <2>2, <2>3
<1>11. ASSUME NEW b \in table, NEW u \in members[b], b \in view[u] \/ <<u, b>> \in excused
       PROVE  b \in view'[u] \/ <<u, b>> \in excused'
  <2>1. u \in Users /\ b \in Bills
    BY DEF TypeOK
  <2>2. CASE u \in caller[t] /\ b \notin Shown(t, u)
    BY <1>10, <1>11, <2>1, <2>2 DEF Undone, RightAbout
  <2> QED
    BY <1>9, <1>10, <1>11, <2>1, <2>2
<1>12. \A s \in Threads : ReaderInformed(s)'
  BY <1>1, <1>5, <1>8, <1>11 DEF ReaderInformed
<1>13. OnlyKnownLosses'
  <2> SUFFICES ASSUME NEW b \in table, NEW u \in members[b]
               PROVE  Informed(u, b)' \/ <<u, b>> \in excused'
    BY <1>1 DEF OnlyKnownLosses
  <2>1. u \in Users
    BY DEF TypeOK
  <2>2. AboutToShow(u, b) => AboutToShow(u, b)' \/ b \in view'[u]
    BY <1>1, <1>4, <1>5, <1>10, <2>1 DEF AboutToShow
  <2> QED
    BY <1>1, <1>8, <1>11, <2>2 DEF OnlyKnownLosses, Informed
<1>14. OnlyKnownStaleBills'
  <2> SUFFICES ASSUME NEW u \in Users, NEW b \in view'[u] \ table, u \in members[b]
               PROVE  TellsGone(u, b)' \/ <<u, b>> \in excused'
    BY <1>1 DEF OnlyKnownStaleBills
  <2>1. TellsGone(u, b) => TellsGone(u, b)'
    BY <1>1, <1>8 DEF TellsGone
  <2>2. CASE b \in view[u]
    <3>1. TellsGone(u, b) \/ <<u, b>> \in excused
      BY <2>2 DEF OnlyKnownStaleBills
    <3>2. b \in Bills
      BY <1>6 DEF TypeOK
    <3>3. CASE u \in caller[t]
      BY <1>10, <2>1, <3>1, <3>2, <3>3 DEF RightAbout
    <3> QED
      BY <1>9, <2>1, <3>1, <3>3
  <2>3. CASE b \notin view[u]
    <3>1. u \in caller[t] /\ b \in Shown(t, u) /\ b \in Bills
      BY <1>6, <1>9, <1>10, <2>3 DEF TypeOK
    <3> QED
      BY <1>10, <2>1, <2>3, <3>1 DEF Undone, RightAbout
  <2> QED
    BY <2>2, <2>3
<1>15. ExcusedAreWrong'
  <2> SUFFICES ASSUME NEW p \in excused'
               PROVE  ~RightAbout(view'[p[1]], p[2])
    BY <1>1 DEF ExcusedAreWrong, RightAbout
  <2>1. CASE p[1] \in caller[t]
    <3>1. ~RightAbout(Shown(t, p[1]), p[2])
      BY <1>2, <2>1 DEF Undone
    <3> QED
      BY <1>10, <2>1, <3>1
  <2>2. CASE p[1] \notin caller[t]
    <3>1. p \in excused /\ p[1] \in Users
      BY <1>2, <1>6, <2>2 DEF TypeOK
    <3> QED
      BY <1>9, <2>2, <3>1 DEF ExcusedAreWrong
  <2> QED
    BY <2>1, <2>2
<1> QED
  BY <1>6, <1>7, <1>12, <1>13, <1>14, <1>15

----------------------------------------------------------------------------
(* Delete_bill, Reset_Status, failures and the end of the process *)

\* A deleted bill is in flight from the moment it is gone.
LEMMA DeleteRowInv ==
  ASSUME BillInv, NEW t \in Threads, NEW d \in Bills, DeleteRow(t, d)
  PROVE  BillInv'
<1> USE DEF BillInv
<1>1. /\ pc[t] = "idle" /\ d < nextId
      /\ table' = table \ {d}
      /\ pc' = [pc EXCEPT ![t] = "flag_delete"] /\ bill' = [bill EXCEPT ![t] = d]
      /\ paidBy' = [paidBy EXCEPT ![d] = {}]
      /\ excused' = {p \in excused : p[2] = d => d \in view[p[1]]}
      /\ UNCHANGED <<nextId, members, newBill, newDelete, view, caller, limit, rows>>
  BY DEF DeleteRow, flagVars
<1>2. TypeOK'
  BY <1>1 DEF TypeOK
<1>3. d \in Created
  BY <1>1, CreatedBills
<1>4. /\ pc'[t] = "flag_delete" /\ bill'[t] = d
      /\ \A s \in Threads \ {t} : pc'[s] = pc[s] /\ bill'[s] = bill[s]
  BY <1>1 DEF TypeOK
<1>5. KnowsCreated'
  BY <1>1, <1>3, <1>4 DEF KnowsCreated, Created
<1>6. /\ InFlight(d, "flag_delete")'
      /\ \A b : InFlight(b, "flag") => InFlight(b, "flag")'
      /\ \A b : InFlight(b, "flag_delete") => InFlight(b, "flag_delete")'
  BY <1>1, <1>4 DEF InFlight
<1>7. \A s \in Threads : ReaderInformed(s)'
  BY <1>1, <1>4, <1>6 DEF ReaderInformed
<1>8. OnlyKnownLosses'
  <2>1. \A u, b : AboutToShow(u, b) => AboutToShow(u, b)'
    BY <1>1, <1>4 DEF AboutToShow
  <2> QED
    BY <1>1, <1>6, <2>1 DEF OnlyKnownLosses, Informed
<1>9. OnlyKnownStaleBills'
  BY <1>1, <1>6 DEF OnlyKnownStaleBills, TellsGone
<1>10. ExcusedAreWrong'
  BY <1>1 DEF ExcusedAreWrong, RightAbout
<1> QED
  BY <1>2, <1>5, <1>7, <1>8, <1>9, <1>10

\* The members of the deleted bill are flagged.
LEMMA DeleteFlagInv ==
  ASSUME BillInv, NEW t \in Threads, DeleteFlag(t)
  PROVE  BillInv'
<1> USE DEF BillInv
<1>1. /\ pc[t] = "flag_delete"
      /\ newDelete' = [u \in Users |-> newDelete[u] \/ u \in members[bill[t]]]
      /\ Return(t)
      /\ UNCHANGED <<table, nextId, members, paidBy, newBill, view, excused>>
  BY DEF DeleteFlag, tableVars
<1>2. /\ pc'[t] = "idle" /\ rows'[t] = {}
      /\ \A s \in Threads \ {t} : /\ pc'[s] = pc[s] /\ bill'[s] = bill[s]
                                  /\ caller'[s] = caller[s] /\ rows'[s] = rows[s]
  BY <1>1, Returned
<1>3. TypeOK'
  <2>1. newDelete' \in [Users -> BOOLEAN]
    BY <1>1 DEF TypeOK
  <2> QED
    BY <1>1, <2>1, Returned DEF TypeOK, Steps
<1>4. KnowsCreated'
  BY <1>1, <1>2 DEF KnowsCreated, Created
<1>5. \A b : /\ InFlight(b, "flag") => InFlight(b, "flag")'
             /\ InFlight(b, "flag_delete") => b = bill[t] \/ InFlight(b, "flag_delete")'
  BY <1>1, <1>2 DEF InFlight
<1>6. \A s \in Threads : ReaderInformed(s)'
  BY <1>1, <1>2, <1>5 DEF ReaderInformed
<1>7. OnlyKnownLosses'
  <2>1. \A u, b : AboutToShow(u, b) => AboutToShow(u, b)'
    BY <1>1, <1>2 DEF AboutToShow
  <2> QED
    BY <1>1, <1>5, <2>1 DEF OnlyKnownLosses, Informed
<1>8. OnlyKnownStaleBills' /\ ExcusedAreWrong'
  BY <1>1, <1>5 DEF OnlyKnownStaleBills, TellsGone, ExcusedAreWrong, RightAbout
<1> QED
  BY <1>3, <1>4, <1>6, <1>7, <1>8

\* What a client still shows when it resets its own flag is excused.
LEMMA ResetStatusInv ==
  ASSUME BillInv, NEW u \in Users, ResetStatus(u)
  PROVE  BillInv'
<1> USE DEF BillInv
<1>1. /\ newDelete' = [newDelete EXCEPT ![u] = FALSE]
      /\ excused' = excused \cup {<<u, b>> : b \in view[u] \ table}
      /\ UNCHANGED <<table, nextId, members, paidBy, newBill, view, pc, bill, caller, limit, rows>>
  BY DEF ResetStatus, tableVars, threadVars
<1>2. TypeOK'
  BY <1>1 DEF TypeOK
<1>3. \A b, where : InFlight(b, where)' <=> InFlight(b, where)
  BY <1>1 DEF InFlight
<1>4. KnowsCreated' /\ \A s \in Threads : ReaderInformed(s)'
  BY <1>1, <1>3 DEF KnowsCreated, Created, ReaderInformed
<1>5. OnlyKnownLosses'
  <2>1. \A v, b : AboutToShow(v, b)' <=> AboutToShow(v, b)
    BY <1>1 DEF AboutToShow
  <2> QED
    BY <1>1, <1>3, <2>1 DEF OnlyKnownLosses, Informed
<1>6. OnlyKnownStaleBills'
  <2> SUFFICES ASSUME NEW v \in Users, NEW b \in view[v] \ table, v \in members[b]
               PROVE  TellsGone(v, b)' \/ <<v, b>> \in excused'
    BY <1>1 DEF OnlyKnownStaleBills
  <2>1. CASE v = u
    BY <1>1, <2>1
  <2>2. CASE v # u
    BY <1>1, <1>3, <2>2 DEF OnlyKnownStaleBills, TellsGone, TypeOK
  <2> QED
    BY <2>1, <2>2
<1>7. ExcusedAreWrong'
  BY <1>1 DEF ExcusedAreWrong, RightAbout
<1> QED
  BY <1>2, <1>4, <1>5, <1>6, <1>7

\* What is excused on the way concerns screens that are wrong.
LEMMA LostAreWrong ==
  ASSUME BillInv, NEW t \in Threads
  PROVE  /\ Unfinished(t) \subseteq Users \X Bills
         /\ \A p \in Unfinished(t) : ~RightAbout(view[p[1]], p[2])
<1> USE DEF BillInv
<1>1. CASE pc[t] \in {"flag", "flag_delete"}
  <2>1. Unfinished(t) = NewsOf(bill[t]) /\ bill[t] \in Bills
    BY <1>1, CreatedBills DEF Unfinished, KnowsCreated
  <2> QED
    BY <2>1 DEF NewsOf, TypeOK
<1>2. CASE pc[t] = "reply"
  <2>1. Unfinished(t) = LostWith(t)
    BY <1>2 DEF Unfinished
  <2> QED
    BY <2>1 DEF LostWith, RightAbout, TypeOK
<1>3. CASE pc[t] \notin {"flag", "flag_delete", "reply"}
  BY <1>3 DEF Unfinished
<1> QED
  BY <1>1, <1>2, <1>3

\* A step that writes nothing, and after which each handler is where it was or
\* has gone, its news excused.
LEMMA GoneInv ==
  ASSUME BillInv, TypeOK', ExcusedAreWrong',
         UNCHANGED <<table, nextId, members, newBill, newDelete, view>>,
         excused \subseteq excused',
         \A t \in Threads :
            \/ UNCHANGED <<pc[t], bill[t], caller[t], rows[t]>>
            \/ /\ pc'[t] = "idle" /\ rows'[t] = {}
               /\ Unfinished(t) \subseteq excused'
  PROVE  BillInv'
<1> USE DEF BillInv
<1>1. KnowsCreated'
  BY DEF KnowsCreated, Created
<1>2. \A b : \A u \in members[b] :
         /\ InFlight(b, "flag") =>
                RightAbout(view[u], b) \/ InFlight(b, "flag")' \/ <<u, b>> \in excused'
         /\ InFlight(b, "flag_delete") =>
                RightAbout(view[u], b) \/ InFlight(b, "flag_delete")' \/ <<u, b>> \in excused'
  BY DEF InFlight, Unfinished, NewsOf
<1>3. \A b \in table : \A u \in members[b] : AboutToShow(u, b) =>
         \/ b \in view[u] \/ newBill[u] \/ AboutToShow(u, b)' \/ <<u, b>> \in excused'
  BY DEF AboutToShow, Unfinished, LostWith
<1>4. \A t \in Threads : ReaderInformed(t)'
  BY <1>2 DEF ReaderInformed, RightAbout
<1>5. OnlyKnownLosses'
  BY <1>2, <1>3 DEF OnlyKnownLosses, Informed, RightAbout
<1>6. OnlyKnownStaleBills'
  BY <1>2 DEF OnlyKnownStaleBills, TellsGone, RightAbout
<1> QED
  BY <1>1, <1>4, <1>5, <1>6

\* A statement that fails, with which its handler returns, and a lost answer.
LEMMA FailsInv ==
  ASSUME BillInv, NEW t \in Threads,
         CreateFlagFails(t) \/ DeleteFlagFails(t) \/ ReplyLost(t)
  PROVE  BillInv'
<1> USE DEF BillInv
<1>1. /\ Return(t) /\ UNCHANGED <<tableVars, flagVars, view>>
      /\ excused' = excused \cup Unfinished(t)
  BY DEF CreateFlagFails, DeleteFlagFails, ReplyLost, Unfinished
<1>2. TypeOK'
  BY <1>1, LostAreWrong, Returned DEF TypeOK, Steps, tableVars, flagVars
<1>3. ExcusedAreWrong'
  BY <1>1, LostAreWrong DEF ExcusedAreWrong, RightAbout, tableVars
<1> QED
  BY <1>1, <1>2, <1>3, Returned, GoneInv DEF tableVars, flagVars

\* The end of the process ends all handlers.
LEMMA CrashInv ==
  ASSUME BillInv, Crash
  PROVE  BillInv'
<1> USE DEF BillInv
<1> DEFINE lost == UNION {Unfinished(t) : t \in Threads}
<1>1. /\ excused' = excused \cup lost
      /\ pc' = [t \in Threads |-> "idle"] /\ bill' = [t \in Threads |-> NoBill]
      /\ caller' = [t \in Threads |-> {}] /\ limit' = [t \in Threads |-> 0]
      /\ rows' = [t \in Threads |-> {}]
      /\ UNCHANGED <<tableVars, flagVars, view>>
  BY DEF Crash
<1>2. /\ \A t \in Threads : Unfinished(t) \subseteq lost
      /\ lost \subseteq Users \X Bills
      /\ \A p \in lost : ~RightAbout(view[p[1]], p[2])
  BY LostAreWrong
<1> HIDE DEF lost
<1>3. TypeOK'
  <2>1. limit' \in [Threads -> 0..MaxBills]
    BY <1>1, BillsAssumption
  <2> QED
    BY <1>1, <1>2, <2>1 DEF TypeOK, tableVars, flagVars
<1>4. ExcusedAreWrong'
  BY <1>1, <1>2 DEF ExcusedAreWrong, RightAbout, tableVars
<1> QED
  BY <1>1, <1>2, <1>3, <1>4, GoneInv DEF tableVars, flagVars

----------------------------------------------------------------------------

\* Every statement of every handler, and the end of the process, preserves the
\* inductive invariant.
LEMMA NextBillInv == BillInv /\ [Next]_vars => BillInv'
<1> SUFFICES ASSUME BillInv, [Next]_vars
             PROVE  BillInv'
  OBVIOUS
<1>1. CASE UNCHANGED vars
  <2>1. TypeOK'
    BY <1>1 DEF BillInv, TypeOK, vars, tableVars, flagVars, threadVars
  <2>2. ExcusedAreWrong'
    BY <1>1 DEF BillInv, ExcusedAreWrong, RightAbout, vars, tableVars
  <2> QED
    BY <1>1, <2>1, <2>2, GoneInv DEF vars, tableVars, flagVars, threadVars
<1> QED
  BY <1>1, CreateInsertInv, CreateFlagInv, ObtainSelectInv, ObtainClearInv, ObtainReplyInv,
     DeleteRowInv, DeleteFlagInv, ResetStatusInv, FailsInv, CrashInv DEF Next

\* The inductive invariant holds in every reachable state.
THEOREM BillInvariant == Spec => []BillInv
  BY InitBillInv, NextBillInv, PTL DEF Spec

\* Every variable keeps its type.
THEOREM TypeCorrect == Spec => []TypeOK
  BY BillInvariant, PTL DEF BillInv

\* A member of a bill shows it, is flagged or is about to be, or to be answered with
\* it, unless the news were lost for a reason that excused names - a lost answer and
\* answers in reverse order are two of them: for all users, handlers and bills.
THEOREM BillsAnnounced == Spec => []OnlyKnownLosses
  BY BillInvariant, PTL DEF BillInv

\* A member that shows a deleted bill is flagged or is about to be, with the same
\* exceptions and but for its own Reset_Status.
THEOREM DeletionsAnnounced == Spec => []OnlyKnownStaleBills
  BY BillInvariant, PTL DEF BillInv
----------------------------------------------------------------------------
(* News *)

StreamInv == served \subseteq Users /\ seen \subseteq Users /\ told \subseteq served

NewsInv == BillInv /\ StreamInv /\ asking \subseteq Users

\* Each step of News is one of BillNews, or leaves its variables alone.
LEMMA NewsSteps == NewsNext => [Next]_vars
<1>1. ASSUME NEW t \in Threads, HandlerStep(t) \/ LoseAnswer(t)
      PROVE  Next
  BY <1>1 DEF HandlerStep, LoseAnswer, Next
<1>2. ASSUME ClientCalls
      PROVE  Next
  BY <1>2 DEF ClientCalls, Next
<1>3. ASSUME NEW u \in Users, Answer(u)
      PROVE  Next
  BY <1>3 DEF Answer, Next
<1>4. ASSUME NEW u \in Users,
             Look(u) \/ Write(u) \/ Hear(u) \/ Lose(u) \/ Connect(u) \/ Disconnect(u)
      PROVE  UNCHANGED vars
  BY <1>4 DEF Look, Write, Hear, Lose, Connect, Disconnect
<1>5. ASSUME ServerCrash
      PROVE  Next
  BY <1>5 DEF ServerCrash, Next
<1> QED
  BY <1>1, <1>2, <1>3, <1>4, <1>5 DEF NewsNext

\* The stream's sets stay what they are, whoever writes the flags.
LEMMA StreamSteps == StreamInv /\ asking \subseteq Users /\ [NewsNext]_newsVars =>
                         StreamInv' /\ asking' \subseteq Users
<1> SUFFICES ASSUME StreamInv, asking \subseteq Users, [NewsNext]_newsVars
             PROVE  StreamInv' /\ asking' \subseteq Users
  OBVIOUS
<1> USE DEF StreamInv
<1>1. ASSUME NEW t \in Threads, HandlerStep(t) \/ LoseAnswer(t)
      PROVE  StreamInv' /\ asking' \subseteq Users
  BY <1>1 DEF HandlerStep, LoseAnswer, Stream!WriteFlags, Stream!streamVars
<1>2. CASE ClientCalls
  BY <1>2 DEF ClientCalls, Stream!WriteFlags, Stream!streamVars
<1>3. ASSUME NEW u \in Users, Look(u) \/ Write(u)
      PROVE  StreamInv' /\ asking' \subseteq Users
  BY <1>3 DEF Look, Write, Stream!See, Stream!Tell
<1>4. ASSUME NEW u \in Users, Hear(u) \/ Lose(u)
      PROVE  StreamInv' /\ asking' \subseteq Users
  BY <1>4 DEF Hear, Lose, Stream!Deliver
<1>5. ASSUME NEW u \in Users, Answer(u)
      PROVE  StreamInv' /\ asking' \subseteq Users
  BY <1>5 DEF Answer, Stream!WriteFlags, Stream!streamVars
<1>6. ASSUME NEW u \in Users, Connect(u) \/ Disconnect(u)
      PROVE  StreamInv' /\ asking' \subseteq Users
  BY <1>6 DEF Connect, Disconnect, Stream!Register, Stream!Drop
<1>7. CASE ServerCrash
  BY <1>7 DEF ServerCrash, Stream!Stop
<1>8. CASE UNCHANGED newsVars
  BY <1>8 DEF newsVars
<1> QED
  BY <1>1, <1>2, <1>3, <1>4, <1>5, <1>6, <1>7, <1>8 DEF NewsNext

\* The invariant of BillNews and the types of the stream, in every state of News.
LEMMA NewsInvariant == NewsSpec => []NewsInv
<1>1. NewsInit => NewsInv
  BY InitBillInv DEF NewsInit, NewsInv, StreamInv, Stream!Init
<1>2. NewsInv /\ [NewsNext]_newsVars => NewsInv'
  <2>1. [NewsNext]_newsVars => [Next]_vars
    BY NewsSteps DEF newsVars
  <2> QED
    BY <2>1, NextBillInv, StreamSteps DEF NewsInv
<1> QED
  BY <1>1, <1>2, PTL DEF NewsSpec

\* Composed with the stream and with clients, handlers and stream keep their types:
\* a message is under way only for a user that has a stream.
THEOREM NewsTypeCorrect == NewsSpec => []NewsTypeOK
<1>1. NewsInv => NewsTypeOK
  BY DEF NewsInv, BillInv, StreamInv, NewsTypeOK, TypeOK, Stream!TypeOK
<1> QED
  BY <1>1, NewsInvariant, PTL

\* News of bills are lost for the same reasons only when clients react to the stream.
THEOREM BillsAnnouncedInNews == NewsSpec => []OnlyKnownLosses
  BY NewsInvariant, PTL DEF NewsInv, BillInv
=============================================================================
