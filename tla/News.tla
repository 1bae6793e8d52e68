-------------------------------- MODULE News --------------------------------
(***************************************************************************)
(* Bills from one client's Create_share to another client's screen: the    *)
(* handlers of BillNews, which set and clear the flags statement by        *)
(* statement, composed with the stream that NewsStream specifies and       *)
(* Synchronism implements, and with clients that call Obtain_bills for     *)
(* "all" when a message reaches them.                                      *)
(*                                                                         *)
(* BillNews says which news may be lost, before the client is flagged and  *)
(* with the answer to it; this module shows that all others arrive, as     *)
(* long as the client has a stream.                                        *)
(***************************************************************************)
EXTENDS BillNews

VARIABLES
    served,  \* of the stream: users with a registered one
    seen,    \* of the stream: users found flagged
    told,    \* of the stream: users with a message under way
    asking   \* clients whose Obtain_bills waits for a thread

Stream == INSTANCE NewsStream WITH
              Members <- Users,
              flag <- [u \in Users |-> newBill[u] \/ newDelete[u]]

newsVars == <<vars, served, seen, told, asking>>

NewsTypeOK == TypeOK /\ Stream!TypeOK /\ asking \subseteq Users

NewsInit == Init /\ Stream!Init /\ asking = {}

\* The handlers work on while the stream does nothing.
HandlerStep(t) ==
    /\ \/ CreateFlag(t) \/ CreateFlagFails(t)
       \/ ObtainClear(t) \/ ObtainClearFails(t) \/ ObtainReply(t)
       \/ DeleteFlag(t) \/ DeleteFlagFails(t)
    /\ Stream!WriteFlags
    /\ UNCHANGED asking

\* What clients do of their own accord.
ClientCalls ==
    /\ \/ \E t \in Threads :
             \/ \E M \in SUBSET Users \ {{}}, payer \in Users : CreateInsert(t, M, payer)
             \/ \E u \in Users, amount \in Limits \cup {All} : ObtainSelect(t, u, amount)
             \/ \E b \in Bills : DeleteRow(t, b)
       \/ \E u \in Users : ResetStatus(u)
    /\ Stream!WriteFlags
    /\ UNCHANGED asking

\* Mutant: the poller has no column for deleted bills.
LookAtBills(u) == UNCHANGED <<vars, asking>> /\ newBill[u] /\ Stream!See(u)

\* Mutant: it has none for new bills.
LookAtDeletions(u) == UNCHANGED <<vars, asking>> /\ newDelete[u] /\ Stream!See(u)

\* The poller reads the user's row, and writes.
Look(u) == UNCHANGED <<vars, asking>> /\ Stream!See(u)
Write(u) == UNCHANGED <<vars, asking>> /\ Stream!Tell(u)

\* The message reaches the client, which calls Obtain_bills.
Hear(u) ==
    /\ UNCHANGED vars
    /\ Stream!Deliver(u)
    /\ asking' = asking \cup {u}

\* The client has gone and the poller has not noticed, or its query fails.
Lose(u) == Faults /\ UNCHANGED <<vars, asking>> /\ Stream!Deliver(u)

\* A thread takes the call.
Answer(u) ==
    /\ u \in asking
    /\ \E t \in Threads : ObtainSelect(t, u, All)
    /\ Stream!WriteFlags
    /\ asking' = asking \ {u}

\* The answer to "all" reaches the client: one of the steps of a handler.
AnswerArrives(u) ==
    /\ \E t \in Threads : u \in caller[t] /\ limit[t] = All /\ ObtainReply(t)
    /\ Stream!WriteFlags
    /\ UNCHANGED asking

\* The call is broken, while the stream need not be.
LoseAnswer(t) == ReplyLost(t) /\ Stream!WriteFlags /\ UNCHANGED asking

\* Mutant: the message of a stream that is gone is kept.
DisconnectKeepsMessage(u) ==
    /\ u \in served
    /\ served' = served \ {u}
    /\ UNCHANGED <<vars, asking, seen, told>>

Connect(u) == UNCHANGED <<vars, asking>> /\ Stream!Register(u)
Disconnect(u) == UNCHANGED <<vars, asking>> /\ Stream!Drop(u)

ServerCrash == Crash /\ Stream!Stop /\ asking' = {}

NewsNext ==
    \/ \E t \in Threads : HandlerStep(t) \/ LoseAnswer(t)
    \/ ClientCalls
    \/ \E u \in Users : \/ Look(u) \/ Write(u) \/ Hear(u) \/ Lose(u) \/ Answer(u)
                        \/ Connect(u) \/ Disconnect(u)
    \/ ServerCrash

\* Threads run; the poller reaches every registered user again and again, which
\* Synchronism shows of it, and neither its queries fail nor its messages are lost
\* forever; a call that waits for a thread gets one at some time; not every answer
\* to a client is lost.
NewsSpec ==
    /\ NewsInit /\ [][NewsNext]_newsVars
    /\ \A t \in Threads : WF_newsVars(HandlerStep(t))
    /\ \A u \in Users : /\ WF_newsVars(Look(u)) /\ WF_newsVars(Write(u))
                        /\ SF_newsVars(Hear(u)) /\ SF_newsVars(Answer(u))
                        /\ SF_newsVars(AnswerArrives(u))

----------------------------------------------------------------------------
(* Properties *)

Owed(u, b) == b \in table /\ u \in members[b]
Excused(u, b) == <<u, b>> \in excused

\* A client that keeps its stream shows every bill it is a member of, sooner or
\* later, unless the bill is deleted or the news are lost for a reason that
\* excused names.
BillArrives ==
    \A u \in Users, b \in Bills :
        <>[](u \in served) =>
            (Owed(u, b) ~> (b \in view[u] \/ ~Owed(u, b) \/ Excused(u, b)))

\* A deleted bill disappears from the screens of its members, with the same
\* exceptions.
DeletedBillGoes ==
    \A u \in Users, b \in Bills :
        <>[](u \in served) =>
            ((b \in view[u] \ table /\ u \in members[b])
                 ~> (b \notin view[u] \ table \/ Excused(u, b)))
=============================================================================
