------------------------------ MODULE BillNews ------------------------------
(***************************************************************************)
(* How the users of a bill learn of it: the handlers Create_share,         *)
(* Obtain_bills and Delete_bill of iShare_bill.cc and Reset_Status of      *)
(* iShare_user.cc, one SQL statement at a time.                            *)
(*                                                                         *)
(* Handlers run in the threads of the synchronous gRPC server.  Each       *)
(* statement commits on its own: there are no transactions, and between    *)
(* two statements of one handler any other handler may run.                *)
(*                                                                         *)
(* A bill is announced through the columns synchronism_bill and            *)
(* synchronism_delete of its members' rows, which module Synchronism       *)
(* polls; a client that hears of news calls Obtain_bills.  That handler    *)
(* writes its rows to the call, whether anybody receives them or not,      *)
(* clears synchronism_bill, and returns; only then is the answer complete. *)
(*                                                                         *)
(* The history variable excused collects the news whose loss has one of    *)
(* the known reasons, so that the properties can say there is no other:    *)
(*   - the handler that announces them fails or dies on the way            *)
(*     (CreateFlagFails, DeleteFlagFails, Crash);                          *)
(*   - an Obtain_bills of the member has read before them and clears the   *)
(*     flag after them (Overtaken);                                        *)
(*   - the member asked for fewer bills than it has (ObtainSelect), or     *)
(*     calls Reset_Status while it shows a deleted bill (ResetStatus);     *)
(*   - the answer is lost when the flag is cleared already (LostWith);     *)
(*   - an older answer arrives after a newer one (Undone).                 *)
(***************************************************************************)
EXTENDS Integers, FiniteSetsExt

CONSTANTS Users,     \* rows of table User
          Threads,   \* handler threads
          MaxBills,  \* bound: bills ever created
          Limits,    \* amounts a client asks for besides "all"
          Faults     \* statements fail, answers are lost, the process crashes

ASSUME BillsAssumption == MaxBills \in Nat \ {0}
ASSUME LimitsAssumption == Limits \subseteq 1..MaxBills
ASSUME FaultsAssumption == Faults \in BOOLEAN

VARIABLES
    table,     \* ids of the rows of Bills
    nextId,    \* AUTO_INCREMENT of Bills
    members,   \* members[b]: the users in member_0..member_9 of bill b, which
               \* clients remember when the row is deleted
    paidBy,    \* paidBy[b], of a row
    newBill,   \* newBill[u]: synchronism_bill is 1
    newDelete, \* newDelete[u]: synchronism_delete is 1
    view,      \* view[u]: the bills u's client shows
    pc,        \* pc[t]: the next statement of t's handler, or "idle"
    bill,      \* bill[t]: the bill t's handler is about
    caller,    \* caller[t]: the user t's Obtain_bills answers
    limit,     \* limit[t]: how many bills it was asked for
    rows,      \* rows[t]: the bills it writes to the call
    excused    \* <<u, b>>: u's client is wrong about b, for a reason named above

tableVars == <<table, nextId, members, paidBy>>
flagVars == <<newBill, newDelete>>
threadVars == <<pc, bill, caller, limit, rows>>
vars == <<tableVars, flagVars, view, threadVars, excused>>

Bills == 1..MaxBills
NoBill == 0
All == MaxBills   \* "all" has no LIMIT clause

TypeOK ==
    /\ table \subseteq Bills
    /\ nextId \in 1..(MaxBills + 1)
    /\ members \in [Bills -> SUBSET Users]
    /\ paidBy \in [Bills -> SUBSET Users]
    /\ newBill \in [Users -> BOOLEAN]
    /\ newDelete \in [Users -> BOOLEAN]
    /\ view \in [Users -> SUBSET Bills]
    /\ pc \in [Threads -> {"idle", "flag", "flag_delete", "clear", "reply"}]
    /\ bill \in [Threads -> Bills \cup {NoBill}]
    /\ caller \in [Threads -> SUBSET Users]
    /\ limit \in [Threads -> 0..MaxBills]
    /\ rows \in [Threads -> SUBSET Bills]
    /\ excused \subseteq Users \X Bills

Init ==
    /\ table = {}
    /\ nextId = 1
    /\ members = [b \in Bills |-> {}]
    /\ paidBy = [b \in Bills |-> {}]
    /\ newBill = [u \in Users |-> FALSE]
    /\ newDelete = [u \in Users |-> FALSE]
    /\ view = [u \in Users |-> {}]
    /\ pc = [t \in Threads |-> "idle"]
    /\ bill = [t \in Threads |-> NoBill]
    /\ caller = [t \in Threads |-> {}]
    /\ limit = [t \in Threads |-> 0]
    /\ rows = [t \in Threads |-> {}]
    /\ excused = {}

\* The handler returns; its local variables are gone.
Return(t) ==
    /\ pc' = [pc EXCEPT ![t] = "idle"]
    /\ bill' = [bill EXCEPT ![t] = NoBill]
    /\ caller' = [caller EXCEPT ![t] = {}]
    /\ limit' = [limit EXCEPT ![t] = 0]
    /\ rows' = [rows EXCEPT ![t] = {}]

\* A screen with the bills S is right about b if it has b just when the table has.
RightAbout(S, b) == b \in S <=> b \in table

\* A handler is about to announce b.
InFlight(b, where) == \E t \in Threads : pc[t] = where /\ bill[t] = b

\* The news about bill b: for the members whose screens are wrong about it.
NewsOf(b) == {<<u, b>> : u \in {m \in members[b] : ~RightAbout(view[m], b)}}

----------------------------------------------------------------------------
(* Create_share.  When its INSERT fails it answers CANCELLED and has changed *)
(* nothing.                                                                  *)

CreateInsert(t, M, payer) ==
    /\ pc[t] = "idle"
    /\ nextId \in Bills
    /\ table' = table \cup {nextId}
    /\ members' = [members EXCEPT ![nextId] = M]
    /\ paidBy' = [paidBy EXCEPT ![nextId] = {payer}]
    /\ nextId' = nextId + 1
    /\ bill' = [bill EXCEPT ![t] = nextId]
    /\ pc' = [pc EXCEPT ![t] = "flag"]
    /\ UNCHANGED <<flagVars, view, caller, limit, rows, excused>>

\* Known reason: an Obtain_bills of a member has read its rows, without this
\* bill, and is about to clear the flag set here.
Overtaken(b) ==
    {p \in NewsOf(b) : \E t \in Threads :
         pc[t] = "clear" /\ p[1] \in caller[t] /\ b \notin rows[t]}

\* Then the handler reads names and device tokens, sends push messages and
\* answers OK, whether these reads work or not.
CreateFlag(t) ==
    /\ pc[t] = "flag"
    /\ newBill' = [u \in Users |-> newBill[u] \/ u \in members[bill[t]]]
    /\ excused' = excused \cup Overtaken(bill[t])
    /\ Return(t)
    /\ UNCHANGED <<tableVars, newDelete, view>>

\* The UPDATE fails: the handler answers OK all the same.
CreateFlagFails(t) ==
    /\ Faults
    /\ pc[t] = "flag"
    /\ excused' = excused \cup NewsOf(bill[t])
    /\ Return(t)
    /\ UNCHANGED <<tableVars, flagVars, view>>

----------------------------------------------------------------------------
(* Obtain_bills *)

\* Mutant: the WHERE clause asks for the payer only.
VisibleToPayer(u) == {b \in table : u \in paidBy[b]}

Visible(u) == {b \in table : u \in members[b] \cup paidBy[b]}

\* ORDER BY bill_id DESC LIMIT amount
Newest(S, amount) == {b \in S : Cardinality({c \in S : c > b}) < amount}

\* The SELECT and the loop that writes its rows.  Known reason: a limited request
\* leaves out bills that the client does not show, and clears their flag.
ObtainSelect(t, u, amount) ==
    /\ pc[t] = "idle"
    /\ LET sent == Newest(Visible(u), amount) IN
        /\ rows' = [rows EXCEPT ![t] = sent]
        /\ excused' = excused \cup ({u} \X (Visible(u) \ (sent \cup view[u])))
    /\ caller' = [caller EXCEPT ![t] = {u}]
    /\ limit' = [limit EXCEPT ![t] = amount]
    /\ pc' = [pc EXCEPT ![t] = "clear"]
    /\ UNCHANGED <<tableVars, flagVars, view, bill>>

\* Mutant: the UPDATE has no WHERE clause.
ObtainClearsEveryone(t) ==
    /\ pc[t] = "clear"
    /\ newBill' = [u \in Users |-> FALSE]
    /\ pc' = [pc EXCEPT ![t] = "reply"]
    /\ UNCHANGED <<tableVars, newDelete, view, bill, caller, limit, rows, excused>>

\* The UPDATE, whatever the writes before it returned.
ObtainClear(t) ==
    /\ pc[t] = "clear"
    /\ newBill' = [u \in Users |-> newBill[u] /\ u \notin caller[t]]
    /\ pc' = [pc EXCEPT ![t] = "reply"]
    /\ UNCHANGED <<tableVars, newDelete, view, bill, caller, limit, rows, excused>>

\* The UPDATE fails: the flag stays, the client will be told again.
ObtainClearFails(t) ==
    /\ Faults
    /\ pc[t] = "clear"
    /\ pc' = [pc EXCEPT ![t] = "reply"]
    /\ UNCHANGED <<tableVars, flagVars, view, bill, caller, limit, rows, excused>>

\* What u's client shows after t's answer: the rows of an "all" replace what it
\* showed, those of a limited request add to it.
Shown(t, u) == IF limit[t] = All THEN rows[t] ELSE view[u] \cup rows[t]

\* A member of the deleted bill b is flagged or about to be.
TellsGone(u, b) == newDelete[u] \/ InFlight(b, "flag_delete")

\* Known reason: t read before another Obtain_bills of u that was answered first,
\* or before a deletion that u has dealt with; the old answer undoes the new one.
Undone(t, u) ==
    {b \in Bills : /\ RightAbout(view[u], b) /\ ~RightAbout(Shown(t, u), b)
                   /\ b \in table \/ ~TellsGone(u, b)}

\* Status::OK ends the answer, and the client shows it.
ObtainReply(t) ==
    /\ pc[t] = "reply"
    /\ view' = [u \in Users |-> IF u \in caller[t] THEN Shown(t, u) ELSE view[u]]
    /\ excused' =
          {p \in excused : p[1] \in caller[t] => ~RightAbout(Shown(t, p[1]), p[2])} \cup
          {p \in caller[t] \X Bills : p[2] \in Undone(t, p[1])}
    /\ Return(t)
    /\ UNCHANGED <<tableVars, flagVars>>

\* Known reason: the rows that the client does not get, and no flag announces.
LostWith(t) ==
    {p \in caller[t] \X (rows[t] \cap table) : p[2] \notin view[p[1]] /\ ~newBill[p[1]]}

\* The call is broken: Write returned FALSE, which nobody looks at, or the client
\* has gone since.
ReplyLost(t) ==
    /\ Faults
    /\ pc[t] = "reply"
    /\ excused' = excused \cup LostWith(t)
    /\ Return(t)
    /\ UNCHANGED <<tableVars, flagVars, view>>

----------------------------------------------------------------------------
(* Delete_bill and Reset_Status *)

\* The client sends the bill with its members; the row may be gone already.
DeleteRow(t, b) ==
    /\ pc[t] = "idle"
    /\ b < nextId
    /\ table' = table \ {b}
    /\ paidBy' = [paidBy EXCEPT ![b] = {}]
    /\ excused' = {p \in excused : p[2] = b => b \in view[p[1]]}
    /\ bill' = [bill EXCEPT ![t] = b]
    /\ pc' = [pc EXCEPT ![t] = "flag_delete"]
    /\ UNCHANGED <<nextId, members, flagVars, view, caller, limit, rows>>

\* Mutant: a copy of Create_share's UPDATE, on the wrong column.
DeleteFlagsBill(t) ==
    /\ pc[t] = "flag_delete"
    /\ newBill' = [u \in Users |-> newBill[u] \/ u \in members[bill[t]]]
    /\ Return(t)
    /\ UNCHANGED <<tableVars, newDelete, view, excused>>

DeleteFlag(t) ==
    /\ pc[t] = "flag_delete"
    /\ newDelete' = [u \in Users |-> newDelete[u] \/ u \in members[bill[t]]]
    /\ Return(t)
    /\ UNCHANGED <<tableVars, newBill, view, excused>>

DeleteFlagFails(t) ==
    /\ Faults
    /\ pc[t] = "flag_delete"
    /\ excused' = excused \cup NewsOf(bill[t])
    /\ Return(t)
    /\ UNCHANGED <<tableVars, flagVars, view>>

\* One statement.  The client says that it has dealt with the deletions; those
\* it still shows are its own affair.
ResetStatus(u) ==
    /\ newDelete' = [newDelete EXCEPT ![u] = FALSE]
    /\ excused' = excused \cup {<<u, b>> : b \in view[u] \ table}
    /\ UNCHANGED <<tableVars, newBill, view, threadVars>>

----------------------------------------------------------------------------

\* The news that the end of handler t now would lose.
Unfinished(t) ==
    CASE pc[t] \in {"flag", "flag_delete"} -> NewsOf(bill[t])
      [] pc[t] = "reply" -> LostWith(t)
      [] OTHER -> {}

\* The process ends between two statements; what they wrote stays.
Crash ==
    /\ Faults
    /\ \E t \in Threads : pc[t] # "idle"
    /\ excused' = excused \cup UNION {Unfinished(t) : t \in Threads}
    /\ pc' = [t \in Threads |-> "idle"]
    /\ bill' = [t \in Threads |-> NoBill]
    /\ caller' = [t \in Threads |-> {}]
    /\ limit' = [t \in Threads |-> 0]
    /\ rows' = [t \in Threads |-> {}]
    /\ UNCHANGED <<tableVars, flagVars, view>>

Next ==
    \/ \E t \in Threads :
          \/ \E M \in SUBSET Users \ {{}}, payer \in Users : CreateInsert(t, M, payer)
          \/ CreateFlag(t) \/ CreateFlagFails(t)
          \/ \E u \in Users, amount \in Limits \cup {All} : ObtainSelect(t, u, amount)
          \/ ObtainClear(t) \/ ObtainClearFails(t) \/ ObtainReply(t) \/ ReplyLost(t)
          \/ \E b \in Bills : DeleteRow(t, b)
          \/ DeleteFlag(t) \/ DeleteFlagFails(t)
    \/ \E u \in Users : ResetStatus(u)
    \/ Crash

Spec == Init /\ [][Next]_vars

----------------------------------------------------------------------------
(* Properties *)

\* An answer to u that has b is under way.
AboutToShow(u, b) ==
    \E t \in Threads : pc[t] = "reply" /\ u \in caller[t] /\ b \in rows[t]

\* A member of a bill shows it, or is flagged, or is about to be, or to show it.
Informed(u, b) ==
    b \in view[u] \/ newBill[u] \/ InFlight(b, "flag") \/ AboutToShow(u, b)

\* The news of a bill are lost to a member only for the reasons in excused: a
\* handler that fails or dies between its two statements, an Obtain_bills that spans
\* both of them, a request for fewer bills than there are, an answer lost after its
\* flag was cleared, and answers in reverse order.  Not by the interleaving of
\* handlers for different users, nor by several writers, nor by a failure to clear.
OnlyKnownLosses ==
    \A b \in table : \A u \in members[b] : Informed(u, b) \/ <<u, b>> \in excused

\* A member that shows a deleted bill is flagged or about to be, with the same
\* exceptions, and but for its own Reset_Status.
OnlyKnownStaleBills ==
    \A u \in Users : \A b \in view[u] \ table :
        u \in members[b] =>
            TellsGone(u, b) \/ <<u, b>> \in excused

\* The inductive invariant behind these two.

\* The ids that were given so far; none is given to a second bill.
Created == 1..(nextId - 1)

KnowsCreated ==
    /\ table \subseteq Created
    /\ \A u \in Users : view[u] \subseteq Created
    /\ \A t \in Threads :
          /\ rows[t] \subseteq Created
          /\ pc[t] \in {"flag", "flag_delete"} => bill[t] \in Created

\* The flag that an Obtain_bills is about to clear is of no use to its user: the
\* bills that were there at its SELECT are in its answer, shown or excused, and
\* those that came later are yet to be announced, or were excused when they were.
ReaderInformed(t) ==
    pc[t] = "clear" =>
        \A u \in caller[t] : \A b \in table : u \in members[b] =>
            \/ b \in rows[t] \/ b \in view[u]
            \/ InFlight(b, "flag") \/ <<u, b>> \in excused

\* An excuse is forgotten as soon as the client is right about the bill.
ExcusedAreWrong == \A p \in excused : ~RightAbout(view[p[1]], p[2])

BillInv ==
    /\ TypeOK
    /\ KnowsCreated
    /\ \A t \in Threads : ReaderInformed(t)
    /\ ExcusedAreWrong
    /\ OnlyKnownLosses
    /\ OnlyKnownStaleBills

\* No excuse: members always hear of their bills.  iShare.proto:14 says that the
\* stream of news keeps the client in synchronism with the server.
NoBillMissed ==
    \A b \in table : \A u \in members[b] : Informed(u, b)
=============================================================================
