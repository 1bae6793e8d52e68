------------------------------- MODULE Friends -------------------------------
(***************************************************************************)
(* Friendships and how friends hear of them and of each other: the         *)
(* handlers Add_friend, Delete_friend, User_inf and                        *)
(* Update_user_lastModified of iShare_user.cc, and what Reset_userInfo of  *)
(* iShare_setting.cc does once it has the new name, one SQL statement at a *)
(* time.                                                                   *)
(*                                                                         *)
(* A change is announced through the column synchronism_friend of the      *)
(* users concerned.  Their clients call User_inf, which reads the          *)
(* friendships, then each friend's name and date, clears the column and    *)
(* only then answers.  The history variable excused collects the news      *)
(* whose loss has one of the known reasons; raced the friendships that     *)
(* two handlers added at the same time.                                    *)
(*                                                                         *)
(* Delete_friend also sets synchronism_delete, the column BillNews models. *)
(***************************************************************************)
EXTENDS Integers, FiniteSets

CONSTANTS Users,     \* rows of table User
          Threads,   \* handler threads
          MaxCalls,  \* bound: calls of handlers
          Faults     \* statements fail, answers are lost, the process crashes

ASSUME CallsAssumption == MaxCalls \in Nat
ASSUME ThreadsAssumption == IsFiniteSet(Threads) /\ Threads # {}
ASSUME FaultsAssumption == Faults \in BOOLEAN

VARIABLES
    rows,    \* rows[p]: how many rows of Friends hold the pair p, in any order
    version, \* version[u]: changes of u's username and last_modified
    flag,    \* flag[u]: synchronism_friend is 1
    view,    \* view[u]: the friends u's client shows, each with a version
    pc,      \* pc[t]: the next statement of t's handler, or "idle"
    who,     \* who[t]: the users t's handler is about
    todo,    \* todo[t]: friends that t has listed and not treated yet
    reply,   \* reply[t]: what t's User_inf is going to answer
    calls,   \* calls made so far
    raced,   \* pairs that two handlers found not to be friends
    excused  \* <<u, f>>: u may not hear of f, for a reason named below

tableVars == <<rows, version>>
threadVars == <<pc, who, todo, reply>>
histVars == <<raced, excused>>
vars == <<tableVars, flag, view, threadVars, calls, histVars>>

Pairs == {{u, v} : u, v \in Users} \ {{u} : u \in Users}
Details == Users \X (0..MaxCalls)

TypeOK ==
    /\ rows \in [Pairs -> 0..Cardinality(Threads)]
    /\ version \in [Users -> 0..MaxCalls]
    /\ flag \in [Users -> BOOLEAN]
    /\ view \in [Users -> SUBSET Details]
    /\ pc \in [Threads -> {"idle", "insert", "flag", "list", "tell", "inf", "reply"}]
    /\ who \in [Threads -> SUBSET Users]
    /\ todo \in [Threads -> SUBSET Users]
    /\ reply \in [Threads -> SUBSET Details]
    /\ calls \in 0..MaxCalls
    /\ raced \subseteq Pairs
    /\ excused \subseteq Users \X Users

\* SELECT * FROM Friends WHERE user1_id = u OR user2_id = u
FriendsOf(u) == {f \in Users \ {u} : rows[{u, f}] > 0}

\* Any friendships, which all clients know.
Init ==
    /\ rows \in [Pairs -> 0..1]
    /\ version = [u \in Users |-> 0]
    /\ flag = [u \in Users |-> FALSE]
    /\ view = [u \in Users |-> FriendsOf(u) \X {0}]
    /\ pc = [t \in Threads |-> "idle"]
    /\ who = [t \in Threads |-> {}]
    /\ todo = [t \in Threads |-> {}]
    /\ reply = [t \in Threads |-> {}]
    /\ calls = 0
    /\ raced = {}
    /\ excused = {}

\* A client calls a handler about the users W; step is its next statement.
Call(t, W, step) ==
    /\ pc[t] = "idle"
    /\ calls < MaxCalls
    /\ calls' = calls + 1
    /\ pc' = [pc EXCEPT ![t] = step]
    /\ who' = [who EXCEPT ![t] = W]

\* The handler returns; its local variables are gone.
Return(t) ==
    /\ pc' = [pc EXCEPT ![t] = "idle"]
    /\ who' = [who EXCEPT ![t] = {}]
    /\ todo' = [todo EXCEPT ![t] = {}]
    /\ reply' = [reply EXCEPT ![t] = {}]

----------------------------------------------------------------------------
(* What a client shows is right about f if it shows f with its present      *)
(* details just when f is a friend.                                         *)

About(S, f) == {d \in S : d[1] = f}

Present(u, f) == IF f \in FriendsOf(u) THEN {<<f, version[f]>>} ELSE {}

RightIn(S, u, f) == About(S, f) = Present(u, f)

Right(u, f) == RightIn(view[u], u, f)

Readers(u) == {t \in Threads : pc[t] \in {"inf", "reply"} /\ who[t] = {u}}

\* What t has read of f, or would read now.
Reading(t, f) == reply[t] \cup ((todo[t] \cap {f}) \X {version[f]})

\* Whether the answer t has collected is, or will be, right about f.
WillBeRight(t, u, f) == RightIn(Reading(t, f), u, f)

\* Known reason: for <<u, f>>, a User_inf of u has read what f's news are about
\* before, and clears the flag after it is set.
Overtaken(A) ==
    {d \in A : \E t \in Readers(d[1]) : pc[t] = "inf" /\ ~WillBeRight(t, d[1], d[2])}

BothWays(W) == {d \in W \X W : d[1] # d[2]}

----------------------------------------------------------------------------
(* Add_friend and Delete_friend.  A failure before the INSERT, or of the     *)
(* DELETE, is answered with CANCELLED and changes nothing.                   *)

\* Mutant: the friendship is looked up in one order only, which finds none.
AddUnchecked(t, p) ==
    /\ Call(t, p, "insert")
    /\ raced' = raced
    /\ UNCHANGED <<tableVars, flag, view, todo, reply, excused>>

\* The users are found by name, and they are no friends yet.
AddCheck(t, p) ==
    /\ rows[p] = 0
    /\ Call(t, p, "insert")
    /\ raced' = IF \E s \in Threads : pc[s] = "insert" /\ who[s] = p
                THEN raced \cup {p} ELSE raced
    /\ UNCHANGED <<tableVars, flag, view, todo, reply, excused>>

AddInsert(t) ==
    /\ pc[t] = "insert"
    /\ rows' = [rows EXCEPT ![who[t]] = @ + 1]
    /\ pc' = [pc EXCEPT ![t] = "flag"]
    /\ UNCHANGED <<version, flag, view, who, todo, reply, calls, histVars>>

AddInsertFails(t) ==
    /\ Faults
    /\ pc[t] = "insert"
    /\ Return(t)
    /\ UNCHANGED <<tableVars, flag, view, calls, histVars>>

\* The connection dies during the INSERT, the DELETE or the UPDATE of the name,
\* which the database has carried out: CANCELLED, and nobody is told of it.
LostButDone(t) ==
    /\ Faults
    /\ \/ /\ pc[t] = "insert"
          /\ rows' = [rows EXCEPT ![who[t]] = @ + 1]
          /\ excused' = excused \cup BothWays(who[t])
          /\ Return(t)
          /\ UNCHANGED <<version, calls>>
       \/ /\ pc[t] = "idle" /\ calls < MaxCalls
          /\ calls' = calls + 1
          /\ \/ \E p \in Pairs : /\ rows' = [rows EXCEPT ![p] = 0]
                                 /\ excused' = excused \cup BothWays(p)
                                 /\ UNCHANGED version
             \/ \E u \in Users : /\ version' = [version EXCEPT ![u] = @ + 1]
                                 /\ excused' = excused \cup (Users \X {u})
                                 /\ UNCHANGED rows
          /\ UNCHANGED threadVars
    /\ UNCHANGED <<flag, view, raced>>

\* All rows of the pair; no row is an error for the log only.
DeleteRows(t, p) ==
    /\ Call(t, p, "flag")
    /\ rows' = [rows EXCEPT ![p] = 0]
    /\ UNCHANGED <<version, flag, view, todo, reply, histVars>>

\* UPDATE User SET synchronism_friend = 1 for both.
Flag(t) ==
    /\ pc[t] = "flag"
    /\ flag' = [u \in Users |-> flag[u] \/ u \in who[t]]
    /\ excused' = excused \cup Overtaken(BothWays(who[t]))
    /\ Return(t)
    /\ UNCHANGED <<tableVars, view, calls, raced>>

\* The UPDATE fails: OK is answered all the same.
FlagFails(t) ==
    /\ Faults
    /\ pc[t] = "flag"
    /\ excused' = excused \cup BothWays(who[t])
    /\ Return(t)
    /\ UNCHANGED <<tableVars, flag, view, calls, raced>>

----------------------------------------------------------------------------
(* Update_user_lastModified, and the second half of Reset_userInfo: change   *)
(* one's own row, list one's friends, tell each of them.                     *)

Update(t, u) ==
    /\ Call(t, {u}, "list")
    /\ version' = [version EXCEPT ![u] = @ + 1]
    /\ UNCHANGED <<rows, flag, view, todo, reply, histVars>>

\* Update_user_lastModified goes on when its UPDATE fails.
UpdateFails(t, u) ==
    /\ Faults
    /\ Call(t, {u}, "list")
    /\ UNCHANGED <<tableVars, flag, view, todo, reply, histVars>>

Listed(t) == UNION {FriendsOf(u) : u \in who[t]}

List(t) ==
    /\ pc[t] = "list"
    /\ IF Listed(t) = {}
       THEN Return(t)
       ELSE /\ pc' = [pc EXCEPT ![t] = "tell"]
            /\ todo' = [todo EXCEPT ![t] = Listed(t)]
            /\ UNCHANGED <<who, reply>>
    /\ UNCHANGED <<tableVars, flag, view, calls, histVars>>

\* Mutant: the loop over the friends ends after the first one.
TellFirst(t) ==
    /\ pc[t] = "tell"
    /\ \E f \in todo[t] :
          /\ flag' = [flag EXCEPT ![f] = TRUE]
          /\ excused' = excused \cup Overtaken({f} \X who[t])
    /\ Return(t)
    /\ UNCHANGED <<tableVars, view, calls, raced>>

\* One UPDATE a friend.
Tell(t) ==
    /\ pc[t] = "tell"
    /\ \E f \in todo[t] :
          /\ flag' = [flag EXCEPT ![f] = TRUE]
          /\ excused' = excused \cup Overtaken({f} \X who[t])
          /\ IF todo[t] = {f}
             THEN Return(t)
             ELSE /\ todo' = [todo EXCEPT ![t] = @ \ {f}]
                  /\ UNCHANGED <<pc, who, reply>>
    /\ UNCHANGED <<tableVars, view, calls, raced>>

\* The SELECT or an UPDATE fails: the friends not told yet are never told.
TellFails(t) ==
    /\ Faults
    /\ \/ pc[t] = "list" /\ excused' = excused \cup (Users \X who[t])
       \/ pc[t] = "tell" /\ excused' = excused \cup (todo[t] \X who[t])
    /\ Return(t)
    /\ UNCHANGED <<tableVars, flag, view, calls, raced>>

----------------------------------------------------------------------------
(* User_inf *)

InfSelect(t, u) ==
    /\ Call(t, {u}, "inf")
    /\ todo' = [todo EXCEPT ![t] = FriendsOf(u)]
    /\ UNCHANGED <<tableVars, flag, view, reply, histVars>>

\* SELECT username, last_modified of one friend.
InfDetails(t) ==
    /\ pc[t] = "inf"
    /\ \E f \in todo[t] :
          /\ reply' = [reply EXCEPT ![t] = @ \cup {<<f, version[f]>>}]
          /\ todo' = [todo EXCEPT ![t] = @ \ {f}]
    /\ UNCHANGED <<tableVars, flag, view, pc, who, calls, histVars>>

\* Mutant: the flag is cleared before the friends' details are read.
InfClearEarly(t) ==
    /\ pc[t] = "inf"
    /\ flag' = [u \in Users |-> flag[u] /\ u \notin who[t]]
    /\ pc' = [pc EXCEPT ![t] = "reply"]
    /\ UNCHANGED <<tableVars, view, who, todo, reply, calls, histVars>>

InfClear(t) ==
    /\ pc[t] = "inf"
    /\ todo[t] = {}
    /\ flag' = [u \in Users |-> flag[u] /\ u \notin who[t]]
    /\ pc' = [pc EXCEPT ![t] = "reply"]
    /\ UNCHANGED <<tableVars, view, who, todo, reply, calls, histVars>>

\* CANCELLED: the client is sent nothing.  The last statement, which clears the
\* flag, may be carried out before its connection dies.
InfFails(t) ==
    /\ Faults
    /\ pc[t] = "inf"
    /\ \/ UNCHANGED <<flag, excused>>
       \/ /\ todo[t] = {}
          /\ flag' = [u \in Users |-> flag[u] /\ u \notin who[t]]
          /\ excused' = excused \cup (who[t] \X Users)
    /\ Return(t)
    /\ UNCHANGED <<tableVars, view, calls, raced>>

\* Status::OK.  Known reason: another User_inf of u, which began later, was
\* answered first, so that an older answer replaces what u showed.
InfReply(t) ==
    /\ pc[t] = "reply"
    /\ view' = [u \in Users |-> IF u \in who[t] THEN reply[t] ELSE view[u]]
    /\ excused' =
          {d \in excused : d[1] \in who[t] => ~RightIn(reply[t], d[1], d[2])} \cup
          {d \in who[t] \X Users : Right(d[1], d[2]) /\ ~RightIn(reply[t], d[1], d[2])}
    /\ Return(t)
    /\ UNCHANGED <<tableVars, flag, calls, raced>>

\* The client is gone when the answer comes; the flag is cleared already.
ReplyLost(t) ==
    /\ Faults
    /\ pc[t] = "reply"
    /\ excused' = excused \cup (who[t] \X Users)
    /\ Return(t)
    /\ UNCHANGED <<tableVars, flag, view, calls, raced>>

----------------------------------------------------------------------------

\* The news that the end of handler t now would lose.
Unfinished(t) ==
    CASE pc[t] = "flag" -> BothWays(who[t])
      [] pc[t] = "list" -> Users \X who[t]
      [] pc[t] = "tell" -> todo[t] \X who[t]
      [] pc[t] = "reply" -> who[t] \X Users
      [] OTHER -> {}

\* The process ends between two statements; what they wrote stays.
Crash ==
    /\ Faults
    /\ \E t \in Threads : pc[t] # "idle"
    /\ excused' = excused \cup UNION {Unfinished(t) : t \in Threads}
    /\ pc' = [t \in Threads |-> "idle"]
    /\ who' = [t \in Threads |-> {}]
    /\ todo' = [t \in Threads |-> {}]
    /\ reply' = [t \in Threads |-> {}]
    /\ UNCHANGED <<tableVars, flag, view, calls, raced>>

\* The bound: clients call no more.
Quiet ==
    /\ calls = MaxCalls
    /\ \A t \in Threads : pc[t] = "idle"
    /\ UNCHANGED vars

Next ==
    \/ \E t \in Threads :
          \/ \E p \in Pairs : AddCheck(t, p) \/ DeleteRows(t, p)
          \/ AddInsert(t) \/ AddInsertFails(t) \/ LostButDone(t) \/ Flag(t) \/ FlagFails(t)
          \/ \E u \in Users : Update(t, u) \/ UpdateFails(t, u) \/ InfSelect(t, u)
          \/ List(t) \/ Tell(t) \/ TellFails(t)
          \/ InfDetails(t) \/ InfClear(t) \/ InfFails(t)
          \/ InfReply(t) \/ ReplyLost(t)
    \/ Crash
    \/ Quiet

Spec == Init /\ [][Next]_vars

----------------------------------------------------------------------------
(* The inductive invariant behind FriendsHear.                               *)

\* t's handler is about to set u's flag for news of f, and u will be listed.
Telling(t, u, f) ==
    \/ pc[t] = "flag" /\ <<u, f>> \in BothWays(who[t])
    \/ pc[t] = "list" /\ f \in who[t] /\ u \in FriendsOf(f)
    \/ pc[t] = "tell" /\ f \in who[t] /\ u \in todo[t]

Coming(u, f) == \E t \in Threads : Telling(t, u, f)

AboutToShow(u, f) ==
    \E t \in Readers(u) : pc[t] = "reply" /\ RightIn(reply[t], u, f)

Heard(u, f) ==
    \/ Right(u, f) \/ flag[u] \/ Coming(u, f) \/ AboutToShow(u, f)
    \/ <<u, f>> \in excused

\* A User_inf that reads will be right about f, or more is still to come, or its
\* answer only confirms or replaces what is right already.
ReadersHear(u, f) ==
    \A t \in Readers(u) : pc[t] = "inf" =>
        \/ WillBeRight(t, u, f) \/ Right(u, f) \/ Coming(u, f)
        \/ <<u, f>> \in excused

\* Whom t's handler is about, and what its answer begins with.
HandlerKnows(t) ==
    /\ pc[t] = "idle" => reply[t] = {}
    /\ pc[t] \in {"insert", "flag"} => who[t] \in Pairs
    /\ pc[t] \in {"list", "tell", "inf", "reply"} => \E u \in Users : who[t] = {u}

FriendsTold ==
    /\ \A t \in Threads : HandlerKnows(t)
    /\ \A u, f \in Users : u # f => Heard(u, f) /\ ReadersHear(u, f)

FriendsInv == TypeOK /\ FriendsTold

----------------------------------------------------------------------------
(* Properties *)

\* A handler is about to set u's flag for news of f.
Announcing(u, f) == \E t \in Threads : pc[t] # "reply" /\ <<u, f>> \in Unfinished(t)

\* A user whose client is wrong about another user - it does not show a friend,
\* or one that is none any more, or an old name - is flagged, or about to be, or
\* about to get the right answer; the exceptions are the reasons in excused:
\* a statement, a handler or an answer that fails or dies on the way, a User_inf
\* that the change overtakes, and two of them answered in reverse order.
FriendsHear ==
    \A u, f \in Users : u # f =>
        \/ Right(u, f)
        \/ flag[u]
        \/ Announcing(u, f)
        \/ \E t \in Readers(u) : pc[t] = "reply" /\ RightIn(reply[t], u, f)
        \/ <<u, f>> \in excused

\* Friends has two rows of one pair only if two Add_friend both found none, one
\* before the other had inserted its own.
TwiceOnlyByRace == \A p \in Pairs : rows[p] > 1 => p \in raced
=============================================================================
