------------------------------ MODULE Accounts ------------------------------
(***************************************************************************)
(* Who owns which user name: Sign_up and Login of iShare_user.cc, and      *)
(* Reset_userInfo of iShare_setting.cc up to its UPDATE, one SQL statement *)
(* at a time.  What Reset_userInfo tells the user's friends afterwards is  *)
(* Update, List and Tell of module Friends.                                *)
(*                                                                         *)
(* Sign_up and Reset_userInfo look a name up and take it in two            *)
(* statements; Login and Sign_up find the account by its name once more    *)
(* after they have checked or created it.  No unique index on username is  *)
(* in the repository.  A SELECT without ORDER BY returns its rows in any   *)
(* order.  Every account has a password of its own.                        *)
(***************************************************************************)
EXTENDS Integers

CONSTANTS Threads,   \* handler threads
          Names,     \* user names
          MaxUsers,  \* bound: accounts ever created
          Nobody,    \* no account; no user_id in an answer
          NoAnswer,  \* CANCELLED, or no answer at all
          Faults     \* statements fail, the process crashes

ASSUME UsersAssumption == MaxUsers \in Nat \ {0}
ASSUME NobodyAssumption == {Nobody, NoAnswer} \cap (1..MaxUsers \cup Names) = {} /\ Nobody # NoAnswer
ASSUME FaultsAssumption == Faults \in BOOLEAN

VARIABLES
    name,      \* name[u]: username of the row u of table User, or Nobody
    nextId,    \* AUTO_INCREMENT of User
    pc,        \* pc[t]: the next statement of t's handler, or "idle"
    want,      \* want[t]: the user name in t's request
    owner,     \* owner[t]: the account t's handler created, changes or checked
    answer,    \* answer[t]: the user_id t's handler sent, until its next call
    raced,     \* names two handlers found free at the same time
    disturbed  \* handlers whose name changed hands between two statements

tableVars == <<name, nextId>>
threadVars == <<pc, want, owner, answer>>
histVars == <<raced, disturbed>>
vars == <<tableVars, threadVars, histVars>>

Ids == 1..MaxUsers
Accounts == {u \in Ids : name[u] # Nobody}
Answers == Ids \cup {Nobody, NoAnswer}

TypeOK ==
    /\ name \in [Ids -> Names \cup {Nobody}]
    /\ nextId \in 1..(MaxUsers + 1)
    /\ Accounts = 1..(nextId - 1)
    /\ pc \in [Threads -> {"idle", "sign_insert", "sign_id", "login_id", "reset_update"}]
    /\ want \in [Threads -> Names \cup {Nobody}]
    /\ owner \in [Threads -> Ids \cup {Nobody}]
    /\ answer \in [Threads -> Answers]
    /\ raced \subseteq Names
    /\ disturbed \subseteq Threads

Init ==
    /\ name = [u \in Ids |-> Nobody]
    /\ nextId = 1
    /\ pc = [t \in Threads |-> "idle"]
    /\ want = [t \in Threads |-> Nobody]
    /\ owner = [t \in Threads |-> Nobody]
    /\ answer = [t \in Threads |-> NoAnswer]
    /\ raced = {}
    /\ disturbed = {}

\* SELECT ... FROM User WHERE username = n
Holders(n) == {u \in Accounts : name[u] = n}

\* A handler between the look at a name and the statement that takes it.
Taking(t) == pc[t] \in {"sign_insert", "reset_update"}

\* A handler that has found n free, or its user's own, at this step.
FindsFree(t, n) ==
    raced' = IF \E s \in Threads \ {t} : Taking(s) /\ want[s] = n
             THEN raced \cup {n} ELSE raced

\* The account u is called n from now on: known to disturb those who are about
\* to look an account up by n or by u's last name.
Rename(u, n) ==
    /\ name' = [name EXCEPT ![u] = n]
    /\ disturbed' = disturbed \cup
           {t \in Threads : pc[t] \in {"sign_id", "login_id"} /\ want[t] \in {n, name[u]}}

\* A client calls a handler for the name n and, but for Sign_up, the account u.
Call(t, n, u, step) ==
    /\ pc[t] = "idle"
    /\ pc' = [pc EXCEPT ![t] = step]
    /\ want' = [want EXCEPT ![t] = n]
    /\ owner' = [owner EXCEPT ![t] = u]
    /\ answer' = [answer EXCEPT ![t] = NoAnswer]
    /\ disturbed' = disturbed \ {t}

\* The handler returns and sends a.
Return(t, a) ==
    /\ pc' = [pc EXCEPT ![t] = "idle"]
    /\ answer' = [answer EXCEPT ![t] = a]

----------------------------------------------------------------------------
(* Sign_up.  A name in use, or a failure before the INSERT, is answered with *)
(* CANCELLED and changes nothing.                                            *)

\* Mutant: the look at row_count is missing.
SignCheckNothing(t, n) ==
    /\ Call(t, n, Nobody, "sign_insert")
    /\ FindsFree(t, n)
    /\ UNCHANGED tableVars

SignCheck(t, n) ==
    /\ Holders(n) = {}
    /\ Call(t, n, Nobody, "sign_insert")
    /\ FindsFree(t, n)
    /\ UNCHANGED tableVars

SignInsert(t) ==
    /\ pc[t] = "sign_insert"
    /\ nextId \in Ids
    /\ Rename(nextId, want[t])
    /\ nextId' = nextId + 1
    /\ owner' = [owner EXCEPT ![t] = nextId]
    /\ pc' = [pc EXCEPT ![t] = "sign_id"]
    /\ UNCHANGED <<want, answer, raced>>

\* "Please create this account again": the row is there, or not, when the
\* connection is lost during the INSERT.  So it is when the table is full.
SignInsertFails(t) ==
    /\ pc[t] = "sign_insert"
    /\ Faults \/ nextId \notin Ids
    /\ \/ UNCHANGED <<tableVars, disturbed>>
       \/ nextId \in Ids /\ Rename(nextId, want[t]) /\ nextId' = nextId + 1
    /\ Return(t, NoAnswer)
    /\ UNCHANGED <<want, owner, raced>>

----------------------------------------------------------------------------
(* Login *)

\* The name and the password of account u are right: password is the one of the
\* first row, whatever account that is.
LoginCheck(t, n, u) ==
    /\ u \in Holders(n)
    /\ Call(t, n, u, "login_id")
    /\ UNCHANGED <<tableVars, raced>>

\* No such user, a wrong password or a failing query.
LoginRefused(t, n, u) ==
    /\ Holders(n) # {u} \/ Faults
    /\ pc[t] = "idle"
    /\ want' = [want EXCEPT ![t] = n]
    /\ owner' = [owner EXCEPT ![t] = u]
    /\ Return(t, NoAnswer)
    /\ disturbed' = disturbed \ {t}
    /\ UNCHANGED <<tableVars, raced>>

\* Mutant: the account is looked up by a name that is only like the one given.
FindIdAny(t) ==
    /\ pc[t] \in {"sign_id", "login_id"}
    /\ \E u \in Accounts : Return(t, u)
    /\ UNCHANGED <<tableVars, want, owner, histVars>>

\* SELECT user_id ... WHERE username = want[t], in Login and in Sign_up: the
\* first row's, and OK with an empty user_id when there is none any more.
FindId(t) ==
    /\ pc[t] \in {"sign_id", "login_id"}
    /\ \/ \E u \in Holders(want[t]) : Return(t, u)
       \/ Holders(want[t]) = {} /\ Return(t, Nobody)
    /\ UNCHANGED <<tableVars, want, owner, histVars>>

FindIdFails(t) ==
    /\ Faults
    /\ pc[t] \in {"sign_id", "login_id"}
    /\ Return(t, NoAnswer)
    /\ UNCHANGED <<tableVars, want, owner, histVars>>

----------------------------------------------------------------------------
(* Reset_userInfo *)

\* The name is free, or the first row that has it is the user's own.  A new name
\* makes the handler read the old one, for its message to the friends.
ResetCheck(t, u, n) ==
    /\ u \in Accounts
    /\ Holders(n) = {} \/ u \in Holders(n)
    /\ Call(t, n, u, "reset_update")
    /\ FindsFree(t, n)
    /\ UNCHANGED tableVars

\* Mutant: the user's row is created anew.
ResetInserts(t) ==
    /\ pc[t] = "reset_update"
    /\ nextId \in Ids
    /\ name' = [name EXCEPT ![owner[t]] = Nobody, ![nextId] = want[t]]
    /\ nextId' = nextId + 1
    /\ Return(t, NoAnswer)
    /\ UNCHANGED <<want, owner, histVars>>

ResetUpdate(t) ==
    /\ pc[t] = "reset_update"
    /\ Rename(owner[t], want[t])
    /\ Return(t, NoAnswer)
    /\ UNCHANGED <<nextId, want, owner, raced>>

\* As the INSERT: done or not done when the connection is lost.
ResetFails(t) ==
    /\ Faults
    /\ pc[t] = "reset_update"
    /\ UNCHANGED <<name, disturbed>> \/ Rename(owner[t], want[t])
    /\ Return(t, NoAnswer)
    /\ UNCHANGED <<nextId, want, owner, raced>>

----------------------------------------------------------------------------

\* The process ends between two statements: it crashes, or Reset_userInfo,
\* which refuses a name in use, frees the result of its SELECT a second time.
ProcessEnds ==
    /\ Faults \/ \E n \in Names : \E u \in Accounts : Holders(n) \ {u} # {}
    /\ \E t \in Threads : pc[t] # "idle"
    /\ pc' = [t \in Threads |-> "idle"]
    /\ want' = [t \in Threads |-> Nobody]
    /\ owner' = [t \in Threads |-> Nobody]
    /\ answer' = [t \in Threads |-> NoAnswer]
    /\ disturbed' = {}
    /\ UNCHANGED <<tableVars, raced>>

Next ==
    \/ \E t \in Threads, n \in Names :
          \/ SignCheck(t, n)
          \/ \E u \in Ids : LoginCheck(t, n, u) \/ LoginRefused(t, n, u)
                                \/ ResetCheck(t, u, n)
    \/ \E t \in Threads : \/ SignInsert(t) \/ SignInsertFails(t)
                          \/ FindId(t) \/ FindIdFails(t)
                          \/ ResetUpdate(t) \/ ResetFails(t)
    \/ ProcessEnds

Spec == Init /\ [][Next]_vars

----------------------------------------------------------------------------
(* Properties *)

\* Two accounts have one name only if two handlers were both between their look
\* at that name and the statement that takes it: not because a name is taken
\* while its owner changes it, nor by failures and crashes in between.
SharedOnlyByRace ==
    \A u, v \in Accounts : u # v /\ name[u] = name[v] => name[u] \in raced

\* Login and Sign_up answer the user_id of the account whose password they
\* checked or which they created, unless its name is shared or another handler
\* gave or took it between their two statements.
AnswersOwner ==
    \A t \in Threads :
        answer[t] \in Ids \cup {Nobody} =>
            answer[t] = owner[t] \/ want[t] \in raced \/ t \in disturbed
=============================================================================
