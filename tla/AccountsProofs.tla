--------------------------- MODULE AccountsProofs ---------------------------
(***************************************************************************)
(* Theorems about Accounts, for any number of handlers, names and          *)
(* accounts: two accounts have one name only after two handlers have both  *)
(* found it free, and Login and Sign_up answer with the account of their   *)
(* user but for the reasons that raced and disturbed record.               *)
(***************************************************************************)
EXTENDS Accounts, TLAPS

Steps == {"idle", "sign_insert", "sign_id", "login_id", "reset_update"}

\* A handler that has found n free, or its user's own, and is about to take it.
TakingName(t, n) == Taking(t) /\ want[t] = n

HandlersOK ==
    /\ pc \in [Threads -> Steps]
    /\ want \in [Threads -> Names \cup {Nobody}]
    /\ owner \in [Threads -> Ids \cup {Nobody}]
    /\ \A t \in Threads : Taking(t) => want[t] \in Names
    /\ \A t \in Threads : pc[t] = "reset_update" => owner[t] \in Ids

TableOK == name \in [Ids -> Names \cup {Nobody}]

\* A name that is not raced has one holder at most, and one handler at most that
\* is about to take it, who may do so: nobody else has it.
OneHolder(n) ==
    /\ \A u, v \in Holders(n) : u = v
    /\ \A s, t \in Threads : TakingName(s, n) /\ TakingName(t, n) => s = t
    /\ \A t \in Threads : TakingName(t, n) =>
          \A u \in Holders(n) : pc[t] = "reset_update" /\ u = owner[t]

NameInv ==
    /\ HandlersOK
    /\ TableOK
    /\ \A n \in Names : n \notin raced => OneHolder(n)

----------------------------------------------------------------------------

\* A step that names no account and lets no handler begin to.
LEMMA NoNewName ==
    ASSUME NameInv, HandlersOK', name' = name, raced \subseteq raced',
           \A t \in Threads : Taking(t)' =>
               pc'[t] = pc[t] /\ want'[t] = want[t] /\ owner'[t] = owner[t]
    PROVE  NameInv'
<1>1. TableOK'
    BY DEF NameInv, TableOK
<1>2. ASSUME NEW n \in Names, n \notin raced'
      PROVE  OneHolder(n)'
  <2>1. OneHolder(n)
      BY <1>2 DEF NameInv
  <2>2. Holders(n)' = Holders(n)
      BY DEF Holders, Accounts
  <2>3. \A t \in Threads : TakingName(t, n)' =>
            TakingName(t, n) /\ pc'[t] = pc[t] /\ owner'[t] = owner[t]
      BY DEF TakingName, Taking
  <2> QED BY <2>1, <2>2, <2>3 DEF OneHolder
<1> QED BY <1>1, <1>2 DEF NameInv

\* A handler that has looked a name up, and found it free or its user's own.
LEMMA NewTaker ==
    ASSUME NameInv, NEW t \in Threads, NEW n \in Names, NEW u \in Ids \cup {Nobody},
           NEW step \in {"sign_insert", "reset_update"},
           Holders(n) = {} \/ (step = "reset_update" /\ u \in Holders(n)),
           step = "reset_update" => u \in Ids,
           Call(t, n, u, step), FindsFree(t, n), name' = name
    PROVE  NameInv'
<1>1. /\ pc[t] = "idle"
      /\ pc' = [pc EXCEPT ![t] = step]
      /\ want' = [want EXCEPT ![t] = n]
      /\ owner' = [owner EXCEPT ![t] = u]
    BY DEF Call
<1>2. HandlersOK'
    BY <1>1 DEF NameInv, HandlersOK, Taking, Steps
<1>3. TableOK'
    BY DEF NameInv, TableOK
<1>4. raced \subseteq raced'
    BY DEF FindsFree
<1>5. /\ pc'[t] = step /\ want'[t] = n /\ owner'[t] = u
      /\ \A s \in Threads \ {t} : pc'[s] = pc[s] /\ want'[s] = want[s] /\ owner'[s] = owner[s]
    BY <1>1 DEF NameInv, HandlersOK
<1>6. \A m \in Names : Holders(m)' = Holders(m)
    BY DEF Holders, Accounts
<1>7. ASSUME NEW m \in Names, m \notin raced'
      PROVE  OneHolder(m)'
  <2>1. OneHolder(m)
      BY <1>4, <1>7 DEF NameInv
  <2>2. \A s \in Threads \ {t} : TakingName(s, m)' => TakingName(s, m)
      BY <1>5 DEF TakingName, Taking
  <2>3. CASE m = n
    <3>1. \A s \in Threads \ {t} : ~TakingName(s, n)
        BY <1>7, <2>3 DEF FindsFree, TakingName
    <3>2. \A s \in Threads : TakingName(s, n)' => s = t
        BY <2>2, <2>3, <3>1
    <3>3. \A v \in Holders(n)' : pc'[t] = "reset_update" /\ v = owner'[t]
        BY <1>5, <1>6, <2>1, <2>3 DEF OneHolder
    <3> QED BY <1>6, <2>1, <2>3, <3>2, <3>3 DEF OneHolder
  <2>4. CASE m # n
    <3>1. ~TakingName(t, m)'
        BY <1>5, <2>4 DEF TakingName
    <3>2. \A s \in Threads : TakingName(s, m)' => s # t /\ TakingName(s, m)
        BY <2>2, <3>1
    <3> QED BY <1>5, <1>6, <2>1, <3>2 DEF OneHolder
  <2> QED BY <2>3, <2>4
<1> QED BY <1>2, <1>3, <1>7 DEF NameInv

\* t's handler takes its name for the account x and goes on to another step.
LEMMA TakeName ==
    ASSUME NameInv, HandlersOK', NEW t \in Threads, Taking(t), NEW x \in Ids,
           pc[t] = "reset_update" => x = owner[t],
           name' = [name EXCEPT ![x] = want[t]],
           ~Taking(t)',
           \A s \in Threads \ {t} :
               pc'[s] = pc[s] /\ want'[s] = want[s] /\ owner'[s] = owner[s],
           raced' = raced
    PROVE  NameInv'
<1>1. want[t] \in Names
    BY DEF NameInv, HandlersOK
<1>2. TableOK'
    BY <1>1 DEF NameInv, TableOK
<1>3. \A n \in Names : Nobody # n
    BY NobodyAssumption
<1>4. \A v \in Ids : name'[v] = IF v = x THEN want[t] ELSE name[v]
    BY DEF NameInv, TableOK
<1>5. ASSUME NEW n \in Names, n \notin raced'
      PROVE  OneHolder(n)'
  <2>1. OneHolder(n)
      BY <1>5 DEF NameInv
  <2>2. \A s \in Threads : TakingName(s, n)' =>
            s # t /\ TakingName(s, n) /\ pc'[s] = pc[s] /\ owner'[s] = owner[s]
      BY DEF TakingName, Taking
  <2>3. CASE want[t] = n
    <3>1. TakingName(t, n)
        BY <2>3 DEF TakingName
    <3>2. \A s \in Threads : ~TakingName(s, n)'
        BY <2>1, <2>2, <3>1 DEF OneHolder
    <3>3. \A v \in Holders(n) : v = x
        BY <2>1, <3>1 DEF OneHolder
    <3>4. \A v \in Holders(n)' : v = x \/ v \in Holders(n)
        BY <1>3, <1>4 DEF Holders, Accounts
    <3> QED BY <3>2, <3>3, <3>4 DEF OneHolder
  <2>4. CASE want[t] # n
    <3>1. \A v \in Holders(n)' : v \in Holders(n)
        BY <1>3, <1>4, <2>4 DEF Holders, Accounts
    <3> QED BY <2>1, <2>2, <3>1 DEF OneHolder
  <2> QED BY <2>3, <2>4
<1> QED BY <1>2, <1>5 DEF NameInv

----------------------------------------------------------------------------

\* The server starts with empty tables and no handler.
LEMMA InitNameInv == Init => NameInv
<1> SUFFICES ASSUME Init PROVE NameInv
    OBVIOUS
<1>1. HandlersOK
    BY DEF Init, HandlersOK, Taking, Steps
<1>2. TableOK
    BY DEF Init, TableOK
<1>3. \A n \in Names : Holders(n) = {}
    BY DEF Init, Holders, Accounts
<1>4. \A t \in Threads : ~Taking(t)
    BY DEF Init, Taking
<1> QED BY <1>1, <1>2, <1>3, <1>4 DEF NameInv, OneHolder, TakingName

\* Every statement of every handler, and the end of the process, preserves the
\* inductive invariant.
LEMMA NextNameInv == NameInv /\ [Next]_vars => NameInv'
<1> SUFFICES ASSUME NameInv, [Next]_vars PROVE NameInv'
    OBVIOUS
<1> HandlersOK
    BY DEF NameInv
<1>1. ASSUME NEW t \in Threads, NEW n \in Names, SignCheck(t, n)
      PROVE  NameInv'
  <2>1. Call(t, n, Nobody, "sign_insert") /\ FindsFree(t, n) /\ Holders(n) = {} /\ name' = name
      BY <1>1 DEF SignCheck, tableVars
  <2> QED BY <2>1, NewTaker
<1>2. ASSUME NEW t \in Threads, NEW n \in Names, NEW u \in Ids, ResetCheck(t, u, n)
      PROVE  NameInv'
  <2>1. /\ Call(t, n, u, "reset_update") /\ FindsFree(t, n) /\ name' = name
        /\ Holders(n) = {} \/ u \in Holders(n)
      BY <1>2 DEF ResetCheck, tableVars
  <2> QED BY <2>1, NewTaker
<1>3. ASSUME NEW t \in Threads, NEW n \in Names, NEW u \in Ids,
             LoginCheck(t, n, u) \/ LoginRefused(t, n, u)
      PROVE  NameInv'
  <2>1. /\ name' = name /\ raced' = raced
        /\ want' = [want EXCEPT ![t] = n] /\ owner' = [owner EXCEPT ![t] = u]
        /\ pc' = [pc EXCEPT ![t] = "login_id"] \/ pc' = [pc EXCEPT ![t] = "idle"]
      BY <1>3 DEF LoginCheck, LoginRefused, Call, Return, tableVars
  <2>2. \A s \in Threads : Taking(s)' =>
            pc'[s] = pc[s] /\ want'[s] = want[s] /\ owner'[s] = owner[s]
      BY <2>1 DEF HandlersOK, Taking
  <2>3. HandlersOK'
      BY <2>1 DEF HandlersOK, Taking, Steps
  <2> QED BY <2>1, <2>2, <2>3, NoNewName
<1>4. ASSUME NEW t \in Threads, SignInsert(t)
      PROVE  NameInv'
  <2>1. /\ pc[t] = "sign_insert" /\ nextId \in Ids /\ raced' = raced
        /\ name' = [name EXCEPT ![nextId] = want[t]]
        /\ pc' = [pc EXCEPT ![t] = "sign_id"] /\ want' = want
        /\ owner' = [owner EXCEPT ![t] = nextId]
      BY <1>4 DEF SignInsert, Rename
  <2>2. /\ Taking(t) /\ ~Taking(t)'
        /\ \A s \in Threads \ {t} : pc'[s] = pc[s] /\ want'[s] = want[s] /\ owner'[s] = owner[s]
      BY <2>1 DEF HandlersOK, Taking
  <2>3. HandlersOK'
      BY <2>1 DEF HandlersOK, Taking, Steps
  <2> QED BY <2>1, <2>2, <2>3, TakeName
<1>5. ASSUME NEW t \in Threads,
             SignInsertFails(t) \/ FindId(t) \/ FindIdFails(t) \/ ResetUpdate(t) \/ ResetFails(t)
      PROVE  NameInv'
  <2>1. pc' = [pc EXCEPT ![t] = "idle"] /\ want' = want /\ owner' = owner /\ raced' = raced
      BY <1>5 DEF SignInsertFails, FindId, FindIdFails, ResetUpdate, ResetFails, Return, histVars
  <2>2. /\ ~Taking(t)'
        /\ \A s \in Threads \ {t} : pc'[s] = pc[s] /\ want'[s] = want[s] /\ owner'[s] = owner[s]
      BY <2>1 DEF HandlersOK, Taking
  <2>3. HandlersOK'
      BY <2>1 DEF HandlersOK, Taking, Steps
  <2>4. CASE name' = name
      BY <2>1, <2>2, <2>3, <2>4, NoNewName
  <2>5. CASE pc[t] = "sign_insert" /\ nextId \in Ids /\ name' = [name EXCEPT ![nextId] = want[t]]
    <3>1. Taking(t)
        BY <2>5 DEF Taking
    <3> QED BY <2>1, <2>2, <2>3, <2>5, <3>1, TakeName
  <2>6. CASE pc[t] = "reset_update" /\ name' = [name EXCEPT ![owner[t]] = want[t]]
    <3>1. Taking(t) /\ owner[t] \in Ids
        BY <2>6 DEF Taking, HandlersOK
    <3> QED BY <2>1, <2>2, <2>3, <2>6, <3>1, TakeName
  <2> QED BY <1>5, <2>4, <2>5, <2>6
          DEF SignInsertFails, FindId, FindIdFails, ResetUpdate, ResetFails, Rename, tableVars
<1>6. CASE ProcessEnds
  <2>1. /\ name' = name /\ raced' = raced
        /\ pc' = [t \in Threads |-> "idle"]
        /\ want' = [t \in Threads |-> Nobody]
        /\ owner' = [t \in Threads |-> Nobody]
      BY <1>6 DEF ProcessEnds, tableVars
  <2>2. HandlersOK' /\ \A t \in Threads : ~Taking(t)'
      BY <2>1 DEF HandlersOK, Taking, Steps
  <2> QED BY <2>1, <2>2, NoNewName
<1>7. CASE UNCHANGED vars
  <2>1. name' = name /\ raced' = raced /\ pc' = pc /\ want' = want /\ owner' = owner
      BY <1>7 DEF vars, tableVars, threadVars, histVars
  <2>2. HandlersOK'
      BY <2>1 DEF HandlersOK, Taking
  <2> QED BY <2>1, <2>2, NoNewName
<1> QED BY <1>1, <1>2, <1>3, <1>4, <1>5, <1>6, <1>7 DEF Next

\* A shared name comes from a race of two handlers that found it free, and from
\* nothing else: SharedOnlyByRace for all handlers, names and accounts.
THEOREM NamesUnique == Spec => []SharedOnlyByRace
<1>1. NameInv => SharedOnlyByRace
  <2> SUFFICES ASSUME NameInv, NEW u \in Accounts, NEW v \in Accounts,
                      u # v, name[u] = name[v], name[u] \notin raced
               PROVE  FALSE
      BY DEF SharedOnlyByRace
  <2>1. name[u] \in Names
      BY DEF NameInv, TableOK, Accounts
  <2>2. OneHolder(name[u])
      BY <2>1 DEF NameInv
  <2> QED BY <2>2 DEF OneHolder, Holders
<1> QED BY <1>1, InitNameInv, NextNameInv, PTL DEF Spec

----------------------------------------------------------------------------
(* Types, and whose user_id is answered *)

\* What a handler remembers: a name, no answer before its last step, an account
\* that is there, and who holds the name it will look up.
Remembers(t) ==
    /\ pc[t] # "idle" => want[t] \in Names /\ answer[t] = NoAnswer
    /\ pc[t] = "reset_update" => owner[t] \in Accounts
    /\ pc[t] \in {"sign_id", "login_id"} => owner[t] \in Holders(want[t]) \/ t \in disturbed

AnswerInv == TypeOK /\ AnswersOwner /\ \A t \in Threads : Remembers(t)

\* An account gets a name, its first or another one: whoever relied on its last
\* name, or on the new one, is disturbed.
LEMMA Renamed ==
    ASSUME AnswerInv, NEW u \in Ids, NEW n \in Names, Rename(u, n)
    PROVE  /\ name' \in [Ids -> Names \cup {Nobody}]
           /\ Accounts' = Accounts \cup {u}
           /\ disturbed \subseteq disturbed' /\ disturbed' \subseteq Threads
           /\ \A t \in Threads : \A w :
                 w = want[t] /\ pc[t] \in {"sign_id", "login_id"} =>
                     owner[t] \in Holders(w)' \/ t \in disturbed'
           /\ u \in Holders(n)'
<1>1. n # Nobody /\ name' = [name EXCEPT ![u] = n] /\ name \in [Ids -> Names \cup {Nobody}]
    BY NobodyAssumption DEF Rename, AnswerInv, TypeOK
<1>2. /\ name' \in [Ids -> Names \cup {Nobody}]
      /\ name'[u] = n /\ \A v \in Ids \ {u} : name'[v] = name[v]
    BY <1>1
<1>3. Accounts' = Accounts \cup {u}
    BY <1>1, <1>2 DEF Accounts
<1>4. disturbed' = disturbed \cup
         {t \in Threads : pc[t] \in {"sign_id", "login_id"} /\ want[t] \in {n, name[u]}}
    BY DEF Rename
<1>5. disturbed \subseteq disturbed' /\ disturbed' \subseteq Threads
    BY <1>4 DEF AnswerInv, TypeOK
<1>6. ASSUME NEW t \in Threads, NEW w, w = want[t],
             pc[t] \in {"sign_id", "login_id"}, t \notin disturbed'
      PROVE  owner[t] \in Holders(w)'
  <2>1. owner[t] \in Holders(w) /\ w # name[u]
      BY <1>4, <1>6 DEF AnswerInv, Remembers
  <2>2. owner[t] # u /\ owner[t] \in Accounts /\ name[owner[t]] = w
      BY <2>1 DEF Holders
  <2> QED BY <1>2, <1>3, <2>2 DEF Holders, Accounts
<1> QED BY <1>2, <1>3, <1>5, <1>6 DEF Holders

\* A step of t's handler that gives no account a name: what the others remember
\* and have answered stays right.
LEMMA OthersRemember ==
    ASSUME AnswerInv, NEW t \in Threads,
           \A s \in Threads \ {t} : /\ pc'[s] = pc[s] /\ want'[s] = want[s]
                                     /\ owner'[s] = owner[s] /\ answer'[s] = answer[s],
           raced \subseteq raced', Accounts \subseteq Accounts',
           \A s \in Threads \ {t} : s \in disturbed => s \in disturbed',
           \A s \in Threads \ {t} : \A w :
               w = want[s] /\ pc[s] \in {"sign_id", "login_id"} =>
                   owner[s] \in Holders(w)' \/ s \in disturbed'
    PROVE  \A s \in Threads \ {t} :
               /\ Remembers(s)'
               /\ answer'[s] \in Ids \cup {Nobody} =>
                     answer'[s] = owner'[s] \/ want'[s] \in raced' \/ s \in disturbed'
<1> SUFFICES ASSUME NEW s \in Threads \ {t}
             PROVE  /\ Remembers(s)'
                    /\ answer'[s] \in Ids \cup {Nobody} =>
                          answer'[s] = owner'[s] \/ want'[s] \in raced' \/ s \in disturbed'
    OBVIOUS
<1>1. answer'[s] \in Ids \cup {Nobody} =>
         answer'[s] = owner'[s] \/ want'[s] \in raced' \/ s \in disturbed'
    BY DEF AnswerInv, AnswersOwner
<1>2. pc'[s] \in {"sign_id", "login_id"} => owner'[s] \in Holders(want[s])' \/ s \in disturbed'
  <2>1. PICK w : w = want[s] /\ w = want'[s]
      OBVIOUS
  <2>2. pc[s] \in {"sign_id", "login_id"} => owner[s] \in Holders(w)' \/ s \in disturbed'
      BY <2>1
  <2> QED BY <2>1, <2>2 DEF Holders
<1>3. /\ pc'[s] # "idle" => want'[s] \in Names /\ answer'[s] = NoAnswer
      /\ pc'[s] = "reset_update" => owner'[s] \in Accounts'
    BY DEF AnswerInv, Remembers
<1> QED BY <1>1, <1>2, <1>3 DEF Remembers

\* A client's call: what the handler answered before is forgotten, and it holds
\* the name it was checked for.
LEMMA CallAnswers ==
    ASSUME AnswerInv, NEW t \in Threads, NEW n \in Names, NEW u \in Ids,
           SignCheck(t, n) \/ LoginCheck(t, n, u) \/ LoginRefused(t, n, u) \/ ResetCheck(t, u, n)
    PROVE  AnswerInv'
<1>1. /\ UNCHANGED <<name, nextId>>
      /\ disturbed' = disturbed \ {t}
      /\ want' = [want EXCEPT ![t] = n] /\ answer' = [answer EXCEPT ![t] = NoAnswer]
      /\ raced' \in {raced, raced \cup {n}}
    BY DEF SignCheck, LoginCheck, LoginRefused, ResetCheck, Call, Return, FindsFree, tableVars
<1>2. \E a \in Ids \cup {Nobody}, step \in {"idle", "sign_insert", "login_id", "reset_update"} :
         /\ pc' = [pc EXCEPT ![t] = step] /\ owner' = [owner EXCEPT ![t] = a]
         /\ step = "reset_update" => a \in Accounts
         /\ step = "login_id" => a \in Holders(n)
    BY DEF SignCheck, LoginCheck, LoginRefused, ResetCheck, Call, Return
<1>3. PICK a \in Ids \cup {Nobody}, step \in {"idle", "sign_insert", "login_id", "reset_update"} :
         /\ pc' = [pc EXCEPT ![t] = step] /\ owner' = [owner EXCEPT ![t] = a]
         /\ step = "reset_update" => a \in Accounts
         /\ step = "login_id" => a \in Holders(n)
    BY <1>2
<1>4. Accounts' = Accounts /\ \A m : Holders(m)' = Holders(m)
    BY <1>1 DEF Accounts, Holders
<1>5. TypeOK'
    BY <1>1, <1>3, <1>4 DEF AnswerInv, TypeOK, Answers
<1>6. \A s \in Threads \ {t} : /\ pc'[s] = pc[s] /\ want'[s] = want[s]
                                /\ owner'[s] = owner[s] /\ answer'[s] = answer[s]
    BY <1>1, <1>3 DEF AnswerInv, TypeOK
<1>7. \A s \in Threads \ {t} :
         /\ Remembers(s)'
         /\ answer'[s] \in Ids \cup {Nobody} =>
               answer'[s] = owner'[s] \/ want'[s] \in raced' \/ s \in disturbed'
  <2>1. \A s \in Threads \ {t} : \A w : w = want[s] /\ pc[s] \in {"sign_id", "login_id"} =>
            owner[s] \in Holders(w)' \/ s \in disturbed'
      BY <1>1, <1>4 DEF AnswerInv, Remembers
  <2> QED BY <1>1, <1>4, <1>6, <2>1, OthersRemember
<1>8. pc'[t] = step /\ want'[t] = n /\ owner'[t] = a /\ answer'[t] = NoAnswer
    BY <1>1, <1>3 DEF AnswerInv, TypeOK
<1>9. Remembers(t)'
    BY <1>1, <1>3, <1>4, <1>8 DEF Remembers, Holders
<1>10. AnswersOwner'
  <2>1. answer'[t] \notin Ids \cup {Nobody}
      BY <1>8, NobodyAssumption DEF Ids
  <2> QED BY <1>7, <2>1 DEF AnswersOwner
<1> QED BY <1>5, <1>7, <1>9, <1>10 DEF AnswerInv

\* An account is created or renamed, and the handler goes on or returns nothing.
LEMMA NameAnswers ==
    ASSUME AnswerInv, NEW t \in Threads,
           SignInsert(t) \/ SignInsertFails(t) \/ ResetUpdate(t) \/ ResetFails(t)
    PROVE  AnswerInv'
<1> TypeOK
    BY DEF AnswerInv
<1> PICK n : n = want[t]
    OBVIOUS
<1>1. /\ pc[t] \in {"sign_insert", "reset_update"}
      /\ UNCHANGED <<want, raced>>
      /\ answer' = [answer EXCEPT ![t] = NoAnswer] \/ answer' = answer
    BY DEF SignInsert, SignInsertFails, ResetUpdate, ResetFails, Return
<1>2. /\ n \in Names /\ answer[t] = NoAnswer
      /\ pc[t] = "reset_update" => owner[t] \in Accounts
    BY <1>1 DEF AnswerInv, Remembers
<1>3. /\ answer'[t] = NoAnswer /\ answer' \in [Threads -> Answers]
      /\ \A s \in Threads \ {t} : answer'[s] = answer[s]
    BY <1>1, <1>2 DEF TypeOK, Answers
<1>4. \/ pc' = [pc EXCEPT ![t] = "idle"] /\ owner' = owner
      \/ /\ pc' = [pc EXCEPT ![t] = "sign_id"] /\ nextId \in Ids
         /\ owner' = [owner EXCEPT ![t] = nextId] /\ Rename(nextId, n)
    BY DEF SignInsert, SignInsertFails, ResetUpdate, ResetFails, Return
<1>5. \/ UNCHANGED <<name, nextId, disturbed>>
      \/ nextId \in Ids /\ Rename(nextId, n) /\ nextId' = nextId + 1
      \/ pc[t] = "reset_update" /\ Rename(owner[t], n) /\ nextId' = nextId
    BY DEF SignInsert, SignInsertFails, ResetUpdate, ResetFails, tableVars
<1>6. /\ name' \in [Ids -> Names \cup {Nobody}]
      /\ nextId' \in 1..(MaxUsers + 1) /\ Accounts' = 1..(nextId' - 1)
      /\ Accounts \subseteq Accounts' /\ disturbed \subseteq disturbed' /\ disturbed' \subseteq Threads
      /\ \A s \in Threads : \A w : w = want[s] /\ pc[s] \in {"sign_id", "login_id"} =>
            owner[s] \in Holders(w)' \/ s \in disturbed'
  <2>1. CASE UNCHANGED <<name, nextId, disturbed>>
    <3>1. Accounts' = Accounts /\ \A m : Holders(m)' = Holders(m)
        BY <2>1 DEF Accounts, Holders
    <3> QED BY <2>1, <3>1 DEF TypeOK, AnswerInv, Remembers
  <2>2. CASE nextId \in Ids /\ Rename(nextId, n) /\ nextId' = nextId + 1
    <3>1. nextId + 1 \in 1..(MaxUsers + 1) /\ 1..(nextId - 1) \cup {nextId} = 1..(nextId + 1 - 1)
        BY <2>2, UsersAssumption DEF Ids
    <3>2. /\ name' \in [Ids -> Names \cup {Nobody}]
          /\ Accounts' = Accounts \cup {nextId}
          /\ disturbed \subseteq disturbed' /\ disturbed' \subseteq Threads
          /\ \A s \in Threads : \A w : w = want[s] /\ pc[s] \in {"sign_id", "login_id"} =>
                owner[s] \in Holders(w)' \/ s \in disturbed'
        BY <1>2, <2>2, Renamed
    <3>3. nextId' = nextId + 1 /\ Accounts = 1..(nextId - 1)
        BY <2>2 DEF TypeOK
    <3>4. Accounts' = 1..(nextId' - 1) /\ nextId' \in 1..(MaxUsers + 1)
      <4> PICK k : k = nextId
          OBVIOUS
      <4>1. Accounts = 1..(k - 1) /\ Accounts' = Accounts \cup {k}
          BY <3>2, <3>3
      <4>2. 1..(k - 1) \cup {k} = 1..(k + 1 - 1) /\ k + 1 \in 1..(MaxUsers + 1)
          BY <3>1
      <4>3. Accounts' = 1..(k + 1 - 1)
          BY <4>1, <4>2, Zenon
      <4>4. nextId' = k + 1
          BY <3>3
      <4>5. ASSUME NEW m \in Int, m = k + 1
            PROVE  Accounts' = 1..(m - 1) /\ m \in 1..(MaxUsers + 1)
          BY <4>2, <4>3, <4>5
      <4>6. k + 1 \in Int
          BY UsersAssumption, <2>2 DEF Ids
      <4> QED BY <4>4, <4>5, <4>6
    <3> QED BY <3>2, <3>4
  <2>3. CASE pc[t] = "reset_update" /\ Rename(owner[t], n) /\ nextId' = nextId
    <3>1. owner[t] \in Ids /\ owner[t] \in Accounts
        BY <1>2, <2>3 DEF Accounts
    <3> QED BY <1>2, <2>3, <3>1, Renamed DEF TypeOK
  <2> QED BY <1>5, <2>1, <2>2, <2>3
<1>7. TypeOK'
    BY <1>1, <1>3, <1>4, <1>6 DEF TypeOK
<1>8. \A s \in Threads \ {t} : /\ pc'[s] = pc[s] /\ want'[s] = want[s]
                                /\ owner'[s] = owner[s] /\ answer'[s] = answer[s]
    BY <1>1, <1>3, <1>4 DEF TypeOK
<1>9. \A s \in Threads \ {t} :
         /\ Remembers(s)'
         /\ answer'[s] \in Ids \cup {Nobody} =>
               answer'[s] = owner'[s] \/ want'[s] \in raced' \/ s \in disturbed'
    BY <1>1, <1>6, <1>8, OthersRemember
<1>10. Remembers(t)'
  <2>1. CASE pc' = [pc EXCEPT ![t] = "idle"]
      BY <2>1 DEF TypeOK, Remembers
  <2>2. CASE /\ pc' = [pc EXCEPT ![t] = "sign_id"] /\ nextId \in Ids
             /\ owner' = [owner EXCEPT ![t] = nextId] /\ Rename(nextId, n)
    <3>1. pc'[t] = "sign_id" /\ owner'[t] = nextId /\ want'[t] = n
        BY <1>1, <2>2 DEF TypeOK
    <3>2. \A x : x = nextId => x \in Holders(n)'
        BY <1>2, <2>2, Renamed
    <3> QED BY <1>2, <1>3, <3>1, <3>2 DEF Remembers, Holders
  <2> QED BY <1>4, <2>1, <2>2
<1>11. AnswersOwner'
  <2>1. answer'[t] \notin Ids \cup {Nobody}
      BY <1>3, NobodyAssumption DEF Ids
  <2> QED BY <1>9, <2>1 DEF AnswersOwner
<1> QED BY <1>7, <1>9, <1>10, <1>11 DEF AnswerInv

\* The user_id is looked up by the name: a name that is not raced has one holder,
\* which is the account that was checked, unless the handler is disturbed.
LEMMA FindAnswers ==
    ASSUME AnswerInv, NameInv, NEW t \in Threads, FindId(t) \/ FindIdFails(t)
    PROVE  AnswerInv'
<1> TypeOK
    BY DEF AnswerInv
<1>1. /\ pc[t] \in {"sign_id", "login_id"} /\ pc' = [pc EXCEPT ![t] = "idle"]
      /\ UNCHANGED <<name, nextId, want, owner, raced, disturbed>>
    BY DEF FindId, FindIdFails, Return, tableVars, histVars
<1>2. PICK a : /\ answer' = [answer EXCEPT ![t] = a]
               /\ a = NoAnswer \/ a \in Holders(want[t]) \/ (a = Nobody /\ Holders(want[t]) = {})
    BY DEF FindId, FindIdFails, Return
<1>3. a \in Answers
    BY <1>2 DEF Answers, Holders, Accounts
<1>4. Accounts' = Accounts /\ \A m : Holders(m)' = Holders(m)
    BY <1>1 DEF Accounts, Holders
<1>5. TypeOK'
    BY <1>1, <1>2, <1>3, <1>4 DEF TypeOK
<1>6. /\ pc'[t] = "idle" /\ answer'[t] = a
      /\ \A s \in Threads \ {t} : /\ pc'[s] = pc[s] /\ want'[s] = want[s]
                                  /\ owner'[s] = owner[s] /\ answer'[s] = answer[s]
    BY <1>1, <1>2 DEF TypeOK
<1>7. \A s \in Threads \ {t} :
         /\ Remembers(s)'
         /\ answer'[s] \in Ids \cup {Nobody} =>
               answer'[s] = owner'[s] \/ want'[s] \in raced' \/ s \in disturbed'
  <2>1. \A s \in Threads \ {t} : \A w : w = want[s] /\ pc[s] \in {"sign_id", "login_id"} =>
            owner[s] \in Holders(w)' \/ s \in disturbed'
      BY <1>1, <1>4 DEF AnswerInv, Remembers
  <2> QED BY <1>1, <1>4, <1>6, <2>1, OthersRemember
<1>8. Remembers(t)'
    BY <1>6 DEF Remembers
<1>9. a \in Ids \cup {Nobody} => a = owner[t] \/ want[t] \in raced \/ t \in disturbed
  <2> SUFFICES ASSUME a \in Ids \cup {Nobody}, want[t] \notin raced, t \notin disturbed
               PROVE  a = owner[t]
      OBVIOUS
  <2>1. a # NoAnswer
      BY NobodyAssumption DEF Ids
  <2>2. want[t] \in Names /\ owner[t] \in Holders(want[t])
      BY <1>1 DEF AnswerInv, Remembers
  <2>3. OneHolder(want[t])
      BY <2>2 DEF NameInv
  <2> QED BY <1>2, <2>1, <2>2, <2>3 DEF OneHolder
<1>10. AnswersOwner'
    BY <1>1, <1>6, <1>7, <1>9 DEF AnswersOwner
<1> QED BY <1>5, <1>7, <1>8, <1>10 DEF AnswerInv

\* No handler and no account at first.
LEMMA InitAnswerInv == Init => AnswerInv
<1> SUFFICES ASSUME Init PROVE AnswerInv
    OBVIOUS
<1> USE DEF Init
<1>1. Accounts = {} /\ 1..(nextId - 1) = {} /\ nextId \in 1..(MaxUsers + 1)
    BY UsersAssumption DEF Accounts
<1>2. TypeOK
    BY <1>1 DEF TypeOK, Answers
<1>3. AnswersOwner /\ \A t \in Threads : Remembers(t)
    BY NobodyAssumption DEF AnswersOwner, Remembers, Ids
<1> QED BY <1>2, <1>3 DEF AnswerInv

\* Every step keeps what the handlers remember and have answered.
LEMMA NextAnswerInv == NameInv /\ AnswerInv /\ [Next]_vars => AnswerInv'
<1> SUFFICES ASSUME NameInv, AnswerInv, [Next]_vars PROVE AnswerInv'
    OBVIOUS
<1>1. CASE ProcessEnds
  <2>1. /\ UNCHANGED <<name, nextId, raced>> /\ disturbed' = {}
        /\ pc' = [t \in Threads |-> "idle"] /\ want' = [t \in Threads |-> Nobody]
        /\ owner' = [t \in Threads |-> Nobody] /\ answer' = [t \in Threads |-> NoAnswer]
      BY <1>1 DEF ProcessEnds, tableVars
  <2>2. TypeOK'
      BY <2>1 DEF AnswerInv, TypeOK, Accounts, Answers
  <2>3. AnswersOwner' /\ \A t \in Threads : Remembers(t)'
      BY <2>1, NobodyAssumption DEF AnswersOwner, Remembers, Ids
  <2> QED BY <2>2, <2>3 DEF AnswerInv
<1>2. CASE UNCHANGED vars
    BY <1>2 DEF vars, tableVars, threadVars, histVars, AnswerInv, TypeOK, AnswersOwner,
                Remembers, Holders, Accounts
<1>3. ASSUME NEW t \in Threads, NEW n \in Names, SignCheck(t, n)
      PROVE  AnswerInv'
  <2>1. 1 \in Ids
      BY UsersAssumption DEF Ids
  <2> QED BY <1>3, <2>1, CallAnswers
<1> QED BY <1>1, <1>2, <1>3, CallAnswers, NameAnswers, FindAnswers DEF Next

\* Both invariants together.
LEMMA BothInvariants == Spec => [](NameInv /\ AnswerInv)
<1>1. Init => NameInv /\ AnswerInv
    BY InitNameInv, InitAnswerInv
<1>2. (NameInv /\ AnswerInv) /\ [Next]_vars => (NameInv /\ AnswerInv)'
    BY NextNameInv, NextAnswerInv
<1> QED BY <1>1, <1>2, PTL DEF Spec

\* Every variable keeps its type; in particular the rows of User are the numbers
\* given out so far, whatever statements fail.
THEOREM TypeCorrect == Spec => []TypeOK
<1>1. AnswerInv => TypeOK
    BY DEF AnswerInv
<1> QED BY <1>1, BothInvariants, PTL

\* Login and Sign_up answer the user_id of the account that was checked or created,
\* unless its name is raced or changed hands between two statements.
THEOREM OwnerAnswered == Spec => []AnswersOwner
<1>1. AnswerInv => AnswersOwner
    BY DEF AnswerInv
<1> QED BY <1>1, BothInvariants, PTL
=============================================================================
