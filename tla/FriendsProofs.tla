---------------------------- MODULE FriendsProofs ----------------------------
(***************************************************************************)
(* Theorems about Friends, for any number of users, handlers and calls:    *)
(* table Friends has two rows of one pair only after two Add_friend have   *)
(* both found none, and a user hears of each change to a friend but for    *)
(* the reasons that excused records.                                       *)
(*                                                                         *)
(* The first rests on RowInv, the second on FriendsInv, which says what a   *)
(* User_inf on its way must still find, and on the types.                  *)
(***************************************************************************)
EXTENDS Friends, FiniteSetTheorems, TLAPS

Steps == {"idle", "insert", "flag", "list", "tell", "inf", "reply"}

\* An Add_friend of p between its look at the table and its INSERT.
Inserting(t, p) == pc[t] = "insert" /\ who[t] = p

StoreOK ==
    /\ rows \in [Pairs -> Nat]
    /\ pc \in [Threads -> Steps]
    /\ who \in [Threads -> SUBSET Users]

\* A pair that is not raced has one row at most, and none while an Add_friend,
\* the only one, is about to insert it.
OneRow(p) ==
    /\ rows[p] <= 1
    /\ \A t \in Threads : Inserting(t, p) => rows[p] = 0
    /\ \A s, t \in Threads : Inserting(s, p) /\ Inserting(t, p) => s = t

Inserters(p) == {t \in Threads : Inserting(t, p)}

\* Each row is one of a handler's, or the one that was there at first.
RowsFit(p) == rows[p] + Cardinality(Inserters(p)) <= Cardinality(Threads)

RowInv ==
    /\ StoreOK
    /\ \A p \in Pairs : p \notin raced => OneRow(p)
    /\ \A p \in Pairs : RowsFit(p)

----------------------------------------------------------------------------

LEMMA CountInserters ==
    ASSUME NEW p
    PROVE  IsFiniteSet(Inserters(p)) /\ Cardinality(Inserters(p)) \in Nat
<1>1. Inserters(p) \subseteq Threads
    BY DEF Inserters
<1> QED BY <1>1, ThreadsAssumption, FS_Subset, FS_CardinalityType

\* What is fewer fits.
LEMMA FewerFit ==
    ASSUME NEW p, RowsFit(p), rows[p] \in Nat, rows'[p] \in Nat, rows'[p] <= rows[p],
           Inserters(p)' \subseteq Inserters(p)
    PROVE  RowsFit(p)'
<1> DEFINE I == Inserters(p)
           J == Inserters(p)'
<1>1. IsFiniteSet(I) /\ Cardinality(I) \in Nat
    BY CountInserters
<1>2. IsFiniteSet(J) /\ Cardinality(J) <= Cardinality(I) /\ Cardinality(J) \in Nat
  <2> HIDE DEF I, J
  <2>1. J \subseteq I
      BY DEF I, J
  <2> QED BY <1>1, <2>1, FS_Subset, FS_CardinalityType
<1>3. Cardinality(Threads) \in Nat
    BY ThreadsAssumption, FS_CardinalityType
<1> QED BY <1>1, <1>2, <1>3 DEF RowsFit

\* A step that inserts no row and lets no handler begin to, and forgets no race.
LEMMA NoNewRow ==
    ASSUME RowInv, StoreOK', raced \subseteq raced',
           \A p \in Pairs : rows'[p] <= rows[p],
           \A t \in Threads : pc'[t] = "insert" => pc[t] = "insert" /\ who'[t] = who[t]
    PROVE  RowInv'
<1> SUFFICES ASSUME NEW p \in Pairs
             PROVE  (p \notin raced' => OneRow(p)') /\ RowsFit(p)'
    BY DEF RowInv
<1>1. rows[p] \in Nat /\ rows'[p] \in Nat /\ rows'[p] <= rows[p]
    BY DEF RowInv, StoreOK
<1>2. \A t \in Threads : Inserting(t, p)' => Inserting(t, p)
    BY DEF Inserting
<1>3. Inserters(p)' \subseteq Inserters(p)
    BY <1>2 DEF Inserters
<1>4. RowsFit(p)'
    BY <1>1, <1>3, FewerFit DEF RowInv
<1> QED BY <1>1, <1>2, <1>4 DEF RowInv, OneRow

\* Return changes the types of nothing.
LEMMA ReturnOK ==
    ASSUME StoreOK, NEW t \in Threads, Return(t)
    PROVE  /\ pc' \in [Threads -> Steps]
           /\ who' \in [Threads -> SUBSET Users]
           /\ \A s \in Threads : pc'[s] = "insert" => pc[s] = "insert" /\ who'[s] = who[s]
BY DEF StoreOK, Return, Steps

\* A call that does not begin with the INSERT.
LEMMA CallOK ==
    ASSUME StoreOK, NEW t \in Threads, NEW W \in SUBSET Users,
           NEW step \in Steps \ {"insert"}, Call(t, W, step)
    PROVE  /\ pc' \in [Threads -> Steps]
           /\ who' \in [Threads -> SUBSET Users]
           /\ \A s \in Threads : pc'[s] = "insert" => pc[s] = "insert" /\ who'[s] = who[s]
BY DEF StoreOK, Call, Steps

\* The INSERT of t's handler, after which it goes on to another step.
LEMMA InsertRow ==
    ASSUME RowInv, NEW t \in Threads, pc[t] = "insert",
           rows' = [rows EXCEPT ![who[t]] = @ + 1],
           pc' \in [Threads -> Steps], who' \in [Threads -> SUBSET Users],
           pc'[t] # "insert",
           \A s \in Threads \ {t} : pc'[s] = pc[s] /\ who'[s] = who[s],
           raced' = raced
    PROVE  RowInv'
<1>1. StoreOK'
  <2>1. rows \in [Pairs -> Nat]
      BY DEF RowInv, StoreOK
  <2>2. \A p \in Pairs : rows'[p] = IF p = who[t] THEN rows[p] + 1 ELSE rows[p]
      BY <2>1
  <2>3. \A p \in Pairs : rows'[p] \in Nat
      BY <2>1, <2>2
  <2>4. rows' = [p \in Pairs |-> rows'[p]]
      BY <2>1
  <2> QED BY <2>3, <2>4 DEF StoreOK
<1>2. ASSUME NEW p \in Pairs, p \notin raced'
      PROVE  OneRow(p)'
  <2>1. OneRow(p) /\ rows[p] \in Nat
      BY <1>2 DEF RowInv, StoreOK
  <2>2. \A s \in Threads : Inserting(s, p)' => s # t /\ Inserting(s, p)
      BY DEF Inserting
  <2>3. CASE who[t] = p
    <3>1. rows[p] = 0 /\ Inserting(t, p)
        BY <2>1, <2>3 DEF OneRow, Inserting
    <3>2. rows'[p] = 1
        BY <2>3, <3>1 DEF RowInv, StoreOK
    <3>3. \A s \in Threads : ~Inserting(s, p)'
        BY <2>1, <2>2, <3>1 DEF OneRow
    <3> QED BY <3>2, <3>3 DEF OneRow
  <2>4. CASE who[t] # p
    <3>1. rows'[p] = rows[p]
        BY <2>4 DEF RowInv, StoreOK
    <3> QED BY <2>1, <2>2, <3>1 DEF OneRow
  <2> QED BY <2>3, <2>4
<1>3. ASSUME NEW p \in Pairs
      PROVE  RowsFit(p)'
  <2>1. /\ RowsFit(p) /\ rows[p] \in Nat
        /\ rows'[p] = IF who[t] = p THEN rows[p] + 1 ELSE rows[p]
      BY DEF RowInv, StoreOK
  <2>2. Inserters(p)' = IF who[t] = p THEN Inserters(p) \ {t} ELSE Inserters(p)
      BY DEF Inserters, Inserting
  <2>3. CASE who[t] = p
    <3> DEFINE I == Inserters(p)
    <3>1. IsFiniteSet(I) /\ Cardinality(I) \in Nat /\ t \in I
        BY <2>3, CountInserters DEF Inserters, Inserting
    <3>2. Cardinality(I \ {t}) = Cardinality(I) - 1
      <4> HIDE DEF I
      <4> QED BY <3>1, FS_RemoveElement
    <3>3. Cardinality(Inserters(p)') = Cardinality(I) - 1
        BY <2>2, <2>3, <3>2
    <3>4. Cardinality(Threads) \in Nat
        BY ThreadsAssumption, FS_CardinalityType
    <3> QED BY <2>1, <2>3, <3>1, <3>3, <3>4 DEF RowsFit
  <2>4. CASE who[t] # p
      BY <2>1, <2>2, <2>4, FewerFit
  <2> QED BY <2>3, <2>4
<1> QED BY <1>1, <1>2, <1>3 DEF RowInv

\* The look at the table: another Add_friend of p makes p raced.
LEMMA CheckRow ==
    ASSUME RowInv, NEW t \in Threads, NEW p \in Pairs, AddCheck(t, p)
    PROVE  RowInv'
<1>1. /\ pc[t] = "idle" /\ rows[p] = 0
      /\ pc' = [pc EXCEPT ![t] = "insert"]
      /\ who' = [who EXCEPT ![t] = p]
      /\ rows' = rows
    BY DEF AddCheck, Call, tableVars
<1>2. StoreOK'
  <2>1. p \in SUBSET Users
      BY DEF Pairs
  <2> QED BY <1>1, <2>1 DEF RowInv, StoreOK, Steps
<1>3. ASSUME NEW q \in Pairs, q \notin raced'
      PROVE  OneRow(q)'
  <2>1. q \notin raced /\ OneRow(q)
      BY <1>3 DEF AddCheck, RowInv
  <2>2. CASE q = p
    <3>1. \A s \in Threads : ~Inserting(s, p)
        BY <1>3, <2>2 DEF AddCheck, Inserting
    <3>2. \A s \in Threads : Inserting(s, p)' => s = t
        BY <1>1, <3>1 DEF RowInv, StoreOK, Inserting
    <3> QED BY <1>1, <2>2, <3>2 DEF OneRow
  <2>3. CASE q # p
    <3>1. \A s \in Threads : Inserting(s, q)' => Inserting(s, q)
        BY <1>1, <2>3 DEF RowInv, StoreOK, Inserting
    <3> QED BY <1>1, <2>1, <3>1 DEF OneRow
  <2> QED BY <2>2, <2>3
<1>4. ASSUME NEW q \in Pairs
      PROVE  RowsFit(q)'
  <2>1. RowsFit(q) /\ rows'[q] = rows[q] /\ rows[q] \in Nat
      BY <1>1 DEF RowInv, StoreOK
  <2>2. CASE q = p
    <3> DEFINE J == Inserters(q)'
    <3>1. J \subseteq Threads
        BY DEF Inserters
    <3>2. Cardinality(J) <= Cardinality(Threads) /\ Cardinality(J) \in Nat
      <4> HIDE DEF J
      <4> QED BY <3>1, ThreadsAssumption, FS_Subset, FS_CardinalityType
    <3>3. rows'[q] = 0
        BY <1>1, <2>2
    <3> QED BY <3>2, <3>3 DEF RowsFit
  <2>3. CASE q # p
    <3>1. Inserters(q)' = Inserters(q)
        BY <1>1, <2>3 DEF RowInv, StoreOK, Inserters, Inserting
    <3> QED BY <2>1, <3>1, FewerFit
  <2> QED BY <2>2, <2>3
<1> QED BY <1>2, <1>3, <1>4 DEF RowInv

----------------------------------------------------------------------------

\* At first every pair has one row at most, and no handler runs.
LEMMA InitRowInv == Init => RowInv
<1> SUFFICES ASSUME Init PROVE RowInv
    OBVIOUS
<1>1. StoreOK
    BY DEF Init, StoreOK, Steps
<1>2. \A p \in Pairs : rows[p] <= 1
    BY DEF Init
<1>3. ASSUME NEW p \in Pairs
      PROVE  RowsFit(p)
  <2>1. rows[p] \in 0..1 /\ Inserters(p) = {}
      BY DEF Init, Inserters, Inserting
  <2>2. Cardinality(Threads) \in Nat /\ Cardinality(Threads) # 0
      BY ThreadsAssumption, FS_CardinalityType, FS_EmptySet
  <2>3. Cardinality(Inserters(p)) = 0
      BY <2>1, FS_EmptySet
  <2> QED BY <2>1, <2>2, <2>3 DEF RowsFit
<1> QED BY <1>1, <1>2, <1>3 DEF Init, RowInv, OneRow, Inserting

\* Every statement of every handler, and the end of the process, preserves the
\* inductive invariant.
LEMMA NextRowInv == RowInv /\ [Next]_vars => RowInv'
<1> SUFFICES ASSUME RowInv, [Next]_vars PROVE RowInv'
    OBVIOUS
<1> StoreOK
    BY DEF RowInv
<1>1. ASSUME NEW t \in Threads, NEW p \in Pairs, AddCheck(t, p)
      PROVE  RowInv'
    BY <1>1, CheckRow
<1>2. ASSUME NEW t \in Threads, NEW p \in Pairs, DeleteRows(t, p)
      PROVE  RowInv'
  <2>1. p \in SUBSET Users
      BY DEF Pairs
  <2>2. Call(t, p, "flag") /\ raced' = raced /\ rows' = [rows EXCEPT ![p] = 0]
      BY <1>2 DEF DeleteRows, histVars
  <2>3. "flag" \in Steps \ {"insert"}
      BY DEF Steps
  <2>4. rows' \in [Pairs -> Nat] /\ \A q \in Pairs : rows'[q] <= rows[q]
      BY <2>2 DEF StoreOK
  <2>5. /\ pc' \in [Threads -> Steps]
        /\ who' \in [Threads -> SUBSET Users]
        /\ \A s \in Threads : pc'[s] = "insert" => pc[s] = "insert" /\ who'[s] = who[s]
      BY <2>1, <2>2, <2>3, CallOK
  <2> QED BY <2>2, <2>4, <2>5, NoNewRow DEF StoreOK
<1>3. ASSUME NEW t \in Threads, AddInsert(t)
      PROVE  RowInv'
  <2>1. /\ pc[t] = "insert" /\ raced' = raced /\ who' = who
        /\ rows' = [rows EXCEPT ![who[t]] = @ + 1]
        /\ pc' = [pc EXCEPT ![t] = "flag"]
      BY <1>3 DEF AddInsert, histVars
  <2>2. pc' \in [Threads -> Steps] /\ who' \in [Threads -> SUBSET Users]
      BY <2>1 DEF StoreOK, Steps
  <2>3. pc'[t] # "insert" /\ \A s \in Threads \ {t} : pc'[s] = pc[s] /\ who'[s] = who[s]
      BY <2>1 DEF StoreOK
  <2> QED BY <2>1, <2>2, <2>3, InsertRow
<1>4. ASSUME NEW t \in Threads, LostButDone(t)
      PROVE  RowInv'
  <2>1. CASE pc[t] = "insert" /\ rows' = [rows EXCEPT ![who[t]] = @ + 1] /\ Return(t)
    <3>1. raced' = raced
        BY <1>4 DEF LostButDone
    <3>2. pc'[t] # "insert" /\ \A s \in Threads \ {t} : pc'[s] = pc[s] /\ who'[s] = who[s]
        BY <2>1 DEF Return, StoreOK
    <3>3. pc' \in [Threads -> Steps] /\ who' \in [Threads -> SUBSET Users]
        BY <2>1, ReturnOK
    <3> QED BY <2>1, <3>1, <3>2, <3>3, InsertRow
  <2>2. CASE /\ UNCHANGED threadVars
             /\ \/ \E p \in Pairs : rows' = [rows EXCEPT ![p] = 0]
                \/ rows' = rows
    <3>1. raced' = raced /\ pc' = pc /\ who' = who
        BY <1>4, <2>2 DEF LostButDone, threadVars
    <3>2. rows' \in [Pairs -> Nat] /\ \A q \in Pairs : rows'[q] <= rows[q]
        BY <2>2 DEF StoreOK
    <3> QED BY <3>1, <3>2, NoNewRow DEF StoreOK
  <2> QED BY <1>4, <2>1, <2>2 DEF LostButDone
<1>5. ASSUME NEW t \in Threads,
             AddInsertFails(t) \/ Flag(t) \/ FlagFails(t) \/ TellFails(t)
                 \/ InfFails(t) \/ InfReply(t) \/ ReplyLost(t)
      PROVE  RowInv'
  <2>1. Return(t) /\ rows' = rows /\ raced' = raced
      BY <1>5 DEF AddInsertFails, Flag, FlagFails, TellFails, InfFails, InfReply,
                  ReplyLost, tableVars, histVars
  <2>2. /\ pc' \in [Threads -> Steps]
        /\ who' \in [Threads -> SUBSET Users]
        /\ \A s \in Threads : pc'[s] = "insert" => pc[s] = "insert" /\ who'[s] = who[s]
      BY <2>1, ReturnOK
  <2> QED BY <2>1, <2>2, NoNewRow DEF StoreOK
<1>6. ASSUME NEW t \in Threads, NEW u \in Users,
             Update(t, u) \/ UpdateFails(t, u) \/ InfSelect(t, u)
      PROVE  RowInv'
  <2>1. /\ Call(t, {u}, "list") \/ Call(t, {u}, "inf")
        /\ rows' = rows /\ raced' = raced
      BY <1>6 DEF Update, UpdateFails, InfSelect, tableVars, histVars
  <2>2. {"list", "inf"} \subseteq Steps \ {"insert"} /\ {u} \in SUBSET Users
      BY DEF Steps
  <2>3. /\ pc' \in [Threads -> Steps]
        /\ who' \in [Threads -> SUBSET Users]
        /\ \A s \in Threads : pc'[s] = "insert" => pc[s] = "insert" /\ who'[s] = who[s]
      BY <2>1, <2>2, CallOK
  <2> QED BY <2>1, <2>3, NoNewRow DEF StoreOK
<1>7. ASSUME NEW t \in Threads, List(t) \/ Tell(t) \/ InfDetails(t) \/ InfClear(t)
      PROVE  RowInv'
  <2>1. rows' = rows /\ raced' = raced
      BY <1>7 DEF List, Tell, InfDetails, InfClear, tableVars, histVars
  <2>2. CASE Return(t)
    <3>1. /\ pc' \in [Threads -> Steps]
          /\ who' \in [Threads -> SUBSET Users]
          /\ \A s \in Threads : pc'[s] = "insert" => pc[s] = "insert" /\ who'[s] = who[s]
        BY <2>2, ReturnOK
    <3> QED BY <2>1, <3>1, NoNewRow DEF StoreOK
  <2>3. CASE /\ who' = who
             /\ pc' = pc \/ pc' = [pc EXCEPT ![t] = "tell"] \/ pc' = [pc EXCEPT ![t] = "reply"]
    <3>1. /\ pc' \in [Threads -> Steps]
          /\ \A s \in Threads : pc'[s] = "insert" => pc[s] = "insert"
        BY <2>3 DEF StoreOK, Steps
    <3> QED BY <2>1, <2>3, <3>1, NoNewRow DEF StoreOK
  <2> QED BY <1>7, <2>2, <2>3 DEF List, Tell, InfDetails, InfClear
<1>8. CASE Crash
  <2>1. /\ rows' = rows /\ raced' = raced
        /\ pc' = [t \in Threads |-> "idle"]
        /\ who' = [t \in Threads |-> {}]
      BY <1>8 DEF Crash, tableVars
  <2>2. StoreOK'
      BY <2>1 DEF StoreOK, Steps
  <2> QED BY <2>1, <2>2, NoNewRow DEF StoreOK
<1>9. CASE Quiet \/ UNCHANGED vars
  <2>1. rows' = rows /\ raced' = raced /\ pc' = pc /\ who' = who
      BY <1>9 DEF Quiet, vars, tableVars, threadVars, histVars
  <2> QED BY <2>1, NoNewRow DEF StoreOK
<1> QED BY <1>1, <1>2, <1>3, <1>4, <1>5, <1>6, <1>7, <1>8, <1>9 DEF Next

\* Two rows of one pair come from a race of two Add_friend, and from nothing
\* else: TwiceOnlyByRace for all users, handlers and calls.
THEOREM StoredOnce == Spec => []TwiceOnlyByRace
<1>1. RowInv => TwiceOnlyByRace
  <2> SUFFICES ASSUME RowInv, NEW p \in Pairs, rows[p] > 1
               PROVE  p \in raced
      BY DEF TwiceOnlyByRace
  <2> QED BY DEF RowInv, StoreOK, OneRow
<1> QED BY <1>1, InitRowInv, NextRowInv, PTL DEF Spec

----------------------------------------------------------------------------
(* Types, and whom the handlers are about.                                   *)

TypeInv ==
    /\ StoreOK
    /\ version \in [Users -> Nat] /\ \A u \in Users : version[u] <= calls
    /\ flag \in [Users -> BOOLEAN]
    /\ view \in [Users -> SUBSET Details]
    /\ todo \in [Threads -> SUBSET Users]
    /\ reply \in [Threads -> SUBSET Details]
    /\ calls \in 0..MaxCalls
    /\ raced \subseteq Pairs
    /\ excused \subseteq Users \X Users
    /\ \A t \in Threads : HandlerKnows(t)

SameHandler(s) ==
    pc'[s] = pc[s] /\ who'[s] = who[s] /\ todo'[s] = todo[s] /\ reply'[s] = reply[s]

\* A step of one handler leaves what the others know alone.
LEMMA OthersKnow ==
    ASSUME TypeInv, NEW t \in Threads, HandlerKnows(t)',
           \A s \in Threads \ {t} : SameHandler(s)
    PROVE  \A s \in Threads : HandlerKnows(s)'
<1>1. ASSUME NEW s \in Threads, s # t
      PROVE  HandlerKnows(s)'
    BY <1>1 DEF TypeInv, HandlerKnows, SameHandler
<1> QED BY <1>1

\* What Return leaves behind.
LEMMA Returned ==
    ASSUME TypeInv, NEW t \in Threads, Return(t)
    PROVE  /\ todo' \in [Threads -> SUBSET Users] /\ reply' \in [Threads -> SUBSET Details]
           /\ pc'[t] = "idle" /\ who'[t] = {} /\ todo'[t] = {} /\ reply'[t] = {}
           /\ \A s \in Threads \ {t} : SameHandler(s)
           /\ \A s \in Threads : HandlerKnows(s)'
<1>1. pc \in [Threads -> Steps] /\ who \in [Threads -> SUBSET Users]
    BY DEF TypeInv, StoreOK
<1>2. /\ todo' \in [Threads -> SUBSET Users] /\ reply' \in [Threads -> SUBSET Details]
      /\ pc'[t] = "idle" /\ who'[t] = {} /\ todo'[t] = {} /\ reply'[t] = {}
      /\ \A s \in Threads \ {t} : SameHandler(s)
    BY <1>1 DEF TypeInv, Return, SameHandler
<1>3. HandlerKnows(t)'
    BY <1>2 DEF HandlerKnows
<1> QED BY <1>2, <1>3, OthersKnow

\* What Call does, whatever it begins with.
LEMMA Called ==
    ASSUME TypeInv, NEW t \in Threads, NEW W \in SUBSET Users, NEW step, Call(t, W, step),
           reply' = reply, \/ todo' = todo
                           \/ \E T \in SUBSET Users : todo' = [todo EXCEPT ![t] = T]
    PROVE  /\ todo' \in [Threads -> SUBSET Users]
           /\ calls' = calls + 1 /\ calls' \in 0..MaxCalls
           /\ pc[t] = "idle" /\ pc'[t] = step /\ who'[t] = W /\ reply'[t] = {}
           /\ \A s \in Threads \ {t} : SameHandler(s)
<1>1. pc \in [Threads -> Steps] /\ who \in [Threads -> SUBSET Users]
    BY DEF TypeInv, StoreOK
<1>2. calls' = calls + 1 /\ calls' \in 0..MaxCalls
    BY CallsAssumption DEF TypeInv, Call
<1>3. HandlerKnows(t)
    BY DEF TypeInv
<1> QED BY <1>1, <1>2, <1>3 DEF TypeInv, Call, SameHandler, HandlerKnows

\* A friend of u is another user, and u is a friend of its friends.
LEMMA FriendsMutual ==
    ASSUME NEW u \in Users, NEW f \in Users
    PROVE  /\ FriendsOf(u) \subseteq Users \ {u}
           /\ f \in FriendsOf(u) <=> f # u /\ rows[{u, f}] > 0
           /\ f \in FriendsOf(u) <=> u \in FriendsOf(f)
<1>1. {u, f} = {f, u}
    OBVIOUS
<1> QED BY <1>1 DEF FriendsOf

LEMMA PairOfUsers ==
    ASSUME NEW p \in Pairs
    PROVE  p \in SUBSET Users /\ BothWays(p) \subseteq Users \X Users
BY DEF Pairs, BothWays

LEMMA InitTypeInv == Init => TypeInv
<1> SUFFICES ASSUME Init PROVE TypeInv
    OBVIOUS
<1>1. StoreOK
    BY DEF Init, StoreOK, Steps
<1>2. 0 \in 0..MaxCalls
    BY CallsAssumption
<1>3. view \in [Users -> SUBSET Details]
    BY <1>2 DEF Init, FriendsOf, Details
<1>4. \A t \in Threads : HandlerKnows(t)
    BY DEF Init, HandlerKnows
<1> QED BY <1>1, <1>2, <1>3, <1>4 DEF Init, TypeInv

\* A handler is called: it knows what the call is about.
LEMMA CallTypes ==
    ASSUME TypeInv, StoreOK', NEW t \in Threads,
           \/ \E p \in Pairs : AddCheck(t, p) \/ DeleteRows(t, p)
           \/ \E u \in Users : Update(t, u) \/ UpdateFails(t, u) \/ InfSelect(t, u)
    PROVE  TypeInv'
<1>1. /\ flag' = flag /\ view' = view /\ reply' = reply /\ excused' = excused
      /\ \/ version' = version
         \/ \E u \in Users : version' = [version EXCEPT ![u] = @ + 1]
    BY DEF AddCheck, DeleteRows, Update, UpdateFails, InfSelect, tableVars, histVars
<1>2. raced' \subseteq Pairs
    BY DEF AddCheck, DeleteRows, Update, UpdateFails, InfSelect, histVars, TypeInv
<1>3. PICK W \in SUBSET Users, step \in Steps :
         /\ Call(t, W, step)
         /\ \/ step \in {"insert", "flag"} /\ W \in Pairs
            \/ step \in {"list", "inf"} /\ \E u \in Users : W = {u}
    BY PairOfUsers DEF AddCheck, DeleteRows, Update, UpdateFails, InfSelect, Steps
<1>4. \/ todo' = todo
      \/ \E T \in SUBSET Users : todo' = [todo EXCEPT ![t] = T]
    BY FriendsMutual DEF AddCheck, DeleteRows, Update, UpdateFails, InfSelect
<1>5. /\ todo' \in [Threads -> SUBSET Users]
      /\ calls' = calls + 1 /\ calls' \in 0..MaxCalls
      /\ pc[t] = "idle" /\ pc'[t] = step /\ who'[t] = W /\ reply'[t] = {}
      /\ \A s \in Threads \ {t} : SameHandler(s)
    BY <1>1, <1>3, <1>4, Called
<1>6. HandlerKnows(t)'
    BY <1>3, <1>5 DEF HandlerKnows
<1>7. \A s \in Threads : HandlerKnows(s)'
    BY <1>5, <1>6, OthersKnow
<1>8. version' \in [Users -> Nat] /\ \A u \in Users : version'[u] <= calls'
    BY <1>1, <1>5 DEF TypeInv
<1> QED BY <1>1, <1>2, <1>5, <1>7, <1>8 DEF TypeInv

\* A handler returns.
LEMMA ReturnTypes ==
    ASSUME TypeInv, StoreOK', NEW t \in Threads, Return(t),
           \/ AddInsertFails(t) \/ Flag(t) \/ FlagFails(t) \/ TellFails(t) \/ List(t) \/ Tell(t)
           \/ InfFails(t) \/ InfReply(t) \/ ReplyLost(t)
    PROVE  TypeInv'
<1>1. /\ todo' \in [Threads -> SUBSET Users] /\ reply' \in [Threads -> SUBSET Details]
      /\ \A s \in Threads : HandlerKnows(s)'
    BY Returned
<1>2. version' = version /\ calls' = calls /\ raced' = raced
    BY DEF AddInsertFails, Flag, FlagFails, TellFails, List, Tell, InfFails, InfReply,
           ReplyLost, tableVars, histVars
<1>3. /\ who[t] \subseteq Users /\ todo[t] \subseteq Users
      /\ BothWays(who[t]) \subseteq Users \X Users /\ excused \subseteq Users \X Users
    BY DEF TypeInv, StoreOK, BothWays
<1>4. flag' \in [Users -> BOOLEAN]
  <2>1. \/ flag' = flag
        \/ flag' = [u \in Users |-> flag[u] \/ u \in who[t]]
        \/ flag' = [u \in Users |-> flag[u] /\ u \notin who[t]]
        \/ \E f \in todo[t] : flag' = [flag EXCEPT ![f] = TRUE]
      BY DEF AddInsertFails, Flag, FlagFails, TellFails, List, Tell, InfFails, InfReply,
             ReplyLost
  <2>2. flag \in [Users -> BOOLEAN]
      BY DEF TypeInv
  <2> QED BY <2>1, <2>2, Zenon
<1>5. view' \in [Users -> SUBSET Details]
  <2>1. \/ view' = view
        \/ view' = [u \in Users |-> IF u \in who[t] THEN reply[t] ELSE view[u]]
      BY DEF AddInsertFails, Flag, FlagFails, TellFails, List, Tell, InfFails, InfReply,
             ReplyLost
  <2>2. view \in [Users -> SUBSET Details] /\ reply[t] \in SUBSET Details
      BY DEF TypeInv
  <2> QED BY <2>1, <2>2
<1>6. excused' \subseteq Users \X Users
  <2>1. CASE AddInsertFails(t) \/ List(t)
      BY <1>3, <2>1 DEF AddInsertFails, List, histVars
  <2>2. CASE Flag(t) \/ FlagFails(t)
      BY <1>3, <2>2 DEF Flag, FlagFails, Overtaken
  <2>3. CASE Tell(t) \/ TellFails(t)
      BY <1>3, <2>3 DEF Tell, TellFails, Overtaken
  <2>4. CASE InfFails(t) \/ ReplyLost(t)
      BY <1>3, <2>4 DEF InfFails, ReplyLost
  <2>5. CASE InfReply(t)
      BY <1>3, <2>5 DEF InfReply
  <2> QED BY <2>1, <2>2, <2>3, <2>4, <2>5
<1> QED BY <1>1, <1>2, <1>4, <1>5, <1>6 DEF TypeInv

\* A statement is carried out whose answer is lost.
LEMMA LostTypes ==
    ASSUME TypeInv, StoreOK', NEW t \in Threads, LostButDone(t)
    PROVE  TypeInv'
<1>1. flag' = flag /\ view' = view /\ raced' = raced
    BY DEF LostButDone
<1>2. CASE /\ Return(t) /\ version' = version /\ calls' = calls
           /\ excused' = excused \cup BothWays(who[t])
  <2>1. BothWays(who[t]) \subseteq Users \X Users
      BY DEF TypeInv, StoreOK, BothWays
  <2> QED BY <1>1, <1>2, <2>1, Returned DEF TypeInv
<1>3. CASE /\ calls < MaxCalls /\ calls' = calls + 1 /\ UNCHANGED threadVars
           /\ \/ \E p \in Pairs : excused' = excused \cup BothWays(p) /\ version' = version
              \/ \E u \in Users : /\ version' = [version EXCEPT ![u] = @ + 1]
                                  /\ excused' = excused \cup (Users \X {u})
  <2>1. excused' \subseteq Users \X Users
      BY <1>3, PairOfUsers DEF TypeInv
  <2>2. calls' \in 0..MaxCalls
      BY <1>3, CallsAssumption DEF TypeInv
  <2>3. version' \in [Users -> Nat] /\ \A u \in Users : version'[u] <= calls'
      BY <1>3 DEF TypeInv
  <2>4. \A s \in Threads : HandlerKnows(s)'
      BY <1>3 DEF TypeInv, HandlerKnows, threadVars
  <2> QED BY <1>1, <1>3, <2>1, <2>2, <2>3, <2>4 DEF TypeInv, threadVars
<1> QED BY <1>2, <1>3 DEF LostButDone

\* A handler goes on to another statement, or to another friend.
LEMMA StepTypes ==
    ASSUME TypeInv, StoreOK', NEW t \in Threads, ~Return(t),
           AddInsert(t) \/ List(t) \/ Tell(t) \/ InfDetails(t) \/ InfClear(t)
    PROVE  TypeInv'
<1> StoreOK
    BY DEF TypeInv
<1>1. version' = version /\ view' = view /\ calls' = calls /\ raced' = raced /\ who' = who
    BY DEF AddInsert, List, Tell, InfDetails, InfClear, tableVars, histVars
<1>2. /\ \/ pc[t] = "insert" /\ pc' = [pc EXCEPT ![t] = "flag"]
         \/ pc[t] = "list" /\ pc' = [pc EXCEPT ![t] = "tell"]
         \/ pc[t] \in {"tell", "inf"} /\ pc' = pc
         \/ pc[t] = "inf" /\ pc' = [pc EXCEPT ![t] = "reply"]
      /\ \/ reply' = reply
         \/ pc[t] = "inf" /\ \E f \in todo[t] : 
               reply' = [reply EXCEPT ![t] = @ \cup {<<f, version[f]>>}]
    BY DEF AddInsert, List, Tell, InfDetails, InfClear
<1>3. \/ todo' = todo
      \/ todo' = [todo EXCEPT ![t] = Listed(t)]
      \/ \E f \in todo[t] : todo' = [todo EXCEPT ![t] = @ \ {f}]
    BY DEF AddInsert, List, Tell, InfDetails, InfClear
<1>4. Listed(t) \subseteq Users
    BY DEF Listed, FriendsOf
<1>5. todo' \in [Threads -> SUBSET Users] /\ \A s \in Threads \ {t} : todo'[s] = todo[s]
    BY <1>3, <1>4 DEF TypeInv
<1>6. reply' \in [Threads -> SUBSET Details] /\ \A s \in Threads \ {t} : reply'[s] = reply[s]
  <2>1. ASSUME NEW f \in todo[t]
        PROVE  {<<f, version[f]>>} \subseteq Details
    <3>1. f \in Users
        BY DEF TypeInv
    <3>2. version[f] \in 0..MaxCalls
        BY <3>1, CallsAssumption DEF TypeInv
    <3> QED BY <3>1, <3>2 DEF Details
  <2> QED BY <1>2, <2>1 DEF TypeInv
<1>7. \A s \in Threads : HandlerKnows(s)'
  <2>1. HandlerKnows(t)
      BY DEF TypeInv
  <2>2. HandlerKnows(t)'
      BY <1>1, <1>2, <2>1 DEF StoreOK, HandlerKnows
  <2>3. \A s \in Threads \ {t} : SameHandler(s)
      BY <1>1, <1>2, <1>5, <1>6 DEF StoreOK, SameHandler
  <2> QED BY <2>2, <2>3, OthersKnow
<1>8. flag' \in [Users -> BOOLEAN]
  <2>1. \/ flag' = flag
        \/ flag' = [u \in Users |-> flag[u] /\ u \notin who[t]]
        \/ \E f \in todo[t] : flag' = [flag EXCEPT ![f] = TRUE]
      BY DEF AddInsert, List, Tell, InfDetails, InfClear
  <2>2. flag \in [Users -> BOOLEAN]
      BY DEF TypeInv
  <2> QED BY <2>1, <2>2, Zenon
<1>9. excused' \subseteq Users \X Users
  <2>1. who[t] \subseteq Users /\ todo[t] \subseteq Users /\ excused \subseteq Users \X Users
      BY DEF TypeInv, StoreOK
  <2> QED BY <2>1 DEF AddInsert, List, Tell, InfDetails, InfClear, histVars, Overtaken
<1> QED BY <1>1, <1>5, <1>6, <1>7, <1>8, <1>9 DEF TypeInv

LEMMA CrashTypes ==
    ASSUME TypeInv, StoreOK', Crash
    PROVE  TypeInv'
<1>1. excused' \subseteq Users \X Users
  <2>1. \A t \in Threads : Unfinished(t) \subseteq Users \X Users
    <3> TAKE t \in Threads
    <3>1. who[t] \subseteq Users /\ todo[t] \subseteq Users
        BY DEF TypeInv, StoreOK
    <3> QED BY <3>1 DEF Unfinished, BothWays
  <2> QED BY <2>1 DEF Crash, TypeInv
<1>2. \A t \in Threads : HandlerKnows(t)'
    BY DEF Crash, HandlerKnows
<1>3. /\ todo' \in [Threads -> SUBSET Users] /\ reply' \in [Threads -> SUBSET Details]
      /\ version' = version /\ flag' = flag /\ view' = view /\ calls' = calls /\ raced' = raced
    BY DEF Crash, tableVars
<1> QED BY <1>1, <1>2, <1>3 DEF TypeInv

\* Every step of every handler keeps the types and what the handlers know.
LEMMA NextTypeInv ==
    ASSUME RowInv, TypeInv, [Next]_vars
    PROVE  TypeInv'
<1>1. RowInv'
    BY NextRowInv
<1>2. StoreOK'
    BY <1>1 DEF RowInv
<1>3. ASSUME NEW t \in Threads, \E p \in Pairs : AddCheck(t, p) \/ DeleteRows(t, p)
      PROVE  TypeInv'
    BY <1>2, <1>3, CallTypes
<1>4. ASSUME NEW t \in Threads,
             \E u \in Users : Update(t, u) \/ UpdateFails(t, u) \/ InfSelect(t, u)
      PROVE  TypeInv'
    BY <1>2, <1>4, CallTypes
<1>5. ASSUME NEW t \in Threads,
             \/ AddInsertFails(t) \/ Flag(t) \/ FlagFails(t) \/ TellFails(t)
             \/ InfFails(t) \/ InfReply(t) \/ ReplyLost(t)
      PROVE  TypeInv'
  <2>1. Return(t)
      BY <1>5 DEF AddInsertFails, Flag, FlagFails, TellFails, InfFails, InfReply, ReplyLost
  <2> QED BY <1>2, <1>5, <2>1, ReturnTypes
<1>6. ASSUME NEW t \in Threads,
             AddInsert(t) \/ List(t) \/ Tell(t) \/ InfDetails(t) \/ InfClear(t)
      PROVE  TypeInv'
  <2>1. CASE Return(t)
    <3>1. pc'[t] = "idle"
        BY <2>1, Returned
    <3>2. List(t) \/ Tell(t)
        BY <1>6, <3>1 DEF AddInsert, InfDetails, InfClear, TypeInv, StoreOK
    <3> QED BY <1>2, <2>1, <3>2, ReturnTypes
  <2>2. CASE ~Return(t)
      BY <1>2, <1>6, <2>2, StepTypes
  <2> QED BY <2>1, <2>2
<1>7. ASSUME NEW t \in Threads, LostButDone(t)
      PROVE  TypeInv'
    BY <1>2, <1>7, LostTypes
<1>8. CASE Crash
    BY <1>2, <1>8, CrashTypes
<1>9. CASE Quiet \/ UNCHANGED vars
    BY <1>2, <1>9 DEF Quiet, vars, tableVars, threadVars, histVars, TypeInv, HandlerKnows
<1> QED BY <1>3, <1>4, <1>5, <1>6, <1>7, <1>8, <1>9 DEF Next

LEMMA TypesOK ==
    ASSUME RowInv, TypeInv
    PROVE  TypeOK
<1>1. Cardinality(Threads) \in Nat
    BY ThreadsAssumption, FS_CardinalityType
<1>2. \A p \in Pairs : rows[p] \in 0..Cardinality(Threads)
  <2> TAKE p \in Pairs
  <2>1. rows[p] \in Nat /\ RowsFit(p) /\ Cardinality(Inserters(p)) \in Nat
      BY CountInserters DEF RowInv, StoreOK
  <2> QED BY <1>1, <2>1 DEF RowsFit
<1>3. rows \in [Pairs -> 0..Cardinality(Threads)]
    BY <1>2 DEF RowInv, StoreOK
<1>4. version \in [Users -> 0..MaxCalls]
    BY CallsAssumption DEF TypeInv
<1> QED BY <1>3, <1>4 DEF TypeInv, StoreOK, Steps, TypeOK

----------------------------------------------------------------------------
(* What friends hear, one user u and one other user f at a time.             *)

Hears(u, f) == Heard(u, f) /\ ReadersHear(u, f)

\* What u's client should show of f is the same after the step; f's details
\* are, too, unless nothing of f should be shown.
SameTruth(u, f) ==
    /\ Present(u, f)' = Present(u, f)
    /\ version'[f] = version[f] \/ Present(u, f) = {}

LEMMA SameTables ==
    ASSUME NEW u, NEW f, rows' = rows, version' = version
    PROVE  SameTruth(u, f)
BY DEF SameTruth, Present, FriendsOf

LEMMA SamePair ==
    ASSUME TypeInv, NEW u \in Users, NEW f \in Users, u # f,
           rows'[{u, f}] = rows[{u, f}], version' = version
    PROVE  SameTruth(u, f)
<1>1. f \in FriendsOf(u)' <=> f \in FriendsOf(u)
    BY DEF FriendsOf
<1> QED BY <1>1 DEF SameTruth, Present

\* The friendship of u and f is the same where the truth is.
LEMMA SameFriend ==
    ASSUME NEW u \in Users, NEW f \in Users, SameTruth(u, f)
    PROVE  /\ f \in FriendsOf(u)' <=> f \in FriendsOf(u)
           /\ u \in FriendsOf(f)' <=> u \in FriendsOf(f)
<1>1. f \in FriendsOf(u)' <=> f \in FriendsOf(u)
    BY DEF SameTruth, Present
<1>2. {u, f} = {f, u}
    OBVIOUS
<1> QED BY <1>1, <1>2 DEF FriendsOf

\* A User_inf that does nothing is right after the step if it was before.
LEMMA StillRight ==
    ASSUME NEW u, NEW f, NEW s, SameTruth(u, f), SameHandler(s), WillBeRight(s, u, f)
    PROVE  WillBeRight(s, u, f)'
<1>1. About(Reading(s, f), f) = Present(u, f)
    BY DEF WillBeRight, RightIn
<1>2. Reading(s, f)' = Reading(s, f)
  <2>1. CASE version'[f] = version[f]
      BY <2>1 DEF SameHandler, Reading
  <2>2. CASE Present(u, f) = {}
    <3>1. f \in todo[s] => <<f, version[f]>> \in Reading(s, f)
        BY DEF Reading
    <3>2. <<f, version[f]>> \in Reading(s, f) => <<f, version[f]>> \in About(Reading(s, f), f)
        BY DEF About
    <3>3. f \notin todo[s]
        BY <1>1, <2>2, <3>1, <3>2
    <3> QED BY <3>3 DEF SameHandler, Reading
  <2> QED BY <2>1, <2>2 DEF SameTruth
<1>3. \A S, R : S = R => About(S, f) = About(R, f)
    OBVIOUS
<1> QED BY <1>1, <1>2, <1>3 DEF SameTruth, WillBeRight, RightIn

\* Another handler's news of f are still to come.
LEMMA StillComing ==
    ASSUME NEW u \in Users, NEW f \in Users, NEW t \in Threads, SameTruth(u, f),
           \A s \in Threads \ {t} : SameHandler(s),
           Telling(t, u, f) => Telling(t, u, f)', Coming(u, f)
    PROVE  Coming(u, f)'
<1>1. PICK s \in Threads : Telling(s, u, f)
    BY DEF Coming
<1>2. CASE s = t
    BY <1>1, <1>2 DEF Coming
<1>3. CASE s # t
    BY <1>1, <1>3, SameFriend DEF Telling, SameHandler, Coming
<1> QED BY <1>2, <1>3

\* News that are excused, still to come or shown are all that is asked.
LEMMA HearsAnyway ==
    ASSUME NEW u, NEW f, Right(u, f)' \/ Coming(u, f)' \/ <<u, f>> \in excused'
    PROVE  Hears(u, f)'
BY DEF Hears, Heard, ReadersHear

\* A step of t's handler that takes no news of f from u.
LEMMA ReadersKept ==
    ASSUME NEW u \in Users, NEW f \in Users, NEW t \in Threads, Hears(u, f), SameTruth(u, f),
           \A s \in Threads \ {t} : SameHandler(s),
           Right(u, f) => Right(u, f)',
           <<u, f>> \in excused => <<u, f>> \in excused',
           Telling(t, u, f) => Telling(t, u, f)',
           t \in Readers(u)' /\ pc'[t] = "inf" =>
               \/ WillBeRight(t, u, f)'
               \/ t \in Readers(u) /\ pc[t] = "inf" /\ ~WillBeRight(t, u, f)
    PROVE  ReadersHear(u, f)'
<1> SUFFICES ASSUME NEW s \in Readers(u)', pc'[s] = "inf", ~WillBeRight(s, u, f)'
             PROVE  Right(u, f)' \/ Coming(u, f)' \/ <<u, f>> \in excused'
    BY DEF ReadersHear
<1>1. s \in Readers(u) /\ pc[s] = "inf" /\ ~WillBeRight(s, u, f)
  <2>1. CASE s = t
      BY <2>1
  <2>2. CASE s # t
    <3>1. SameHandler(s)
        BY <2>2 DEF Readers
    <3>2. s \in Readers(u) /\ pc[s] = "inf"
        BY <3>1 DEF Readers, SameHandler
    <3> QED BY <3>1, <3>2, StillRight
  <2> QED BY <2>1, <2>2
<1>2. Right(u, f) \/ Coming(u, f) \/ <<u, f>> \in excused
    BY <1>1 DEF Hears, ReadersHear
<1> QED BY <1>2, StillComing

LEMMA HearsStill ==
    ASSUME NEW u \in Users, NEW f \in Users, NEW t \in Threads, Hears(u, f), SameTruth(u, f),
           \A s \in Threads \ {t} : SameHandler(s),
           Right(u, f) => Right(u, f)', flag[u] => flag'[u],
           <<u, f>> \in excused => <<u, f>> \in excused',
           Telling(t, u, f) => Telling(t, u, f)',
           t \in Readers(u) /\ pc[t] = "reply" => ~RightIn(reply[t], u, f),
           t \in Readers(u)' /\ pc'[t] = "inf" =>
               \/ WillBeRight(t, u, f)'
               \/ t \in Readers(u) /\ pc[t] = "inf" /\ ~WillBeRight(t, u, f)
    PROVE  Hears(u, f)'
<1>1. ReadersHear(u, f)'
    BY ReadersKept
<1>2. Heard(u, f)'
  <2>1. CASE Right(u, f) \/ flag[u] \/ <<u, f>> \in excused
      BY <2>1 DEF Heard
  <2>2. CASE Coming(u, f)
      BY <2>2, StillComing DEF Heard
  <2>3. CASE AboutToShow(u, f)
    <3>1. PICK s \in Readers(u) : pc[s] = "reply" /\ RightIn(reply[s], u, f)
        BY <2>3 DEF AboutToShow
    <3>2. s \in Threads \ {t}
        BY <3>1 DEF Readers
    <3>3. pc'[s] = pc[s] /\ who'[s] = who[s] /\ reply'[s] = reply[s]
        BY <3>2 DEF SameHandler
    <3>4. s \in Readers(u)'
        BY <3>1, <3>3 DEF Readers
    <3>5. About(reply'[s], f) = Present(u, f)'
        BY <3>1, <3>3 DEF RightIn, SameTruth
    <3> QED BY <3>1, <3>3, <3>4, <3>5 DEF Heard, AboutToShow, RightIn
  <2> QED BY <2>1, <2>2, <2>3 DEF Hears, Heard
<1> QED BY <1>1, <1>2 DEF Hears

\* u's flag is set for news of f: the User_inf it overtakes are excused.
LEMMA HearsFlag ==
    ASSUME NEW u \in Users, NEW f \in Users, NEW t \in Threads, SameTruth(u, f),
           \A s \in Threads \ {t} : SameHandler(s), flag'[u], pc'[t] # "inf",
           Overtaken({<<u, f>>}) \subseteq excused'
    PROVE  Hears(u, f)'
<1>1. Heard(u, f)'
    BY DEF Heard
<1>2. ASSUME NEW s \in Readers(u)', pc'[s] = "inf", ~WillBeRight(s, u, f)'
      PROVE  <<u, f>> \in excused'
  <2>1. SameHandler(s)
      BY <1>2 DEF Readers
  <2>2. s \in Readers(u) /\ pc[s] = "inf" /\ ~WillBeRight(s, u, f)
      BY <1>2, <2>1, StillRight DEF Readers, SameHandler
  <2> QED BY <2>2 DEF Overtaken
<1> QED BY <1>1, <1>2 DEF Hears, ReadersHear

\* A call that changes nothing yet, and an INSERT that fails.
LEMMA CallHears ==
    ASSUME TypeInv, NEW u \in Users, NEW f \in Users, Hears(u, f), NEW t \in Threads,
           \/ \E p \in Pairs : AddCheck(t, p)
           \/ \E v \in Users : UpdateFails(t, v) \/ InfSelect(t, v)
           \/ AddInsertFails(t)
    PROVE  Hears(u, f)'
<1>1. rows' = rows /\ version' = version /\ view' = view /\ flag' = flag /\ excused' = excused
    BY DEF AddCheck, UpdateFails, InfSelect, AddInsertFails, tableVars, histVars
<1>2. SameTruth(u, f)
    BY <1>1, SameTables
<1>3. Right(u, f) => Right(u, f)'
    BY <1>1, <1>2 DEF Right, RightIn, SameTruth
<1>4. pc[t] \in {"idle", "insert"}
    BY DEF AddCheck, UpdateFails, InfSelect, AddInsertFails, Call
<1>5. CASE \E v \in Users : InfSelect(t, v)
  <2>1. PICK v \in Users : InfSelect(t, v)
      BY <1>5
  <2>2. /\ Call(t, {v}, "inf") /\ reply' = reply
        /\ todo' = [todo EXCEPT ![t] = FriendsOf(v)]
      BY <2>1 DEF InfSelect
  <2>3. FriendsOf(v) \in SUBSET Users
      BY DEF FriendsOf
  <2>4. /\ pc'[t] = "inf" /\ who'[t] = {v} /\ reply'[t] = {}
        /\ \A s \in Threads \ {t} : SameHandler(s)
      BY <2>2, <2>3, Called
  <2>5. todo'[t] = FriendsOf(v)
      BY <2>2 DEF TypeInv
  <2>6. u = v => WillBeRight(t, u, f)'
    <3>1. Reading(t, f)' = (FriendsOf(v) \cap {f}) \X {version[f]}
        BY <1>1, <2>4, <2>5 DEF Reading
    <3>2. About((FriendsOf(v) \cap {f}) \X {version[f]}, f) = Present(v, f)
        BY DEF About, Present
    <3>3. About(Reading(t, f)', f) = Present(v, f)
        BY <3>1, <3>2
    <3> QED BY <1>2, <3>3 DEF WillBeRight, RightIn, SameTruth
  <2>7. t \in Readers(u)' => u = v
      BY <2>4 DEF Readers
  <2> QED BY <1>1, <1>2, <1>3, <1>4, <2>4, <2>6, <2>7, HearsStill DEF Telling
<1>6. CASE ~\E v \in Users : InfSelect(t, v)
  <2>1. /\ pc'[t] \in {"idle", "insert", "list"}
        /\ \A s \in Threads \ {t} : SameHandler(s)
    <3>1. CASE AddInsertFails(t)
        BY <3>1, Returned DEF AddInsertFails
    <3>2. CASE \E p \in Pairs : AddCheck(t, p)
        BY <3>2, PairOfUsers, Called DEF AddCheck
    <3>3. CASE \E v \in Users : UpdateFails(t, v)
        BY <3>3, Called DEF UpdateFails
    <3> QED BY <1>6, <3>1, <3>2, <3>3
  <2> QED BY <1>1, <1>2, <1>3, <1>4, <2>1, HearsStill DEF Telling
<1> QED BY <1>5, <1>6

\* The rows of a pair change: whoever changed them is about to tell both.
LEMMA RowHears ==
    ASSUME TypeInv, NEW u \in Users, NEW f \in Users, u # f, Hears(u, f), NEW t \in Threads,
           \/ AddInsert(t)
           \/ \E p \in Pairs : DeleteRows(t, p)
    PROVE  Hears(u, f)'
<1>1. version' = version /\ view' = view /\ flag' = flag /\ excused' = excused
    BY DEF AddInsert, DeleteRows, histVars
<1>2. PICK p \in Pairs, n \in Nat :
         /\ pc[t] \in {"idle", "insert"} /\ pc'[t] = "flag" /\ who'[t] = p
         /\ rows' = [rows EXCEPT ![p] = n]
         /\ \A s \in Threads \ {t} : SameHandler(s)
  <2>1. CASE AddInsert(t)
    <3>1. HandlerKnows(t)
        BY DEF TypeInv
    <3>2. /\ pc[t] = "insert" /\ who[t] \in Pairs
          /\ pc' = [pc EXCEPT ![t] = "flag"]
          /\ who' = who /\ todo' = todo /\ reply' = reply
          /\ rows' = [rows EXCEPT ![who[t]] = rows[who[t]] + 1]
        BY <2>1, <3>1 DEF AddInsert, HandlerKnows
    <3>3. rows[who[t]] + 1 \in Nat
        BY <3>2 DEF TypeInv, StoreOK
    <3> QED BY <3>2, <3>3 DEF SameHandler, TypeInv, StoreOK
  <2>2. CASE \E p \in Pairs : DeleteRows(t, p)
      BY <2>2, PairOfUsers, Called DEF DeleteRows
  <2> QED BY <2>1, <2>2
<1>3. CASE p = {u, f}
  <2>1. Telling(t, u, f)'
      BY <1>2, <1>3 DEF Telling, BothWays
  <2> QED BY <2>1, HearsAnyway DEF Coming
<1>4. CASE p # {u, f}
  <2>1. {u, f} \in Pairs
      BY DEF Pairs
  <2>2. SameTruth(u, f)
      BY <1>1, <1>2, <1>4, <2>1, SamePair DEF TypeInv, StoreOK
  <2>3. Right(u, f) => Right(u, f)'
      BY <1>1, <2>2 DEF Right, RightIn, SameTruth
  <2> QED BY <1>1, <1>2, <2>2, <2>3, HearsStill DEF Telling
<1> QED BY <1>3, <1>4

\* A user changes its row: its friends are about to be listed; others show
\* nothing of it.
LEMMA UpdateHears ==
    ASSUME TypeInv, NEW u \in Users, NEW f \in Users, u # f, Hears(u, f), NEW t \in Threads,
           \E v \in Users : Update(t, v)
    PROVE  Hears(u, f)'
<1>1. PICK v \in Users : Update(t, v)
    OBVIOUS
<1>2. rows' = rows /\ view' = view /\ flag' = flag /\ excused' = excused
    BY <1>1 DEF Update, histVars
<1>3. /\ pc[t] = "idle" /\ pc'[t] = "list" /\ who'[t] = {v}
      /\ version' = [version EXCEPT ![v] = @ + 1]
      /\ \A s \in Threads \ {t} : SameHandler(s)
    BY <1>1, Called DEF Update
<1>4. u \in FriendsOf(f)' <=> f \in FriendsOf(u)
    BY <1>2, FriendsMutual DEF FriendsOf
<1>5. CASE f = v /\ f \in FriendsOf(u)
  <2>1. Telling(t, u, f)'
      BY <1>3, <1>4, <1>5 DEF Telling
  <2> QED BY <2>1, HearsAnyway DEF Coming
<1>6. CASE f # v \/ f \notin FriendsOf(u)
  <2>1. SameTruth(u, f)
      BY <1>2, <1>3, <1>6 DEF SameTruth, Present, FriendsOf, TypeInv
  <2>2. Right(u, f) => Right(u, f)'
      BY <1>2, <2>1 DEF Right, RightIn, SameTruth
  <2> QED BY <1>2, <1>3, <2>1, <2>2, HearsStill DEF Telling
<1> QED BY <1>5, <1>6

\* A statement is carried out whose answer is lost: nobody is told of it.
LEMMA LostHears ==
    ASSUME TypeInv, NEW u \in Users, NEW f \in Users, u # f, Hears(u, f), NEW t \in Threads,
           LostButDone(t)
    PROVE  Hears(u, f)'
<1>1. view' = view /\ flag' = flag /\ excused \subseteq excused'
    BY DEF LostButDone
<1>2. /\ pc[t] \in {"idle", "insert"} /\ pc'[t] = "idle"
      /\ \A s \in Threads \ {t} : SameHandler(s)
  <2>1. CASE pc[t] = "insert" /\ Return(t)
      BY <2>1, Returned
  <2>2. CASE pc[t] = "idle" /\ UNCHANGED threadVars
      BY <2>2 DEF threadVars, SameHandler
  <2> QED BY <2>1, <2>2 DEF LostButDone
<1>3. \/ version' = version /\ \E p \in Pairs, n \in Nat :
             rows' = [rows EXCEPT ![p] = n] /\ BothWays(p) \subseteq excused'
      \/ rows' = rows /\ \E v \in Users :
             version' = [version EXCEPT ![v] = @ + 1] /\ Users \X {v} \subseteq excused'
  <2>1. HandlerKnows(t)
      BY DEF TypeInv
  <2>2. CASE pc[t] = "insert" /\ Return(t)
    <3>1. who[t] \in Pairs
        BY <2>1, <2>2 DEF HandlerKnows
    <3>2. /\ version' = version /\ BothWays(who[t]) \subseteq excused'
          /\ rows' = [rows EXCEPT ![who[t]] = rows[who[t]] + 1]
        BY <2>2 DEF LostButDone
    <3>3. rows[who[t]] + 1 \in Nat
        BY <3>1 DEF TypeInv, StoreOK
    <3> QED BY <3>1, <3>2, <3>3
  <2>3. CASE pc[t] = "idle"
      BY <2>3 DEF LostButDone
  <2> QED BY <2>2, <2>3 DEF LostButDone
<1>4. <<u, f>> \in excused' \/ SameTruth(u, f)
  <2>1. CASE version' = version /\ \E p \in Pairs, n \in Nat :
             rows' = [rows EXCEPT ![p] = n] /\ BothWays(p) \subseteq excused'
    <3>1. PICK p \in Pairs, n \in Nat : rows' = [rows EXCEPT ![p] = n] /\ BothWays(p) \subseteq excused'
        BY <2>1
    <3>2. CASE p = {u, f}
        BY <3>1, <3>2 DEF BothWays
    <3>3. CASE p # {u, f}
      <4>1. {u, f} \in Pairs
          BY DEF Pairs
      <4> QED BY <2>1, <3>1, <3>3, <4>1, SamePair DEF TypeInv, StoreOK
    <3> QED BY <3>2, <3>3
  <2>2. CASE rows' = rows /\ \E v \in Users :
             version' = [version EXCEPT ![v] = @ + 1] /\ Users \X {v} \subseteq excused'
    <3>1. PICK v \in Users :
             version' = [version EXCEPT ![v] = @ + 1] /\ Users \X {v} \subseteq excused'
        BY <2>2
    <3>2. CASE v = f
        BY <3>1, <3>2
    <3>3. CASE v # f
        BY <2>2, <3>1, <3>3 DEF SameTruth, Present, FriendsOf, TypeInv
    <3> QED BY <3>2, <3>3
  <2> QED BY <1>3, <2>1, <2>2
<1>5. CASE SameTruth(u, f)
  <2>1. Right(u, f) => Right(u, f)'
      BY <1>1, <1>5 DEF Right, RightIn, SameTruth
  <2> QED BY <1>1, <1>2, <1>5, <2>1, HearsStill DEF Telling
<1> QED BY <1>4, <1>5, HearsAnyway

\* Both are flagged, or the UPDATE fails.
LEMMA FlagHears ==
    ASSUME TypeInv, NEW u \in Users, NEW f \in Users, Hears(u, f), NEW t \in Threads,
           Flag(t) \/ FlagFails(t)
    PROVE  Hears(u, f)'
<1>1. /\ rows' = rows /\ version' = version /\ view' = view
      /\ pc[t] = "flag" /\ Return(t) /\ excused \subseteq excused'
    BY DEF Flag, FlagFails, tableVars
<1>2. pc'[t] = "idle" /\ \A s \in Threads \ {t} : SameHandler(s)
    BY <1>1, Returned
<1>3. SameTruth(u, f)
    BY <1>1, SameTables
<1>4. CASE <<u, f>> \in BothWays(who[t]) /\ Flag(t)
  <2>1. flag'[u]
      BY <1>4 DEF Flag, BothWays
  <2>2. Overtaken({<<u, f>>}) \subseteq excused'
      BY <1>4 DEF Flag, Overtaken
  <2> QED BY <1>2, <1>3, <2>1, <2>2, HearsFlag
<1>5. CASE <<u, f>> \in BothWays(who[t]) /\ FlagFails(t)
    BY <1>5, HearsAnyway DEF FlagFails
<1>6. CASE <<u, f>> \notin BothWays(who[t])
  <2>1. flag[u] => flag'[u]
      BY DEF Flag, FlagFails
  <2>2. Right(u, f) => Right(u, f)'
      BY <1>1, <1>3 DEF Right, RightIn, SameTruth
  <2>3. ~Telling(t, u, f)
      BY <1>1, <1>6 DEF Telling
  <2> QED BY <1>1, <1>2, <1>3, <2>1, <2>2, <2>3, HearsStill
<1> QED BY <1>4, <1>5, <1>6

\* One's friends are listed.
LEMMA ListHears ==
    ASSUME TypeInv, NEW u \in Users, NEW f \in Users, Hears(u, f), NEW t \in Threads, List(t)
    PROVE  Hears(u, f)'
<1>1. /\ rows' = rows /\ version' = version /\ view' = view
      /\ flag' = flag /\ excused' = excused /\ pc[t] = "list"
    BY DEF List, tableVars, histVars
<1>2. SameTruth(u, f)
    BY <1>1, SameTables
<1>3. Right(u, f) => Right(u, f)'
    BY <1>1, <1>2 DEF Right, RightIn, SameTruth
<1>4. f \in who[t] /\ u \in FriendsOf(f) => u \in Listed(t)
    BY DEF Listed
<1>5. CASE Listed(t) = {}
  <2>1. pc'[t] = "idle" /\ \A s \in Threads \ {t} : SameHandler(s)
      BY <1>5, Returned DEF List
  <2>2. ~Telling(t, u, f)
      BY <1>1, <1>4, <1>5 DEF Telling
  <2> QED BY <1>1, <1>2, <1>3, <2>1, <2>2, HearsStill
<1>6. CASE Listed(t) # {}
  <2>1. /\ pc' = [pc EXCEPT ![t] = "tell"] /\ who' = who /\ reply' = reply
        /\ todo' = [todo EXCEPT ![t] = Listed(t)]
      BY <1>6 DEF List
  <2>2. /\ pc'[t] = "tell" /\ who'[t] = who[t] /\ todo'[t] = Listed(t)
        /\ \A s \in Threads \ {t} : SameHandler(s)
      BY <2>1 DEF TypeInv, StoreOK, SameHandler
  <2>3. Telling(t, u, f) => Telling(t, u, f)'
      BY <1>1, <1>4, <2>2 DEF Telling
  <2> QED BY <1>1, <1>2, <1>3, <2>2, <2>3, HearsStill
<1> QED BY <1>5, <1>6

\* One friend is flagged.
LEMMA TellHears ==
    ASSUME TypeInv, NEW u \in Users, NEW f \in Users, Hears(u, f), NEW t \in Threads, Tell(t)
    PROVE  Hears(u, f)'
<1>1. /\ rows' = rows /\ version' = version /\ view' = view
      /\ pc[t] = "tell" /\ excused \subseteq excused'
    BY DEF Tell, tableVars
<1>2. PICK g \in todo[t] :
          /\ flag' = [flag EXCEPT ![g] = TRUE]
          /\ excused' = excused \cup Overtaken({g} \X who[t])
          /\ IF todo[t] = {g}
             THEN Return(t)
             ELSE /\ todo' = [todo EXCEPT ![t] = @ \ {g}]
                  /\ UNCHANGED <<pc, who, reply>>
    BY DEF Tell
<1>3. SameTruth(u, f)
    BY <1>1, SameTables
<1>4. /\ pc'[t] \in {"idle", "tell"}
      /\ pc'[t] = "tell" => who'[t] = who[t] /\ todo'[t] = todo[t] \ {g}
      /\ pc'[t] = "idle" => todo[t] = {g}
      /\ \A s \in Threads \ {t} : SameHandler(s)
  <2>1. CASE todo[t] = {g}
      BY <1>2, <2>1, Returned
  <2>2. CASE todo[t] # {g}
      BY <1>1, <1>2, <2>2 DEF TypeInv, SameHandler
  <2> QED BY <2>1, <2>2
<1>5. CASE u = g /\ f \in who[t]
  <2>1. flag'[u]
      BY <1>2, <1>5 DEF TypeInv
  <2>2. Overtaken({<<u, f>>}) \subseteq excused'
      BY <1>2, <1>5 DEF Overtaken
  <2>3. pc'[t] # "inf"
      BY <1>4
  <2> QED BY <1>3, <1>4, <2>1, <2>2, <2>3, HearsFlag
<1>6. CASE u # g \/ f \notin who[t]
  <2>1. flag[u] => flag'[u]
      BY <1>2 DEF TypeInv
  <2>2. Right(u, f) => Right(u, f)'
      BY <1>1, <1>3 DEF Right, RightIn, SameTruth
  <2>3. Telling(t, u, f) => Telling(t, u, f)'
      BY <1>1, <1>4, <1>6 DEF Telling
  <2> QED BY <1>1, <1>3, <1>4, <2>1, <2>2, <2>3, HearsStill
<1> QED BY <1>5, <1>6

\* The friends not told yet are never told.
LEMMA TellFailsHears ==
    ASSUME TypeInv, NEW u \in Users, NEW f \in Users, Hears(u, f), NEW t \in Threads,
           TellFails(t)
    PROVE  Hears(u, f)'
<1>1. /\ rows' = rows /\ version' = version /\ view' = view /\ flag' = flag
      /\ pc[t] \in {"list", "tell"} /\ Return(t) /\ excused \subseteq excused'
    BY DEF TellFails, tableVars
<1>2. pc'[t] = "idle" /\ \A s \in Threads \ {t} : SameHandler(s)
    BY <1>1, Returned
<1>3. SameTruth(u, f)
    BY <1>1, SameTables
<1>4. Right(u, f) => Right(u, f)'
    BY <1>1, <1>3 DEF Right, RightIn, SameTruth
<1>5. Telling(t, u, f) => <<u, f>> \in excused'
    BY <1>1 DEF Telling, TellFails
<1>6. CASE Telling(t, u, f)
    BY <1>5, <1>6, HearsAnyway
<1>7. CASE ~Telling(t, u, f)
    BY <1>1, <1>2, <1>3, <1>4, <1>7, HearsStill
<1> QED BY <1>6, <1>7

\* The details of one friend are read, as they would have been all along.
LEMMA DetailsHear ==
    ASSUME TypeInv, NEW u \in Users, NEW f \in Users, Hears(u, f), NEW t \in Threads,
           InfDetails(t)
    PROVE  Hears(u, f)'
<1>1. /\ rows' = rows /\ version' = version /\ view' = view /\ flag' = flag
      /\ pc' = pc /\ who' = who /\ pc[t] = "inf" /\ excused' = excused
    BY DEF InfDetails, tableVars, histVars
<1>2. PICK g \in todo[t] :
          /\ reply' = [reply EXCEPT ![t] = @ \cup {<<g, version[g]>>}]
          /\ todo' = [todo EXCEPT ![t] = @ \ {g}]
    BY DEF InfDetails
<1>3. SameTruth(u, f)
    BY <1>1, SameTables
<1>4. Right(u, f) => Right(u, f)'
    BY <1>1, <1>3 DEF Right, RightIn, SameTruth
<1>5. \A s \in Threads \ {t} : SameHandler(s)
    BY <1>1, <1>2 DEF SameHandler, TypeInv
<1>6. WillBeRight(t, u, f) => WillBeRight(t, u, f)'
  <2>1. /\ reply'[t] = reply[t] \cup {<<g, version[g]>>}
        /\ todo'[t] = todo[t] \ {g}
      BY <1>2 DEF TypeInv
  <2>2. CASE g = f
    <3>1. Reading(t, f)' = Reading(t, f)
        BY <1>1, <1>2, <2>1, <2>2 DEF Reading
    <3> QED BY <1>3, <3>1 DEF WillBeRight, RightIn, SameTruth
  <2>3. CASE g # f
    <3>1. Reading(t, f)' = Reading(t, f) \cup {<<g, version[g]>>}
        BY <1>1, <2>1, <2>3 DEF Reading
    <3>2. \A S : About(S \cup {<<g, version[g]>>}, f) = About(S, f)
        BY <2>3 DEF About
    <3>3. About(Reading(t, f)', f) = About(Reading(t, f), f)
        BY <3>1, <3>2
    <3> QED BY <1>3, <3>3 DEF WillBeRight, RightIn, SameTruth
  <2> QED BY <2>2, <2>3
<1>7. t \in Readers(u)' => t \in Readers(u)
    BY <1>1 DEF Readers
<1>8. ~Telling(t, u, f)
    BY <1>1 DEF Telling
<1> QED BY <1>1, <1>3, <1>4, <1>5, <1>6, <1>7, <1>8, HearsStill

\* The flag is cleared: what the User_inf has read is about to be shown.
LEMMA ClearHears ==
    ASSUME TypeInv, NEW u \in Users, NEW f \in Users, Hears(u, f), NEW t \in Threads,
           InfClear(t)
    PROVE  Hears(u, f)'
<1>1. /\ rows' = rows /\ version' = version /\ view' = view /\ excused' = excused
      /\ who' = who /\ todo' = todo /\ reply' = reply
      /\ pc[t] = "inf" /\ pc' = [pc EXCEPT ![t] = "reply"] /\ todo[t] = {}
      /\ flag' = [v \in Users |-> flag[v] /\ v \notin who[t]]
    BY DEF InfClear, tableVars, histVars
<1>2. SameTruth(u, f)
    BY <1>1, SameTables
<1>3. Right(u, f) => Right(u, f)'
    BY <1>1, <1>2 DEF Right, RightIn, SameTruth
<1>4. pc'[t] = "reply" /\ \A s \in Threads \ {t} : SameHandler(s)
    BY <1>1 DEF SameHandler, TypeInv, StoreOK
<1>5. ~Telling(t, u, f)
    BY <1>1 DEF Telling
<1>6. PICK v \in Users : who[t] = {v}
  <2>1. HandlerKnows(t)
      BY DEF TypeInv
  <2> QED BY <1>1, <2>1 DEF HandlerKnows
<1>7. CASE u # v
  <2>1. flag[u] => flag'[u]
      BY <1>1, <1>6, <1>7
  <2> QED BY <1>1, <1>2, <1>3, <1>4, <1>5, <2>1, HearsStill
<1>8. CASE u = v
  <2>1. t \in Readers(u) /\ t \in Readers(u)'
      BY <1>1, <1>4, <1>6, <1>8 DEF Readers
  <2>2. ReadersHear(u, f)'
      BY <1>1, <1>2, <1>3, <1>4, <1>5, ReadersKept
  <2>3. CASE WillBeRight(t, u, f)
    <3>1. Reading(t, f) = reply[t]
        BY <1>1 DEF Reading
    <3>2. About(reply'[t], f) = Present(u, f)'
        BY <1>1, <1>2, <2>3, <3>1 DEF WillBeRight, RightIn, SameTruth
    <3>3. AboutToShow(u, f)'
        BY <1>4, <2>1, <3>2 DEF AboutToShow, RightIn
    <3> QED BY <2>2, <3>3 DEF Hears, Heard
  <2>4. CASE ~WillBeRight(t, u, f)
    <3>1. Right(u, f) \/ Coming(u, f) \/ <<u, f>> \in excused
        BY <1>1, <2>1, <2>4 DEF Hears, ReadersHear
    <3> QED BY <1>1, <1>2, <1>3, <1>4, <1>5, <3>1, StillComing, HearsAnyway
  <2> QED BY <2>3, <2>4
<1> QED BY <1>7, <1>8

\* A User_inf ends without an answer that arrives: the flag may be cleared.
LEMMA NoAnswerHears ==
    ASSUME TypeInv, NEW u \in Users, NEW f \in Users, Hears(u, f), NEW t \in Threads,
           InfFails(t) \/ ReplyLost(t)
    PROVE  Hears(u, f)'
<1>1. /\ rows' = rows /\ version' = version /\ view' = view
      /\ pc[t] \in {"inf", "reply"} /\ Return(t) /\ excused \subseteq excused'
    BY DEF InfFails, ReplyLost, tableVars
<1>2. pc'[t] = "idle" /\ \A s \in Threads \ {t} : SameHandler(s)
    BY <1>1, Returned
<1>3. SameTruth(u, f)
    BY <1>1, SameTables
<1>4. Right(u, f) => Right(u, f)'
    BY <1>1, <1>3 DEF Right, RightIn, SameTruth
<1>5. CASE <<u, f>> \in excused'
    BY <1>5, HearsAnyway
<1>6. CASE <<u, f>> \notin excused'
  <2>1. flag[u] => flag'[u]
      BY <1>6 DEF InfFails, ReplyLost
  <2>2. t \in Readers(u) => pc[t] # "reply"
      BY <1>6 DEF InfFails, ReplyLost, Readers
  <2>3. ~Telling(t, u, f)
      BY <1>1 DEF Telling
  <2> QED BY <1>1, <1>2, <1>3, <1>4, <2>1, <2>2, <2>3, HearsStill
<1> QED BY <1>5, <1>6

\* The client shows the answer; what it knew better is excused.
LEMMA ReplyHears ==
    ASSUME TypeInv, NEW u \in Users, NEW f \in Users, Hears(u, f), NEW t \in Threads,
           InfReply(t)
    PROVE  Hears(u, f)'
<1>1. /\ rows' = rows /\ version' = version /\ flag' = flag /\ pc[t] = "reply" /\ Return(t)
      /\ view' = [v \in Users |-> IF v \in who[t] THEN reply[t] ELSE view[v]]
    BY DEF InfReply, tableVars
<1>2. pc'[t] = "idle" /\ \A s \in Threads \ {t} : SameHandler(s)
    BY <1>1, Returned
<1>3. SameTruth(u, f)
    BY <1>1, SameTables
<1>4. PICK v \in Users : who[t] = {v}
  <2>1. HandlerKnows(t)
      BY DEF TypeInv
  <2> QED BY <1>1, <2>1 DEF HandlerKnows
<1>5. ~Telling(t, u, f)
    BY <1>1 DEF Telling
<1>6. CASE u = v /\ RightIn(reply[t], u, f)
  <2>1. view'[u] = reply[t]
      BY <1>1, <1>4, <1>6
  <2>2. Right(u, f)'
      BY <1>3, <1>6, <2>1 DEF Right, RightIn, SameTruth
  <2> QED BY <2>2, HearsAnyway
<1>7. CASE u = v /\ ~RightIn(reply[t], u, f) /\ Right(u, f)
  <2>1. <<u, f>> \in excused'
      BY <1>4, <1>7 DEF InfReply
  <2> QED BY <2>1, HearsAnyway
<1>8. CASE u # v \/ (~RightIn(reply[t], u, f) /\ ~Right(u, f))
  <2>1. Right(u, f) => Right(u, f)'
    <3>1. Right(u, f) => view'[u] = view[u]
        BY <1>1, <1>4, <1>8
    <3> QED BY <1>3, <3>1 DEF Right, RightIn, SameTruth
  <2>2. <<u, f>> \in excused => <<u, f>> \in excused'
      BY <1>4, <1>8 DEF InfReply
  <2>3. t \in Readers(u) => ~RightIn(reply[t], u, f)
      BY <1>4, <1>8 DEF Readers
  <2> QED BY <1>1, <1>2, <1>3, <1>5, <2>1, <2>2, <2>3, HearsStill
<1> QED BY <1>6, <1>7, <1>8

\* All handlers end, and what they had not done yet is excused.
LEMMA CrashHears ==
    ASSUME TypeInv, NEW u \in Users, NEW f \in Users, Hears(u, f), Crash
    PROVE  Hears(u, f)'
<1>1. /\ rows' = rows /\ version' = version /\ view' = view /\ flag' = flag
      /\ pc' = [t \in Threads |-> "idle"]
      /\ excused' = excused \cup UNION {Unfinished(t) : t \in Threads}
    BY DEF Crash, tableVars
<1>2. SameTruth(u, f)
    BY <1>1, SameTables
<1>3. Right(u, f) => Right(u, f)'
    BY <1>1, <1>2 DEF Right, RightIn, SameTruth
<1>4. ReadersHear(u, f)'
    BY <1>1 DEF ReadersHear, Readers
<1>5. CASE Coming(u, f)
  <2>1. PICK t \in Threads : Telling(t, u, f)
      BY <1>5 DEF Coming
  <2>2. <<u, f>> \in Unfinished(t)
      BY <2>1 DEF Telling, Unfinished
  <2> QED BY <1>1, <2>2, HearsAnyway
<1>6. CASE AboutToShow(u, f)
  <2>1. PICK t \in Threads : pc[t] = "reply" /\ who[t] = {u}
      BY <1>6 DEF AboutToShow, Readers
  <2>2. <<u, f>> \in Unfinished(t)
      BY <2>1 DEF Unfinished
  <2> QED BY <1>1, <2>2, HearsAnyway
<1>7. CASE Right(u, f) \/ flag[u] \/ <<u, f>> \in excused
    BY <1>1, <1>3, <1>4, <1>7 DEF Hears, Heard
<1> QED BY <1>5, <1>6, <1>7 DEF Hears, Heard

----------------------------------------------------------------------------

\* At first every client shows its friends.
LEMMA InitHears == Init => \A u, f \in Users : u # f => Hears(u, f)
<1> SUFFICES ASSUME Init, NEW u \in Users, NEW f \in Users
             PROVE  Hears(u, f)
    OBVIOUS
<1>1. view[u] = FriendsOf(u) \X {0} /\ version[f] = 0
    BY DEF Init
<1>2. About(view[u], f) = Present(u, f)
    BY <1>1 DEF About, Present
<1> QED BY <1>2 DEF Hears, Heard, ReadersHear, Right, RightIn

LEMMA NextHears ==
    ASSUME TypeInv, \A u, f \in Users : u # f => Hears(u, f), [Next]_vars
    PROVE  \A u, f \in Users : u # f => Hears(u, f)'
<1> SUFFICES ASSUME NEW u \in Users, NEW f \in Users, u # f
             PROVE  Hears(u, f)'
    OBVIOUS
<1> Hears(u, f)
    OBVIOUS
<1>1. ASSUME NEW t \in Threads, \E p \in Pairs : AddCheck(t, p) \/ DeleteRows(t, p)
      PROVE  Hears(u, f)'
    BY <1>1, CallHears, RowHears
<1>2. ASSUME NEW t \in Threads,
             \E v \in Users : Update(t, v) \/ UpdateFails(t, v) \/ InfSelect(t, v)
      PROVE  Hears(u, f)'
    BY <1>2, CallHears, UpdateHears
<1>3. ASSUME NEW t \in Threads, AddInsert(t) \/ AddInsertFails(t) \/ LostButDone(t)
      PROVE  Hears(u, f)'
    BY <1>3, CallHears, RowHears, LostHears
<1>4. ASSUME NEW t \in Threads,
             Flag(t) \/ FlagFails(t) \/ List(t) \/ Tell(t) \/ TellFails(t)
      PROVE  Hears(u, f)'
    BY <1>4, FlagHears, ListHears, TellHears, TellFailsHears
<1>5. ASSUME NEW t \in Threads,
             \/ InfDetails(t) \/ InfClear(t) \/ InfFails(t)
             \/ InfReply(t) \/ ReplyLost(t)
      PROVE  Hears(u, f)'
    BY <1>5, DetailsHear, ClearHears, NoAnswerHears, ReplyHears
<1>6. CASE Crash
    BY <1>6, CrashHears
<1>7. CASE Quiet \/ UNCHANGED vars
  <2>1. UNCHANGED vars
      BY <1>7 DEF Quiet
  <2> QED BY <2>1 DEF vars, tableVars, threadVars, histVars, Hears, Heard, ReadersHear,
                      Right, RightIn, Present, FriendsOf, Coming, Telling, AboutToShow,
                      Readers, WillBeRight, Reading
<1> QED BY <1>1, <1>2, <1>3, <1>4, <1>5, <1>6, <1>7 DEF Next

LEMMA AllInvariants == Spec => [](RowInv /\ TypeInv /\ FriendsTold)
<1>1. FriendsTold <=> /\ \A t \in Threads : HandlerKnows(t)
                     /\ \A u, f \in Users : u # f => Hears(u, f)
    BY DEF FriendsTold, Hears
<1>2. FriendsTold' <=> /\ \A t \in Threads : HandlerKnows(t)'
                      /\ \A u, f \in Users : u # f => Hears(u, f)'
    BY DEF FriendsTold, Hears
<1>3. Init => RowInv /\ TypeInv /\ FriendsTold
    BY <1>1, InitRowInv, InitTypeInv, InitHears DEF TypeInv
<1>4. RowInv /\ TypeInv /\ FriendsTold /\ [Next]_vars => (RowInv /\ TypeInv /\ FriendsTold)'
    BY <1>1, <1>2, NextRowInv, NextTypeInv, NextHears DEF TypeInv
<1> QED BY <1>3, <1>4, PTL DEF Spec

\* The variables of the model of Add_friend, Delete_friend, Update_user_lastModified
\* and User_inf keep their types; a pair has at most one row a handler.
THEOREM TypeCorrect == Spec => []TypeOK
BY AllInvariants, TypesOK, PTL

\* The inductive invariant of the news: what a User_inf has read is right about a
\* friend, or more is to come, or an answer under way or a reason makes up for it.
THEOREM NewsInvariant == Spec => []FriendsInv
BY AllInvariants, TypesOK, PTL DEF FriendsInv

\* FriendsHear for all users, handlers and calls: a client that is wrong about
\* another user is flagged, about to be flagged or about to be answered rightly,
\* but for the reasons in excused.
THEOREM FriendsAreTold == Spec => []FriendsHear
<1>1. ASSUME NEW u \in Users, NEW f \in Users, Coming(u, f)
      PROVE  Announcing(u, f)
  <2>1. PICK t \in Threads : Telling(t, u, f)
      BY <1>1 DEF Coming
  <2>2. pc[t] # "reply" /\ <<u, f>> \in Unfinished(t)
      BY <2>1 DEF Telling, Unfinished
  <2> QED BY <2>2 DEF Announcing
<1>2. FriendsTold => FriendsHear
    BY <1>1 DEF FriendsTold, FriendsHear, Heard, AboutToShow
<1> QED BY <1>2, AllInvariants, PTL
=============================================================================
