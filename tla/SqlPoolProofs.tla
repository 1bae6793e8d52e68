--------------------------- MODULE SqlPoolProofs ---------------------------
(***************************************************************************)
(* Proofs about SqlPool, for any number of threads, any size of the pool   *)
(* and any number of connections a thread borrows.                         *)
(*                                                                         *)
(* Everything rests on PoolInv, which is inductive.  ExclusiveLease alone  *)
(* is not: it says nothing of the mutexes that enforce it.  Leased ties    *)
(* each lease to its mutex, Examining says what a scan owns before it      *)
(* lends, NullIsMarked is why the scan never lends a node without a        *)
(* session, and PoolPhase why creation never touches a node in use.        *)
(***************************************************************************)
EXTENDS SqlPool, TLAPS

\* The process starts with no node, no lease and no scan.
LEMMA InitPoolInv == Init => PoolInv
  BY ConnNumAssumption, NoThreadAssumption
     DEF Init, PoolInv, TypeOK, Leased, Examining, PoolPhase, NullIsMarked,
         NoLockLeak, Nodes, NULL, Socks, InPool, Failed

\* Every step of the pool, of its callers and of their environment preserves
\* the inductive invariant.
LEMMA NextPoolInv == PoolInv /\ [Next]_vars => PoolInv'
<1> USE ConnNumAssumption, NoThreadAssumption
    DEF Nodes, NULL, InPool, Failed, Socks, NextNode, Cursor, nodeVars, threadVars
<1> SUFFICES ASSUME PoolInv, [Next]_vars
             PROVE  PoolInv'
  OBVIOUS
<1> USE DEF PoolInv
<1>1. CASE CreateNode
  BY <1>1 DEF CreateNode, TypeOK, Leased, Examining, PoolPhase, NullIsMarked, NoLockLeak
<1>2. CASE CreateFails
  BY <1>2 DEF CreateFails, TypeOK, Leased, Examining, PoolPhase, NullIsMarked, NoLockLeak
<1>3. ASSUME NEW t \in Threads, Enter(t)
      PROVE  PoolInv'
  BY <1>3 DEF Enter, TypeOK, Leased, Examining, PoolPhase, NullIsMarked, NoLockLeak
<1>4. ASSUME NEW t \in Threads, EnterDestroyed(t)
      PROVE  PoolInv'
  <2> USE DEF TypeOK, Leased, Examining, PoolPhase, NullIsMarked, NoLockLeak
  <2>1. CASE created = 0
    <3>1. /\ pool = "destroyed" /\ pc' = [pc EXCEPT ![t] = "nopool"]
          /\ UNCHANGED <<pool, created, nodeVars, lastUsed, ret, held, dbUp, down>>
      BY <1>4, <2>1 DEF EnterDestroyed
    <3>2. TypeOK'
      BY <3>1
    <3>3. \A u \in Threads : pc'[u] \notin InPool
      BY <3>1
    <3> QED
      BY <3>1, <3>2, <3>3
  <2>2. CASE created # 0
    <3>1. UNCHANGED <<pool, created, nodeVars, lastUsed, threadVars, dbUp>>
      BY <1>4, <2>2 DEF EnterDestroyed
    <3>2. down' = "freed_node"
      BY <1>4, <2>2 DEF EnterDestroyed
    <3> QED
      BY <3>1, <3>2
  <2> QED
    BY <2>1, <2>2
<1>5. ASSUME NEW t \in Threads, Guard(t)
      PROVE  PoolInv'
  <2> USE DEF TypeOK, Leased, Examining, PoolPhase, NullIsMarked, NoLockLeak
  <2>1. pc[t] = "guard" /\ UNCHANGED <<pool, created, nodeVars, lastUsed, held, dbUp, down>>
    BY <1>5 DEF Guard
  <2>2. CASE ret[t] = lastUsed
    <3>1. pc' = [pc EXCEPT ![t] = "exhausted"] /\ UNCHANGED ret
      BY <1>5, <2>2 DEF Guard
    <3> QED
      BY <2>1, <3>1
  <2>3. CASE ret[t] # lastUsed
    <3>1. pc' = [pc EXCEPT ![t] = "trylock"]
      BY <1>5, <2>3 DEF Guard
    <3>2. PICK r \in Nodes : ret' = [ret EXCEPT ![t] = r]
      BY <1>5, <2>3 DEF Guard
    <3> QED
      BY <2>1, <3>1, <3>2
  <2> QED
    BY <2>2, <2>3
<1>6. ASSUME NEW t \in Threads, TryLock(t)
      PROVE  PoolInv'
  <2> USE DEF TypeOK, Leased, Examining, PoolPhase, NullIsMarked, NoLockLeak
  <2>1. /\ pc[t] = "trylock" /\ ret[t] \in Nodes
        /\ UNCHANGED <<pool, created, sqlState, sock, lastUsed, held, dbUp, down>>
    BY <1>6 DEF TryLock
  <2>2. CASE lock[ret[t]] # NoThread
    <3>1. /\ ret' = [ret EXCEPT ![t] = ret[t] - 1]
          /\ pc' = [pc EXCEPT ![t] = "guard"]
          /\ UNCHANGED lock
      BY <1>6, <2>2 DEF TryLock
    <3> QED
      BY <2>1, <3>1
  <2>3. CASE lock[ret[t]] = NoThread
    <3>1. lock' = [lock EXCEPT ![ret[t]] = t] /\ UNCHANGED ret
      BY <1>6, <2>3 DEF TryLock
    <3>2. ret[t] \notin held[t]
      BY <2>3, <2>1
    <3>3. CASE sqlState[ret[t]] = "DISCONN"
      <4>1. pc' = [pc EXCEPT ![t] = "reconnect"]
        BY <1>6, <2>3, <3>3 DEF TryLock
      <4> QED
        BY <2>1, <2>3, <3>1, <3>2, <3>3, <4>1
    <3>4. CASE sqlState[ret[t]] # "DISCONN"
      <4>1. pc' = [pc EXCEPT ![t] = "ping"]
        BY <1>6, <2>3, <3>4 DEF TryLock
      <4> QED
        BY <2>1, <2>3, <3>1, <3>2, <3>4, <4>1
    <3> QED
      BY <3>3, <3>4
  <2> QED
    BY <2>2, <2>3
<1>7. ASSUME NEW t \in Threads, Reconnect(t)
      PROVE  PoolInv'
  BY <1>7 DEF Reconnect, TypeOK, Leased, Examining, PoolPhase, NullIsMarked, NoLockLeak
<1>8. ASSUME NEW t \in Threads, ReconnectFails(t)
      PROVE  PoolInv'
  BY <1>8 DEF ReconnectFails, TypeOK, Leased, Examining, PoolPhase, NullIsMarked, NoLockLeak
<1>9. ASSUME NEW t \in Threads, ReconnectNull(t)
      PROVE  PoolInv'
  BY <1>9 DEF ReconnectNull, TypeOK, Leased, Examining, PoolPhase, NullIsMarked, NoLockLeak
<1>10. ASSUME NEW t \in Threads, PingAnswers(t)
       PROVE  PoolInv'
  BY <1>10 DEF PingAnswers, TypeOK, Leased, Examining, PoolPhase, NullIsMarked, NoLockLeak
<1>11. ASSUME NEW t \in Threads, PingFails(t)
       PROVE  PoolInv'
  BY <1>11 DEF PingFails, TypeOK, Leased, Examining, PoolPhase, NullIsMarked, NoLockLeak
<1>12. ASSUME NEW t \in Threads, DereferenceNull(t)
       PROVE  PoolInv'
  BY <1>12 DEF DereferenceNull, TypeOK, Leased, Examining, PoolPhase, NullIsMarked, NoLockLeak
<1>13. ASSUME NEW t \in Threads, NEW n \in Nodes, CheckSqlSockNormal(t, n)
       PROVE  PoolInv'
  BY <1>13 DEF CheckSqlSockNormal, TypeOK, Leased, Examining, PoolPhase, NullIsMarked, NoLockLeak
<1>14. ASSUME NEW t \in Threads, NEW n \in Nodes, Release(t, n)
       PROVE  PoolInv'
  BY <1>14 DEF Release, TypeOK, Leased, Examining, PoolPhase, NullIsMarked, NoLockLeak
<1>15. ASSUME NEW n \in Nodes, ConnBreaks(n)
       PROVE  PoolInv'
  BY <1>15 DEF ConnBreaks, TypeOK, Leased, Examining, PoolPhase, NullIsMarked, NoLockLeak
<1>16. CASE DbDown
  <2>1. /\ sock' \in [Nodes -> Socks]
        /\ \A n \in Nodes : sock'[n] = "null" <=> sock[n] = "null"
    BY <1>16 DEF DbDown, TypeOK
  <2>2. UNCHANGED <<pool, created, lock, sqlState, lastUsed, threadVars, down>> /\ dbUp' = FALSE
    BY <1>16 DEF DbDown
  <2>3. TypeOK' /\ PoolPhase' /\ NoLockLeak'
    BY <2>1, <2>2 DEF TypeOK, PoolPhase, NoLockLeak
  <2>4. Leased' /\ NullIsMarked'
    BY <2>1, <2>2 DEF TypeOK, Leased, NullIsMarked
  <2>5. Examining'
    BY <2>1, <2>2 DEF TypeOK, Examining
  <2> QED
    BY <2>3, <2>4, <2>5
<1>17. CASE DbUp
  BY <1>17 DEF DbUp, TypeOK, Leased, Examining, PoolPhase, NullIsMarked, NoLockLeak
<1>18. CASE Restart
  BY <1>18 DEF Restart, TypeOK, Leased, Examining, PoolPhase, NullIsMarked, NoLockLeak
<1>19. CASE UNCHANGED vars
  BY <1>19 DEF vars, TypeOK, Leased, Examining, PoolPhase, NullIsMarked, NoLockLeak
<1> QED
  BY <1>1, <1>2, <1>3, <1>4, <1>5, <1>6, <1>7, <1>8, <1>9, <1>10, <1>11,
     <1>12, <1>13, <1>14, <1>15, <1>16, <1>17, <1>18, <1>19
     DEF Next, Scan, Environment

\* The inductive invariant holds in every reachable state.
THEOREM PoolInvariant == Spec => []PoolInv
  BY InitPoolInv, NextPoolInv, PTL DEF Spec

\* Every variable keeps its type.
THEOREM TypeCorrect == Spec => []TypeOK
  BY PoolInvariant, PTL DEF PoolInv

\* Two handlers never share a MySQL session: whoever holds a node owns its
\* mutex, and a mutex has one owner.
THEOREM MutualExclusion == Spec => []ExclusiveLease
<1>1. PoolInv => ExclusiveLease
  BY DEF PoolInv, Leased, ExclusiveLease
<1> QED
  BY <1>1, PoolInvariant, PTL

\* No failure path of get_sock_from_pool leaves a mutex locked behind it.
THEOREM NoLockLeaks == Spec => []NoLockLeak
  BY PoolInvariant, PTL DEF PoolInv

----------------------------------------------------------------------------
(* SqlPool implements ConnectionPool *)

\* At the start nothing is lent and no session is open.
LEMMA InitRefines == Init => CP!Init
  BY DEF Init, CP!Init, CP!Sessions

\* Lending: the scan lends the node it has locked and probed.
LEMMA PingAnswersRefines ==
  ASSUME PoolInv, NEW t \in Threads, PingAnswers(t)
  PROVE  CP!Lend(t, ret[t]) /\ ret[t] \in Nodes
<1>1. ret[t] \in Nodes /\ lock[ret[t]] = t /\ ret[t] \notin held[t]
  BY DEF PoolInv, Examining, PingAnswers
<1>2. ~CP!IsLent(ret[t])
  BY <1>1 DEF PoolInv, Leased, CP!IsLent
<1> QED
  BY <1>1, <1>2 DEF PingAnswers, CP!Lend, nodeVars

\* Reopening, losing and breaking sessions leaves alone, or breaks, those lent:
\* the scan reopens a node it has locked, and a lent node is locked by its borrower.
LEMMA SessionsRefine ==
  ASSUME PoolInv,
         \/ CreateNode \/ CreateFails \/ Environment
         \/ \E t \in Threads : Reconnect(t) \/ ReconnectFails(t)
  PROVE  CP!Maintain
<1> USE DEF CP!Maintain, CP!Sessions, CP!IsLent, threadVars
<1>1. CASE CreateNode \/ CreateFails
  BY <1>1, ConnNumAssumption
     DEF CreateNode, CreateFails, PoolInv, TypeOK, PoolPhase, Nodes, Socks
<1>2. CASE Environment
  BY <1>2 DEF Environment, DbDown, DbUp, ConnBreaks, nodeVars, PoolInv, TypeOK, Socks
<1>3. ASSUME NEW t \in Threads, Reconnect(t) \/ ReconnectFails(t)
      PROVE  CP!Maintain
  <2>1. ret[t] \in Nodes /\ ~CP!IsLent(ret[t])
    BY <1>3 DEF Reconnect, ReconnectFails, PoolInv, Examining, Leased
  <2>2. PICK s \in Socks : sock' = [sock EXCEPT ![ret[t]] = s]
    BY <1>3 DEF Reconnect, ReconnectFails, Socks
  <2>3. UNCHANGED held
    BY <1>3 DEF Reconnect, ReconnectFails
  <2> QED
    BY <2>1, <2>2, <2>3 DEF PoolInv, TypeOK, Socks
<1> QED
  BY <1>1, <1>2, <1>3

\* A release gives back, a restart resets, and everything else is a stutter.
LEMMA NextRefines == PoolInv /\ [Next]_vars => [CP!Next]_CP!vars
<1> SUFFICES ASSUME PoolInv, [Next]_vars
             PROVE  CP!Next \/ UNCHANGED CP!vars
  OBVIOUS
<1> USE DEF CP!Next, CP!vars
<1>1. ASSUME NEW t \in Threads, PingAnswers(t)
      PROVE  CP!Next
  BY <1>1, PingAnswersRefines
<1>2. ASSUME NEW t \in Threads, NEW n \in Nodes, Release(t, n)
      PROVE  CP!Next
  BY <1>2 DEF Release, CP!GiveBack
<1>3. CASE \/ CreateNode \/ CreateFails \/ Environment
           \/ \E t \in Threads : Reconnect(t) \/ ReconnectFails(t)
  BY <1>3, SessionsRefine
<1>4. CASE Restart
  BY <1>4 DEF Restart, CP!Restart, CP!Sessions
<1>5. ASSUME NEW t \in Threads,
             \/ Enter(t) \/ EnterDestroyed(t) \/ Guard(t) \/ TryLock(t)
             \/ ReconnectNull(t) \/ PingFails(t) \/ DereferenceNull(t)
             \/ \E n \in Nodes : CheckSqlSockNormal(t, n)
      PROVE  UNCHANGED CP!vars
  BY <1>5 DEF Enter, EnterDestroyed, Guard, TryLock, ReconnectNull, PingFails,
              DereferenceNull, CheckSqlSockNormal, nodeVars, threadVars
<1>6. CASE UNCHANGED vars
  BY <1>6 DEF vars, nodeVars, threadVars
<1> QED
  BY <1>1, <1>2, <1>3, <1>4, <1>5, <1>6 DEF Next, Scan

\* The scan keeps the promises of the abstract pool: it lends free, working
\* connections, and no session is closed or replaced under its borrower.
THEOREM Refinement == Spec => ImplementsConnectionPool
  BY InitRefines, NextRefines, PoolInvariant, PTL DEF Spec, CP!Spec, ImplementsConnectionPool
=============================================================================
