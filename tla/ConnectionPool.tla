--------------------------- MODULE ConnectionPool ---------------------------
(***************************************************************************)
(* What a pool of database connections promises to the request handlers    *)
(* that borrow from it, whatever the way it finds a connection:            *)
(*                                                                         *)
(*   - a connection is lent to one borrower at a time;                     *)
(*   - it works at the moment it is lent;                                  *)
(*   - while it is lent it may break, but the pool neither closes nor      *)
(*     replaces the session under its borrower.                            *)
(*                                                                         *)
(* SqlPool, the pool of mysql_pool.cc, implements this specification.      *)
(***************************************************************************)
EXTENDS Integers

CONSTANTS Borrowers,    \* the threads that borrow
          Connections   \* the pool's nodes

VARIABLES lent,     \* lent[b]: the connections b has and has not given back
          session   \* session[c]: the state of the database session behind c

vars == <<lent, session>>

Sessions == {"live", "broken", "null"}

TypeOK == /\ lent \in [Borrowers -> SUBSET Connections]
          /\ session \in [Connections -> Sessions]

IsLent(c) == \E b \in Borrowers : c \in lent[b]

Init == /\ lent = [b \in Borrowers |-> {}]
        /\ session \in [Connections -> Sessions]

Lend(b, c) == /\ ~IsLent(c)
              /\ session[c] = "live"
              /\ lent' = [lent EXCEPT ![b] = @ \cup {c}]
              /\ UNCHANGED session

GiveBack(b, c) == /\ c \in lent[b]
                  /\ lent' = [lent EXCEPT ![b] = @ \ {c}]
                  /\ UNCHANGED session

\* Sessions break at any time; only those nobody borrows are reopened or closed.
Maintain == /\ session' \in [Connections -> Sessions]
            /\ \A c \in Connections : IsLent(c) =>
                   session'[c] \in {session[c], "broken"}
            /\ UNCHANGED lent

\* The process is gone, and its borrowers with it.
Restart == /\ lent' = [b \in Borrowers |-> {}]
           /\ session' \in [Connections -> Sessions]

Next == \/ \E b \in Borrowers, c \in Connections : Lend(b, c) \/ GiveBack(b, c)
        \/ Maintain
        \/ Restart

Spec == Init /\ [][Next]_vars
=============================================================================
