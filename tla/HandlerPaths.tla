---------------------------- MODULE HandlerPaths ----------------------------
(***************************************************************************)
(* The paths through the handlers of Connections, each handler by itself.  *)
(*                                                                         *)
(* A place of a handler is what remains of its program and the mark of     *)
(* each of its two pointers.  The programs have finitely many places.      *)
(* Places is the set of them all, and PathsSound says that the handlers    *)
(* use their pointers soundly at each of them.  It is a closed formula,    *)
(* which TLC evaluates.  ConnInv carries it over to any number of threads  *)
(* and connections.                                                        *)
(***************************************************************************)
EXTENDS Connections

\* What a pointer points to: nothing yet; a connection the handler holds, with no
\* rows left or with some; one it has given back.
Marks == {"unset", "held", "rows", "stale"}

AllUnset == [k \in 1..2 |-> "unset"]

Place(h, p, m) == [handler |-> h, todo |-> p, mark |-> m]

Starts == {Place(h, Programs[h], AllUnset) : h \in Handlers}

Goes(x, p) == Place(x.handler, p, x.mark)
Marked(x, k, m) == Place(x.handler, x.todo, [x.mark EXCEPT ![k] = m])

\* The places one step further.
After(x) ==
    IF x.todo = <<>>
    THEN IF x.handler = "SynServer" THEN {Goes(x, Poll)} ELSE {}
    ELSE LET op == Head(x.todo)
             on == Goes(x, Tail(x.todo))
         IN  CASE op.do = "get" -> {Marked(on, op.k, "held")}
               [] op.do = "release" -> {Marked(on, op.k, "stale")}
               [] op.do = "select" -> {Marked(on, op.k, "rows"), Goes(x, op.or)}
               [] op.do = "drain" -> {Marked(on, op.k, "held")}
               [] op.do \in {"run", "leave"} -> {on, Goes(x, op.or)}
               [] op.do = "maybe" -> {on, Goes(x, op.or \o Tail(x.todo))}
               [] op.do = "repeat" -> {on, Goes(x, op.or \o x.todo)}
               [] OTHER -> {on}

\* The longest way to a place that was not on a shorter one.
LongestPath == 12

PlacesWithin[n \in Nat] ==
    IF n = 0 THEN Starts
    ELSE LET P == PlacesWithin[n - 1] IN P \cup UNION {After(x) : x \in P}

Places == PlacesWithin[LongestPath]

Holding == {"held", "rows"}

\* A connection is got where no pointer is lost or dangles, is used where it is
\* held, gets no statement while it has rows, and is given back before the end.
SoundAt(x) ==
    IF x.todo = <<>>
    THEN x.handler \in Leaking \cup {"SynServer"} \/ \A k \in 1..2 : x.mark[k] \notin Holding
    ELSE LET op == Head(x.todo)
         IN  /\ op.do = "get" =>
                   x.mark[op.k] \notin Holding /\ \A k \in 1..2 \ {op.k} : x.mark[k] # "stale"
             /\ op.do \in {"release", "drain"} => x.mark[op.k] \in Holding
             /\ op.do \in {"run", "attempt", "select"} => x.mark[op.k] = "held"

WellFormed(x) ==
    /\ x.handler \in Handlers \ {"none"}
    /\ x.mark \in [1..2 -> Marks]
    /\ \A i \in DOMAIN x.todo : x.todo[i].do \in Ops
    /\ x.todo # <<>> => Head(x.todo).do \in Ops /\ Head(x.todo).k \in 1..2

\* On no path does a handler, taken by itself, lose, mix up or misuse a pointer
\* to a connection: whichever branches it takes, loops it repeats and statements
\* fail.
PathsSound ==
    /\ Starts \subseteq Places
    /\ \A x \in Places : WellFormed(x) /\ SoundAt(x) /\ After(x) \subseteq Places

----------------------------------------------------------------------------
(* The inductive invariant behind the properties of Connections.             *)

\* t's pointer k is what its mark m says.
Points(t, k, m) ==
    /\ m = "unset" => node[t][k] = NoConn
    /\ m \in Holding => node[t][k] \in lent[t]
    /\ m = "held" => node[t][k] \notin unread
    /\ m = "stale" => node[t][k] \notin lent[t]

\* t's handler is at the place x.
IsAt(t, x) ==
    /\ x.handler = handler[t] /\ x.todo = todo[t]
    /\ \A k \in 1..2 : Points(t, k, x.mark[k])
    /\ x.mark[1] \in Holding /\ x.mark[2] \in Holding => node[t][1] # node[t][2]

OnPath(t) ==
    IF handler[t] = "none"
    THEN todo[t] = <<>> /\ node[t] = Unset
    ELSE \E x \in Places : IsAt(t, x)

OnPaths ==
    /\ \A t \in Threads : OnPath(t)
    /\ \A t, u \in Threads : t # u => lent[t] \cap lent[u] = {}

\* The paths are sound, every handler is on one of them, its pointers are what they
\* are there, and no connection is lent to two.
ConnInv == PathsSound /\ TypeOK /\ OnPaths
=============================================================================
